------------------------------ MODULE MCMarket -------------------------------
(* Instances of Market for TLC, see MCLending; without interest, which the *)
(* age of a price does not depend on.                                      *)
EXTENDS Market, TLC

CONSTANTS ResA

Base == [
    optimal_utilization_rate |-> 8, loan_to_value_ratio |-> 5,
    liquidation_bonus |-> 1, liquidation_threshold |-> 8,
    min_borrow_rate |-> 0, optimal_borrow_rate |-> 0, max_borrow_rate |-> 0,
    borrow_fee_wad |-> 0, flash_loan_fee_wad |-> 0, host_fee_percentage |-> 0,
    deposit_staking_pool |-> NoPool, deposit_limit |-> U64_MAX, borrow_limit |-> U64_MAX ]

Charged  == [Base EXCEPT !.borrow_fee_wad = 2, !.flash_loan_fee_wad = 1,
                         !.host_fee_percentage = 4, !.deposit_limit = 6]
HostFree == [Charged EXCEPT !.host_fee_percentage = 0]

FeeConfigs   == {Charged, HostFree}
FeeConfigFor == [r \in {ResA} |-> FeeConfigs]
NoFixedPrice == [r \in {ResA} |-> {}]
DownOrNot    == {-1, 0}
OwnerSymmetry == Permutations(Owners)
==============================================================================

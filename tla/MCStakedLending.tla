--------------------------- MODULE MCStakedLending ----------------------------
(* Instances of StakedLending for TLC, see MCLending and MCStaking. *)
EXTENDS StakedLending, TLC

CONSTANTS ResA, Pool

Base == [
    optimal_utilization_rate |-> 8, loan_to_value_ratio |-> 5,
    liquidation_bonus |-> 1, liquidation_threshold |-> 6,
    min_borrow_rate |-> 5, optimal_borrow_rate |-> 5, max_borrow_rate |-> 5,
    borrow_fee_wad |-> 0, flash_loan_fee_wad |-> 0, host_fee_percentage |-> 0,
    deposit_staking_pool |-> NoPool, deposit_limit |-> U64_MAX, borrow_limit |-> U64_MAX ]

Staked     == [Base EXCEPT !.deposit_staking_pool = Pool]
TwoConfigs == {Base, Staked}
Either     == [r \in {ResA} |-> TwoConfigs]
SoloPrices == [r \in {ResA} |-> {WAD}]
LessOne    == {-1}
AllHers    == [a \in Accounts |-> 1]
AccountSymmetry == Permutations(Accounts)

(* Once the stakes were moved behind the back of Lending nothing is claimed: *)
(* such states are checked and not explored further.                        *)
Together   == ~apart
==============================================================================

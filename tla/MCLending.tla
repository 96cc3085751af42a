------------------------------ MODULE MCLending ------------------------------
(***************************************************************************)
(* Instances of Lending for TLC.  HUNDRED is 10, so a percentage below is  *)
(* in tenths; a year has one slot, so interest is felt at once.            *)
(***************************************************************************)
EXTENDS LendingVault, TLC

CONSTANTS ResA, ResB, Pool

Base == [
    optimal_utilization_rate |-> 8, loan_to_value_ratio |-> 5,
    liquidation_bonus |-> 1, liquidation_threshold |-> 8,
    min_borrow_rate |-> 1, optimal_borrow_rate |-> 2, max_borrow_rate |-> 5,
    borrow_fee_wad |-> 0, flash_loan_fee_wad |-> 0, host_fee_percentage |-> 0,
    deposit_staking_pool |-> NoPool, deposit_limit |-> U64_MAX, borrow_limit |-> U64_MAX ]

NotCollateral == [Base EXCEPT !.loan_to_value_ratio = 0]
Risky   == [Base EXCEPT !.loan_to_value_ratio = 2, !.liquidation_threshold = 4]
Limited == [Base EXCEPT !.borrow_limit = 1]
AllConfigs == {Base, NotCollateral, Risky, Limited}

One(configs) == [r \in {ResA} |-> configs]
SoloPrices   == [r \in {ResA} |-> {WAD}]
BaseOnly     == One({Base})
LimitedOnly  == One({Limited})

PairPrices   == (ResA :> {WAD}) @@ (ResB :> {WAD, 2 * WAD})
LentConfigs  == (ResA :> {Base}) @@ (ResB :> {NotCollateral})
MixedPrices  == (ResA :> {WAD}) @@ (ResB :> {WAD})
RisePrices   == (ResA :> {WAD}) @@ (ResB :> {10, 17})
MixedConfigs == (ResA :> {Base}) @@ (ResB :> {Risky})
==============================================================================

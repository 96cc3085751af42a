------------------------------- MODULE Reserve -------------------------------
(***************************************************************************)
(* token-lending/program/src/state/reserve.rs and last_update.rs: a        *)
(* reserve is a record, a method of Reserve an operator from the record to *)
(* the set of its results (see WadMath for the empty set).                 *)
(***************************************************************************)
EXTENDS WadMath

CONSTANTS
    SLOTS_PER_YEAR,
    STALE_AFTER_SLOTS_ELAPSED,  \* 1 in the code
    LIQUIDATION_CLOSE_FACTOR,   \* in percent, 50 in the code
    LIQUIDATION_CLOSE_AMOUNT,   \* 2 in the code
    MintUnits,                  \* possible values of 10^mint_decimals
    StakingPools,               \* staking pools a reserve can be tied to
    NoPool,                     \* COption::None of deposit_staking_pool
    Configs                     \* reserve configurations

ASSUME ReserveAssumption ==
    /\ SLOTS_PER_YEAR \in Nat \ {0}
    /\ STALE_AFTER_SLOTS_ELAPSED = 1
    /\ LIQUIDATION_CLOSE_FACTOR \in 0..HUNDRED
    /\ LIQUIDATION_CLOSE_AMOUNT \in U64
    /\ MintUnits \subseteq U64 \ {0}
    /\ NoPool \notin StakingPools

(***************************************************************************)
(* The configuration: percentages are u8, fees are wads.                   *)
(***************************************************************************)
ReserveConfig == [
    optimal_utilization_rate : Nat, loan_to_value_ratio : Nat,
    liquidation_bonus : Nat, liquidation_threshold : Nat,
    min_borrow_rate : Nat, optimal_borrow_rate : Nat, max_borrow_rate : Nat,
    borrow_fee_wad : U64, flash_loan_fee_wad : U64, host_fee_percentage : Nat,
    deposit_staking_pool : StakingPools \cup {NoPool},
    deposit_limit : U64, borrow_limit : U64 ]

ASSUME ConfigsAssumption == Configs \subseteq ReserveConfig

(* validate_reserve_config, the flash loan fee is not constrained *)
ValidConfig(c) ==
    /\ c.optimal_utilization_rate <= HUNDRED
    /\ c.loan_to_value_ratio < HUNDRED
    /\ c.liquidation_bonus <= HUNDRED
    /\ c.liquidation_threshold > c.loan_to_value_ratio
    /\ c.liquidation_threshold <= HUNDRED
    /\ c.optimal_borrow_rate >= c.min_borrow_rate
    /\ c.optimal_borrow_rate <= c.max_borrow_rate
    /\ c.borrow_fee_wad < WAD
    /\ c.host_fee_percentage <= HUNDRED

(***************************************************************************)
(* The account.  Liquidity, collateral and last_update are flattened; the  *)
(* decimals are stored as u128 by pack_decimal, so a larger value cannot   *)
(* be packed.                                                              *)
(***************************************************************************)
ReserveRec == [
    initialized : BOOLEAN, slot : Nat, stale : BOOLEAN,
    available_amount : U64, borrowed_amount_wads : Rate,
    cumulative_borrow_rate_wads : Rate, market_price : Rate,
    mint_unit : MintUnits, mint_total_supply : U64, config : Configs ]

Pack(res) == {res} \cap ReserveRec

(***************************************************************************)
(* LastUpdate, shared by reserves and obligations.                         *)
(***************************************************************************)
SlotsElapsed(rec, now) == {now - rec.slot} \cap Nat
UpdateSlot(rec, now) == [rec EXCEPT !.slot = now, !.stale = FALSE]
MarkStale(rec) == [rec EXCEPT !.stale = TRUE]
(* Faulty variant, to show what InterestSettled detects: one slot more of freshness.  *)
FreshTooLong(rec, now) ==
    /\ ~rec.stale
    /\ \E elapsed \in SlotsElapsed(rec, now) : elapsed <= STALE_AFTER_SLOTS_ELAPSED

Fresh(rec, now) == /\ ~rec.stale
                   /\ \E elapsed \in SlotsElapsed(rec, now) :
                         elapsed < STALE_AFTER_SLOTS_ELAPSED

(***************************************************************************)
(* Exchange between liquidity and collateral tokens.                       *)
(***************************************************************************)
INITIAL_COLLATERAL_RATE == WAD

TotalSupply(res) == TryAdd(FromU64(res.available_amount), res.borrowed_amount_wads)

ExchangeRate(res, total_liquidity) ==
    IF res.mint_total_supply = 0 \/ total_liquidity = 0
    THEN {INITIAL_COLLATERAL_RATE}
    ELSE UNION {RateTryFrom(d) :
                d \in TryDiv(FromU64(res.mint_total_supply), total_liquidity)}

CollateralExchangeRate(res) ==
    UNION {ExchangeRate(res, total) : total \in TotalSupply(res)}

DecimalCollateralToLiquidity(rate, collateral_wads) == TryDiv(collateral_wads, rate)
DecimalLiquidityToCollateral(rate, liquidity_wads) == TryMul(liquidity_wads, rate)

CollateralToLiquidity(rate, amount) ==
    UNION {TryFloorU64(d) : d \in DecimalCollateralToLiquidity(rate, FromU64(amount))}
LiquidityToCollateral(rate, amount) ==
    UNION {TryFloorU64(d) : d \in DecimalLiquidityToCollateral(rate, FromU64(amount))}

(***************************************************************************)
(* deposit_liquidity and redeem_collateral: the new reserve and the amount *)
(* of the other token that changes hands.                                  *)
(***************************************************************************)
Supplied(res, available, minted) ==
    [res EXCEPT !.available_amount = available, !.mint_total_supply = minted]

DepositLiquidity(res, liquidity_amount) ==
    {[reserve |-> Supplied(res, available, minted),
      collateral_amount |-> minted - res.mint_total_supply] :
     available \in CheckedAdd(res.available_amount, liquidity_amount),
     minted \in UNION {UNION {CheckedAdd(res.mint_total_supply, c) :
                              c \in LiquidityToCollateral(rate, liquidity_amount)} :
                       rate \in CollateralExchangeRate(res)}}

(* Faulty variant, to show what MintMatches detects: burn is forgotten.  *)
RedeemWithoutBurn(res, collateral_amount) ==
    {[reserve |-> [res EXCEPT !.available_amount = available],
      liquidity_amount |-> res.available_amount - available] :
     available \in UNION {UNION {CheckedSub(res.available_amount, l) :
                                 l \in CollateralToLiquidity(rate, collateral_amount)} :
                          rate \in CollateralExchangeRate(res)}}

RedeemCollateral(res, collateral_amount) ==
    {[reserve |-> Supplied(res, available, supply),
      liquidity_amount |-> res.available_amount - available] :
     supply \in CheckedSub(res.mint_total_supply, collateral_amount),
     available \in UNION {UNION {CheckedSub(res.available_amount, l) :
                                 l \in CollateralToLiquidity(rate, collateral_amount)} :
                          rate \in CollateralExchangeRate(res)}}

(***************************************************************************)
(* ReserveLiquidity::borrow and ::repay.  repay clamps the total at zero   *)
(* instead of failing when the settled amount is larger.                   *)
(***************************************************************************)
Lent(res, available, borrowed) ==
    [res EXCEPT !.available_amount = available, !.borrowed_amount_wads = borrowed]

(* Faulty variant, to show what ImplementsVault detects: a fraction is paid out whole.  *)
BorrowRoundedUp(res, borrow_wads) ==
    {Lent(res, available, borrowed) :
     available \in UNION {CheckedSub(res.available_amount, b) : b \in TryCeilU64(borrow_wads)},
     borrowed \in TryAdd(res.borrowed_amount_wads, borrow_wads)}

BorrowLiquidity(res, borrow_wads) ==
    {Lent(res, available, borrowed) :
     available \in UNION {CheckedSub(res.available_amount, b) : b \in TryFloorU64(borrow_wads)},
     borrowed \in TryAdd(res.borrowed_amount_wads, borrow_wads)}

RepayLiquidity(res, repay_amount, settle_wads) ==
    {Lent(res, available, IF settle_wads >= res.borrowed_amount_wads THEN 0
                          ELSE res.borrowed_amount_wads - settle_wads) :
     available \in CheckedAdd(res.available_amount, repay_amount)}

(***************************************************************************)
(* Interest.                                                               *)
(***************************************************************************)
UtilizationRate(res) ==
    UNION {IF total = 0 THEN {0}
           ELSE UNION {RateTryFrom(d) : d \in TryDiv(res.borrowed_amount_wads, total)} :
           total \in TotalSupply(res)}

(* One leg of the curve: low + (used / width) * (high - low). *)
BorrowRateLeg(used, width, low, high) ==
    UNION {UNION {RateAdd(r, FromPercent(low)) : r \in RateMul(n, FromPercent(high - low))} :
           n \in IF high >= low THEN RateDiv(used, FromPercent(width)) ELSE {}}

CurrentBorrowRate(res) ==
    LET c == res.config
        optimal == FromPercent(c.optimal_utilization_rate)
    IN  UNION {IF used < optimal \/ c.optimal_utilization_rate = HUNDRED
               THEN BorrowRateLeg(used, c.optimal_utilization_rate,
                                  c.min_borrow_rate, c.optimal_borrow_rate)
               ELSE UNION {BorrowRateLeg(over, HUNDRED - c.optimal_utilization_rate,
                                         c.optimal_borrow_rate, c.max_borrow_rate) :
                           over \in RateSub(used, optimal)} :
               used \in UtilizationRate(res)}

(* Faulty variant, to show what RateNeverAhead detects: the slot rate without one added.  *)
CompoundedRateWithoutOne(borrow_rate, slots_elapsed) ==
    UNION {TryPow(slot_rate, slots_elapsed) : slot_rate \in RateDivU64(borrow_rate, SLOTS_PER_YEAR)}

(* The factor by which debts grow over the elapsed slots. *)
CompoundedInterestRate(borrow_rate, slots_elapsed) ==
    UNION {UNION {TryPow(base, slots_elapsed) : base \in RateAdd(WAD, slot_rate)} :
           slot_rate \in RateDivU64(borrow_rate, SLOTS_PER_YEAR)}

Compounded(res, cumulative, borrowed) ==
    [res EXCEPT !.cumulative_borrow_rate_wads = cumulative, !.borrowed_amount_wads = borrowed]

CompoundInterest(res, factor) ==
    {Compounded(res, cumulative, borrowed) :
     cumulative \in TryMul(res.cumulative_borrow_rate_wads, factor),
     borrowed \in TryMul(res.borrowed_amount_wads, factor)}

AccrueInterest(res, now) ==
    UNION {IF elapsed > 0
           THEN UNION {UNION {CompoundInterest(res, factor) :
                              factor \in CompoundedInterestRate(rate, elapsed)} :
                       rate \in CurrentBorrowRate(res)}
           ELSE {res} :
           elapsed \in SlotsElapsed(res, now)}
==============================================================================

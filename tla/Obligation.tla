----------------------------- MODULE Obligation ------------------------------
(***************************************************************************)
(* token-lending/program/src/state/obligation.rs: the account that holds   *)
(* a user's collateral and debts, with the market values computed by the   *)
(* last refresh.                                                           *)
(*                                                                         *)
(* The deposits and borrows vectors are unique by reserve and their order  *)
(* only fixes the order in which accounts are passed, so each is a         *)
(* function of the reserve; "present" tells an entry that exists with a    *)
(* zero amount from one that does not exist.                               *)
(***************************************************************************)
EXTENDS Reserve, FiniteSets, Functions

CONSTANTS
    Reserves,                \* reserve accounts of the lending market
    MAX_OBLIGATION_RESERVES  \* 10 in the code

ASSUME ObligationAssumption ==
    /\ IsFiniteSet(Reserves)
    /\ MAX_OBLIGATION_RESERVES \in Nat \ {0}

CollateralRec == [present : BOOLEAN, deposited_amount : U64, market_value : Rate]
LiquidityRec  == [present : BOOLEAN, cumulative_borrow_rate_wads : Rate,
                  borrowed_amount_wads : Rate, market_value : Rate]
ObligationRec == [
    initialized : BOOLEAN, slot : Nat, stale : BOOLEAN,
    deposits : [Reserves -> CollateralRec], borrows : [Reserves -> LiquidityRec],
    deposited_value : Rate, borrowed_value : Rate,
    allowed_borrow_value : Rate, unhealthy_borrow_value : Rate ]

(* bytes an entry of either vector takes in the account *)
OBLIGATION_COLLATERAL_LEN == 56
OBLIGATION_LIQUIDITY_LEN  == 80

PackObligation(ob) == {ob} \cap ObligationRec

NoCollateral == [present |-> FALSE, deposited_amount |-> 0, market_value |-> 0]
NoLiquidity  == [present |-> FALSE, cumulative_borrow_rate_wads |-> 0,
                 borrowed_amount_wads |-> 0, market_value |-> 0]

EmptyObligation(initialized, now) == [
    initialized |-> initialized, slot |-> now, stale |-> TRUE,
    deposits |-> [r \in Reserves |-> NoCollateral],
    borrows |-> [r \in Reserves |-> NoLiquidity],
    deposited_value |-> 0, borrowed_value |-> 0,
    allowed_borrow_value |-> 0, unhealthy_borrow_value |-> 0 ]

DepositReserves(ob) == {r \in Reserves : ob.deposits[r].present}
BorrowReserves(ob)  == {r \in Reserves : ob.borrows[r].present}

(* Faulty variant, to show what ObligationFits detects: off by one.  *)
HasRoomOffByOne(ob) ==
    Cardinality(DepositReserves(ob)) + Cardinality(BorrowReserves(ob)) <= MAX_OBLIGATION_RESERVES

(* room for one more entry in either vector *)
HasRoom(ob) == Cardinality(DepositReserves(ob)) + Cardinality(BorrowReserves(ob))
                 < MAX_OBLIGATION_RESERVES

(***************************************************************************)
(* find_or_add_collateral_to_deposits followed by ObligationCollateral::   *)
(* deposit, and find_or_add_liquidity_to_borrows followed by the           *)
(* initialisation of the cumulative rate and ObligationLiquidity::borrow.  *)
(***************************************************************************)
SetDeposit(ob, r, col) == [ob EXCEPT !.deposits[r] = col]
SetBorrow(ob, r, liq)  == [ob EXCEPT !.borrows[r] = liq]

(* Faulty variant, to show what CollateralBacked detects: a deposit replaces the previous one.  *)
ReplaceCollateral(ob, r, amount) ==
    {SetDeposit(ob, r, [ob.deposits[r] EXCEPT !.present = TRUE, !.deposited_amount = amount]) :
     x \in IF ob.deposits[r].present \/ HasRoom(ob) THEN {0} ELSE {}}

AddCollateral(ob, r, amount) ==
    {SetDeposit(ob, r, [ob.deposits[r] EXCEPT !.present = TRUE, !.deposited_amount = total]) :
     total \in IF ob.deposits[r].present \/ HasRoom(ob)
               THEN CheckedAdd(ob.deposits[r].deposited_amount, amount) ELSE {}}

AddLiquidity(ob, r, cumulative_rate, borrow_wads) ==
    {SetBorrow(ob, r,
        [ob.borrows[r] EXCEPT !.present = TRUE, !.borrowed_amount_wads = total,
                              !.cumulative_borrow_rate_wads = IF @ = 0 THEN cumulative_rate ELSE @]) :
     total \in IF ob.borrows[r].present \/ HasRoom(ob)
               THEN TryAdd(ob.borrows[r].borrowed_amount_wads, borrow_wads) ELSE {}}

(***************************************************************************)
(* Obligation::withdraw and ::repay: an entry that reaches zero is removed *)
(* from its vector.                                                        *)
(***************************************************************************)
WithdrawCollateral(ob, r, amount) ==
    {SetDeposit(ob, r, IF left = 0 THEN NoCollateral
                       ELSE [ob.deposits[r] EXCEPT !.deposited_amount = left]) :
     left \in CheckedSub(ob.deposits[r].deposited_amount, amount)}

RepayDebt(ob, r, settle_wads) ==
    {SetBorrow(ob, r, IF left = 0 THEN NoLiquidity
                      ELSE [ob.borrows[r] EXCEPT !.borrowed_amount_wads = left]) :
     left \in TrySub(ob.borrows[r].borrowed_amount_wads, settle_wads)}

(***************************************************************************)
(* ObligationLiquidity::accrue_interest: the debt grows by the ratio of    *)
(* the reserve's cumulative rate to the one of the last accrual.           *)
(***************************************************************************)
Charge(liq, debt, cumulative_rate) ==
    [liq EXCEPT !.borrowed_amount_wads = debt, !.cumulative_borrow_rate_wads = cumulative_rate]

(* Faulty variant, to show what DebtBooksAgree detects: the rate charged is not recorded.  *)
AccrueWithoutRecording(liq, cumulative_rate) ==
    IF cumulative_rate < liq.cumulative_borrow_rate_wads THEN {}
    ELSE UNION {{[liq EXCEPT !.borrowed_amount_wads = debt] :
                 debt \in UNION {TryMul(liq.borrowed_amount_wads, ratio) : ratio \in RateTryFrom(d)}} :
                d \in TryDiv(cumulative_rate, liq.cumulative_borrow_rate_wads)}

AccrueDebt(liq, cumulative_rate) ==
    IF cumulative_rate < liq.cumulative_borrow_rate_wads THEN {}
    ELSE IF cumulative_rate = liq.cumulative_borrow_rate_wads THEN {liq}
    ELSE UNION {{Charge(liq, debt, cumulative_rate) :
                 debt \in UNION {TryMul(liq.borrowed_amount_wads, ratio) : ratio \in RateTryFrom(d)}} :
                d \in TryDiv(cumulative_rate, liq.cumulative_borrow_rate_wads)}

(***************************************************************************)
(* process_refresh_obligation, one entry at a time: its market value.      *)
(***************************************************************************)
MarketValue(res, liquidity_wads) ==
    UNION {TryDivU64(v, res.mint_unit) : v \in TryMul(liquidity_wads, res.market_price)}

SetValue(entry, value) == [entry EXCEPT !.market_value = value]

RefreshedCollateral(col, res) ==
    {SetValue(col, value) :
     value \in UNION {UNION {MarketValue(res, wads) :
                             wads \in DecimalCollateralToLiquidity(rate, FromU64(col.deposited_amount))} :
                      rate \in CollateralExchangeRate(res)}}

RefreshedLiquidity(liq, res) ==
    UNION {{SetValue(accrued, value) :
            value \in MarketValue(res, accrued.borrowed_amount_wads)} :
           accrued \in AccrueDebt(liq, res.cumulative_borrow_rate_wads)}

(* the only result of a computation that succeeds *)
Unwrap(result) == CHOOSE x \in result : TRUE

(* value * percent, summed over the entries: try_mul and try_add of the loop *)
Weighted(values, percent) ==
    SumFunction([r \in DOMAIN values |-> (values[r] * FromPercent(percent[r])) \div WAD])

(***************************************************************************)
(* The whole refresh: every reserve of an entry must itself be fresh.      *)
(***************************************************************************)
RefreshObligation(ob, reserve, now) ==
    LET D == DepositReserves(ob)
        B == BorrowReserves(ob)
        collateral(r) == RefreshedCollateral(ob.deposits[r], reserve[r])
        liquidity(r)  == RefreshedLiquidity(ob.borrows[r], reserve[r])
        worth == [r \in D |-> Unwrap(collateral(r)).market_value]
        owed  == [r \in B |-> Unwrap(liquidity(r)).market_value]
    IN  IF /\ \A r \in D \cup B : Fresh(reserve[r], now)
           /\ \A r \in D : collateral(r) # {}
           /\ \A r \in B : liquidity(r) # {}
        THEN PackObligation(UpdateSlot(
               [ob EXCEPT
                  !.deposits = [r \in Reserves |-> IF r \in D THEN Unwrap(collateral(r)) ELSE ob.deposits[r]],
                  !.borrows  = [r \in Reserves |-> IF r \in B THEN Unwrap(liquidity(r)) ELSE ob.borrows[r]],
                  !.deposited_value = SumFunction(worth),
                  !.borrowed_value  = SumFunction(owed),
                  !.allowed_borrow_value =
                     Weighted(worth, [r \in D |-> reserve[r].config.loan_to_value_ratio]),
                  !.unhealthy_borrow_value =
                     Weighted(worth, [r \in D |-> reserve[r].config.liquidation_threshold])],
               now))
        ELSE {}
==============================================================================

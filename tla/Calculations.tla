---------------------------- MODULE Calculations -----------------------------
(***************************************************************************)
(* The amounts an instruction moves: the fees and calculate_* methods of   *)
(* reserve.rs and the limits obligation.rs derives from its last refresh.  *)
(***************************************************************************)
EXTENDS Obligation

(***************************************************************************)
(* ReserveFees::calculate_fees.  At least one unit goes to the owner, and  *)
(* one to the host when there is a host percentage; an amount that the fee *)
(* would consume is refused.                                               *)
(***************************************************************************)
FeeWads(amount_wads, fee_wad, inclusive) ==
    UNION {TryMul(amount_wads, rate) :
           rate \in IF inclusive
                    THEN UNION {RateDiv(fee_wad, whole) : whole \in RateAdd(fee_wad, WAD)}
                    ELSE {fee_wad}}

HostFee(fee, host_percentage) ==
    IF host_percentage = 0 THEN {0}
    ELSE {Greatest(h, 1) : h \in UNION {TryRoundU64(d) :
                                         d \in TryMul(fee, FromPercent(host_percentage))}}

CalculateFees(c, amount_wads, fee_wad, inclusive) ==
    IF fee_wad = 0 \/ amount_wads = 0 THEN {[fee |-> 0, host_fee |-> 0]}
    ELSE LET minimum == FromU64(IF c.host_fee_percentage > 0 THEN 2 ELSE 1)
         IN  UNION {LET charged == Greatest(f, minimum)
                    IN  IF charged >= amount_wads THEN {}
                        ELSE {[fee |-> fee, host_fee |-> host] :
                              fee \in TryRoundU64(charged),
                              host \in HostFee(charged, c.host_fee_percentage)} :
                    f \in FeeWads(amount_wads, fee_wad, inclusive)}

(***************************************************************************)
(* Reserve::calculate_borrow.  U64_MAX asks for as much as the obligation  *)
(* allows and the reserve has, the fee included; any other amount is what  *)
(* the borrower receives, the fee on top.                                  *)
(***************************************************************************)
MaxBorrowWads(res, max_value) ==
    UNION {{Least(w, FromU64(res.available_amount)) :
            w \in TryDiv(v, res.market_price)} : v \in TryMulU64(max_value, res.mint_unit)}

CalculateMaxBorrow(res, max_value) ==
    UNION {UNION {{[borrow_wads |-> wads, receive |-> receive, fee |-> fees.fee] :
                   receive \in UNION {CheckedSub(b, fees.fee) : b \in TryFloorU64(wads)}} :
                  fees \in CalculateFees(res.config, wads, res.config.borrow_fee_wad, TRUE)} :
           wads \in MaxBorrowWads(res, max_value)}

(* Faulty variant, to show what LiquidityBacked detects: the fee is not part of the loan.  *)
BorrowWithoutFee(res, amount, max_value) ==
    UNION {{[borrow_wads |-> wads, receive |-> amount, fee |-> fees.fee] :
            wads \in {w \in {FromU64(amount)} : \E v \in MarketValue(res, w) : v <= max_value}} :
           fees \in CalculateFees(res.config, FromU64(amount), res.config.borrow_fee_wad, FALSE)}

CalculateExactBorrow(res, amount, max_value) ==
    UNION {{[borrow_wads |-> wads, receive |-> amount, fee |-> fees.fee] :
            wads \in {w \in TryAdd(FromU64(amount), FromU64(fees.fee)) :
                      \E v \in MarketValue(res, w) : v <= max_value}} :
           fees \in CalculateFees(res.config, FromU64(amount), res.config.borrow_fee_wad, FALSE)}

CalculateBorrow(res, amount, max_value) ==
    IF amount = U64_MAX THEN CalculateMaxBorrow(res, max_value)
    ELSE CalculateExactBorrow(res, amount, max_value)

(* Faulty variant, to show what TokenValueKept detects: the tokens are rounded down.  *)
RepayRoundedDown(amount, borrowed_wads) ==
    LET settle == IF amount = U64_MAX THEN borrowed_wads
                  ELSE Least(FromU64(amount), borrowed_wads)
    IN  {[settle |-> settle, repay |-> repay] : repay \in TryFloorU64(settle)}

(* Reserve::calculate_repay: the debt settled in wads, the tokens rounded up *)
CalculateRepay(amount, borrowed_wads) ==
    LET settle == IF amount = U64_MAX THEN borrowed_wads
                  ELSE Least(FromU64(amount), borrowed_wads)
    IN  {[settle |-> settle, repay |-> repay] : repay \in TryCeilU64(settle)}

(***************************************************************************)
(* Obligation::max_withdraw_value, remaining_borrow_value and              *)
(* max_liquidation_amount.                                                 *)
(***************************************************************************)
(* Faulty variant, to show what ExitLeavesCovered detects: the collateral  *)
(* is taken to have the average loan-to-value ratio of the obligation, the *)
(* bug tests/max_withdraw_bug_poc.rs reproduces.                           *)
MaxWithdrawAtAverageRatio(ob, ltv) ==
    IF ob.allowed_borrow_value <= ob.borrowed_value THEN {0}
    ELSE UNION {UNION {TrySub(ob.deposited_value, required) :
                       required \in TryMul(ob.borrowed_value, ratio)} :
                ratio \in TryDiv(ob.deposited_value, ob.allowed_borrow_value)}

MaxWithdrawValue(ob, ltv) ==
    IF ob.allowed_borrow_value <= ob.borrowed_value THEN {0}
    ELSE IF ltv = 0 THEN {ob.deposited_value}
    ELSE UNION {TryDiv(d, FromPercent(ltv)) :
                d \in TrySub(ob.allowed_borrow_value, ob.borrowed_value)}

RemainingBorrowValue(ob) == TrySub(ob.allowed_borrow_value, ob.borrowed_value)

MaxLiquidationWads(ob, liq) ==
    UNION {UNION {TryMul(liq.borrowed_amount_wads, pct) :
                  pct \in TryDiv(Least(half, liq.market_value), liq.market_value)} :
           half \in TryMul(ob.borrowed_value, FromPercent(LIQUIDATION_CLOSE_FACTOR))}

(***************************************************************************)
(* The amount of process_withdraw_obligation_collateral: unrestricted      *)
(* without debts, else what the excess of allowed over borrowed covers.    *)
(***************************************************************************)
MaxWithdraw(col, max_value) ==
    UNION {UNION {{Least(a, col.deposited_amount) : a \in TryFloorU64(wads)} :
                  wads \in TryMulU64(pct, col.deposited_amount)} :
           pct \in TryDiv(Least(max_value, col.market_value), col.market_value)}

ExactWithdraw(col, amount, max_value) ==
    {w \in {Least(amount, col.deposited_amount)} :
     \E pct \in TryDivU64(FromU64(w), col.deposited_amount) :
       \E v \in TryMul(col.market_value, pct) : v <= max_value}

WithdrawAmount(ob, r, ltv, amount) ==
    LET col == ob.deposits[r]
    IN  IF BorrowReserves(ob) = {} THEN {Least(amount, col.deposited_amount)}
        ELSE {w \in UNION {IF amount = U64_MAX THEN MaxWithdraw(col, max_value)
                           ELSE ExactWithdraw(col, amount, max_value) :
                           max_value \in IF ob.deposited_value = 0 THEN {}
                                         ELSE MaxWithdrawValue(ob, ltv) \ {0}} :
              w # 0}

(***************************************************************************)
(* Reserve::calculate_liquidation.  A debt below LIQUIDATION_CLOSE_AMOUNT  *)
(* is settled whole whatever is repaid; any other is settled up to the     *)
(* close factor.  Both give the liquidator a bonus, bounded by what the    *)
(* collateral is worth.                                                    *)
(***************************************************************************)
SeizedShare(col, value) ==
    UNION {UNION {TryFloorU64(w) : w \in TryMul(FromU64(col.deposited_amount), pct)} :
           pct \in TryDiv(value, col.market_value)}

(* the fraction of wads that the collateral can pay for *)
PayableWads(wads, col, value) ==
    UNION {TryMul(wads, pct) : pct \in TryDiv(col.market_value, value)}

CloseOut(liq, col, bonus, max_wads) ==
    UNION {{[settle |-> liq.borrowed_amount_wads, repay |-> repay, withdraw |-> withdraw] :
            repay \in UNION {TryCeilU64(w) : w \in IF value > col.market_value
                                                   THEN PayableWads(max_wads, col, value)
                                                   ELSE {max_wads}},
            withdraw \in IF value < col.market_value THEN SeizedShare(col, value)
                         ELSE {col.deposited_amount}} :
           value \in TryMul(liq.market_value, bonus)}

LiquidationValue(liq, wads, bonus) ==
    UNION {UNION {TryMul(v, bonus) : v \in TryMul(liq.market_value, pct)} :
           pct \in TryDiv(wads, liq.borrowed_amount_wads)}

PartialLiquidation(liq, col, bonus, wads) ==
    UNION {UNION {{[settle |-> settle, repay |-> repay, withdraw |-> withdraw] :
                   repay \in TryCeilU64(settle),
                   withdraw \in IF value < col.market_value THEN SeizedShare(col, value)
                                ELSE {col.deposited_amount}} :
                  settle \in IF value > col.market_value THEN PayableWads(wads, col, value)
                             ELSE {wads}} :
           value \in LiquidationValue(liq, wads, bonus)}

CalculateLiquidation(c, amount, ob, liq, col) ==
    LET max_wads == IF amount = U64_MAX THEN liq.borrowed_amount_wads
                    ELSE Least(FromU64(amount), liq.borrowed_amount_wads)
    IN  UNION {IF liq.borrowed_amount_wads < FromU64(LIQUIDATION_CLOSE_AMOUNT)
               THEN CloseOut(liq, col, bonus, max_wads)
               ELSE UNION {PartialLiquidation(liq, col, bonus, Least(limit, max_wads)) :
                           limit \in MaxLiquidationWads(ob, liq)} :
               bonus \in RateAdd(FromPercent(c.liquidation_bonus), WAD)}
==============================================================================

--------------------------- MODULE ObligationProofs ---------------------------
(***************************************************************************)
(* InterestSettled, CollateralBacked, ObligationFits, RateNeverAhead and   *)
(* ExitLeavesCovered of Lending, for every value of the constants.  None   *)
(* is inductive.                                                           *)
(*                                                                         *)
(* For the first, that refreshing a reserve a second time in a slot        *)
(* changes no rate has to be known from the reserve's own slot, and that   *)
(* initialising a reserve disturbs no debt from the fact that nobody owes  *)
(* to a reserve that is not initialised.                                   *)
(*                                                                         *)
(* The next are about the entries of an obligation.  What an instruction   *)
(* does to the amounts is summed over all obligations for the second, what *)
(* it does to the sets of entries is counted for the third, what it does   *)
(* to the rates the debts were charged at is compared with the reserves    *)
(* for the fourth.  The second needs to know that an obligation account    *)
(* that is not initialised holds nothing; the third, which is about bytes, *)
(* needs the count of entries, and that debts alone never fill an          *)
(* obligation; the fourth, that compounding never lowers a rate.           *)
(*                                                                         *)
(* ExitLeavesCovered compares two states.  The values of an obligation are *)
(* written as sums over the reserves, so that an exit changes one summand: *)
(* a withdrawal lowers what one collateral allows by at most what was left *)
(* to borrow, a borrow raises one debt by at most that and never lowers    *)
(* the value of a collateral in the reserve that lends.  It needs that the *)
(* interest is settled, that configurations were validated and that an     *)
(* entry that is no debt owes nothing.                                     *)
(*                                                                         *)
(* The steps are those of OpenNext, which gives a reserve any price that   *)
(* can be stored: the results hold under the oracles of Market too.        *)
(***************************************************************************)
EXTENDS LendingProofs, FiniteSums

-----------------------------------------------------------------------------
(***************************************************************************)
(* InterestSettled.                                                        *)
(***************************************************************************)

(* No account was updated in a slot yet to come. *)
NotAhead ==
    /\ \A r \in Reserves : reserve[r].slot <= slot
    /\ \A o \in Obligations : obligation[o].slot <= slot

(* Only an initialised reserve is owed anything. *)
OwedInitialized ==
    \A o \in Obligations, r \in Reserves :
       obligation[o].borrows[r].present => reserve[r].initialized

(* An obligation updated in this slot and not stale carries its reserves'  *)
(* rates, and these reserves were updated in this slot too.                *)
UpToDate(o, r) ==
    /\ obligation[o].borrows[r].cumulative_borrow_rate_wads
          = reserve[r].cumulative_borrow_rate_wads
    /\ reserve[r].slot = slot

SettledNow ==
    \A o \in Obligations, r \in Reserves :
       (~obligation[o].stale /\ obligation[o].slot = slot /\ obligation[o].borrows[r].present)
          => UpToDate(o, r)

SettledInv == NotAhead /\ OwedInitialized /\ SettledNow

-----------------------------------------------------------------------------
(***************************************************************************)
(* Steps that change no rate and do not refresh an obligation.             *)
(***************************************************************************)
RatesKept ==
    \A r \in Reserves :
       /\ reserve'[r].cumulative_borrow_rate_wads = reserve[r].cumulative_borrow_rate_wads
       /\ reserve'[r].slot = reserve[r].slot
       /\ reserve'[r].initialized = reserve[r].initialized

ConfigsKept == \A r \in Reserves : reserve'[r].config = reserve[r].config

(* the obligation of o is changed and marked stale *)
Marked(o) ==
    /\ obligation'[o].stale
    /\ obligation'[o].slot = obligation[o].slot
    /\ \A r \in Reserves : obligation'[o].borrows[r].present =>
          obligation[o].borrows[r].present \/ reserve[r].initialized
    /\ \A p \in Obligations \ {o} : obligation'[p] = obligation[p]

LEMMA KeptSettled ==
    ASSUME SettledInv, RatesKept, UNCHANGED slot,
           \/ UNCHANGED obligation
           \/ \E o \in Obligations : Marked(o)
    PROVE  SettledInv'
<1>1. CASE UNCHANGED obligation
  BY <1>1 DEF SettledInv, NotAhead, OwedInitialized, SettledNow, UpToDate, RatesKept
<1>2. ASSUME NEW o \in Obligations, Marked(o) PROVE SettledInv'
  <2>1. NotAhead'
    BY <1>2 DEF SettledInv, NotAhead, RatesKept, Marked
  <2>2. OwedInitialized'
    BY <1>2 DEF SettledInv, OwedInitialized, RatesKept, Marked
  <2>3. SettledNow'
    BY <1>2 DEF SettledInv, SettledNow, UpToDate, RatesKept, Marked
  <2> QED
    BY <2>1, <2>2, <2>3 DEF SettledInv
<1> QED
  BY <1>1, <1>2

LEMMA MovesKept ==
    ASSUME reserve \in [Reserves -> ReserveRec], NEW r \in Reserves,
           NEW res, NEW l, NEW m, Moves(res, reserve[r], l, m), SaveReserve(r, res)
    PROVE  RatesKept /\ ConfigsKept
  BY DEF SaveReserve, Pack, RatesKept, ConfigsKept, Moves

(* Saving, as stale, an obligation whose debts are no new ones. *)
LEMMA MarkedSaved ==
    ASSUME obligation \in [Obligations -> ObligationRec], NEW o \in Obligations,
           NEW ob, SaveObligation(o, MarkStale(ob)), NEW deposits, NEW borrows,
           ob = [obligation[o] EXCEPT !.deposits = deposits, !.borrows = borrows],
           \A r \in Reserves : borrows[r].present =>
              obligation[o].borrows[r].present \/ reserve[r].initialized
    PROVE  Marked(o)
<1>1. obligation[o] \in ObligationRec
  OBVIOUS
<1>2. /\ MarkStale(ob).stale
      /\ MarkStale(ob).slot = obligation[o].slot
      /\ MarkStale(ob).borrows = borrows
  BY <1>1 DEF MarkStale, ObligationRec
<1>3. obligation' = [obligation EXCEPT ![o] = MarkStale(ob)]
  BY DEF SaveObligation, PackObligation
<1> QED
  BY <1>2, <1>3 DEF Marked

(* SetDeposit and SetBorrow as changes of the whole vectors. *)
LEMMA SettingDeposit ==
    ASSUME NEW ob \in ObligationRec, NEW r \in Reserves, NEW col
    PROVE  SetDeposit(ob, r, col)
             = [ob EXCEPT !.deposits = [ob.deposits EXCEPT ![r] = col], !.borrows = ob.borrows]
  BY DEF SetDeposit, ObligationRec

LEMMA SettingBorrow ==
    ASSUME NEW ob \in ObligationRec, NEW r \in Reserves, NEW liq
    PROVE  SetBorrow(ob, r, liq)
             = [ob EXCEPT !.deposits = ob.deposits, !.borrows = [ob.borrows EXCEPT ![r] = liq]]
  BY DEF SetBorrow, ObligationRec

(* What the methods of an obligation replace. *)
LEMMA CollateralEffects ==
    ASSUME NEW ob, NEW r, NEW a,
           NEW new \in AddCollateral(ob, r, a) \cup WithdrawCollateral(ob, r, a)
    PROVE  \E col : new = SetDeposit(ob, r, col)
<1>1. CASE new \in AddCollateral(ob, r, a)
  BY <1>1, Zenon DEF AddCollateral
<1>2. CASE new \in WithdrawCollateral(ob, r, a)
  BY <1>2, Zenon DEF WithdrawCollateral
<1> QED
  BY <1>1, <1>2

LEMMA LiquidityEffects ==
    ASSUME NEW ob, NEW r, NEW a, NEW rate, NEW new \in AddLiquidity(ob, r, rate, a)
    PROVE  \E liq : new = SetBorrow(ob, r, liq)
  BY Zenon DEF AddLiquidity

(* A repaid debt is still there only if it was. *)
LEMMA RepayDebtEffect ==
    ASSUME NEW ob \in ObligationRec, NEW r \in Reserves, NEW a, NEW new \in RepayDebt(ob, r, a)
    PROVE  \E liq : new = SetBorrow(ob, r, liq) /\ (liq.present => ob.borrows[r].present)
<1> DEFINE Rest(left) == IF left = 0 THEN NoLiquidity
                         ELSE [ob.borrows[r] EXCEPT !.borrowed_amount_wads = left]
<1>1. PICK left : new = SetBorrow(ob, r, Rest(left))
  BY Zenon DEF RepayDebt
<1>2. ob.borrows[r] \in LiquidityRec
  BY DEF ObligationRec
<1>3. Rest(left).present => ob.borrows[r].present
  BY <1>2 DEF NoLiquidity, LiquidityRec
<1> QED
  BY <1>1, <1>3

(* accrue_interest leaves the debt at the rate it was given. *)
LEMMA AccrueDebtEffect ==
    ASSUME NEW liq \in LiquidityRec, NEW rate \in Rate, NEW new \in AccrueDebt(liq, rate)
    PROVE  /\ new.cumulative_borrow_rate_wads = rate
           /\ new.present = liq.present
           /\ \A v : /\ SetValue(new, v).cumulative_borrow_rate_wads = rate
                     /\ SetValue(new, v).present = liq.present
<1>1. CASE rate = liq.cumulative_borrow_rate_wads
  <2>1. new = liq
    BY <1>1 DEF AccrueDebt
  <2> QED
    BY <1>1, <2>1 DEF SetValue, LiquidityRec
<1>2. CASE rate # liq.cumulative_borrow_rate_wads
  <2>1. PICK debt : new = Charge(liq, debt, rate)
    BY <1>2 DEF AccrueDebt
  <2> QED
    BY <2>1 DEF Charge, SetValue, LiquidityRec
<1> QED
  BY <1>1, <1>2

LEMMA RefreshedEffect ==
    ASSUME NEW liq \in LiquidityRec, NEW res \in ReserveRec, NEW new \in RefreshedLiquidity(liq, res)
    PROVE  /\ new.cumulative_borrow_rate_wads = res.cumulative_borrow_rate_wads
           /\ new.present = liq.present
<1>1. res.cumulative_borrow_rate_wads \in Rate
  BY DEF ReserveRec
<1>2. PICK accrued, v : /\ accrued \in AccrueDebt(liq, res.cumulative_borrow_rate_wads)
                        /\ new = SetValue(accrued, v)
  BY DEF RefreshedLiquidity
<1> QED
  BY <1>1, <1>2, AccrueDebtEffect

(* A refreshed obligation carries the rates of reserves updated this slot. *)
LEMMA RefreshEffect ==
    ASSUME NEW ob \in ObligationRec, NEW res \in [Reserves -> ReserveRec], NEW now \in Nat,
           NEW new \in RefreshObligation(ob, res, now)
    PROVE  /\ new.slot = now
           /\ \A r \in Reserves : new.borrows[r].present =>
                 /\ ob.borrows[r].present
                 /\ res[r].slot = now
                 /\ new.borrows[r].cumulative_borrow_rate_wads = res[r].cumulative_borrow_rate_wads
<1> DEFINE B == BorrowReserves(ob)
           Refreshed(r) == RefreshedLiquidity(ob.borrows[r], res[r])
           Borrows == [r \in Reserves |-> IF r \in B THEN Unwrap(Refreshed(r)) ELSE ob.borrows[r]]
<1>1. /\ \A r \in B : Fresh(res[r], now) /\ Refreshed(r) # {}
      /\ new.slot = now
      /\ new.borrows = Borrows
  BY DEF RefreshObligation, PackObligation, UpdateSlot, ObligationRec
<1> SUFFICES ASSUME NEW r \in Reserves, Borrows[r].present
             PROVE  /\ ob.borrows[r].present
                    /\ res[r].slot = now
                    /\ Borrows[r].cumulative_borrow_rate_wads = res[r].cumulative_borrow_rate_wads
  BY <1>1
<1>2. r \in B
  BY DEF BorrowReserves
<1>3. ob.borrows[r] \in LiquidityRec /\ res[r] \in ReserveRec /\ res[r].slot \in Nat
  BY DEF ObligationRec, ReserveRec
<1>4. res[r].slot = now
  BY <1>1, <1>2, <1>3, FreshSlot
<1>5. Unwrap(Refreshed(r)) \in Refreshed(r)
  <2> HIDE DEF Refreshed
  <2> QED
    BY <1>1, <1>2 DEF Unwrap
<1>6. Borrows[r].cumulative_borrow_rate_wads = res[r].cumulative_borrow_rate_wads
  BY <1>2, <1>3, <1>5, RefreshedEffect
<1> QED
  BY <1>2, <1>4, <1>6 DEF BorrowReserves

-----------------------------------------------------------------------------
(***************************************************************************)
(* Each instruction keeps the interest settled.                            *)
(***************************************************************************)
LEMMA SettledInit == Init => SettledInv
<1> SUFFICES ASSUME Init PROVE SettledInv
  OBVIOUS
<1>1. NotAhead
  BY DEF Init, NotAhead, UninitializedReserve, EmptyObligation
<1>2. OwedInitialized
  BY DEF Init, OwedInitialized, EmptyObligation, NoLiquidity
<1>3. SettledNow
  BY DEF Init, SettledNow, EmptyObligation, NoLiquidity
<1> QED
  BY <1>1, <1>2, <1>3 DEF SettledInv

LEMMA TickSettled ==
    ASSUME TypeOK, SettledInv, Tick
    PROVE  SettledInv'
<1>1. /\ slot \in Nat /\ slot' = slot + 1
      /\ \A r \in Reserves : reserve[r].slot \in Nat /\ reserve'[r] = reserve[r]
      /\ \A o \in Obligations : obligation[o].slot \in Nat /\ obligation'[o] = obligation[o]
  BY DEF Tick, TypeOK, ReserveRec, ObligationRec
<1>2. NotAhead'
  BY <1>1 DEF SettledInv, NotAhead
<1>3. OwedInitialized'
  BY <1>1 DEF SettledInv, OwedInitialized
<1>4. \A o \in Obligations : obligation'[o].slot # slot'
  BY <1>1 DEF SettledInv, NotAhead
<1>5. SettledNow'
  BY <1>4 DEF SettledNow
<1> QED
  BY <1>2, <1>3, <1>5 DEF SettledInv

(* A new reserve is owed nothing. *)
LEMMA InitReserveSettled ==
    ASSUME TypeOK, SettledInv, NEW r \in Reserves, NEW amount \in U64, NEW price \in Rate,
           NEW unit \in MintUnits, NEW c \in Configs,
           ProcessInitReserve(r, amount, price, unit, c)
    PROVE  SettledInv'
<1> DEFINE new == NewReserve(price, unit, c)
<1>1. new \in ReserveRec /\ new.slot = slot /\ new.initialized
  BY WadAssumption DEF NewReserve, ReserveRec, TypeOK, U64, Rate
<1>2. PICK d \in DepositLiquidity(new, amount) : SaveReserve(r, d.reserve)
  BY DEF ProcessInitReserve
<1> HIDE DEF new
<1>3. Moves(d.reserve, new, amount, d.collateral_amount)
  BY <1>1, <1>2, DepositEffect
<1>4. /\ reserve'[r].slot = slot /\ reserve'[r].initialized
      /\ \A x \in Reserves \ {r} : reserve'[x] = reserve[x]
  BY <1>1, <1>2, <1>3 DEF SaveReserve, Pack, Moves, TypeOK
<1>5. \A o \in Obligations : ~obligation[o].borrows[r].present
  BY DEF SettledInv, OwedInitialized, ProcessInitReserve
<1>6. slot' = slot /\ obligation' = obligation /\ slot \in Nat
  BY DEF ProcessInitReserve, TypeOK
<1>7. NotAhead'
  BY <1>4, <1>6 DEF SettledInv, NotAhead
<1>8. OwedInitialized'
  BY <1>4, <1>5, <1>6 DEF SettledInv, OwedInitialized
<1>9. SettledNow'
  BY <1>4, <1>5, <1>6 DEF SettledInv, SettledNow, UpToDate
<1> QED
  BY <1>7, <1>8, <1>9 DEF SettledInv

(* Refreshing a reserve again in a slot accrues nothing; a reserve behind  *)
(* the clock is owed nothing by an obligation of this slot that is fresh.  *)
LEMMA RefreshReserveSettled ==
    ASSUME TypeOK, SettledInv, NEW r \in Reserves, NEW price \in Rate,
           ProcessRefreshReserve(r, price)
    PROVE  SettledInv'
<1>1. reserve[r] \in ReserveRec /\ Priced(r, price) \in ReserveRec /\ slot \in Nat
  BY DEF TypeOK, Priced, ReserveRec
<1>2. /\ Priced(r, price).slot = reserve[r].slot
      /\ Priced(r, price).initialized = reserve[r].initialized
      /\ Priced(r, price).cumulative_borrow_rate_wads = reserve[r].cumulative_borrow_rate_wads
  BY <1>1 DEF Priced, ReserveRec
<1>3. PICK accrued \in AccrueInterest(Priced(r, price), slot) : SaveReserve(r, UpdateSlot(accrued, slot))
  BY DEF ProcessRefreshReserve
<1>4. /\ \/ accrued = Priced(r, price)
         \/ \E cumulative, borrowed : accrued = Compounded(Priced(r, price), cumulative, borrowed)
      /\ slot = reserve[r].slot => accrued = Priced(r, price)
  BY <1>1, <1>2, <1>3, AccrueEffect
<1>5. /\ UpdateSlot(accrued, slot).slot = slot
      /\ UpdateSlot(accrued, slot).initialized = reserve[r].initialized
      /\ reserve[r].slot = slot =>
            UpdateSlot(accrued, slot).cumulative_borrow_rate_wads = reserve[r].cumulative_borrow_rate_wads
  BY <1>1, <1>2, <1>4 DEF Compounded, UpdateSlot, ReserveRec
<1>6. /\ reserve'[r] = UpdateSlot(accrued, slot)
      /\ \A x \in Reserves \ {r} : reserve'[x] = reserve[x]
  BY <1>3 DEF SaveReserve, Pack, TypeOK
<1>7. slot' = slot /\ obligation' = obligation
  BY DEF ProcessRefreshReserve
<1>8. NotAhead'
  BY <1>1, <1>5, <1>6, <1>7 DEF SettledInv, NotAhead
<1>9. OwedInitialized'
  BY <1>5, <1>6, <1>7 DEF SettledInv, OwedInitialized
<1>10. SettledNow'
  <2> SUFFICES ASSUME NEW o \in Obligations, NEW x \in Reserves,
                      ~obligation[o].stale, obligation[o].slot = slot, obligation[o].borrows[x].present
               PROVE  UpToDate(o, x)'
    BY <1>7 DEF SettledNow
  <2>1. UpToDate(o, x)
    BY DEF SettledInv, SettledNow
  <2> QED
    BY <1>5, <1>6, <1>7, <2>1 DEF UpToDate
<1> QED
  BY <1>8, <1>9, <1>10 DEF SettledInv

LEMMA InitObligationSettled ==
    ASSUME TypeOK, SettledInv, NEW o \in Obligations, ProcessInitObligation(o)
    PROVE  SettledInv'
<1>1. obligation' = [obligation EXCEPT ![o] = EmptyObligation(TRUE, slot)]
  BY DEF ProcessInitObligation, SaveObligation, PackObligation
<1>2. slot' = slot /\ reserve' = reserve /\ slot \in Nat
  BY DEF ProcessInitObligation, TypeOK
<1>3. /\ obligation'[o].slot = slot
      /\ \A r \in Reserves : ~obligation'[o].borrows[r].present
      /\ \A p \in Obligations \ {o} : obligation'[p] = obligation[p]
  BY <1>1 DEF TypeOK, EmptyObligation, NoLiquidity
<1>4. NotAhead'
  BY <1>2, <1>3 DEF SettledInv, NotAhead
<1>5. OwedInitialized'
  BY <1>2, <1>3 DEF SettledInv, OwedInitialized
<1>6. SettledNow'
  BY <1>2, <1>3 DEF SettledInv, SettledNow, UpToDate
<1> QED
  BY <1>4, <1>5, <1>6 DEF SettledInv

LEMMA RefreshObligationSettled ==
    ASSUME TypeOK, SettledInv, NEW o \in Obligations, ProcessRefreshObligation(o)
    PROVE  SettledInv'
<1>1. PICK ob \in RefreshObligation(obligation[o], reserve, slot) :
         obligation' = [obligation EXCEPT ![o] = ob]
  BY DEF ProcessRefreshObligation
<1>2. slot' = slot /\ reserve' = reserve /\ slot \in Nat
  BY DEF ProcessRefreshObligation, TypeOK
<1>3. /\ ob.slot = slot
      /\ \A r \in Reserves : ob.borrows[r].present =>
            /\ obligation[o].borrows[r].present
            /\ reserve[r].slot = slot
            /\ ob.borrows[r].cumulative_borrow_rate_wads = reserve[r].cumulative_borrow_rate_wads
  BY <1>1, RefreshEffect DEF TypeOK
<1>4. obligation'[o] = ob /\ \A p \in Obligations \ {o} : obligation'[p] = obligation[p]
  BY <1>1 DEF TypeOK
<1>5. NotAhead'
  BY <1>2, <1>3, <1>4 DEF SettledInv, NotAhead
<1>6. OwedInitialized'
  BY <1>2, <1>3, <1>4 DEF SettledInv, OwedInitialized
<1>7. SettledNow'
  BY <1>2, <1>3, <1>4 DEF SettledInv, SettledNow, UpToDate
<1> QED
  BY <1>5, <1>6, <1>7 DEF SettledInv

(* The instructions on a reserve alone change no rate. *)
LEMMA ReserveKept ==
    ASSUME TypeOK, NEW r \in Reserves, NEW amount \in U64,
           \/ ProcessDepositReserveLiquidity(r, amount)
           \/ ProcessRedeemReserveCollateral(r, amount)
           \/ \E overpaid : ProcessFlashLoan(r, amount, overpaid)
           \/ \E c : ProcessUpdateReserve(r, c)
           \/ ProcessWithdrawFee(r)
    PROVE  /\ RatesKept /\ UNCHANGED <<slot, obligation>>
           /\ ConfigsKept \/ \E c : ProcessUpdateReserve(r, c)
<1>1. reserve \in [Reserves -> ReserveRec] /\ reserve[r] \in ReserveRec
  BY DEF TypeOK
<1>2. CASE ProcessDepositReserveLiquidity(r, amount)
  <2>1. PICK d \in DepositLiquidity(reserve[r], amount) : SaveReserve(r, MarkStale(d.reserve))
    BY <1>2 DEF ProcessDepositReserveLiquidity
  <2> QED
    BY <1>1, <1>2, <2>1, DepositEffect, MovesKept DEF ProcessDepositReserveLiquidity
<1>3. CASE ProcessRedeemReserveCollateral(r, amount)
  <2>1. PICK d \in RedeemCollateral(reserve[r], amount) : SaveReserve(r, MarkStale(d.reserve))
    BY <1>3 DEF ProcessRedeemReserveCollateral
  <2> QED
    BY <1>1, <1>3, <2>1, RedeemEffect, MovesKept DEF ProcessRedeemReserveCollateral
<1>4. ASSUME NEW overpaid, ProcessFlashLoan(r, amount, overpaid)
      PROVE  RatesKept /\ ConfigsKept /\ UNCHANGED <<slot, obligation>>
  <2> DEFINE loan == FlashLoanAmount(reserve[r], amount)
  <2>1. PICK lent \in BorrowLiquidity(reserve[r], FromU64(loan)) :
           \E packed \in Pack(lent) :
             \E returned \in RepayLiquidity(packed, loan, FromU64(loan)) : SaveReserve(r, returned)
    BY <1>4 DEF ProcessFlashLoan
  <2>2. PICK returned \in RepayLiquidity(lent, loan, FromU64(loan)) :
           SaveReserve(r, returned) /\ lent \in ReserveRec
    BY <2>1 DEF Pack
  <2>3. loan \in U64
    BY <1>1 DEF FlashLoanAmount, ReserveRec
  <2>4. PICK b : b \in TryFloorU64(FromU64(loan))
    BY <2>1 DEF BorrowLiquidity
  <2> HIDE DEF loan
  <2>5. Moves(lent, reserve[r], -b, 0) /\ Moves(returned, lent, loan, 0)
    BY <1>1, <2>1, <2>2, <2>3, <2>4, BorrowEffect, RepayEffect
  <2>6. RatesKept /\ ConfigsKept
    BY <1>1, <2>2, <2>5 DEF Moves, SaveReserve, Pack, RatesKept, ConfigsKept
  <2> QED
    BY <1>4, <2>6 DEF ProcessFlashLoan
<1>5. ASSUME NEW c, ProcessUpdateReserve(r, c)
      PROVE  RatesKept /\ UNCHANGED <<slot, obligation>>
  BY <1>1, <1>5 DEF ProcessUpdateReserve, SaveReserve, Pack, ReserveRec, RatesKept
<1>6. CASE ProcessWithdrawFee(r)
  BY <1>6 DEF ProcessWithdrawFee, RatesKept, ConfigsKept
<1> QED
  BY <1>2, <1>3, <1>4, <1>5, <1>6

(* Depositing and withdrawing collateral marks the obligation stale. *)
LEMMA CollateralMarked ==
    ASSUME TypeOK, NEW o \in Obligations, NEW r \in Reserves, NEW a,
           NEW ob \in AddCollateral(obligation[o], r, a) \cup WithdrawCollateral(obligation[o], r, a),
           SaveObligation(o, MarkStale(ob))
    PROVE  Marked(o)
<1>1. obligation[o] \in ObligationRec /\ obligation \in [Obligations -> ObligationRec]
  BY DEF TypeOK
<1>2. PICK col : ob = SetDeposit(obligation[o], r, col)
  BY CollateralEffects
<1>3. ob = [obligation[o] EXCEPT !.deposits = [obligation[o].deposits EXCEPT ![r] = col],
                                 !.borrows = obligation[o].borrows]
  BY <1>1, <1>2, SettingDeposit
<1> QED
  BY <1>1, <1>3, MarkedSaved

LEMMA DepositCollateralKept ==
    ASSUME TypeOK, NEW o \in Obligations, NEW r \in Reserves, NEW amount \in U64,
           \/ ProcessDepositObligationCollateral(o, r, amount)
           \/ ProcessWithdrawObligationCollateral(o, r, amount)
    PROVE  RatesKept /\ ConfigsKept /\ UNCHANGED slot /\ Marked(o)
<1>1. CASE ProcessDepositObligationCollateral(o, r, amount)
  BY <1>1, CollateralMarked DEF ProcessDepositObligationCollateral, DepositObligationCollateral, RatesKept, ConfigsKept
<1>2. CASE ProcessWithdrawObligationCollateral(o, r, amount)
  <2>1. PICK w : \E ob \in WithdrawCollateral(obligation[o], r, w) : SaveObligation(o, MarkStale(ob))
    BY <1>2 DEF ProcessWithdrawObligationCollateral
  <2> QED
    BY <1>2, <2>1, CollateralMarked DEF ProcessWithdrawObligationCollateral, RatesKept, ConfigsKept
<1> QED
  BY <1>1, <1>2

LEMMA DepositBothKept ==
    ASSUME TypeOK, NEW o \in Obligations, NEW r \in Reserves, NEW amount \in U64,
           ProcessDepositReserveLiquidityAndObligationCollateral(o, r, amount)
    PROVE  RatesKept /\ ConfigsKept /\ UNCHANGED slot /\ Marked(o)
<1> USE DEF ProcessDepositReserveLiquidityAndObligationCollateral
<1>1. reserve \in [Reserves -> ReserveRec] /\ reserve[r] \in ReserveRec
  BY DEF TypeOK
<1>2. reserve[r].slot = slot
  <2>1. reserve[r].slot \in Nat /\ slot \in Nat
    BY <1>1 DEF ReserveRec, TypeOK
  <2> QED
    BY <2>1, FreshSlot DEF ReserveFresh
<1>3. PICK d \in DepositLiquidity(reserve[r], amount) :
         /\ SaveReserve(r, UpdateSlot(MarkStale(d.reserve), slot))
         /\ DepositObligationCollateral(o, r, UpdateSlot(MarkStale(d.reserve), slot), d.collateral_amount)
  OBVIOUS
<1>4. RatesKept /\ ConfigsKept
  BY <1>1, <1>2, <1>3, DepositEffect, MovesKept
<1>5. Marked(o)
  BY <1>3, CollateralMarked DEF DepositObligationCollateral
<1> QED
  BY <1>4, <1>5

LEMMA BorrowKept ==
    ASSUME TypeOK, NEW o \in Obligations, NEW r \in Reserves, NEW amount \in U64,
           ProcessBorrowObligationLiquidity(o, r, amount)
    PROVE  RatesKept /\ ConfigsKept /\ UNCHANGED slot /\ Marked(o)
<1> USE DEF ProcessBorrowObligationLiquidity
<1>1. /\ reserve \in [Reserves -> ReserveRec] /\ reserve[r] \in ReserveRec
      /\ obligation \in [Obligations -> ObligationRec] /\ obligation[o] \in ObligationRec
  BY DEF TypeOK
<1>2. PICK wads :
         /\ \E lent \in BorrowLiquidity(reserve[r], wads) : SaveReserve(r, MarkStale(lent))
         /\ \E owing \in AddLiquidity(obligation[o], r, reserve[r].cumulative_borrow_rate_wads, wads) :
               SaveObligation(o, MarkStale(owing))
  OBVIOUS
<1>3. PICK lent \in BorrowLiquidity(reserve[r], wads) : SaveReserve(r, MarkStale(lent))
  BY <1>2
<1>4. PICK b : b \in TryFloorU64(wads)
  BY <1>3 DEF BorrowLiquidity
<1>5. RatesKept /\ ConfigsKept
  BY <1>1, <1>3, <1>4, BorrowEffect, MovesKept
<1>6. PICK owing \in AddLiquidity(obligation[o], r, reserve[r].cumulative_borrow_rate_wads, wads) :
         SaveObligation(o, MarkStale(owing))
  BY <1>2
<1>7. PICK liq : owing = SetBorrow(obligation[o], r, liq)
  BY <1>6, LiquidityEffects
<1> DEFINE borrows == [obligation[o].borrows EXCEPT ![r] = liq]
<1>8. owing = [obligation[o] EXCEPT !.deposits = obligation[o].deposits, !.borrows = borrows]
  BY <1>1, <1>7, SettingBorrow
<1>9. \A x \in Reserves : borrows[x].present => obligation[o].borrows[x].present \/ reserve[x].initialized
  BY <1>1 DEF ReserveFresh, ObligationRec
<1>10. Marked(o)
  BY <1>1, <1>6, <1>8, <1>9, MarkedSaved
<1> QED
  BY <1>5, <1>10

(* Repaying a debt leaves no debt that was not there. *)
LEMMA RepaidMarked ==
    ASSUME TypeOK, NEW o \in Obligations, NEW r \in Reserves, NEW w \in Reserves, NEW a, NEW c,
           NEW repaid \in RepayDebt(obligation[o], r, a),
           NEW ob \in {repaid} \cup WithdrawCollateral(repaid, w, c),
           SaveObligation(o, MarkStale(ob))
    PROVE  Marked(o)
<1>1. obligation[o] \in ObligationRec /\ obligation \in [Obligations -> ObligationRec]
  BY DEF TypeOK
<1>2. PICK liq : /\ repaid = SetBorrow(obligation[o], r, liq)
                 /\ liq.present => obligation[o].borrows[r].present
  BY <1>1, RepayDebtEffect
<1> DEFINE borrows == [obligation[o].borrows EXCEPT ![r] = liq]
<1>3. PICK deposits : ob = [obligation[o] EXCEPT !.deposits = deposits, !.borrows = borrows]
  <2>1. CASE ob = repaid
    <3>1. ob = [obligation[o] EXCEPT !.deposits = obligation[o].deposits, !.borrows = borrows]
      BY <1>1, <1>2, <2>1, SettingBorrow
    <3> QED
      BY <3>1, Zenon
  <2>2. CASE ob \in WithdrawCollateral(repaid, w, c)
    <3>1. PICK col : ob = SetDeposit(repaid, w, col)
      BY <2>2, CollateralEffects
    <3>2. ob = [obligation[o] EXCEPT !.deposits = [obligation[o].deposits EXCEPT ![w] = col],
                                     !.borrows = borrows]
      <4>1. ob = SetDeposit(SetBorrow(obligation[o], r, liq), w, col)
        BY <1>2, <3>1
      <4> QED
        BY <1>1, <4>1 DEF SetDeposit, SetBorrow, ObligationRec
    <3> QED
      BY <3>2, Zenon
  <2> QED
    BY <2>1, <2>2
<1>4. \A x \in Reserves : borrows[x].present => obligation[o].borrows[x].present \/ reserve[x].initialized
  BY <1>1, <1>2 DEF ObligationRec
<1> HIDE DEF borrows
<1> QED
  BY <1>1, <1>3, <1>4, MarkedSaved

LEMMA RepayKept ==
    ASSUME TypeOK, NEW o \in Obligations, NEW r \in Reserves, NEW w \in Reserves, NEW amount \in U64,
           \/ ProcessRepayObligationLiquidity(o, r, amount)
           \/ ProcessLiquidateObligation(o, r, w, amount)
    PROVE  RatesKept /\ ConfigsKept /\ UNCHANGED slot /\ Marked(o)
<1>1. reserve \in [Reserves -> ReserveRec] /\ reserve[r] \in ReserveRec
  BY DEF TypeOK
<1>2. obligation[o].deposits[w].deposited_amount \in U64
  BY DepositedTyped DEF TypeOK, OthersTyped
<1>3. PICK repay, settle :
         /\ repay \in U64
         /\ \E res \in RepayLiquidity(reserve[r], repay, settle) : SaveReserve(r, MarkStale(res))
         /\ \E repaid \in RepayDebt(obligation[o], r, settle) :
               \E c : \E ob \in {repaid} \cup WithdrawCollateral(repaid, w, c) :
                  SaveObligation(o, MarkStale(ob))
  <2>1. CASE ProcessRepayObligationLiquidity(o, r, amount)
    <3>1. PICK p \in CalculateRepay(amount, obligation[o].borrows[r].borrowed_amount_wads) :
             /\ \E res \in RepayLiquidity(reserve[r], p.repay, p.settle) : SaveReserve(r, MarkStale(res))
             /\ \E ob \in RepayDebt(obligation[o], r, p.settle) : SaveObligation(o, MarkStale(ob))
      BY <2>1 DEF ProcessRepayObligationLiquidity
    <3>2. p.repay \in U64
      BY <3>1, RepayAmounts
    <3> QED
      BY <3>1, <3>2
  <2>2. CASE ProcessLiquidateObligation(o, r, w, amount)
    <3>1. PICK q \in CalculateLiquidation(reserve[w].config, amount, obligation[o],
                                          obligation[o].borrows[r], obligation[o].deposits[w]) :
             /\ \E res \in RepayLiquidity(reserve[r], q.repay, q.settle) : SaveReserve(r, MarkStale(res))
             /\ \E repaid \in RepayDebt(obligation[o], r, q.settle) :
                  \E seized \in WithdrawCollateral(repaid, w, q.withdraw) : SaveObligation(o, MarkStale(seized))
      BY <2>2 DEF ProcessLiquidateObligation
    <3>2. q.repay \in U64
      BY <1>2, <3>1, LiquidationAmounts
    <3> QED
      BY <3>1, <3>2
  <2> QED
    BY <2>1, <2>2
<1>4. RatesKept /\ ConfigsKept
  BY <1>1, <1>3, RepayEffect, MovesKept
<1>5. Marked(o)
  BY <1>3, RepaidMarked
<1>6. UNCHANGED slot
  BY DEF ProcessRepayObligationLiquidity, ProcessLiquidateObligation
<1> QED
  BY <1>4, <1>5, <1>6

LEMMA SettledNext == TypeOK /\ SettledInv /\ [OpenNext]_vars => SettledInv'
<1> SUFFICES ASSUME TypeOK, SettledInv, [OpenNext]_vars PROVE SettledInv'
  OBVIOUS
<1>1. /\ Amounts \subseteq U64
      /\ \A r \in Reserves : PricesFor[r] \subseteq Rate /\ ConfigsFor[r] \subseteq Configs
      /\ 0 \in U64
  BY LendingAssumption, WadAssumption DEF U64
<1>2. ASSUME NEW r \in Reserves, ReserveStep(r) PROVE SettledInv'
  <2>1. CASE \E amount \in Amounts, price \in PricesFor[r], unit \in MintUnits, c \in ConfigsFor[r] :
                ProcessInitReserve(r, amount, price, unit, c)
    BY <1>1, <2>1, InitReserveSettled
  <2>2. CASE \E price \in PricesFor[r] : ProcessRefreshReserve(r, price)
    BY <1>1, <2>2, RefreshReserveSettled
  <2>3. ASSUME NEW amount \in U64,
               \/ ProcessDepositReserveLiquidity(r, amount)
               \/ ProcessRedeemReserveCollateral(r, amount)
               \/ \E overpaid : ProcessFlashLoan(r, amount, overpaid)
               \/ \E c : ProcessUpdateReserve(r, c)
               \/ ProcessWithdrawFee(r)
        PROVE  SettledInv'
    <3>1. RatesKept /\ UNCHANGED <<slot, obligation>>
      BY <2>3, ReserveKept
    <3> QED
      BY <3>1, KeptSettled
  <2> QED
    BY <1>1, <1>2, <2>1, <2>2, <2>3 DEF ReserveStep
<1>3. ASSUME NEW o \in Obligations, ObligationStep(o) PROVE SettledInv'
  <2>1. CASE ProcessInitObligation(o)
    BY <2>1, InitObligationSettled
  <2>2. CASE ProcessRefreshObligation(o)
    BY <2>2, RefreshObligationSettled
  <2>3. ASSUME NEW r \in Reserves, NEW w \in Reserves, NEW amount \in U64,
               \/ ProcessDepositObligationCollateral(o, r, amount)
               \/ ProcessDepositReserveLiquidityAndObligationCollateral(o, r, amount)
               \/ ProcessWithdrawObligationCollateral(o, r, amount)
               \/ ProcessBorrowObligationLiquidity(o, r, amount)
               \/ ProcessRepayObligationLiquidity(o, r, amount)
               \/ ProcessLiquidateObligation(o, r, w, amount)
        PROVE  SettledInv'
    <3>1. RatesKept /\ UNCHANGED slot /\ Marked(o)
      BY <2>3, DepositCollateralKept, DepositBothKept, BorrowKept, RepayKept
    <3> QED
      BY <3>1, KeptSettled
  <2> QED
    BY <1>1, <1>3, <2>1, <2>2, <2>3 DEF ObligationStep
<1>4. CASE Tick
  BY <1>4, TickSettled
<1>5. CASE UNCHANGED vars
  BY <1>5, KeptSettled DEF vars, RatesKept
<1>6. ASSUME NEW r \in Reserves, NEW price \in Rate, AnyPriceStep(r, price) PROVE SettledInv'
  BY <1>1, <1>6, InitReserveSettled, RefreshReserveSettled DEF AnyPriceStep
<1> QED
  BY <1>2, <1>3, <1>4, <1>5, <1>6 DEF OpenNext, Next

LEMMA SettledFresh == TypeOK /\ SettledInv => InterestSettled
<1> SUFFICES ASSUME TypeOK, SettledInv, NEW o \in Obligations, NEW r \in Reserves,
                    ObligationFresh(o), obligation[o].borrows[r].present
             PROVE  obligation[o].borrows[r].cumulative_borrow_rate_wads
                       = reserve[r].cumulative_borrow_rate_wads
  BY DEF InterestSettled
<1>1. obligation[o].slot \in Nat /\ slot \in Nat
  BY DEF TypeOK, ObligationRec
<1>2. obligation[o].slot = slot /\ ~obligation[o].stale
  BY <1>1, FreshSlot DEF ObligationFresh
<1> QED
  BY <1>2 DEF SettledInv, SettledNow, UpToDate

(* An obligation that passes the staleness check of borrow, withdraw,      *)
(* repay and liquidate has been charged all the interest its reserves have *)
(* accrued, for any number of reserves, obligations and slots.             *)
THEOREM InterestIsSettled == Spec => []InterestSettled
  BY SettledFresh, TypeCorrect, SettledInit, SettledNext, NextIsOpen, PTL DEF Spec

-----------------------------------------------------------------------------
(***************************************************************************)
(* The entries of an obligation.                                           *)
(***************************************************************************)

(* What an instruction may do to the sets of entries of an obligation.     *)
Entries(new, old) ==
    \/ /\ DepositReserves(new) \subseteq DepositReserves(old)
       /\ BorrowReserves(new) \subseteq BorrowReserves(old)
    \/ \E r \in Reserves :
          /\ HasRoom(old)
          /\ DepositReserves(new) \subseteq DepositReserves(old) \cup {r}
          /\ BorrowReserves(new) \subseteq BorrowReserves(old)
    \/ \E r \in Reserves :
          /\ HasRoom(old) /\ DepositReserves(old) # {}
          /\ DepositReserves(new) \subseteq DepositReserves(old)
          /\ BorrowReserves(new) \subseteq BorrowReserves(old) \cup {r}

(* What an instruction may do to the rates the debts were charged at: keep *)
(* them, drop a debt, start one at the rate of its reserve, bring all up   *)
(* to the rates of their reserves.                                         *)
Rates(new, old, res) ==
    \A x \in Reserves :
      LET n == new.borrows[x]
          p == old.borrows[x]
          rate == res[x].cumulative_borrow_rate_wads
      IN  \/ /\ n.present = p.present
             /\ n.cumulative_borrow_rate_wads = p.cumulative_borrow_rate_wads
          \/ ~n.present /\ n.cumulative_borrow_rate_wads = 0
          \/ /\ n.present /\ res[x].initialized
             /\ n.cumulative_borrow_rate_wads =
                   IF p.cumulative_borrow_rate_wads = 0 THEN rate ELSE p.cumulative_borrow_rate_wads
          \/ n.present /\ p.present /\ n.cumulative_borrow_rate_wads = rate

(* The collateral in reserve w changes by d, entries and rates as they may.*)
Changed(new, old, res, w, d) ==
    /\ new.initialized = old.initialized
    /\ \A x \in Reserves : new.deposits[x].deposited_amount =
          IF x = w THEN old.deposits[x].deposited_amount + d ELSE old.deposits[x].deposited_amount
    /\ Entries(new, old)
    /\ Rates(new, old, res)

-----------------------------------------------------------------------------
(***************************************************************************)
(* The methods of an obligation.                                           *)
(***************************************************************************)
LEMMA DepositTyped ==
    ASSUME NEW ob \in ObligationRec, NEW r \in Reserves
    PROVE  ob.deposits[r] \in CollateralRec /\ ob.deposits[r].deposited_amount \in Nat
  BY WadAssumption DEF ObligationRec, CollateralRec, U64

LEMMA EntriesFunctions ==
    ASSUME NEW ob \in ObligationRec, NEW r \in Reserves
    PROVE  /\ [ob.deposits EXCEPT ![r] = ob.deposits[r]] = ob.deposits
           /\ [ob.borrows EXCEPT ![r] = ob.borrows[r]] = ob.borrows
  BY DEF ObligationRec

LEMMA AddCollateralChanges ==
    ASSUME NEW res, NEW ob \in ObligationRec, NEW r \in Reserves, NEW a \in U64,
           NEW new \in AddCollateral(ob, r, a)
    PROVE  Changed(MarkStale(new), ob, res, r, a)
<1>1. PICK total :
         /\ new = SetDeposit(ob, r, [ob.deposits[r] EXCEPT !.present = TRUE, !.deposited_amount = total])
         /\ ob.deposits[r].present \/ HasRoom(ob)
         /\ total = ob.deposits[r].deposited_amount + a
  BY DEF AddCollateral, CheckedAdd
<1> DEFINE col == [ob.deposits[r] EXCEPT !.present = TRUE, !.deposited_amount = total]
           deposits == [ob.deposits EXCEPT ![r] = col]
<1>2. new = [ob EXCEPT !.deposits = deposits, !.borrows = ob.borrows]
  BY <1>1, SettingDeposit
<1>3. col.present /\ col.deposited_amount = total
  BY DepositTyped DEF CollateralRec
<1> HIDE DEF col
<1>4. /\ MarkStale(new).deposits = deposits /\ MarkStale(new).borrows = ob.borrows
      /\ MarkStale(new).initialized = ob.initialized
  <2> HIDE DEF deposits
  <2> QED BY <1>2 DEF MarkStale, ObligationRec
<1>5. \A x \in Reserves : deposits[x] = IF x = r THEN col ELSE ob.deposits[x]
  BY DEF ObligationRec
<1> HIDE DEF deposits
<1>6. Entries(MarkStale(new), ob)
  <2>1. BorrowReserves(MarkStale(new)) = BorrowReserves(ob)
    BY <1>4 DEF BorrowReserves
  <2>2. DepositReserves(MarkStale(new)) \subseteq DepositReserves(ob) \cup {r}
    BY <1>4, <1>5 DEF DepositReserves
  <2>3. ob.deposits[r].present => r \in DepositReserves(ob)
    BY DEF DepositReserves
  <2> QED BY <1>1, <2>1, <2>2, <2>3 DEF Entries
<1>7. Rates(MarkStale(new), ob, res)
  BY <1>4 DEF Rates
<1> QED BY <1>1, <1>3, <1>4, <1>5, <1>6, <1>7 DEF Changed

(* A withdrawn entry, or a part of it. *)
LEMMA WithdrawnEntry ==
    ASSUME NEW ob, NEW r, ob.deposits[r] \in CollateralRec, NEW a \in Nat,
           NEW new \in WithdrawCollateral(ob, r, a)
    PROVE  \E col : /\ new = SetDeposit(ob, r, col)
                    /\ col.deposited_amount = ob.deposits[r].deposited_amount + (-a)
                    /\ col.present => ob.deposits[r].present
<1> DEFINE Rest(left) == IF left = 0 THEN NoCollateral ELSE [ob.deposits[r] EXCEPT !.deposited_amount = left]
<1>1. PICK left : /\ new = SetDeposit(ob, r, Rest(left))
                  /\ left = ob.deposits[r].deposited_amount + (-a)
  BY WadAssumption DEF WithdrawCollateral, CheckedSub, CollateralRec, U64
<1>2. Rest(left).deposited_amount = left /\ (Rest(left).present => ob.deposits[r].present)
  BY DEF NoCollateral, CollateralRec
<1> HIDE DEF Rest
<1> QED BY <1>1, <1>2

Reduced(liq, old) ==
    /\ liq.present => old.present
    /\ \/ ~liq.present /\ liq.cumulative_borrow_rate_wads = 0
       \/ /\ liq.present = old.present
          /\ liq.cumulative_borrow_rate_wads = old.cumulative_borrow_rate_wads

LEMMA RepaidEntry ==
    ASSUME NEW ob \in ObligationRec, NEW r \in Reserves, NEW a, NEW new \in RepayDebt(ob, r, a)
    PROVE  \E liq : new = SetBorrow(ob, r, liq) /\ Reduced(liq, ob.borrows[r])
<1> DEFINE Rest(left) == IF left = 0 THEN NoLiquidity
                         ELSE [ob.borrows[r] EXCEPT !.borrowed_amount_wads = left]
<1>1. PICK left : new = SetBorrow(ob, r, Rest(left))
  BY Zenon DEF RepayDebt
<1>2. ob.borrows[r] \in LiquidityRec
  BY DEF ObligationRec
<1>3. Reduced(Rest(left), ob.borrows[r])
  BY <1>2 DEF NoLiquidity, LiquidityRec, Reduced
<1> QED BY <1>1, <1>3

(* Repaying a debt and withdrawing a collateral, one of them or both.      *)
LEMMA LessEntries ==
    ASSUME NEW res, NEW ob \in ObligationRec, NEW r \in Reserves, NEW w \in Reserves, NEW d,
           NEW col, NEW liq, NEW new,
           new = [ob EXCEPT !.deposits = [ob.deposits EXCEPT ![w] = col],
                            !.borrows = [ob.borrows EXCEPT ![r] = liq]],
           col.deposited_amount = ob.deposits[w].deposited_amount + d,
           col.present => ob.deposits[w].present,
           liq.present => ob.borrows[r].present,
           \/ ~liq.present /\ liq.cumulative_borrow_rate_wads = 0
           \/ /\ liq.present = ob.borrows[r].present
              /\ liq.cumulative_borrow_rate_wads = ob.borrows[r].cumulative_borrow_rate_wads
    PROVE  Changed(MarkStale(new), ob, res, w, d)
<1> DEFINE deposits == [ob.deposits EXCEPT ![w] = col]
           borrows == [ob.borrows EXCEPT ![r] = liq]
<1>1. /\ \A x \in Reserves : deposits[x] = IF x = w THEN col ELSE ob.deposits[x]
      /\ \A x \in Reserves : borrows[x] = IF x = r THEN liq ELSE ob.borrows[x]
  BY DEF ObligationRec
<1>2. new = [ob EXCEPT !.deposits = deposits, !.borrows = borrows]
  OBVIOUS
<1> HIDE DEF deposits, borrows
<1>3. /\ MarkStale(new).deposits = deposits /\ MarkStale(new).borrows = borrows
      /\ MarkStale(new).initialized = ob.initialized
  BY <1>2 DEF MarkStale, ObligationRec
<1>4. /\ DepositReserves(MarkStale(new)) \subseteq DepositReserves(ob)
      /\ BorrowReserves(MarkStale(new)) \subseteq BorrowReserves(ob)
  BY <1>1, <1>3 DEF DepositReserves, BorrowReserves
<1>5. Rates(MarkStale(new), ob, res)
  BY <1>1, <1>3 DEF Rates
<1> QED BY <1>1, <1>3, <1>4, <1>5 DEF Changed, Entries

LEMMA WithdrawChanges ==
    ASSUME NEW res, NEW ob \in ObligationRec, NEW w \in Reserves, NEW a \in Nat,
           NEW new \in WithdrawCollateral(ob, w, a)
    PROVE  Changed(MarkStale(new), ob, res, w, -a)
<1>1. PICK col : /\ new = SetDeposit(ob, w, col)
                 /\ col.deposited_amount = ob.deposits[w].deposited_amount + (-a)
                 /\ col.present => ob.deposits[w].present
  BY DepositTyped, WithdrawnEntry
<1>2. new = [ob EXCEPT !.deposits = [ob.deposits EXCEPT ![w] = col],
                       !.borrows = [ob.borrows EXCEPT ![w] = ob.borrows[w]]]
  <2>1. [ob.borrows EXCEPT ![w] = ob.borrows[w]] = ob.borrows
    BY EntriesFunctions
  <2> QED BY <1>1, <2>1 DEF SetDeposit, ObligationRec
<1> QED BY <1>1, <1>2, LessEntries

LEMMA RepayChanges ==
    ASSUME NEW res, NEW ob \in ObligationRec, NEW r \in Reserves, NEW s, NEW new \in RepayDebt(ob, r, s)
    PROVE  Changed(MarkStale(new), ob, res, r, 0)
<1>1. PICK liq : new = SetBorrow(ob, r, liq) /\ Reduced(liq, ob.borrows[r])
  BY RepaidEntry
<1>2. new = [ob EXCEPT !.deposits = [ob.deposits EXCEPT ![r] = ob.deposits[r]],
                       !.borrows = [ob.borrows EXCEPT ![r] = liq]]
  <2>1. new = [ob EXCEPT !.deposits = ob.deposits, !.borrows = [ob.borrows EXCEPT ![r] = liq]]
    BY <1>1, SettingBorrow
  <2>2. [ob.deposits EXCEPT ![r] = ob.deposits[r]] = ob.deposits
    BY EntriesFunctions
  <2> QED BY <2>1, <2>2
<1>3. ob.deposits[r].deposited_amount = ob.deposits[r].deposited_amount + 0
  BY DepositTyped
<1> QED BY <1>1, <1>2, <1>3, LessEntries DEF Reduced

LEMMA SeizeChanges ==
    ASSUME NEW res, NEW ob \in ObligationRec, NEW r \in Reserves, NEW s, NEW repaid \in RepayDebt(ob, r, s),
           NEW w \in Reserves, NEW a \in Nat, NEW new \in WithdrawCollateral(repaid, w, a)
    PROVE  Changed(MarkStale(new), ob, res, w, -a)
<1>1. PICK liq : repaid = SetBorrow(ob, r, liq) /\ Reduced(liq, ob.borrows[r])
  BY RepaidEntry
<1>2. repaid.deposits = ob.deposits
  BY <1>1 DEF SetBorrow, ObligationRec
<1>3. PICK col : /\ new = SetDeposit(repaid, w, col)
                 /\ col.deposited_amount = ob.deposits[w].deposited_amount + (-a)
                 /\ col.present => ob.deposits[w].present
  BY <1>2, DepositTyped, WithdrawnEntry
<1>4. new = [ob EXCEPT !.deposits = [ob.deposits EXCEPT ![w] = col],
                       !.borrows = [ob.borrows EXCEPT ![r] = liq]]
  <2>1. new = SetDeposit(SetBorrow(ob, r, liq), w, col)
    BY <1>1, <1>3
  <2> QED BY <2>1 DEF SetDeposit, SetBorrow, ObligationRec
<1> QED BY <1>1, <1>3, <1>4, LessEntries DEF Reduced

LEMMA OwingEntry ==
    ASSUME NEW ob \in ObligationRec, NEW r \in Reserves, NEW rate, NEW wads,
           NEW new \in AddLiquidity(ob, r, rate, wads)
    PROVE  \E liq : /\ new = SetBorrow(ob, r, liq) /\ (ob.borrows[r].present \/ HasRoom(ob))
                    /\ liq.present
                    /\ liq.cumulative_borrow_rate_wads =
                          IF ob.borrows[r].cumulative_borrow_rate_wads = 0 THEN rate
                          ELSE ob.borrows[r].cumulative_borrow_rate_wads
<1> DEFINE Owing(total) == [ob.borrows[r] EXCEPT !.present = TRUE, !.borrowed_amount_wads = total,
                                                 !.cumulative_borrow_rate_wads = IF @ = 0 THEN rate ELSE @]
<1>1. PICK total : new = SetBorrow(ob, r, Owing(total)) /\ (ob.borrows[r].present \/ HasRoom(ob))
  BY DEF AddLiquidity
<1>2. ob.borrows[r] \in LiquidityRec
  BY DEF ObligationRec
<1>3. /\ Owing(total).present
      /\ Owing(total).cumulative_borrow_rate_wads =
            IF ob.borrows[r].cumulative_borrow_rate_wads = 0 THEN rate
            ELSE ob.borrows[r].cumulative_borrow_rate_wads
  BY <1>2 DEF LiquidityRec
<1> HIDE DEF Owing
<1> QED BY <1>1, <1>3

LEMMA BorrowChanges ==
    ASSUME NEW res, NEW ob \in ObligationRec, NEW r \in Reserves, NEW wads, res[r].initialized,
           NEW new \in AddLiquidity(ob, r, res[r].cumulative_borrow_rate_wads, wads),
           DepositReserves(ob) # {}
    PROVE  Changed(MarkStale(new), ob, res, r, 0)
<1> DEFINE rate == res[r].cumulative_borrow_rate_wads
<1>1. PICK liq : /\ new = SetBorrow(ob, r, liq) /\ (ob.borrows[r].present \/ HasRoom(ob))
                 /\ liq.present
                 /\ liq.cumulative_borrow_rate_wads =
                       IF ob.borrows[r].cumulative_borrow_rate_wads = 0 THEN rate
                       ELSE ob.borrows[r].cumulative_borrow_rate_wads
  BY OwingEntry
<1> DEFINE borrows == [ob.borrows EXCEPT ![r] = liq]
<1>2. new = [ob EXCEPT !.deposits = ob.deposits, !.borrows = borrows]
  <2>1. new = SetBorrow(ob, r, liq)
    BY <1>1
  <2> QED BY <2>1, SettingBorrow
<1>3. \A x \in Reserves : borrows[x] = IF x = r THEN liq ELSE ob.borrows[x]
  BY DEF ObligationRec
<1> HIDE DEF borrows
<1>4. /\ MarkStale(new).deposits = ob.deposits /\ MarkStale(new).borrows = borrows
      /\ MarkStale(new).initialized = ob.initialized
  BY <1>2 DEF MarkStale, ObligationRec
<1>5. Entries(MarkStale(new), ob)
  <2>1. DepositReserves(MarkStale(new)) = DepositReserves(ob)
    BY <1>4 DEF DepositReserves
  <2>2. BorrowReserves(MarkStale(new)) \subseteq BorrowReserves(ob) \cup {r}
    BY <1>3, <1>4 DEF BorrowReserves
  <2>3. ob.borrows[r].present => r \in BorrowReserves(ob)
    BY DEF BorrowReserves
  <2> QED BY <1>1, <2>1, <2>2, <2>3 DEF Entries
<1>6. ob.deposits[r].deposited_amount = ob.deposits[r].deposited_amount + 0
  BY DepositTyped
<1>7. Rates(MarkStale(new), ob, res)
  BY <1>1, <1>3, <1>4 DEF Rates
<1> QED BY <1>4, <1>5, <1>6, <1>7 DEF Changed

(* A refresh values the entries and leaves them where they are. *)
LEMMA RefreshChanges ==
    ASSUME NEW ob \in ObligationRec, NEW res \in [Reserves -> ReserveRec], NEW now \in Nat,
           NEW new \in RefreshObligation(ob, res, now)
    PROVE  /\ new.initialized = ob.initialized
           /\ \A x \in Reserves : new.deposits[x].deposited_amount = ob.deposits[x].deposited_amount
           /\ DepositReserves(new) = DepositReserves(ob)
           /\ Entries(new, ob)
           /\ Rates(new, ob, res)
<1> DEFINE D == DepositReserves(ob)
           Refreshed(x) == RefreshedCollateral(ob.deposits[x], res[x])
           Deps == [x \in Reserves |-> IF x \in D THEN Unwrap(Refreshed(x)) ELSE ob.deposits[x]]
<1>1. /\ \A x \in D : Refreshed(x) # {}
      /\ new.initialized = ob.initialized
      /\ new.deposits = Deps
  BY DEF RefreshObligation, PackObligation, UpdateSlot, ObligationRec
<1>2. ASSUME NEW x \in Reserves
      PROVE  /\ Deps[x].deposited_amount = ob.deposits[x].deposited_amount
             /\ Deps[x].present = ob.deposits[x].present
  <2>1. CASE x \in D
    <3>1. Unwrap(Refreshed(x)) \in Refreshed(x)
      <4> HIDE DEF Refreshed
      <4> QED BY <1>1, <2>1 DEF Unwrap
    <3>2. PICK v : Unwrap(Refreshed(x)) = SetValue(ob.deposits[x], v)
      BY <3>1 DEF RefreshedCollateral
    <3>3. ob.deposits[x] \in CollateralRec
      BY DepositTyped
    <3> HIDE DEF Refreshed
    <3> QED BY <2>1, <3>2, <3>3 DEF SetValue, CollateralRec
  <2>2. CASE x \notin D
    BY <2>2
  <2> QED BY <2>1, <2>2
<1> HIDE DEF Deps
<1>3. DepositReserves(new) = DepositReserves(ob)
  BY <1>1, <1>2 DEF DepositReserves
<1>4. BorrowReserves(new) \subseteq BorrowReserves(ob)
  BY RefreshEffect DEF BorrowReserves
<1>5. Rates(new, ob, res)
  <2> DEFINE B == BorrowReserves(ob)
             Charged(x) == RefreshedLiquidity(ob.borrows[x], res[x])
             Bors == [x \in Reserves |-> IF x \in B THEN Unwrap(Charged(x)) ELSE ob.borrows[x]]
  <2>1. /\ \A x \in B : Charged(x) # {}
        /\ new.borrows = Bors
    BY DEF RefreshObligation, PackObligation, UpdateSlot, ObligationRec
  <2>2. ASSUME NEW x \in Reserves, x \in B
        PROVE  /\ Bors[x].present = ob.borrows[x].present
               /\ Bors[x].cumulative_borrow_rate_wads = res[x].cumulative_borrow_rate_wads
    <3>1. Unwrap(Charged(x)) \in Charged(x)
      <4> HIDE DEF Charged
      <4> QED BY <2>1, <2>2 DEF Unwrap
    <3>2. ob.borrows[x] \in LiquidityRec /\ res[x] \in ReserveRec
      BY DEF ObligationRec
    <3> QED BY <2>2, <3>1, <3>2, RefreshedEffect
  <2>3. ASSUME NEW x \in Reserves, x \notin B
        PROVE  Bors[x] = ob.borrows[x]
    BY <2>3
  <2>4. \A x \in B : ob.borrows[x].present
    BY DEF BorrowReserves
  <2> HIDE DEF Bors, B, Charged
  <2> QED BY <2>1, <2>2, <2>3, <2>4 DEF Rates
<1> QED BY <1>1, <1>2, <1>3, <1>4, <1>5 DEF Entries

-----------------------------------------------------------------------------
(***************************************************************************)
(* The instructions.  Each posts a change of one collateral, which may be  *)
(* none, to one obligation, to the collateral supply of the reserve and to *)
(* the owner's stake in the reserve's pool.                                *)
(***************************************************************************)
Restaked(o, w, d) ==
    stake' = IF reserve[w].config.deposit_staking_pool = NoPool THEN stake
             ELSE [stake EXCEPT ![o][reserve[w].config.deposit_staking_pool] = @ + d]

Posted(o, w, d) ==
    /\ obligation[o].initialized
    /\ Restaked(o, w, d)
    /\ Changed(obligation'[o], obligation[o], reserve, w, d)
    /\ \A p \in Obligations \ {o} : obligation'[p] = obligation[p]
    /\ collateralSupply' = [collateralSupply EXCEPT ![w] = @ + d]

Unposted == UNCHANGED <<obligation, collateralSupply, stake>>

(* An account not initialised holds no collateral. *)
Blank == \A o \in Obligations : ~obligation[o].initialized =>
            \A r \in Reserves : obligation[o].deposits[r].deposited_amount = 0

LEMMA SavedChange ==
    ASSUME TypeOK, NEW o \in Obligations, obligation[o].initialized,
           NEW ob, SaveObligation(o, ob), NEW w \in Reserves, NEW d,
           Changed(ob, obligation[o], reserve, w, d), Restaked(o, w, d),
           collateralSupply' = [collateralSupply EXCEPT ![w] = @ + d]
    PROVE  Posted(o, w, d)
<1>1. obligation' = [obligation EXCEPT ![o] = ob]
  BY DEF SaveObligation, PackObligation
<1> QED BY <1>1 DEF Posted, TypeOK

LEMMA SameStake ==
    ASSUME TypeOK, NEW o \in Obligations, NEW w \in Reserves, UNCHANGED stake
    PROVE  Restaked(o, w, 0)
<1> DEFINE p == reserve[w].config.deposit_staking_pool
<1>1. CASE p = NoPool
  BY <1>1 DEF Restaked
<1>2. CASE p # NoPool
  <2>1. p \in StakingPools
    BY <1>2, PoolTyped DEF TypeOK
  <2> HIDE DEF p
  <2>2. stake \in [Obligations -> [StakingPools -> U64]] /\ U64 \subseteq Int
    BY WadAssumption DEF TypeOK, U64
  <2>3. stake[o][p] + 0 = stake[o][p]
    <3>1. stake[o][p] \in Int
      BY <2>1, <2>2
    <3> QED BY <3>1
  <2>4. [stake EXCEPT ![o][p] = @ + 0] = stake
    <3>1. [stake[o] EXCEPT ![p] = @ + 0] = stake[o]
      BY <2>1, <2>2, <2>3
    <3> QED BY <2>2, <3>1
  <2> QED BY <1>2, <2>4 DEF Restaked, p
<1> QED BY <1>1, <1>2

(* Depositing into the pool and withdrawing from it. *)
LEMMA StakeMoves ==
    ASSUME TypeOK, NEW o \in Obligations, NEW w \in Reserves, NEW amount \in Nat
    PROVE  /\ StakeDeposit(o, reserve[w].config.deposit_staking_pool, amount) => Restaked(o, w, amount)
           /\ StakeWithdraw(o, reserve[w].config.deposit_staking_pool, amount) => Restaked(o, w, -amount)
<1> DEFINE p == reserve[w].config.deposit_staking_pool
<1>1. CASE p = NoPool
  BY <1>1 DEF Restaked, StakeDeposit, StakeWithdraw
<1>2. CASE p # NoPool
  <2>1. p \in StakingPools
    BY <1>2, PoolTyped DEF TypeOK
  <2> HIDE DEF p
  <2>2. stake[o][p] \in Int
    BY <2>1, WadAssumption DEF TypeOK, U64
  <2>3. stake[o][p] - amount = stake[o][p] + (-amount)
    BY <2>2
  <2>4. /\ StakeDeposit(o, p, amount) => stake' = [stake EXCEPT ![o][p] = stake[o][p] + amount]
        /\ StakeWithdraw(o, p, amount) => stake' = [stake EXCEPT ![o][p] = stake[o][p] - amount]
    BY <1>2 DEF StakeDeposit, StakeWithdraw, CheckedAdd, CheckedSub
  <2> QED BY <1>2, <2>3, <2>4 DEF Restaked, p
<1> QED BY <1>1, <1>2

(* No change is a change by zero. *)
LEMMA SavedNoChange ==
    ASSUME TypeOK, NEW o \in Obligations, obligation[o].initialized,
           NEW ob, SaveObligation(o, ob), NEW w \in Reserves,
           Changed(ob, obligation[o], reserve, w, 0), UNCHANGED <<collateralSupply, stake>>
    PROVE  Posted(o, w, 0)
<1>1. collateralSupply[w] \in Int
  BY BalancesInt DEF TypeOK
<1>2. collateralSupply' = [collateralSupply EXCEPT ![w] = @ + 0]
  BY <1>1 DEF TypeOK, Balances
<1> QED BY <1>2, SameStake, SavedChange

LEMMA DebitIs ==
    ASSUME TypeOK, NEW w \in Reserves, NEW a \in Nat
    PROVE  Debit(collateralSupply, w, a) = [collateralSupply EXCEPT ![w] = @ + (-a)]
<1>1. collateralSupply[w] \in Int
  BY BalancesInt DEF TypeOK
<1>2. collateralSupply[w] - a = collateralSupply[w] + (-a)
  BY <1>1
<1> QED BY <1>2 DEF Debit

LEMMA DepositPosts ==
    ASSUME TypeOK, NEW o \in Obligations, NEW r \in Reserves, NEW amount \in U64,
           ProcessDepositObligationCollateral(o, r, amount)
    PROVE  Posted(o, r, amount)
<1>1. obligation[o] \in ObligationRec
  BY DEF TypeOK
<1>2. PICK ob \in AddCollateral(obligation[o], r, amount) : SaveObligation(o, MarkStale(ob))
  BY DEF ProcessDepositObligationCollateral, DepositObligationCollateral
<1>3. collateralSupply' = [collateralSupply EXCEPT ![r] = @ + amount]
  BY DEF ProcessDepositObligationCollateral, Transfer, Credit
<1>4. obligation[o].initialized
  BY DEF ProcessDepositObligationCollateral, DepositObligationCollateral
<1>5. Restaked(o, r, amount)
  <2>1. amount \in Nat
    BY WadAssumption DEF U64
  <2> QED BY <2>1, StakeMoves DEF ProcessDepositObligationCollateral, DepositObligationCollateral
<1> QED BY <1>1, <1>2, <1>3, <1>4, <1>5, AddCollateralChanges, SavedChange

LEMMA DepositBothPosts ==
    ASSUME TypeOK, NEW o \in Obligations, NEW r \in Reserves, NEW amount \in U64,
           ProcessDepositReserveLiquidityAndObligationCollateral(o, r, amount)
    PROVE  \E c \in U64 : Posted(o, r, c)
<1>1. obligation[o] \in ObligationRec /\ reserve[r] \in ReserveRec
  BY DEF TypeOK
<1>2. PICK d \in DepositLiquidity(reserve[r], amount) :
         /\ DepositObligationCollateral(o, r, UpdateSlot(MarkStale(d.reserve), slot), d.collateral_amount)
         /\ collateralSupply' = Credit(collateralSupply, r, d.collateral_amount)
  BY DEF ProcessDepositReserveLiquidityAndObligationCollateral
<1> DEFINE c == d.collateral_amount
<1>3. c \in U64
  BY <1>1, <1>2, DepositEffect
<1>4. PICK ob \in AddCollateral(obligation[o], r, c) : SaveObligation(o, MarkStale(ob))
  BY <1>2 DEF DepositObligationCollateral
<1>5. collateralSupply' = [collateralSupply EXCEPT ![r] = @ + c]
  BY <1>2 DEF Credit
<1>6. obligation[o].initialized
  BY <1>2 DEF DepositObligationCollateral
<1>7. Restaked(o, r, c)
  <2>1. c \in Nat
    BY <1>3, WadAssumption DEF U64
  <2>2. reserve[r].slot = slot
    <3>1. reserve[r].slot \in Nat /\ slot \in Nat /\ ReserveFresh(r)
      BY <1>1 DEF ReserveRec, TypeOK, ProcessDepositReserveLiquidityAndObligationCollateral
    <3> QED BY <3>1, FreshSlot DEF ReserveFresh
  <2>3. UpdateSlot(MarkStale(d.reserve), slot).config = reserve[r].config
    BY <1>1, <1>2, <2>2, DepositEffect DEF Moves
  <2>4. StakeDeposit(o, reserve[r].config.deposit_staking_pool, c)
    BY <1>2, <2>3 DEF DepositObligationCollateral
  <2> QED BY <2>1, <2>4, StakeMoves
<1> HIDE DEF c
<1> QED BY <1>1, <1>3, <1>4, <1>5, <1>6, <1>7, AddCollateralChanges, SavedChange

LEMMA WithdrawPosts ==
    ASSUME TypeOK, NEW o \in Obligations, NEW r \in Reserves, NEW amount \in U64,
           ProcessWithdrawObligationCollateral(o, r, amount)
    PROVE  \E c \in Nat : Posted(o, r, -c)
<1>1. obligation[o] \in ObligationRec /\ obligation[o].deposits[r].deposited_amount \in U64
  BY DepositedTyped DEF TypeOK, OthersTyped
<1>2. PICK w \in WithdrawAmount(obligation[o], r, reserve[r].config.loan_to_value_ratio, amount) :
         /\ \E ob \in WithdrawCollateral(obligation[o], r, w) : SaveObligation(o, MarkStale(ob))
         /\ Transfer(collateralSupply, userCollateral, r, w)
         /\ StakeWithdraw(o, reserve[r].config.deposit_staking_pool, w)
  BY DEF ProcessWithdrawObligationCollateral
<1>3. w \in Nat
  BY <1>1, <1>2, WithdrawAmounts
<1>4. PICK ob \in WithdrawCollateral(obligation[o], r, w) : SaveObligation(o, MarkStale(ob))
  BY <1>2
<1>5. collateralSupply' = [collateralSupply EXCEPT ![r] = @ + (-w)]
  BY <1>2, <1>3, DebitIs DEF Transfer
<1>6. Changed(MarkStale(ob), obligation[o], reserve, r, -w)
  BY <1>1, <1>3, <1>4, WithdrawChanges
<1>7. obligation[o].initialized
  BY DEF ProcessWithdrawObligationCollateral, ObligationFresh
<1>8. Restaked(o, r, -w)
  BY <1>2, <1>3, StakeMoves
<1> QED BY <1>3, <1>4, <1>5, <1>6, <1>7, <1>8, SavedChange

LEMMA LiquidatePosts ==
    ASSUME TypeOK, NEW o \in Obligations, NEW r \in Reserves, NEW w \in Reserves, NEW amount \in U64,
           ProcessLiquidateObligation(o, r, w, amount)
    PROVE  \E c \in Nat : Posted(o, w, -c)
<1>1. obligation[o] \in ObligationRec /\ obligation[o].deposits[w].deposited_amount \in U64
  BY DepositedTyped DEF TypeOK, OthersTyped
<1>2. PICK q \in CalculateLiquidation(reserve[w].config, amount, obligation[o],
                                      obligation[o].borrows[r], obligation[o].deposits[w]) :
         /\ \E repaid \in RepayDebt(obligation[o], r, q.settle) :
              \E seized \in WithdrawCollateral(repaid, w, q.withdraw) : SaveObligation(o, MarkStale(seized))
         /\ Transfer(collateralSupply, userCollateral, w, q.withdraw)
         /\ StakeWithdraw(o, reserve[w].config.deposit_staking_pool, q.withdraw)
  BY DEF ProcessLiquidateObligation
<1> DEFINE c == q.withdraw
<1>3. c \in U64
  BY <1>1, <1>2, LiquidationAmounts
<1>4. c \in Nat
  BY <1>3, WadAssumption DEF U64
<1>5. PICK repaid \in RepayDebt(obligation[o], r, q.settle) :
         \E seized \in WithdrawCollateral(repaid, w, c) : SaveObligation(o, MarkStale(seized))
  BY <1>2
<1>6. PICK seized \in WithdrawCollateral(repaid, w, c) : SaveObligation(o, MarkStale(seized))
  BY <1>5
<1>7. collateralSupply' = [collateralSupply EXCEPT ![w] = @ + (-c)]
  BY <1>2, <1>4, DebitIs DEF Transfer
<1>10. Restaked(o, w, -c)
  BY <1>2, <1>4, StakeMoves
<1> HIDE DEF c
<1>8. Changed(MarkStale(seized), obligation[o], reserve, w, -c)
  BY <1>1, <1>4, <1>5, <1>6, SeizeChanges
<1>9. obligation[o].initialized
  BY DEF ProcessLiquidateObligation, ObligationFresh
<1> QED BY <1>4, <1>6, <1>7, <1>8, <1>9, <1>10, SavedChange

LEMMA BorrowPosts ==
    ASSUME TypeOK, NEW o \in Obligations, NEW r \in Reserves, NEW amount \in U64,
           \/ ProcessBorrowObligationLiquidity(o, r, amount)
           \/ ProcessRepayObligationLiquidity(o, r, amount)
    PROVE  Posted(o, r, 0)
<1>1. obligation[o] \in ObligationRec
  BY DEF TypeOK
<1>2. CASE ProcessBorrowObligationLiquidity(o, r, amount)
  <2>1. PICK wads : \E owing \in AddLiquidity(obligation[o], r, reserve[r].cumulative_borrow_rate_wads, wads) :
                       SaveObligation(o, MarkStale(owing))
    BY <1>2 DEF ProcessBorrowObligationLiquidity
  <2>2. /\ UNCHANGED <<collateralSupply, stake>>
        /\ DepositReserves(obligation[o]) # {} /\ obligation[o].initialized /\ reserve[r].initialized
    BY <1>2 DEF ProcessBorrowObligationLiquidity, ObligationFresh, ReserveFresh
  <2> QED BY <1>1, <2>1, <2>2, BorrowChanges, SavedNoChange
<1>3. CASE ProcessRepayObligationLiquidity(o, r, amount)
  <2>1. PICK settle : \E ob \in RepayDebt(obligation[o], r, settle) : SaveObligation(o, MarkStale(ob))
    BY <1>3 DEF ProcessRepayObligationLiquidity
  <2>2. UNCHANGED <<collateralSupply, stake>> /\ obligation[o].initialized
    BY <1>3 DEF ProcessRepayObligationLiquidity, ObligationFresh
  <2> QED BY <1>1, <2>1, <2>2, RepayChanges, SavedNoChange
<1> QED BY <1>2, <1>3

LEMMA RefreshPosts ==
    ASSUME TypeOK, NEW o \in Obligations, ProcessRefreshObligation(o), NEW r \in Reserves
    PROVE  Posted(o, r, 0)
<1>1. obligation[o] \in ObligationRec /\ reserve \in [Reserves -> ReserveRec] /\ slot \in Nat
  BY DEF TypeOK
<1>2. PICK ob \in RefreshObligation(obligation[o], reserve, slot) :
         obligation' = [obligation EXCEPT ![o] = ob]
  BY DEF ProcessRefreshObligation
<1>3. /\ ob.initialized = obligation[o].initialized
      /\ \A x \in Reserves : ob.deposits[x].deposited_amount = obligation[o].deposits[x].deposited_amount
      /\ Entries(ob, obligation[o])
      /\ Rates(ob, obligation[o], reserve)
  BY <1>1, <1>2, RefreshChanges
<1>4. \A x \in Reserves : obligation[o].deposits[x].deposited_amount \in Nat
  BY <1>1, DepositTyped
<1>5. Changed(ob, obligation[o], reserve, r, 0)
  BY <1>3, <1>4 DEF Changed
<1>6. collateralSupply[r] \in Int
  BY BalancesInt DEF TypeOK
<1>7. collateralSupply' = [collateralSupply EXCEPT ![r] = @ + 0]
  BY <1>6 DEF TypeOK, Balances, ProcessRefreshObligation
<1>8. Restaked(o, r, 0)
  BY SameStake DEF ProcessRefreshObligation
<1> QED BY <1>2, <1>5, <1>7, <1>8 DEF Posted, TypeOK, ProcessRefreshObligation

LEMMA PostsOf ==
    ASSUME TypeOK, NEW o \in Obligations, NEW r \in Reserves, NEW w \in Reserves, NEW amount \in U64,
           \/ ProcessDepositObligationCollateral(o, r, amount)
           \/ ProcessDepositReserveLiquidityAndObligationCollateral(o, r, amount)
           \/ ProcessWithdrawObligationCollateral(o, r, amount)
           \/ ProcessBorrowObligationLiquidity(o, r, amount)
           \/ ProcessRepayObligationLiquidity(o, r, amount)
           \/ ProcessLiquidateObligation(o, r, w, amount)
    PROVE  \E x \in Reserves, d \in Int : Posted(o, x, d)
<1>1. U64 \subseteq Int /\ 0 \in Int /\ \A c \in Nat : -c \in Int
  BY WadAssumption DEF U64
<1> QED BY <1>1, DepositPosts, DepositBothPosts, WithdrawPosts, BorrowPosts, LiquidatePosts

(* Every step posts a change, none, or initialises an account.             *)
LEMMA EveryStepPosts ==
    ASSUME TypeOK, [OpenNext]_vars
    PROVE  \/ Unposted
           \/ \E o \in Obligations : ProcessInitObligation(o) \/ ProcessRefreshObligation(o)
           \/ \E o \in Obligations, w \in Reserves, d \in Int : Posted(o, w, d)
<1>1. Amounts \subseteq U64 /\ 0 \in U64
  BY LendingAssumption, WadAssumption DEF U64
<1>2. ASSUME NEW r \in Reserves, ReserveStep(r) PROVE Unposted
  BY <1>2 DEF ReserveStep, Unposted, ProcessInitReserve, ProcessRefreshReserve,
       ProcessDepositReserveLiquidity, ProcessRedeemReserveCollateral, ProcessFlashLoan,
       ProcessUpdateReserve, ProcessWithdrawFee
<1>3. ASSUME NEW o \in Obligations, ObligationStep(o)
      PROVE  \/ ProcessInitObligation(o) \/ ProcessRefreshObligation(o)
             \/ \E w \in Reserves, d \in Int : Posted(o, w, d)
  <2>1. ASSUME NEW r \in Reserves, NEW w \in Reserves, NEW amount \in U64,
               \/ ProcessDepositObligationCollateral(o, r, amount)
               \/ ProcessDepositReserveLiquidityAndObligationCollateral(o, r, amount)
               \/ ProcessWithdrawObligationCollateral(o, r, amount)
               \/ ProcessBorrowObligationLiquidity(o, r, amount)
               \/ ProcessRepayObligationLiquidity(o, r, amount)
               \/ ProcessLiquidateObligation(o, r, w, amount)
        PROVE  \E x \in Reserves, d \in Int : Posted(o, x, d)
    BY <2>1, PostsOf
  <2> QED BY <1>1, <1>3, <2>1 DEF ObligationStep
<1>4. CASE Tick \/ UNCHANGED vars
  BY <1>4 DEF Tick, vars, Unposted
<1>5. ASSUME NEW r \in Reserves, NEW price \in Rate, AnyPriceStep(r, price) PROVE Unposted
  BY <1>5 DEF AnyPriceStep, Unposted, ProcessInitReserve, ProcessRefreshReserve
<1> QED BY <1>2, <1>3, <1>4, <1>5 DEF OpenNext, Next

-----------------------------------------------------------------------------
(***************************************************************************)
(* The collateral of all obligations.                                      *)
(***************************************************************************)
AllDeposits(r) == [o \in Obligations |-> obligation[o].deposits[r].deposited_amount]

LEMMA ObligationsFinite == IsFiniteSet(Obligations)
<1>1. N \in Int
  BY LendingAssumption
<1> QED BY <1>1, FS_Interval DEF Obligations

LEMMA BackedAfterPosting ==
    ASSUME TypeOK, TypeOK', CollateralBacked,
           NEW o \in Obligations, NEW w \in Reserves, NEW d \in Int, Posted(o, w, d)
    PROVE  CollateralBacked'
<1> SUFFICES ASSUME NEW r \in Reserves
             PROVE  collateralSupply'[r] = SumFunction(AllDeposits(r)')
  BY DEF CollateralBacked, AllDeposits
<1> DEFINE f == AllDeposits(r)
           g == AllDeposits(r)'
<1>1. f \in [Obligations -> Int] /\ g \in [Obligations -> Int]
  <2>1. \A p \in Obligations : obligation[p].deposits[r].deposited_amount \in Nat
    BY DepositTyped DEF TypeOK
  <2>2. \A p \in Obligations : obligation'[p].deposits[r].deposited_amount \in Nat
    BY DepositTyped DEF TypeOK
  <2> QED BY <2>1, <2>2 DEF AllDeposits
<1>2. \A p \in Obligations \ {o} : g[p] = f[p]
  BY DEF Posted, AllDeposits
<1>3. g[o] = IF r = w THEN f[o] + d ELSE f[o]
  BY DEF Posted, Changed, AllDeposits
<1>4. collateralSupply[r] = SumFunction(f)
  BY DEF CollateralBacked, AllDeposits
<1>5. collateralSupply'[r] = IF r = w THEN collateralSupply[r] + d ELSE collateralSupply[r]
  BY DEF Posted, TypeOK, Balances
<1> HIDE DEF f, g
<1>6. SumFunction(f) \in Int /\ SumFunction(g) = SumFunction(f) - f[o] + g[o]
  BY <1>1, <1>2, ObligationsFinite, SumChanged
<1>7. f[o] \in Int
  BY <1>1
<1>8. collateralSupply'[r] = SumFunction(g)
  BY <1>3, <1>4, <1>5, <1>6, <1>7
<1> QED BY <1>8 DEF g

CollateralInv == CollateralBacked /\ Blank

LEMMA CollateralInit == Init => CollateralInv
<1> SUFFICES ASSUME Init PROVE CollateralInv
  OBVIOUS
<1>1. Blank
  BY DEF Init, Blank, EmptyObligation, NoCollateral
<1>2. ASSUME NEW r \in Reserves PROVE collateralSupply[r] = SumFunction(AllDeposits(r))
  <2>1. AllDeposits(r) \in [Obligations -> {0}]
    BY DEF Init, EmptyObligation, NoCollateral, AllDeposits
  <2>2. SumFunction(AllDeposits(r)) = 0
    BY <2>1, ObligationsFinite, SumOfZeros
  <2> QED BY <2>2 DEF Init
<1> QED BY <1>1, <1>2 DEF CollateralInv, CollateralBacked, AllDeposits

LEMMA InitObligationBacked ==
    ASSUME TypeOK, CollateralInv, NEW o \in Obligations, ProcessInitObligation(o)
    PROVE  CollateralInv'
<1>1. obligation' = [obligation EXCEPT ![o] = EmptyObligation(TRUE, slot)]
  BY DEF ProcessInitObligation, SaveObligation, PackObligation
<1>2. ~obligation[o].initialized /\ collateralSupply' = collateralSupply
  BY DEF ProcessInitObligation
<1>3. /\ obligation'[o].initialized
      /\ \A r \in Reserves : obligation'[o].deposits[r].deposited_amount = 0
      /\ \A p \in Obligations \ {o} : obligation'[p] = obligation[p]
  BY <1>1 DEF TypeOK, EmptyObligation, NoCollateral
<1>4. Blank'
  BY <1>3 DEF CollateralInv, Blank
<1>5. \A r \in Reserves, p \in Obligations :
         obligation'[p].deposits[r].deposited_amount = obligation[p].deposits[r].deposited_amount
  BY <1>2, <1>3 DEF CollateralInv, Blank
<1>6. \A r \in Reserves : AllDeposits(r)' = AllDeposits(r)
  BY <1>5 DEF AllDeposits
<1>7. CollateralBacked'
  BY <1>2, <1>6 DEF CollateralInv, CollateralBacked, AllDeposits
<1> QED BY <1>4, <1>7 DEF CollateralInv

LEMMA PostedBacked ==
    ASSUME TypeOK, TypeOK', CollateralInv,
           NEW o \in Obligations, NEW w \in Reserves, NEW d \in Int, Posted(o, w, d)
    PROVE  CollateralInv'
<1>1. Blank'
  BY DEF CollateralInv, Blank, Posted, Changed
<1> QED BY <1>1, BackedAfterPosting DEF CollateralInv

LEMMA CollateralNext == TypeOK /\ TypeOK' /\ CollateralInv /\ [OpenNext]_vars => CollateralInv'
<1> SUFFICES ASSUME TypeOK, TypeOK', CollateralInv, [OpenNext]_vars PROVE CollateralInv'
  OBVIOUS
<1>1. CASE Unposted
  BY <1>1 DEF Unposted, CollateralInv, CollateralBacked, Blank
<1>2. ASSUME NEW o \in Obligations, ProcessRefreshObligation(o) PROVE CollateralInv'
  <2>1. CASE Reserves = {}
    BY <2>1 DEF CollateralInv, CollateralBacked, Blank
  <2>2. ASSUME NEW r \in Reserves PROVE CollateralInv'
    BY <1>2, RefreshPosts, PostedBacked
  <2> QED BY <2>1, <2>2
<1> QED BY <1>1, <1>2, EveryStepPosts, InitObligationBacked, PostedBacked

(* The collateral supply account of a reserve holds exactly the collateral *)
(* recorded in all obligations together, for any number of them: deposits, *)
(* withdrawals and liquidations post the same amount to both books.        *)
THEOREM CollateralIsBacked == Spec => []CollateralBacked
<1>1. CollateralInv => CollateralBacked
  BY DEF CollateralInv
<1> QED BY <1>1, CollateralInit, CollateralNext, TypeCorrect, NextIsOpen, PTL DEF Spec

-----------------------------------------------------------------------------
(***************************************************************************)
(* The size of an obligation.                                              *)
(***************************************************************************)

(* At most MAX_OBLIGATION_RESERVES entries, and not all of them debts.     *)
Roomy(ob) ==
    /\ Cardinality(DepositReserves(ob)) + Cardinality(BorrowReserves(ob)) <= MAX_OBLIGATION_RESERVES
    /\ Cardinality(BorrowReserves(ob)) < MAX_OBLIGATION_RESERVES

EntriesInv == \A o \in Obligations : Roomy(obligation[o])

LEMMA EntriesFinite ==
    ASSUME NEW S, S \subseteq Reserves
    PROVE  IsFiniteSet(S) /\ Cardinality(S) \in Nat
  BY ObligationAssumption, FS_Subset, FS_CardinalityType

LEMMA OneMore ==
    ASSUME NEW S, NEW T, NEW r \in Reserves, S \subseteq Reserves, T \subseteq Reserves, S \subseteq T \cup {r}
    PROVE  Cardinality(S) <= Cardinality(T) + 1
<1>1. T \cup {r} \subseteq Reserves
  OBVIOUS
<1>2. Cardinality(S) <= Cardinality(T \cup {r})
  BY <1>1, EntriesFinite, FS_Subset
<1>3. Cardinality(T \cup {r}) <= Cardinality(T) + 1
  BY EntriesFinite, FS_AddElement
<1>4. Cardinality(S) \in Nat /\ Cardinality(T) \in Nat /\ Cardinality(T \cup {r}) \in Nat
  BY <1>1, EntriesFinite
<1> QED BY <1>2, <1>3, <1>4

LEMMA EntriesRoomy ==
    ASSUME NEW new, NEW old, Entries(new, old), Roomy(old)
    PROVE  Roomy(new)
<1> DEFINE D == DepositReserves(old)
           B == BorrowReserves(old)
           D1 == DepositReserves(new)
           B1 == BorrowReserves(new)
<1>1. D \subseteq Reserves /\ B \subseteq Reserves /\ D1 \subseteq Reserves /\ B1 \subseteq Reserves
  BY DEF DepositReserves, BorrowReserves
<1>2. /\ Cardinality(D) + Cardinality(B) <= MAX_OBLIGATION_RESERVES
      /\ Cardinality(B) < MAX_OBLIGATION_RESERVES
  BY DEF Roomy
<1>3. \/ D1 \subseteq D /\ B1 \subseteq B
      \/ \E r \in Reserves : /\ Cardinality(D) + Cardinality(B) < MAX_OBLIGATION_RESERVES
                           /\ D1 \subseteq D \cup {r} /\ B1 \subseteq B
      \/ \E r \in Reserves : /\ Cardinality(D) + Cardinality(B) < MAX_OBLIGATION_RESERVES /\ D # {}
                           /\ D1 \subseteq D /\ B1 \subseteq B \cup {r}
  BY DEF Entries, HasRoom
<1> SUFFICES /\ Cardinality(D1) + Cardinality(B1) <= MAX_OBLIGATION_RESERVES
             /\ Cardinality(B1) < MAX_OBLIGATION_RESERVES
  BY DEF Roomy
<1> HIDE DEF D, B, D1, B1
<1>4. /\ Cardinality(D) \in Nat /\ Cardinality(B) \in Nat /\ Cardinality(D1) \in Nat /\ Cardinality(B1) \in Nat
      /\ IsFiniteSet(D) /\ IsFiniteSet(B) /\ MAX_OBLIGATION_RESERVES \in Nat
  BY <1>1, EntriesFinite, ObligationAssumption
<1>5. /\ D1 \subseteq D => Cardinality(D1) <= Cardinality(D)
      /\ B1 \subseteq B => Cardinality(B1) <= Cardinality(B)
      /\ D # {} => Cardinality(D) >= 1
  <2>1. D # {} => Cardinality(D) # 0
    BY <1>4, FS_EmptySet
  <2> QED BY <1>4, <2>1, FS_Subset
<1>6. CASE D1 \subseteq D /\ B1 \subseteq B
  BY <1>2, <1>4, <1>5, <1>6
<1>8. ASSUME NEW r \in Reserves, Cardinality(D) + Cardinality(B) < MAX_OBLIGATION_RESERVES,
             D1 \subseteq D \cup {r}, B1 \subseteq B
      PROVE  /\ Cardinality(D1) + Cardinality(B1) <= MAX_OBLIGATION_RESERVES
             /\ Cardinality(B1) < MAX_OBLIGATION_RESERVES
  <2>1. Cardinality(D1) <= Cardinality(D) + 1
    BY <1>1, <1>8, OneMore
  <2>2. Cardinality(B1) <= Cardinality(B)
    BY <1>5, <1>8
  <2> QED BY <1>4, <1>8, <2>1, <2>2
<1>9. ASSUME NEW r \in Reserves, Cardinality(D) + Cardinality(B) < MAX_OBLIGATION_RESERVES, D # {},
             D1 \subseteq D, B1 \subseteq B \cup {r}
      PROVE  /\ Cardinality(D1) + Cardinality(B1) <= MAX_OBLIGATION_RESERVES
             /\ Cardinality(B1) < MAX_OBLIGATION_RESERVES
  <2>1. Cardinality(B1) <= Cardinality(B) + 1
    BY <1>1, <1>9, OneMore
  <2>2. Cardinality(D1) <= Cardinality(D) /\ Cardinality(D) >= 1
    BY <1>5, <1>9
  <2> QED BY <1>4, <1>9, <2>1, <2>2
<1> QED BY <1>3, <1>6, <1>8, <1>9

LEMMA EmptyRoomy ==
    ASSUME NEW initialized, NEW now PROVE Roomy(EmptyObligation(initialized, now))
<1>1. /\ DepositReserves(EmptyObligation(initialized, now)) = {}
      /\ BorrowReserves(EmptyObligation(initialized, now)) = {}
  BY DEF DepositReserves, BorrowReserves, EmptyObligation, NoCollateral, NoLiquidity
<1>2. Cardinality({}) = 0
  BY FS_EmptySet
<1> QED BY <1>1, <1>2, ObligationAssumption DEF Roomy

LEMMA EntriesNext == TypeOK /\ EntriesInv /\ [OpenNext]_vars => EntriesInv'
<1> SUFFICES ASSUME TypeOK, EntriesInv, [OpenNext]_vars PROVE EntriesInv'
  OBVIOUS
<1>1. CASE Unposted
  BY <1>1 DEF Unposted, EntriesInv
<1>2. ASSUME NEW o \in Obligations, ProcessInitObligation(o) PROVE EntriesInv'
  <2>1. obligation' = [obligation EXCEPT ![o] = EmptyObligation(TRUE, slot)]
    BY <1>2 DEF ProcessInitObligation, SaveObligation, PackObligation
  <2> QED BY <2>1, EmptyRoomy DEF EntriesInv, TypeOK
<1>3. ASSUME NEW o \in Obligations, ProcessRefreshObligation(o) PROVE EntriesInv'
  <2>1. obligation[o] \in ObligationRec /\ reserve \in [Reserves -> ReserveRec] /\ slot \in Nat
    BY DEF TypeOK
  <2>2. PICK ob \in RefreshObligation(obligation[o], reserve, slot) :
           obligation' = [obligation EXCEPT ![o] = ob]
    BY <1>3 DEF ProcessRefreshObligation
  <2>3. Entries(ob, obligation[o])
    BY <2>1, <2>2, RefreshChanges
  <2> QED BY <2>2, <2>3, EntriesRoomy DEF EntriesInv, TypeOK
<1>4. ASSUME NEW o \in Obligations, NEW w \in Reserves, NEW d \in Int, Posted(o, w, d)
      PROVE  EntriesInv'
  BY <1>4, EntriesRoomy DEF EntriesInv, Posted, Changed
<1> QED BY <1>1, <1>2, <1>3, <1>4, EveryStepPosts

LEMMA EntriesInit == Init => EntriesInv
<1> SUFFICES ASSUME Init, NEW o \in Obligations PROVE Roomy(obligation[o])
  BY DEF EntriesInv
<1>1. obligation[o] = EmptyObligation(FALSE, 0)
  BY DEF Init
<1> QED BY <1>1, EmptyRoomy

LEMMA EntriesFit == EntriesInv => ObligationFits
<1> SUFFICES ASSUME EntriesInv, NEW o \in Obligations
             PROVE  OBLIGATION_COLLATERAL_LEN * Cardinality(DepositReserves(obligation[o]))
                      + OBLIGATION_LIQUIDITY_LEN * Cardinality(BorrowReserves(obligation[o]))
                      <= OBLIGATION_COLLATERAL_LEN
                           + OBLIGATION_LIQUIDITY_LEN * (MAX_OBLIGATION_RESERVES - 1)
  BY DEF ObligationFits
<1> DEFINE d == Cardinality(DepositReserves(obligation[o]))
           b == Cardinality(BorrowReserves(obligation[o]))
<1>1. d \in Nat /\ b \in Nat
  BY EntriesFinite DEF DepositReserves, BorrowReserves
<1>2. d + b <= MAX_OBLIGATION_RESERVES /\ b < MAX_OBLIGATION_RESERVES
  BY DEF EntriesInv, Roomy
<1> HIDE DEF d, b
<1>3. 56 * d + 80 * b <= 56 + 80 * (MAX_OBLIGATION_RESERVES - 1)
  BY <1>1, <1>2, ObligationAssumption
<1> QED BY <1>3 DEF OBLIGATION_COLLATERAL_LEN, OBLIGATION_LIQUIDITY_LEN, d, b

(* The entries of an obligation always fit into its account, for any       *)
(* number of reserves: no sequence of deposits, borrows, withdrawals,      *)
(* repayments and liquidations makes pack run out of bytes.                *)
THEOREM ObligationAlwaysFits == Spec => []ObligationFits
  BY EntriesInit, EntriesFit, EntriesNext, TypeCorrect, NextIsOpen, PTL DEF Spec

-----------------------------------------------------------------------------
(***************************************************************************)
(* The rates of the debts and of their reserves.                           *)
(***************************************************************************)

(* Accruing interest never lowers the rate of a reserve. *)
LEMMA AccrueGrows ==
    ASSUME NEW res \in ReserveRec, NEW now \in Nat, NEW new \in AccrueInterest(res, now)
    PROVE  new.cumulative_borrow_rate_wads >= res.cumulative_borrow_rate_wads
<1> DEFINE cum == res.cumulative_borrow_rate_wads
<1>1. cum \in Nat
  BY WadAssumption DEF ReserveRec, Rate
<1>2. PICK elapsed \in SlotsElapsed(res, now) :
         IF elapsed > 0
         THEN \E rate : \E factor \in CompoundedInterestRate(rate, elapsed) : new \in CompoundInterest(res, factor)
         ELSE new = res
  BY DEF AccrueInterest
<1>3. elapsed \in Nat
  BY <1>2 DEF SlotsElapsed
<1>4. CASE new = res
  BY <1>1, <1>4
<1>5. ASSUME NEW rate, NEW factor \in CompoundedInterestRate(rate, elapsed), new \in CompoundInterest(res, factor)
      PROVE  new.cumulative_borrow_rate_wads >= cum
  <2>1. PICK cumulative \in TryMul(cum, factor) : \E borrowed : new = Compounded(res, cumulative, borrowed)
    BY <1>5 DEF CompoundInterest
  <2>2. factor \in Nat /\ factor >= WAD
    BY <1>3, <1>5, FactorAtLeastOne
  <2>3. cumulative >= cum
    <3> HIDE DEF cum
    <3> QED BY <1>1, <2>1, <2>2, RoundedProduct
  <2>4. new.cumulative_borrow_rate_wads = cumulative
    BY <2>1 DEF Compounded, ReserveRec
  <2> QED BY <2>3, <2>4
<1> QED BY <1>2, <1>4, <1>5

(* A reserve in use has a rate.  A debt carries a rate no higher than its  *)
(* reserve's, and an entry that is no debt carries none: a borrow starts  *)
(* a debt with the rate it finds there, unless that is zero.               *)
Charged(debt, res) ==
    IF debt.present
    THEN /\ res.initialized
         /\ debt.cumulative_borrow_rate_wads > 0
         /\ debt.cumulative_borrow_rate_wads <= res.cumulative_borrow_rate_wads
    ELSE debt.cumulative_borrow_rate_wads = 0

RateInv ==
    /\ \A r \in Reserves : reserve[r].initialized => reserve[r].cumulative_borrow_rate_wads > 0
    /\ \A o \in Obligations, r \in Reserves : Charged(obligation[o].borrows[r], reserve[r])

LEMMA RatesTyped ==
    ASSUME TypeOK
    PROVE  /\ \A r \in Reserves : reserve[r].cumulative_borrow_rate_wads \in Nat
           /\ \A o \in Obligations, r \in Reserves :
                 obligation[o].borrows[r].cumulative_borrow_rate_wads \in Nat
<1>1. Rate \subseteq Nat /\ Decimal \subseteq Nat
  BY WadAssumption DEF Rate, Decimal
<1>2. \A r \in Reserves : reserve[r].cumulative_borrow_rate_wads \in Nat
  BY <1>1 DEF TypeOK, ReserveRec
<1>3. ASSUME NEW o \in Obligations, NEW r \in Reserves
      PROVE  obligation[o].borrows[r].cumulative_borrow_rate_wads \in Nat
  <2>1. obligation[o].borrows[r] \in LiquidityRec
    BY DEF TypeOK, ObligationRec
  <2> QED BY <1>1, <2>1 DEF LiquidityRec
<1> QED BY <1>2, <1>3

(* What an instruction does to the debts of one obligation. *)
LEMMA RatesCharged ==
    ASSUME TypeOK, RateInv, RatesKept, NEW o \in Obligations,
           Rates(obligation'[o], obligation[o], reserve),
           \A p \in Obligations \ {o} : obligation'[p] = obligation[p]
    PROVE  RateInv'
<1>1. \A r \in Reserves : reserve'[r].initialized => reserve'[r].cumulative_borrow_rate_wads > 0
  BY DEF RateInv, RatesKept
<1>2. ASSUME NEW r \in Reserves PROVE Charged(obligation'[o].borrows[r], reserve[r])
  <2>1. /\ Charged(obligation[o].borrows[r], reserve[r])
        /\ reserve[r].initialized => reserve[r].cumulative_borrow_rate_wads > 0
    BY DEF RateInv
  <2>2. /\ reserve[r].cumulative_borrow_rate_wads \in Nat
        /\ obligation[o].borrows[r].cumulative_borrow_rate_wads \in Nat
    BY RatesTyped
  <2> QED BY <2>1, <2>2 DEF Rates, Charged
<1>3. ASSUME NEW p \in Obligations, NEW r \in Reserves
      PROVE  Charged(obligation'[p].borrows[r], reserve'[r])
  <2>1. Charged(obligation'[p].borrows[r], reserve[r])
    BY <1>2 DEF RateInv
  <2> QED BY <2>1 DEF Charged, RatesKept
<1> QED BY <1>1, <1>3 DEF RateInv

LEMMA SameObligationsCharged ==
    ASSUME RateInv, RatesKept, UNCHANGED obligation
    PROVE  RateInv'
  BY DEF RateInv, RatesKept, Charged

LEMMA InitReserveCharged ==
    ASSUME TypeOK, RateInv, NEW r \in Reserves, NEW amount \in U64, NEW price \in Rate,
           NEW unit \in MintUnits, NEW c \in Configs,
           ProcessInitReserve(r, amount, price, unit, c)
    PROVE  RateInv'
<1> DEFINE new == NewReserve(price, unit, c)
<1>1. new \in ReserveRec /\ new.cumulative_borrow_rate_wads = WAD /\ new.initialized
  BY WadAssumption DEF NewReserve, ReserveRec, TypeOK, U64, Rate
<1>2. PICK d \in DepositLiquidity(new, amount) : SaveReserve(r, d.reserve)
  BY DEF ProcessInitReserve
<1> HIDE DEF new
<1>3. Moves(d.reserve, new, amount, d.collateral_amount)
  BY <1>1, <1>2, DepositEffect
<1>4. /\ reserve'[r].cumulative_borrow_rate_wads = WAD
      /\ \A x \in Reserves \ {r} : reserve'[x] = reserve[x]
  BY <1>1, <1>2, <1>3 DEF SaveReserve, Pack, Moves, TypeOK
<1>5. WAD > 0 /\ obligation' = obligation /\ ~reserve[r].initialized
  BY WadAssumption DEF ProcessInitReserve
<1>6. \A o \in Obligations : Charged(obligation[o].borrows[r], reserve'[r])
  BY <1>5 DEF RateInv, Charged
<1> QED BY <1>4, <1>5, <1>6 DEF RateInv

LEMMA RefreshReserveCharged ==
    ASSUME TypeOK, TypeOK', RateInv, NEW r \in Reserves, NEW price \in Rate,
           ProcessRefreshReserve(r, price)
    PROVE  RateInv'
<1>1. reserve[r] \in ReserveRec /\ Priced(r, price) \in ReserveRec /\ slot \in Nat
  BY DEF TypeOK, Priced, ReserveRec
<1>2. /\ Priced(r, price).initialized = reserve[r].initialized
      /\ Priced(r, price).cumulative_borrow_rate_wads = reserve[r].cumulative_borrow_rate_wads
  BY <1>1 DEF Priced, ReserveRec
<1>3. PICK accrued \in AccrueInterest(Priced(r, price), slot) : SaveReserve(r, UpdateSlot(accrued, slot))
  BY DEF ProcessRefreshReserve
<1>4. \/ accrued = Priced(r, price)
      \/ \E cumulative, borrowed : accrued = Compounded(Priced(r, price), cumulative, borrowed)
  BY <1>1, <1>3, AccrueEffect
<1>5. accrued.cumulative_borrow_rate_wads >= reserve[r].cumulative_borrow_rate_wads
  BY <1>1, <1>2, <1>3, AccrueGrows
<1>6. /\ UpdateSlot(accrued, slot).initialized = reserve[r].initialized
      /\ UpdateSlot(accrued, slot).cumulative_borrow_rate_wads = accrued.cumulative_borrow_rate_wads
  BY <1>1, <1>2, <1>4 DEF Compounded, UpdateSlot, ReserveRec
<1>7. /\ reserve'[r] = UpdateSlot(accrued, slot)
      /\ \A x \in Reserves \ {r} : reserve'[x] = reserve[x]
  BY <1>3 DEF SaveReserve, Pack, TypeOK
<1>8. /\ reserve[r].cumulative_borrow_rate_wads \in Nat
      /\ reserve'[r].cumulative_borrow_rate_wads \in Nat
  <2>1. Rate \subseteq Nat
    BY WadAssumption DEF Rate
  <2>2. reserve'[r] \in ReserveRec
    BY DEF TypeOK
  <2> QED BY <1>1, <2>1, <2>2 DEF ReserveRec
<1>9. reserve[r].initialized /\ obligation' = obligation
  BY DEF ProcessRefreshReserve
<1>10. /\ reserve'[r].initialized /\ reserve'[r].cumulative_borrow_rate_wads > 0
       /\ reserve'[r].cumulative_borrow_rate_wads >= reserve[r].cumulative_borrow_rate_wads
  <2>1. reserve[r].cumulative_borrow_rate_wads > 0
    BY <1>9 DEF RateInv
  <2>2. /\ reserve'[r].initialized
        /\ reserve'[r].cumulative_borrow_rate_wads >= reserve[r].cumulative_borrow_rate_wads
    BY <1>5, <1>6, <1>7, <1>9
  <2> QED BY <1>8, <2>1, <2>2
<1>11. ASSUME NEW o \in Obligations PROVE Charged(obligation[o].borrows[r], reserve'[r])
  <2>1. Charged(obligation[o].borrows[r], reserve[r])
    BY DEF RateInv
  <2>2. obligation[o].borrows[r].cumulative_borrow_rate_wads \in Nat
    BY RatesTyped
  <2> QED BY <1>8, <1>10, <2>1, <2>2 DEF Charged
<1> QED BY <1>7, <1>9, <1>10, <1>11 DEF RateInv

LEMMA InitObligationCharged ==
    ASSUME TypeOK, RateInv, NEW o \in Obligations, ProcessInitObligation(o)
    PROVE  RateInv'
<1>1. obligation' = [obligation EXCEPT ![o] = EmptyObligation(TRUE, slot)] /\ reserve' = reserve
  BY DEF ProcessInitObligation, SaveObligation, PackObligation
<1>2. \A r \in Reserves : Charged(obligation'[o].borrows[r], reserve[r])
  BY <1>1 DEF TypeOK, EmptyObligation, NoLiquidity, Charged
<1>3. \A p \in Obligations \ {o} : obligation'[p] = obligation[p]
  BY <1>1 DEF TypeOK
<1> QED BY <1>1, <1>2, <1>3 DEF RateInv

LEMMA RefreshObligationCharged ==
    ASSUME TypeOK, RateInv, NEW o \in Obligations, ProcessRefreshObligation(o)
    PROVE  RateInv'
<1>1. obligation[o] \in ObligationRec /\ reserve \in [Reserves -> ReserveRec] /\ slot \in Nat
  BY DEF TypeOK
<1>2. PICK ob \in RefreshObligation(obligation[o], reserve, slot) :
         obligation' = [obligation EXCEPT ![o] = ob]
  BY DEF ProcessRefreshObligation
<1>3. Rates(ob, obligation[o], reserve)
  BY <1>1, <1>2, RefreshChanges
<1>4. obligation'[o] = ob /\ \A p \in Obligations \ {o} : obligation'[p] = obligation[p]
  BY <1>2 DEF TypeOK
<1>5. RatesKept
  BY DEF ProcessRefreshObligation, RatesKept
<1> QED BY <1>3, <1>4, <1>5, RatesCharged

LEMMA PostedCharged ==
    ASSUME TypeOK, RateInv, RatesKept, NEW o \in Obligations, NEW w \in Reserves, NEW d \in Int,
           Posted(o, w, d)
    PROVE  RateInv'
  BY RatesCharged DEF Posted, Changed

LEMMA RateNext == TypeOK /\ TypeOK' /\ RateInv /\ [OpenNext]_vars => RateInv'
<1> SUFFICES ASSUME TypeOK, TypeOK', RateInv, [OpenNext]_vars PROVE RateInv'
  OBVIOUS
<1>1. /\ Amounts \subseteq U64
      /\ \A r \in Reserves : PricesFor[r] \subseteq Rate /\ ConfigsFor[r] \subseteq Configs
      /\ 0 \in U64
  BY LendingAssumption, WadAssumption DEF U64
<1>2. ASSUME NEW r \in Reserves, ReserveStep(r) PROVE RateInv'
  <2>1. CASE \E amount \in Amounts, price \in PricesFor[r], unit \in MintUnits, c \in ConfigsFor[r] :
                ProcessInitReserve(r, amount, price, unit, c)
    BY <1>1, <2>1, InitReserveCharged
  <2>2. CASE \E price \in PricesFor[r] : ProcessRefreshReserve(r, price)
    BY <1>1, <2>2, RefreshReserveCharged
  <2>3. ASSUME NEW amount \in U64,
               \/ ProcessDepositReserveLiquidity(r, amount)
               \/ ProcessRedeemReserveCollateral(r, amount)
               \/ \E overpaid : ProcessFlashLoan(r, amount, overpaid)
               \/ \E c : ProcessUpdateReserve(r, c)
               \/ ProcessWithdrawFee(r)
        PROVE  RateInv'
    BY <2>3, ReserveKept, SameObligationsCharged
  <2> QED BY <1>1, <1>2, <2>1, <2>2, <2>3 DEF ReserveStep
<1>3. ASSUME NEW o \in Obligations, ObligationStep(o) PROVE RateInv'
  <2>1. CASE ProcessInitObligation(o) \/ ProcessRefreshObligation(o)
    BY <2>1, InitObligationCharged, RefreshObligationCharged
  <2>2. ASSUME NEW r \in Reserves, NEW w \in Reserves, NEW amount \in U64,
               \/ ProcessDepositObligationCollateral(o, r, amount)
               \/ ProcessDepositReserveLiquidityAndObligationCollateral(o, r, amount)
               \/ ProcessWithdrawObligationCollateral(o, r, amount)
               \/ ProcessBorrowObligationLiquidity(o, r, amount)
               \/ ProcessRepayObligationLiquidity(o, r, amount)
               \/ ProcessLiquidateObligation(o, r, w, amount)
        PROVE  RateInv'
    <3>1. RatesKept
      BY <2>2, DepositCollateralKept, DepositBothKept, BorrowKept, RepayKept
    <3>2. \E x \in Reserves, d \in Int : Posted(o, x, d)
      BY <2>2, PostsOf
    <3> QED BY <3>1, <3>2, PostedCharged
  <2> QED BY <1>1, <1>3, <2>1, <2>2 DEF ObligationStep
<1>4. CASE Tick \/ UNCHANGED vars
  <2>1. RatesKept /\ UNCHANGED obligation
    BY <1>4 DEF Tick, vars, RatesKept
  <2> QED BY <2>1, SameObligationsCharged
<1>5. ASSUME NEW r \in Reserves, NEW price \in Rate, AnyPriceStep(r, price) PROVE RateInv'
  BY <1>1, <1>5, InitReserveCharged, RefreshReserveCharged DEF AnyPriceStep
<1> QED BY <1>2, <1>3, <1>4, <1>5 DEF OpenNext, Next

LEMMA RateInit == Init => RateInv
  BY DEF Init, RateInv, Charged, UninitializedReserve, EmptyObligation, NoLiquidity

LEMMA RateSound == RateInv => RateNeverAhead
  BY DEF RateInv, Charged, RateNeverAhead

(* The rate a debt was last charged at is positive and never above the     *)
(* rate of its reserve, for any rates, any number of slots and any order   *)
(* of instructions: accrue_interest of an obligation meets neither a       *)
(* negative interest rate nor a division by zero.                          *)
THEOREM RateIsNeverAhead == Spec => []RateNeverAhead
  BY RateInit, RateSound, RateNext, TypeCorrect, NextIsOpen, PTL DEF Spec

-----------------------------------------------------------------------------
(***************************************************************************)
(* Values: an amount of liquidity at a price, an amount of collateral at   *)
(* an exchange rate, and what taking a part of it leaves.                  *)
(***************************************************************************)
(* The value of an amount of liquidity in wads, as MarketValue rounds it.  *)
Valued(wads, price, unit) == ((wads * price) \div WAD) \div unit

LEMMA ValuedIs ==
    ASSUME NEW w \in Nat, NEW price \in Nat, NEW unit \in Nat, unit > 0
    PROVE  /\ Valued(w, price, unit) \in Nat
           /\ WAD * unit \in Nat /\ WAD * unit > 0
           /\ Valued(w, price, unit) * (WAD * unit) <= w * price
           /\ w * price < Valued(w, price, unit) * (WAD * unit) + WAD * unit
<1>1. w * price \in Nat /\ WAD \in Nat /\ WAD > 0
  BY WadAssumption
<1> QED BY <1>1, TwiceRounded DEF Valued

LEMMA ValuedMonotone ==
    ASSUME NEW w \in Nat, NEW v \in Nat, w <= v, NEW price \in Nat, NEW unit \in Nat, unit > 0
    PROVE  Valued(w, price, unit) <= Valued(v, price, unit)
<1> DEFINE W == WAD * unit
           m == Valued(w, price, unit)
           n == Valued(v, price, unit)
<1>1. m \in Nat /\ n \in Nat /\ W \in Nat /\ W > 0
  BY ValuedIs
<1>2. m * W <= w * price /\ v * price < n * W + W
  BY ValuedIs
<1>3. w * price <= v * price /\ w * price \in Nat /\ v * price \in Nat
  BY TimesMonotone
<1> HIDE DEF m, n, W
<1>4. m * W \in Nat /\ n * W \in Nat /\ (n + 1) * W = n * W + W
  BY <1>1
<1> SUFFICES ASSUME n < m PROVE FALSE
  BY <1>1 DEF m, n
<1>5. (n + 1) * W <= m * W
  <2>1. n + 1 <= m /\ n + 1 \in Nat
    BY <1>1
  <2> QED BY <1>1, <2>1, TimesMonotone
<1> QED BY <1>1, <1>2, <1>3, <1>4, <1>5

(* Rounding a sum gains at most one over the sum of the rounded. *)
LEMMA ValuedSum ==
    ASSUME NEW w \in Nat, NEW v \in Nat, NEW price \in Nat, NEW unit \in Nat, unit > 0
    PROVE  Valued(w + v, price, unit) <= Valued(w, price, unit) + Valued(v, price, unit) + 1
<1> DEFINE W == WAD * unit
           m == Valued(w, price, unit)
           n == Valued(v, price, unit)
           s == Valued(w + v, price, unit)
<1>0. w + v \in Nat
  OBVIOUS
<1>1. m \in Nat /\ n \in Nat /\ s \in Nat /\ W \in Nat /\ W > 0
  BY <1>0, ValuedIs
<1>2. w * price < m * W + W /\ v * price < n * W + W /\ s * W <= (w + v) * price
  BY <1>0, ValuedIs
<1>3. (w + v) * price = w * price + v * price /\ w * price \in Nat /\ v * price \in Nat
  OBVIOUS
<1> HIDE DEF m, n, s, W
<1>4. /\ m * W \in Nat /\ n * W \in Nat /\ s * W \in Nat
      /\ (m + n + 2) * W = (m * W + W) + (n * W + W)
  BY <1>1
<1>5. s * W < (m + n + 2) * W
  BY <1>1, <1>2, <1>3, <1>4
<1> SUFFICES ASSUME m + n + 2 <= s PROVE FALSE
  BY <1>1 DEF m, n, s
<1>6. (m + n + 2) * W <= s * W
  BY <1>1, TimesMonotone
<1> QED BY <1>1, <1>4, <1>5, <1>6

(* The part b of an amount a keeps its part of the liquidity l and of its  *)
(* value, but for what rounding takes.                                     *)
LEMMA PartOfLiquidity ==
    ASSUME NEW a \in Nat, NEW b \in Nat, NEW s \in Nat, NEW rate \in Nat, rate > 0,
           NEW k \in Nat, NEW l \in Nat, k * rate <= a * s, b * s < l * rate + rate
    PROVE  k * b <= a * (l + 1)
<1>1. k * rate \in Nat /\ a * s \in Nat /\ b * s \in Nat /\ l * rate + rate \in Nat
  OBVIOUS
<1>2. (k * rate) * b <= (a * s) * b
  BY <1>1, TimesMonotone
<1>3. (b * s) * a <= (l * rate + rate) * a
  BY <1>1, TimesMonotone
<1>4. /\ (k * rate) * b = (k * b) * rate
      /\ (a * s) * b = (b * s) * a
      /\ (l * rate + rate) * a = (a * (l + 1)) * rate
      /\ (k * b) * rate \in Nat /\ (b * s) * a \in Nat /\ (a * (l + 1)) * rate \in Nat
  BY <1>1
<1>5. k * b \in Nat /\ a * (l + 1) \in Nat
  OBVIOUS
<1>6. (k * b) * rate <= (a * (l + 1)) * rate
  BY <1>2, <1>3, <1>4
<1> QED BY <1>5, <1>6, TimesCancels

LEMMA PartOfValue ==
    ASSUME NEW a \in Nat, a > 0, NEW b \in Nat, NEW k \in Nat, NEW l \in Nat, k * b <= a * (l + 1),
           NEW p \in Nat, NEW u \in Nat, u > 0, NEW m \in Nat, NEW v \in Nat, NEW t \in Nat,
           m * u <= k * p, l * p < v * u + u, p < t * u + u
    PROVE  m * b < a * (v + t + 2)
<1>1. /\ m * u \in Nat /\ k * p \in Nat /\ l * p \in Nat /\ v * u + u \in Nat /\ t * u + u \in Nat
      /\ k * b \in Nat /\ a * (l + 1) \in Nat
  OBVIOUS
<1>2. (m * u) * b <= (k * p) * b
  BY <1>1, TimesMonotone
<1>3. (k * b) * p <= (a * (l + 1)) * p
  BY <1>1, TimesMonotone
<1>4. l * p + p + 1 <= (v + t + 2) * u
  <2>1. (v + t + 2) * u = (v * u + u) + (t * u + u)
    OBVIOUS
  <2> QED BY <1>1, <2>1
<1>5. (l * p + p + 1) * a <= ((v + t + 2) * u) * a
  <2>1. l * p + p + 1 \in Nat /\ (v + t + 2) * u \in Nat
    BY <1>1
  <2> QED BY <1>4, <2>1, TimesMonotone
<1>6. (l * p + p + 1) * a = (a * (l + 1)) * p + a
  OBVIOUS
<1>7. ((v + t + 2) * u) * a = (a * (v + t + 2)) * u
  OBVIOUS
<1>8. (m * u) * b = (m * b) * u /\ (k * p) * b = (k * b) * p
  OBVIOUS
<1> DEFINE x == m * b
           y == a * (v + t + 2)
           z == (a * (l + 1)) * p
           n == (k * b) * p
<1>9. x \in Nat /\ y \in Nat /\ z \in Nat /\ n \in Nat
  BY <1>1
<1>10. x * u <= n /\ n <= z /\ z + a <= y * u
  BY <1>2, <1>3, <1>5, <1>6, <1>7, <1>8
<1> HIDE DEF x, y, z, n
<1>11. x * u < y * u /\ x * u \in Nat /\ y * u \in Nat
  BY <1>9, <1>10
<1>12. x < y
  <2> SUFFICES ASSUME y <= x PROVE FALSE
    BY <1>9
  <2>1. y * u <= x * u
    BY <1>9, TimesMonotone
  <2> QED BY <1>11, <2>1
<1> QED BY <1>12 DEF x, y

(* the value of collateral, liquidity per collateral at the exchange rate *)
WorthAt(amount, rate, price, unit) == Valued((amount * WAD * WAD) \div rate, price, unit)

LEMMA WorthLeft ==
    ASSUME NEW a \in Nat, a > 0, NEW b \in Nat, NEW rate \in Nat, rate > 0,
           NEW price \in Nat, NEW unit \in Nat, unit > 0
    PROVE  /\ WorthAt(a, rate, price, unit) \in Nat /\ WorthAt(b, rate, price, unit) \in Nat
           /\ price \div (WAD * unit) \in Nat
           /\ WorthAt(a, rate, price, unit) * b
                < a * (WorthAt(b, rate, price, unit) + (price \div (WAD * unit)) + 2)
<1> DEFINE s == WAD * WAD
           k == (a * WAD * WAD) \div rate
           l == (b * WAD * WAD) \div rate
           u == WAD * unit
           t == price \div u
           m == Valued(k, price, unit)
           v == Valued(l, price, unit)
<1>1. s \in Nat /\ a * WAD * WAD = a * s /\ b * WAD * WAD = b * s /\ a * s \in Nat /\ b * s \in Nat
  BY WadAssumption
<1>2. k \in Nat /\ l \in Nat /\ k * rate <= a * s /\ b * s < l * rate + rate
  <2> HIDE DEF s
  <2> QED BY <1>1, Quotient
<1> HIDE DEF k, l, s
<1>3. k * b <= a * (l + 1)
  BY <1>1, <1>2, PartOfLiquidity
<1>4. /\ m \in Nat /\ v \in Nat /\ u \in Nat /\ u > 0
      /\ m * u <= k * price /\ l * price < v * u + u
  BY <1>2, ValuedIs
<1> HIDE DEF m, v, u
<1>5. t \in Nat /\ price < t * u + u
  BY <1>4, Quotient
<1> HIDE DEF t
<1>6. m * b < a * (v + t + 2)
  BY <1>2, <1>3, <1>4, <1>5, PartOfValue
<1> QED BY <1>4, <1>5, <1>6 DEF WorthAt, m, v, k, l, t, u

(* Both ways to determine what is withdrawn, of an amount a of the value m.*)
LEMMA ShareTaken ==
    ASSUME NEW a \in Nat, a > 0, NEW m \in Nat, NEW w \in Nat, NEW mx \in Nat, NEW pct \in Nat,
           NEW W \in Nat, W > 0,
           \/ w * W <= pct * a /\ pct * m <= mx * W
           \/ w * W < pct * a + a /\ m * pct < mx * W + W
    PROVE  m \div W \in Nat /\ m * w <= a * (mx + (m \div W) + 2)
<1> DEFINE q == m \div W
<1>1. q \in Nat /\ m < q * W + W
  BY Quotient
<1> HIDE DEF q
<1>2. w * W \in Nat /\ pct * a \in Nat /\ pct * m \in Nat /\ mx * W \in Nat /\ m * w \in Nat
  OBVIOUS
<1>3. a * (mx + q + 2) \in Nat /\ q * W \in Nat
  BY <1>1
<1>4. w * W <= (pct + 1) * a /\ pct * m <= mx * W + W
  <2>1. (pct + 1) * a = pct * a + a /\ m * pct = pct * m
    OBVIOUS
  <2> QED BY <1>2, <2>1
<1>5. (w * W) * m <= ((pct + 1) * a) * m
  BY <1>2, <1>4, TimesMonotone
<1>6. (pct + 1) * m <= (mx + q + 2) * W
  <2>1. (pct + 1) * m = pct * m + m /\ (mx + q + 2) * W = (mx * W + W) + (q * W + W)
    BY <1>1
  <2> QED BY <1>1, <1>2, <1>3, <1>4, <2>1
<1>7. ((pct + 1) * m) * a <= ((mx + q + 2) * W) * a
  <2>1. (pct + 1) * m \in Nat /\ (mx + q + 2) * W \in Nat
    BY <1>1
  <2> QED BY <1>6, <2>1, TimesMonotone
<1>8. /\ (w * W) * m = (m * w) * W
      /\ ((pct + 1) * a) * m = ((pct + 1) * m) * a
      /\ ((mx + q + 2) * W) * a = (a * (mx + q + 2)) * W
  BY <1>1
<1> DEFINE x == m * w
           y == a * (mx + q + 2)
           z == ((pct + 1) * m) * a
<1>9. x * W <= z /\ z <= y * W /\ x \in Nat /\ y \in Nat /\ z \in Nat
  BY <1>2, <1>3, <1>5, <1>7, <1>8
<1> HIDE DEF x, y, z
<1>10. x * W <= y * W
  <2>1. x * W \in Nat /\ y * W \in Nat
    BY <1>9
  <2> QED BY <1>9, <2>1
<1>11. x <= y
  BY <1>9, <1>10, TimesCancels
<1> QED BY <1>1, <1>11 DEF x, y, q

(* What is left and what was taken make up the whole. *)
LEMMA ValueLeft ==
    ASSUME NEW a \in Nat, a > 0, NEW w \in Nat, w <= a, NEW m \in Nat, NEW x \in Nat, NEW y \in Nat,
           m * (a - w) < a * x, m * w <= a * y
    PROVE  m < x + y
<1>1. m * (a - w) \in Nat /\ m * w \in Nat /\ a * x \in Nat /\ a * y \in Nat
  OBVIOUS
<1>2. m * (a - w) + m * w = m * a /\ a * x + a * y = (x + y) * a
  OBVIOUS
<1>3. m * a < (x + y) * a
  BY <1>1, <1>2
<1> SUFFICES ASSUME x + y <= m PROVE FALSE
  OBVIOUS
<1>4. (x + y) * a <= m * a
  BY TimesMonotone
<1>5. (x + y) * a \in Nat /\ m * a \in Nat
  OBVIOUS
<1> QED BY <1>3, <1>4, <1>5

(* Losing the value m and keeping v costs at most room + e of weight, when *)
(* mx is the value that makes up for room.                                 *)
LEMMA WeightLeft ==
    ASSUME NEW W \in Nat, W > 0, NEW k \in Nat, k <= W, NEW m \in Nat, NEW v \in Nat, NEW mx \in Nat,
           NEW e \in Nat, NEW room \in Nat, m <= v + mx + e, mx * k <= room * W
    PROVE  (m * k) \div W <= ((v * k) \div W) + room + e
<1> DEFINE p == (m * k) \div W
           q == (v * k) \div W
<1>1. m * k \in Nat /\ v * k \in Nat
  OBVIOUS
<1>2. p \in Nat /\ q \in Nat /\ p * W <= m * k /\ v * k < q * W + W
  BY <1>1, Quotient
<1> HIDE DEF p, q
<1>3. m * k <= (v + mx + e) * k
  BY TimesMonotone
<1>4. (v + mx + e) * k = v * k + mx * k + e * k
  OBVIOUS
<1>5. e * k <= e * W
  <2>1. k * e <= W * e
    BY TimesMonotone
  <2>2. k * e = e * k /\ W * e = e * W
    OBVIOUS
  <2> QED BY <2>1, <2>2
<1>6. mx * k \in Nat /\ e * k \in Nat /\ e * W \in Nat /\ room * W \in Nat
  OBVIOUS
<1>7. p * W \in Nat /\ q * W \in Nat
  BY <1>2
<1>8. (q + room + e + 1) * W = q * W + room * W + e * W + W
  BY <1>2
<1>9. p * W < (q + room + e + 1) * W
  BY <1>1, <1>2, <1>3, <1>4, <1>5, <1>6, <1>7, <1>8
<1> SUFFICES ASSUME q + room + e + 1 <= p PROVE FALSE
  BY <1>2 DEF p, q
<1>10. (q + room + e + 1) * W <= p * W
  BY <1>2, TimesMonotone
<1>11. (q + room + e + 1) * W \in Nat
  BY <1>2
<1> QED BY <1>7, <1>9, <1>10, <1>11

-----------------------------------------------------------------------------
(***************************************************************************)
(* Exchange rates, and the values a refresh computes from them.            *)
(***************************************************************************)
(* The exchange rate, when it can be computed. *)
RateOf(res) == IF res.mint_total_supply = 0 \/ Value(res) = 0 THEN WAD
               ELSE (res.mint_total_supply * WAD * WAD) \div Value(res)

LEMMA RateIs ==
    ASSUME NEW res \in ReserveRec, NEW rate \in CollateralExchangeRate(res)
    PROVE  rate = RateOf(res)
<1>1. rate \in ExchangeRate(res, Value(res))
  BY DEF CollateralExchangeRate, TotalSupply, TryAdd, FromU64, Value
<1> QED BY <1>1 DEF ExchangeRate, RateOf, INITIAL_COLLATERAL_RATE, RateTryFrom, TryDiv, FromU64

LEMMA RateOfNat ==
    ASSUME NEW res \in ReserveRec
    PROVE  RateOf(res) \in Nat
<1>1. /\ res.mint_total_supply \in Nat /\ Value(res) \in Nat /\ WAD \in Nat /\ WAD > 0
  BY ReserveNat
<1>2. res.mint_total_supply * WAD * WAD \in Nat
  BY <1>1
<1>3. CASE res.mint_total_supply = 0 \/ Value(res) = 0
  BY <1>1, <1>3 DEF RateOf
<1>4. CASE res.mint_total_supply # 0 /\ Value(res) # 0
  <2> DEFINE x == res.mint_total_supply * WAD * WAD
             y == Value(res)
  <2>1. y > 0 /\ y \in Nat /\ x \in Nat
    BY <1>1, <1>2, <1>4
  <2>2. RateOf(res) = x \div y
    BY <1>4 DEF RateOf
  <2> HIDE DEF x, y
  <2> QED BY <2>1, <2>2, Quotient
<1> QED BY <1>3, <1>4

(* A reserve that lends, or that accrues, gives no more collateral for     *)
(* liquidity than before.                                                  *)
LEMMA RateFalls ==
    ASSUME NEW old \in ReserveRec, NEW new \in ReserveRec,
           new.mint_total_supply = old.mint_total_supply, Value(old) > 0, Value(old) <= Value(new)
    PROVE  RateOf(new) <= RateOf(old)
<1>1. /\ old.mint_total_supply \in Nat /\ Value(old) \in Nat /\ Value(new) \in Nat
      /\ WAD \in Nat
  BY ReserveNat
<1>2. CASE old.mint_total_supply = 0
  BY <1>1, <1>2 DEF RateOf
<1>3. CASE old.mint_total_supply # 0
  <2> DEFINE x == old.mint_total_supply * WAD * WAD
             y == Value(old)
             z == Value(new)
  <2>1. x \in Nat /\ y \in Nat /\ z \in Nat /\ y > 0 /\ y <= z
    BY <1>1
  <2>2. RateOf(old) = x \div y /\ RateOf(new) = x \div z
    BY <1>1, <1>3, <2>1 DEF RateOf
  <2> HIDE DEF x, y, z
  <2> QED BY <2>1, <2>2, QuotientAntitone
<1> QED BY <1>2, <1>3

-----------------------------------------------------------------------------
(***************************************************************************)
(* The values a refresh computes, entry by entry.                          *)
(***************************************************************************)
LEMMA PriceTyped ==
    ASSUME NEW res \in ReserveRec
    PROVE  /\ res.market_price \in Nat
           /\ res.mint_unit \in Nat /\ res.mint_unit > 0
           /\ FromPercent(res.config.loan_to_value_ratio) \in Nat
<1>1. res.market_price \in Nat
  BY DecimalNat DEF ReserveRec
<1>2. res.mint_unit \in Nat /\ res.mint_unit > 0
  <2>1. res.mint_unit \in U64 \ {0}
    BY ReserveAssumption DEF ReserveRec
  <2> QED BY <2>1, WadAssumption DEF U64
<1>3. res.config.loan_to_value_ratio \in Nat
  <2>1. res.config \in ReserveConfig
    BY ConfigsAssumption DEF ReserveRec
  <2> QED BY <2>1 DEF ReserveConfig
<1>4. PERCENT_SCALER \in Nat
  BY WadAssumption, Quotient DEF PERCENT_SCALER
<1>5. FromPercent(res.config.loan_to_value_ratio) \in Nat
  BY <1>3, <1>4 DEF FromPercent
<1> QED BY <1>1, <1>2, <1>5

LEMMA MarketValueIs ==
    ASSUME NEW res, NEW wads, NEW value \in MarketValue(res, wads)
    PROVE  value = Valued(wads, res.market_price, res.mint_unit)
  BY DEF MarketValue, TryMul, TryDivU64, Valued

LEMMA CollateralValue ==
    ASSUME NEW res \in ReserveRec, NEW col \in CollateralRec, NEW c \in RefreshedCollateral(col, res)
    PROVE  /\ RateOf(res) > 0
           /\ c.market_value = WorthAt(col.deposited_amount, RateOf(res), res.market_price, res.mint_unit)
<1>1. PICK rate, wads, value :
         /\ rate \in CollateralExchangeRate(res)
         /\ wads \in DecimalCollateralToLiquidity(rate, FromU64(col.deposited_amount))
         /\ value \in MarketValue(res, wads)
         /\ c = SetValue(col, value)
  BY DEF RefreshedCollateral
<1>2. rate = RateOf(res)
  BY <1>1, RateIs
<1>3. rate > 0 /\ wads = (col.deposited_amount * WAD * WAD) \div rate
  BY <1>1 DEF DecimalCollateralToLiquidity, TryDiv, FromU64
<1>4. value = Valued(wads, res.market_price, res.mint_unit)
  BY <1>1, MarketValueIs
<1>5. c.market_value = value
  BY <1>1 DEF SetValue, CollateralRec
<1> QED BY <1>2, <1>3, <1>4, <1>5 DEF WorthAt

LEMMA DebtValue ==
    ASSUME NEW res, NEW liq \in LiquidityRec,
           liq.cumulative_borrow_rate_wads = res.cumulative_borrow_rate_wads,
           NEW l \in RefreshedLiquidity(liq, res)
    PROVE  l.market_value = Valued(liq.borrowed_amount_wads, res.market_price, res.mint_unit)
<1>0. liq.cumulative_borrow_rate_wads \in Nat
  BY DecimalNat DEF LiquidityRec
<1>1. PICK accrued, value :
         /\ accrued \in AccrueDebt(liq, res.cumulative_borrow_rate_wads)
         /\ value \in MarketValue(res, accrued.borrowed_amount_wads)
         /\ l = SetValue(accrued, value)
  BY DEF RefreshedLiquidity
<1>2. accrued = liq
  BY <1>0, <1>1 DEF AccrueDebt
<1>3. l.market_value = value
  BY <1>1, <1>2 DEF SetValue, LiquidityRec
<1> QED BY <1>1, <1>2, <1>3, MarketValueIs

-----------------------------------------------------------------------------
(***************************************************************************)
(* An obligation's values are sums over the reserves.                      *)
(***************************************************************************)

(* what the collateral in reserve x is worth, allows to borrow, and what   *)
(* the debt to it is worth                                                 *)
EntryWorth(ob, res, x) ==
    IF ob.deposits[x].present
    THEN WorthAt(ob.deposits[x].deposited_amount, RateOf(res[x]), res[x].market_price, res[x].mint_unit)
    ELSE 0

EntryAllowed(ob, res, x) ==
    (EntryWorth(ob, res, x) * FromPercent(res[x].config.loan_to_value_ratio)) \div WAD

EntryDebt(ob, res, x) ==
    IF ob.borrows[x].present
    THEN Valued(ob.borrows[x].borrowed_amount_wads, res[x].market_price, res[x].mint_unit)
    ELSE 0

Worths(ob, res)  == [x \in Reserves |-> EntryWorth(ob, res, x)]
Alloweds(ob, res) == [x \in Reserves |-> EntryAllowed(ob, res, x)]
Debts(ob, res)   == [x \in Reserves |-> EntryDebt(ob, res, x)]

(* Every collateral can be valued. *)
Valuable(ob, res) ==
    \A x \in Reserves : ob.deposits[x].present => RateOf(res[x]) > 0

(* Every debt has been charged the interest of its reserve. *)
SettledWith(ob, res) ==
    \A x \in Reserves : ob.borrows[x].present =>
       ob.borrows[x].cumulative_borrow_rate_wads = res[x].cumulative_borrow_rate_wads

LEMMA EntriesNat ==
    ASSUME NEW ob \in ObligationRec, NEW res \in [Reserves -> ReserveRec], Valuable(ob, res),
           NEW x \in Reserves
    PROVE  EntryWorth(ob, res, x) \in Nat /\ EntryAllowed(ob, res, x) \in Nat /\ EntryDebt(ob, res, x) \in Nat
<1> DEFINE price == res[x].market_price
           unit == res[x].mint_unit
           ltv == FromPercent(res[x].config.loan_to_value_ratio)
<1>1. price \in Nat /\ unit \in Nat /\ unit > 0 /\ ltv \in Nat
  BY PriceTyped
<1>2. EntryWorth(ob, res, x) \in Nat
  <2>1. CASE ob.deposits[x].present
    <3>1. RateOf(res[x]) \in Nat /\ RateOf(res[x]) > 0
      BY <2>1, RateOfNat DEF Valuable
    <3>2. ob.deposits[x].deposited_amount \in Nat
      BY DepositTyped
    <3> DEFINE wads == (ob.deposits[x].deposited_amount * WAD * WAD) \div RateOf(res[x])
    <3>3. ob.deposits[x].deposited_amount * WAD * WAD \in Nat
      BY <3>2, WadAssumption
    <3>4. wads \in Nat
      BY <3>1, <3>3, Quotient
    <3> HIDE DEF wads
    <3>5. Valued(wads, price, unit) \in Nat
      BY <1>1, <3>4, ValuedIs
    <3> QED BY <2>1, <3>5 DEF EntryWorth, WorthAt, wads
  <2> QED BY <2>1 DEF EntryWorth
<1>3. EntryDebt(ob, res, x) \in Nat
  <2>1. ob.borrows[x].borrowed_amount_wads \in Nat
    <3>1. ob.borrows[x] \in LiquidityRec
      BY DEF ObligationRec
    <3> QED BY <3>1, DecimalNat DEF LiquidityRec
  <2> QED BY <1>1, <2>1, ValuedIs DEF EntryDebt
<1>4. EntryAllowed(ob, res, x) \in Nat
  <2> DEFINE y == EntryWorth(ob, res, x)
  <2> HIDE DEF ltv, y
  <2>1. y * ltv \in Nat
    BY <1>1, <1>2 DEF y
  <2>2. (y * ltv) \div WAD \in Nat
    BY <2>1, WadAssumption, Quotient
  <2> QED BY <2>2 DEF y, ltv, EntryAllowed
<1> QED BY <1>2, <1>3, <1>4

(* What a refresh computes. *)
LEMMA Valuation ==
    ASSUME NEW ob \in ObligationRec, NEW res \in [Reserves -> ReserveRec], NEW now \in Nat,
           NEW new \in RefreshObligation(ob, res, now), SettledWith(ob, res)
    PROVE  /\ Valuable(ob, res)
           /\ new.deposited_value = SumFunction(Worths(ob, res))
           /\ new.allowed_borrow_value = SumFunction(Alloweds(ob, res))
           /\ new.borrowed_value = SumFunction(Debts(ob, res))
           /\ \A x \in Reserves : ob.deposits[x].present =>
                 new.deposits[x].market_value = EntryWorth(ob, res, x)
<1> DEFINE D == DepositReserves(ob)
           B == BorrowReserves(ob)
           collateral(x) == RefreshedCollateral(ob.deposits[x], res[x])
           liquidity(x)  == RefreshedLiquidity(ob.borrows[x], res[x])
           worth == [x \in D |-> Unwrap(collateral(x)).market_value]
           owed  == [x \in B |-> Unwrap(liquidity(x)).market_value]
           ltv == [x \in D |-> res[x].config.loan_to_value_ratio]
           deps == [x \in Reserves |-> IF x \in D THEN Unwrap(collateral(x)) ELSE ob.deposits[x]]
<1>1. /\ \A x \in D : collateral(x) # {}
      /\ \A x \in B : liquidity(x) # {}
      /\ new.deposits = deps
      /\ new.deposited_value = SumFunction(worth)
      /\ new.borrowed_value = SumFunction(owed)
      /\ new.allowed_borrow_value = Weighted(worth, ltv)
  BY DEF RefreshObligation, PackObligation, UpdateSlot, ObligationRec
<1>2. D \in SUBSET Reserves /\ B \in SUBSET Reserves
  BY DEF DepositReserves, BorrowReserves
<1>3. ASSUME NEW x \in D
      PROVE  /\ RateOf(res[x]) > 0
             /\ Unwrap(collateral(x)).market_value = EntryWorth(ob, res, x)
  <2>1. Unwrap(collateral(x)) \in collateral(x)
    <3> HIDE DEF collateral
    <3> QED BY <1>1 DEF Unwrap
  <2>2. x \in Reserves /\ ob.deposits[x].present /\ ob.deposits[x] \in CollateralRec /\ res[x] \in ReserveRec
    BY DepositTyped DEF DepositReserves
  <2> QED BY <2>1, <2>2, CollateralValue DEF EntryWorth
<1>4. ASSUME NEW x \in B
      PROVE  Unwrap(liquidity(x)).market_value = EntryDebt(ob, res, x)
  <2>1. Unwrap(liquidity(x)) \in liquidity(x)
    <3> HIDE DEF liquidity
    <3> QED BY <1>1 DEF Unwrap
  <2>2. x \in Reserves /\ ob.borrows[x].present /\ ob.borrows[x] \in LiquidityRec
    BY DEF BorrowReserves, ObligationRec
  <2>3. ob.borrows[x].cumulative_borrow_rate_wads = res[x].cumulative_borrow_rate_wads
    BY <2>2 DEF SettledWith
  <2> QED BY <2>1, <2>2, <2>3, DebtValue DEF EntryDebt
<1> HIDE DEF collateral, liquidity
<1>5. Valuable(ob, res)
  BY <1>3 DEF Valuable, DepositReserves
<1>6. IsFiniteSet(Reserves)
  BY ObligationAssumption
<1>7. new.deposited_value = SumFunction(Worths(ob, res))
  <2> DEFINE g == Worths(ob, res)
  <2>1. g \in [Reserves -> Int] /\ \A x \in Reserves \ D : g[x] = 0
    <3>1. \A x \in Reserves : EntryWorth(ob, res, x) \in Int
      BY <1>5, EntriesNat
    <3>2. \A x \in Reserves \ D : EntryWorth(ob, res, x) = 0
      BY DEF DepositReserves, EntryWorth
    <3> QED BY <3>1, <3>2 DEF Worths
  <2>2. worth = [x \in D |-> g[x]]
    BY <1>2, <1>3 DEF Worths
  <2> HIDE DEF g, D, worth
  <2>3. SumFunction([x \in D |-> g[x]]) = SumFunction(g)
    BY <1>2, <1>6, <2>1, SumPadded
  <2> QED BY <1>1, <2>2, <2>3 DEF g
<1>8. new.borrowed_value = SumFunction(Debts(ob, res))
  <2> DEFINE g == Debts(ob, res)
  <2>1. g \in [Reserves -> Int] /\ \A x \in Reserves \ B : g[x] = 0
    <3>1. \A x \in Reserves : EntryDebt(ob, res, x) \in Int
      BY <1>5, EntriesNat
    <3>2. \A x \in Reserves \ B : EntryDebt(ob, res, x) = 0
      BY DEF BorrowReserves, EntryDebt
    <3> QED BY <3>1, <3>2 DEF Debts
  <2>2. owed = [x \in B |-> g[x]]
    BY <1>2, <1>4 DEF Debts
  <2> HIDE DEF g, B, owed
  <2>3. SumFunction([x \in B |-> g[x]]) = SumFunction(g)
    BY <1>2, <1>6, <2>1, SumPadded
  <2> QED BY <1>1, <2>2, <2>3 DEF g
<1>9. new.allowed_borrow_value = SumFunction(Alloweds(ob, res))
  <2> DEFINE g == Alloweds(ob, res)
             h == [x \in D |-> (worth[x] * FromPercent(ltv[x])) \div WAD]
  <2>1. g \in [Reserves -> Int] /\ \A x \in Reserves \ D : g[x] = 0
    <3>1. \A x \in Reserves : EntryAllowed(ob, res, x) \in Int
      BY <1>5, EntriesNat
    <3>2. ASSUME NEW x \in Reserves \ D PROVE EntryAllowed(ob, res, x) = 0
      <4>1. EntryWorth(ob, res, x) = 0
        BY DEF DepositReserves, EntryWorth
      <4>2. FromPercent(res[x].config.loan_to_value_ratio) \in Nat
        BY PriceTyped
      <4>3. 0 * FromPercent(res[x].config.loan_to_value_ratio) = 0
        BY <4>2
      <4>4. 0 \div WAD = 0
        BY WadAssumption
      <4> QED BY <4>1, <4>3, <4>4 DEF EntryAllowed
    <3> QED BY <3>1, <3>2 DEF Alloweds
  <2>2. h = [x \in D |-> g[x]]
    <3>1. ASSUME NEW x \in D PROVE h[x] = g[x]
      <4>1. worth[x] = EntryWorth(ob, res, x) /\ ltv[x] = res[x].config.loan_to_value_ratio
        BY <1>3
      <4> HIDE DEF worth, ltv
      <4>2. x \in Reserves
        BY <1>2
      <4> QED BY <4>1, <4>2 DEF Alloweds, EntryAllowed
    <3> HIDE DEF g
    <3> QED BY <3>1
  <2>3. Weighted(worth, ltv) = SumFunction(h)
    <3>1. DOMAIN worth = D
      OBVIOUS
    <3> HIDE DEF worth, ltv
    <3> QED BY <3>1 DEF Weighted
  <2> HIDE DEF g, h, D
  <2>4. SumFunction([x \in D |-> g[x]]) = SumFunction(g)
    BY <1>2, <1>6, <2>1, SumPadded
  <2> QED BY <1>1, <2>2, <2>3, <2>4 DEF g
<1>10. \A x \in Reserves : ob.deposits[x].present => new.deposits[x].market_value = EntryWorth(ob, res, x)
  BY <1>1, <1>3 DEF DepositReserves
<1> QED BY <1>5, <1>7, <1>8, <1>9, <1>10

-----------------------------------------------------------------------------
(***************************************************************************)
(* What a withdrawal takes.                                                *)
(***************************************************************************)
LEMMA PercentAtMostOne ==
    ASSUME NEW percent \in Nat, percent <= HUNDRED
    PROVE  FromPercent(percent) \in Nat /\ FromPercent(percent) <= WAD
<1>1. WAD \in Nat /\ HUNDRED \in Nat /\ HUNDRED > 0
  BY WadAssumption
<1> DEFINE k == WAD \div HUNDRED
<1>2. k \in Nat /\ k * HUNDRED <= WAD
  BY <1>1, Quotient
<1> HIDE DEF k
<1>3. percent * k <= HUNDRED * k /\ percent * k \in Nat /\ HUNDRED * k = k * HUNDRED /\ k * HUNDRED \in Nat
  BY <1>1, <1>2, TimesMonotone
<1>4. FromPercent(percent) = percent * k
  BY DEF FromPercent, PERCENT_SCALER, k
<1> QED BY <1>1, <1>2, <1>3, <1>4

(* The value that may be withdrawn weighs no more than what the obligation *)
(* may still borrow.                                                       *)
LEMMA WithdrawRoom ==
    ASSUME NEW ob \in ObligationRec, NEW ltv \in Nat, NEW mx \in MaxWithdrawValue(ob, ltv), mx # 0
    PROVE  /\ mx \in Nat
           /\ ob.allowed_borrow_value - ob.borrowed_value \in Nat
           /\ ltv # 0 => mx * FromPercent(ltv) <= (ob.allowed_borrow_value - ob.borrowed_value) * WAD
<1> DEFINE allowed == ob.allowed_borrow_value
           borrowed == ob.borrowed_value
           room == allowed - borrowed
           k == FromPercent(ltv)
<1>1. allowed \in Nat /\ borrowed \in Nat /\ ob.deposited_value \in Nat
  BY DecimalNat DEF ObligationRec
<1>2. ~(allowed <= borrowed)
  BY DEF MaxWithdrawValue
<1>3. room \in Nat
  BY <1>1, <1>2
<1>4. CASE ltv = 0
  <2>1. mx = ob.deposited_value
    BY <1>2, <1>4 DEF MaxWithdrawValue
  <2> QED BY <1>1, <1>3, <1>4, <2>1
<1>5. CASE ltv # 0
  <2>1. mx \in UNION {TryDiv(d, k) : d \in TrySub(allowed, borrowed)}
    BY <1>2, <1>5 DEF MaxWithdrawValue
  <2>2. mx \in TryDiv(room, k)
    BY <2>1 DEF TrySub
  <2> HIDE DEF room, k
  <2>3. k > 0 /\ mx = (room * WAD) \div k
    BY <2>2 DEF TryDiv
  <2>4. k \in Nat
    <3>1. PERCENT_SCALER \in Nat
      BY WadAssumption, Quotient DEF PERCENT_SCALER
    <3> QED BY <3>1 DEF k, FromPercent
  <2>5. room * WAD \in Nat
    BY <1>3, WadAssumption
  <2>6. mx \in Nat /\ mx * k <= room * WAD
    BY <2>3, <2>4, <2>5, Quotient
  <2> QED BY <1>3, <1>5, <2>6 DEF room, k
<1> QED BY <1>4, <1>5

(* How much of a deposit is withdrawn. *)
Taken(col, w, mx) ==
    /\ w \in Nat /\ w <= col.deposited_amount
    /\ \E pct \in Nat :
         \/ w * WAD <= pct * col.deposited_amount /\ pct * col.market_value <= mx * WAD
         \/ w * WAD < pct * col.deposited_amount + col.deposited_amount
              /\ col.market_value * pct < mx * WAD + WAD

LEMMA CollateralNat ==
    ASSUME NEW col \in CollateralRec
    PROVE  col.deposited_amount \in Nat /\ col.market_value \in Nat /\ WAD \in Nat /\ WAD > 0
<1>1. col.deposited_amount \in U64 /\ col.market_value \in Rate
  BY DEF CollateralRec
<1>2. WAD \in Nat /\ WAD > 0
  BY WadAssumption
<1> QED BY <1>1, <1>2, DecimalNat

LEMMA MaxTaken ==
    ASSUME NEW col \in CollateralRec, NEW mx \in Nat, NEW w \in MaxWithdraw(col, mx)
    PROVE  Taken(col, w, mx)
<1> DEFINE a == col.deposited_amount
           m == col.market_value
           share == Least(mx, m)
<1>1. a \in Nat /\ m \in Nat /\ WAD \in Nat /\ WAD > 0
  BY CollateralNat
<1>2. share \in Nat /\ share <= mx
  BY <1>1 DEF Least
<1>3. PICK pct, wads, x :
         /\ pct \in TryDiv(share, m) /\ wads \in TryMulU64(pct, a) /\ x \in TryFloorU64(wads)
         /\ w = Least(x, a)
  BY DEF MaxWithdraw
<1> HIDE DEF share
<1>4. m > 0 /\ pct = (share * WAD) \div m
  BY <1>3 DEF TryDiv
<1>5. share * WAD \in Nat /\ mx * WAD \in Nat /\ share * WAD <= mx * WAD
  BY <1>1, <1>2, TimesMonotone
<1>6. pct \in Nat /\ pct * m <= share * WAD
  BY <1>1, <1>4, <1>5, Quotient
<1>7. pct * m <= mx * WAD
  <2>1. pct * m \in Nat
    BY <1>1, <1>6
  <2> QED BY <1>5, <1>6, <2>1
<1>8. wads = pct * a /\ wads \in Nat
  BY <1>1, <1>3, <1>6 DEF TryMulU64
<1>9. x \in Nat /\ x * WAD <= pct * a
  BY <1>3, <1>8, FloorBelow
<1>10. w \in Nat /\ w <= a /\ w <= x
  BY <1>1, <1>3, <1>9 DEF Least
<1>11. w * WAD <= pct * a
  <2>1. w * WAD <= x * WAD /\ w * WAD \in Nat /\ x * WAD \in Nat
    BY <1>1, <1>9, <1>10, TimesMonotone
  <2> QED BY <1>8, <1>9, <2>1
<1> QED BY <1>6, <1>7, <1>10, <1>11 DEF Taken

LEMMA ExactTaken ==
    ASSUME NEW col \in CollateralRec, NEW mx \in Nat, NEW amount \in Nat,
           NEW w \in ExactWithdraw(col, amount, mx)
    PROVE  Taken(col, w, mx)
<1> DEFINE a == col.deposited_amount
           m == col.market_value
<1>1. a \in Nat /\ m \in Nat /\ WAD \in Nat /\ WAD > 0
  BY CollateralNat
<1>2. PICK pct, v : pct \in TryDivU64(FromU64(w), a) /\ v \in TryMul(m, pct) /\ v <= mx
  BY DEF ExactWithdraw
<1>3. w \in Nat /\ w <= a
  BY <1>1 DEF ExactWithdraw, Least
<1>4. a > 0 /\ pct = (w * WAD) \div a
  BY <1>2 DEF TryDivU64, FromU64
<1>5. w * WAD \in Nat
  BY <1>1, <1>3
<1>6. pct \in Nat /\ w * WAD < pct * a + a
  BY <1>1, <1>4, <1>5, Quotient
<1>7. m * pct \in Nat /\ v = (m * pct) \div WAD
  BY <1>1, <1>2, <1>6 DEF TryMul
<1>8. v \in Nat /\ m * pct < v * WAD + WAD
  BY <1>1, <1>7, Quotient
<1>9. v * WAD <= mx * WAD /\ v * WAD \in Nat /\ mx * WAD \in Nat
  BY <1>1, <1>2, <1>8, TimesMonotone
<1>10. m * pct < mx * WAD + WAD
  BY <1>1, <1>7, <1>8, <1>9
<1> QED BY <1>3, <1>6, <1>10 DEF Taken

(* The collateral left after a withdrawal, in value. *)
LEMMA TakenLeaves ==
    ASSUME NEW col \in CollateralRec, col.deposited_amount # 0, NEW mx \in Nat, NEW w, Taken(col, w, mx),
           NEW rate \in Nat, rate > 0, NEW price \in Nat, NEW unit \in Nat, unit > 0,
           col.market_value = WorthAt(col.deposited_amount, rate, price, unit)
    PROVE  /\ price \div (WAD * unit) \in Nat /\ col.market_value \div WAD \in Nat
           /\ col.market_value \in Nat /\ WorthAt(col.deposited_amount - w, rate, price, unit) \in Nat
           /\ col.market_value <= WorthAt(col.deposited_amount - w, rate, price, unit) + mx
                + ((price \div (WAD * unit)) + (col.market_value \div WAD) + 3)
<1> DEFINE a == col.deposited_amount
           b == a - w
           m == col.market_value
           v == WorthAt(b, rate, price, unit)
           t == price \div (WAD * unit)
           q == m \div WAD
<1>1. a \in Nat /\ a > 0 /\ m \in Nat /\ WAD \in Nat /\ WAD > 0
  BY CollateralNat
<1>2. w \in Nat /\ w <= a
  BY DEF Taken
<1>3. b \in Nat
  BY <1>1, <1>2
<1> HIDE DEF b
<1>4. v \in Nat /\ t \in Nat /\ m * b < a * (v + t + 2)
  BY <1>1, <1>3, WorthLeft
<1>5. q \in Nat /\ m * w <= a * (mx + q + 2)
  <2>1. PICK pct \in Nat :
           \/ w * WAD <= pct * a /\ pct * m <= mx * WAD
           \/ w * WAD < pct * a + a /\ m * pct < mx * WAD + WAD
    BY DEF Taken
  <2> QED BY <1>1, <1>2, <2>1, ShareTaken
<1> HIDE DEF v, t, q, m, a
<1>6. m < (v + t + 2) + (mx + q + 2)
  <2>1. v + t + 2 \in Nat /\ mx + q + 2 \in Nat
    BY <1>4, <1>5
  <2>2. m * (a - w) < a * (v + t + 2)
    BY <1>4 DEF b
  <2> QED BY <1>1, <1>2, <1>5, <2>1, <2>2, ValueLeft
<1>7. m <= v + mx + (t + q + 3)
  BY <1>1, <1>4, <1>5, <1>6
<1> QED BY <1>1, <1>4, <1>5, <1>7 DEF v, t, q, m, a, b

-----------------------------------------------------------------------------
(***************************************************************************)
(* What a withdrawal leaves.                                               *)
(***************************************************************************)
LEMMA NothingIsWorthless ==
    ASSUME NEW rate \in Nat, rate > 0, NEW price \in Nat, NEW unit \in Nat, unit > 0
    PROVE  WorthAt(0, rate, price, unit) = 0
<1>1. 0 * WAD * WAD = 0 /\ 0 \div WAD = 0 /\ 0 \div rate = 0 /\ 0 \div unit = 0 /\ 0 * price = 0
  BY WadAssumption
<1> QED BY <1>1 DEF WorthAt, Valued

(* The obligation new is old without the amount w of the collateral in r.  *)
Without(new, old, r, w) ==
    /\ new \in ObligationRec
    /\ new.borrows = old.borrows
    /\ \A x \in Reserves \ {r} : new.deposits[x] = old.deposits[x]
    /\ old.deposits[r].deposited_amount - w \in Nat
    /\ IF old.deposits[r].deposited_amount - w = 0
       THEN ~new.deposits[r].present
       ELSE /\ new.deposits[r].present
            /\ new.deposits[r].deposited_amount = old.deposits[r].deposited_amount - w

LEMMA WorthWithout ==
    ASSUME NEW old \in ObligationRec, NEW res \in [Reserves -> ReserveRec], Valuable(old, res),
           NEW r \in Reserves, old.deposits[r].present, NEW w, NEW new, Without(new, old, r, w)
    PROVE  /\ Valuable(new, res)
           /\ EntryWorth(new, res, r) = WorthAt(old.deposits[r].deposited_amount - w, RateOf(res[r]),
                                              res[r].market_price, res[r].mint_unit)
           /\ \A x \in Reserves \ {r} : EntryAllowed(new, res, x) = EntryAllowed(old, res, x)
           /\ Debts(new, res) = Debts(old, res)
<1>1. Valuable(new, res)
  BY DEF Valuable, Without
<1>2. RateOf(res[r]) \in Nat /\ RateOf(res[r]) > 0
  BY RateOfNat DEF Valuable
<1>3. res[r].market_price \in Nat /\ res[r].mint_unit \in Nat /\ res[r].mint_unit > 0
  BY PriceTyped
<1>4. EntryWorth(new, res, r) = WorthAt(old.deposits[r].deposited_amount - w, RateOf(res[r]),
                                      res[r].market_price, res[r].mint_unit)
  BY <1>2, <1>3, NothingIsWorthless DEF EntryWorth, Without
<1>5. \A x \in Reserves \ {r} : EntryAllowed(new, res, x) = EntryAllowed(old, res, x)
  BY DEF EntryAllowed, EntryWorth, Without
<1>6. Debts(new, res) = Debts(old, res)
  BY DEF Debts, EntryDebt, Without
<1> QED BY <1>1, <1>4, <1>5, <1>6

LEMMA SumsNat ==
    ASSUME NEW ob \in ObligationRec, NEW res \in [Reserves -> ReserveRec], Valuable(ob, res)
    PROVE  /\ Worths(ob, res) \in [Reserves -> Nat] /\ Alloweds(ob, res) \in [Reserves -> Nat]
           /\ Debts(ob, res) \in [Reserves -> Nat]
           /\ SumFunction(Worths(ob, res)) \in Nat /\ SumFunction(Alloweds(ob, res)) \in Nat
           /\ SumFunction(Debts(ob, res)) \in Nat
           /\ \A x \in Reserves : EntryWorth(ob, res, x) <= SumFunction(Worths(ob, res))
<1>1. /\ Worths(ob, res) \in [Reserves -> Nat] /\ Alloweds(ob, res) \in [Reserves -> Nat]
      /\ Debts(ob, res) \in [Reserves -> Nat]
  BY EntriesNat DEF Worths, Alloweds, Debts
<1>2. IsFiniteSet(Reserves)
  BY ObligationAssumption
<1>3. /\ SumFunction(Worths(ob, res)) \in Nat /\ SumFunction(Alloweds(ob, res)) \in Nat
      /\ SumFunction(Debts(ob, res)) \in Nat
      /\ \A x \in Reserves : Worths(ob, res)[x] <= SumFunction(Worths(ob, res))
  BY <1>1, <1>2, SumAtLeast
<1>4. \A x \in Reserves : Worths(ob, res)[x] = EntryWorth(ob, res, x)
  BY DEF Worths
<1> QED BY <1>1, <1>3, <1>4

(* The record carries the sums of its entries. *)
Summed(ob, res) ==
    /\ Valuable(ob, res)
    /\ ob.deposited_value = SumFunction(Worths(ob, res))
    /\ ob.allowed_borrow_value = SumFunction(Alloweds(ob, res))
    /\ ob.borrowed_value = SumFunction(Debts(ob, res))
    /\ \A x \in Reserves : ob.deposits[x].present => ob.deposits[x].market_value = EntryWorth(ob, res, x)

(* What the precision of a wad costs: a wad of the value of all deposits,  *)
(* the value of a wad of liquidity, and the roundings of the products.     *)
Tolerance(ob, res, r) ==
    (ob.deposited_value \div WAD) + (res[r].market_price \div (WAD * res[r].mint_unit)) + 3

LEMMA ToleranceNat ==
    ASSUME NEW ob \in ObligationRec, NEW res \in [Reserves -> ReserveRec], NEW r \in Reserves
    PROVE  Tolerance(ob, res, r) \in Nat /\ Tolerance(ob, res, r) >= 3
<1>1. ob.deposited_value \in Nat
  BY DecimalNat DEF ObligationRec
<1>2. WAD \in Nat /\ WAD > 0
  BY WadAssumption
<1>3. ob.deposited_value \div WAD \in Nat
  BY <1>1, <1>2, Quotient
<1> DEFINE p == res[r].market_price
           u == WAD * res[r].mint_unit
<1>4. p \in Nat /\ u \in Nat /\ u > 0
  BY PriceTyped, ValuedIs
<1> HIDE DEF p, u
<1>5. p \div u \in Nat
  BY <1>4, Quotient
<1> QED BY <1>3, <1>5 DEF Tolerance, p, u

(* Without debts there is nothing to cover. *)
LEMMA NoDebts ==
    ASSUME NEW ob, NEW res, BorrowReserves(ob) = {}
    PROVE  SumFunction(Debts(ob, res)) = 0
<1>1. Debts(ob, res) \in [Reserves -> {0}]
  BY DEF Debts, EntryDebt, BorrowReserves
<1> QED BY <1>1, SumOfZeros, ObligationAssumption

LEMMA WithdrawTaken ==
    ASSUME NEW ob \in ObligationRec, NEW r \in Reserves, NEW ltv, NEW amount \in Nat,
           BorrowReserves(ob) # {}, NEW w \in WithdrawAmount(ob, r, ltv, amount),
           ltv \in Nat
    PROVE  \E mx \in MaxWithdrawValue(ob, ltv) : mx # 0 /\ mx \in Nat /\ Taken(ob.deposits[r], w, mx)
<1> DEFINE col == ob.deposits[r]
<1>1. PICK mx : /\ mx \in MaxWithdrawValue(ob, ltv) /\ mx # 0
                /\ w \in MaxWithdraw(col, mx) \/ w \in ExactWithdraw(col, amount, mx)
  BY DEF WithdrawAmount
<1>2. col \in CollateralRec
  BY DepositTyped
<1>3. mx \in Nat
  BY <1>1, WithdrawRoom
<1> HIDE DEF col
<1>4. Taken(col, w, mx)
  BY <1>1, <1>2, <1>3, MaxTaken, ExactTaken
<1> QED BY <1>1, <1>3, <1>4 DEF col

(* Withdrawing leaves the debts covered. *)
LEMMA WithdrawCovered ==
    ASSUME NEW old \in ObligationRec, NEW res \in [Reserves -> ReserveRec], Summed(old, res),
           NEW r \in Reserves, old.deposits[r].present, old.deposits[r].deposited_amount # 0,
           NEW amount \in Nat, res[r].config.loan_to_value_ratio \in Nat,
           res[r].config.loan_to_value_ratio <= HUNDRED,
           NEW w \in WithdrawAmount(old, r, res[r].config.loan_to_value_ratio, amount),
           NEW new, Without(new, old, r, w)
    PROVE  SumFunction(Debts(new, res)) <= SumFunction(Alloweds(new, res)) + Tolerance(old, res, r)
<1> DEFINE ltv == res[r].config.loan_to_value_ratio
           k == FromPercent(ltv)
           allowed == old.allowed_borrow_value
           borrowed == old.borrowed_value
           room == allowed - borrowed
           left == SumFunction(Alloweds(new, res))
           tol == Tolerance(old, res, r)
<1>1. new \in ObligationRec /\ Valuable(old, res)
  BY DEF Without, Summed
<1>2. /\ Valuable(new, res) /\ Debts(new, res) = Debts(old, res)
      /\ \A x \in Reserves \ {r} : EntryAllowed(new, res, x) = EntryAllowed(old, res, x)
  BY <1>1, WorthWithout
<1>3. left \in Nat /\ allowed \in Nat /\ borrowed \in Nat /\ SumFunction(Debts(new, res)) = borrowed
  BY <1>1, <1>2, SumsNat DEF Summed
<1>4. tol \in Nat
  BY ToleranceNat
<1>5. CASE BorrowReserves(old) = {}
  <2>1. borrowed = 0
    BY <1>2, <1>3, <1>5, NoDebts
  <2> HIDE DEF borrowed, left, tol
  <2>2. borrowed <= left + tol
    BY <1>3, <1>4, <2>1
  <2> QED BY <1>3, <2>2 DEF borrowed, left, tol
<1>6. CASE BorrowReserves(old) # {}
  <2> DEFINE before == EntryAllowed(old, res, r)
             after == EntryAllowed(new, res, r)
  <2>1. PICK mx \in MaxWithdrawValue(old, ltv) : mx # 0 /\ mx \in Nat /\ Taken(old.deposits[r], w, mx)
    BY <1>6, WithdrawTaken
  <2>2. room \in Nat /\ (ltv # 0 => mx * k <= room * WAD)
    BY <2>1, WithdrawRoom
  <2>3. before \in Nat /\ after \in Nat
    BY <1>1, <1>2, EntriesNat
  <2>4. left = allowed - before + after
    <3> DEFINE f == Alloweds(old, res)
               g == Alloweds(new, res)
    <3>1. f \in [Reserves -> Int] /\ g \in [Reserves -> Int]
      BY <1>1, <1>2, SumsNat
    <3>2. f[r] = before /\ g[r] = after /\ \A x \in Reserves \ {r} : g[x] = f[x]
      BY <1>2 DEF Alloweds
    <3>3. allowed = SumFunction(f) /\ left = SumFunction(g)
      BY DEF Summed
    <3> HIDE DEF f, g
    <3>4. SumFunction(g) = SumFunction(f) - f[r] + g[r]
      BY <3>1, <3>2, SumChanged, ObligationAssumption
    <3> QED BY <3>2, <3>3, <3>4
  <2>5. before <= after + room + tol
    <3> DEFINE m == old.deposits[r].market_value
               v == EntryWorth(new, res, r)
               t == res[r].market_price \div (WAD * res[r].mint_unit)
               q == m \div WAD
               e == t + q + 3
    <3>1. WAD \in Nat /\ WAD > 0 /\ k \in Nat /\ k <= WAD
      BY PercentAtMostOne, WadAssumption
    <3>2. m = EntryWorth(old, res, r)
      BY DEF Summed
    <3>3. before = (m * k) \div WAD /\ after = (v * k) \div WAD
      BY <3>2 DEF EntryAllowed
    <3>4. t \in Nat /\ q \in Nat /\ m \in Nat /\ v \in Nat /\ m <= v + mx + e
      <4> DEFINE col == old.deposits[r]
                 rate == RateOf(res[r])
                 price == res[r].market_price
                 unit == res[r].mint_unit
      <4>1. col \in CollateralRec /\ price \in Nat /\ unit \in Nat /\ unit > 0
        BY DepositTyped, PriceTyped
      <4>2. rate \in Nat /\ rate > 0
        BY <1>1, RateOfNat DEF Valuable
      <4>3. m = WorthAt(col.deposited_amount, rate, price, unit)
        BY <3>2 DEF EntryWorth
      <4>4. v = WorthAt(col.deposited_amount - w, rate, price, unit)
        BY <1>1, WorthWithout
      <4>5. col.deposited_amount # 0 /\ Taken(col, w, mx)
        BY <2>1
      <4> HIDE DEF col, rate, price, unit, v
      <4>6. col.market_value = m
        BY DEF col
      <4>7. /\ price \div (WAD * unit) \in Nat /\ col.market_value \div WAD \in Nat
            /\ col.market_value \in Nat /\ WorthAt(col.deposited_amount - w, rate, price, unit) \in Nat
            /\ col.market_value <= WorthAt(col.deposited_amount - w, rate, price, unit) + mx
                 + ((price \div (WAD * unit)) + (col.market_value \div WAD) + 3)
        BY <2>1, <4>1, <4>2, <4>3, <4>5, <4>6, TakenLeaves
      <4> QED BY <4>4, <4>6, <4>7 DEF price, unit
    <3>5. e \in Nat /\ e <= tol
      <4>1. m <= old.deposited_value /\ old.deposited_value \in Nat
        BY <1>1, <3>2, SumsNat DEF Summed
      <4>2. q <= old.deposited_value \div WAD
        BY <3>1, <3>4, <4>1, QuotientMonotone
      <4>3. old.deposited_value \div WAD \in Nat
        BY <3>1, <4>1, Quotient
      <4> DEFINE d == old.deposited_value \div WAD
      <4>4. tol = d + t + 3
        BY DEF Tolerance
      <4> HIDE DEF d, q, t, tol
      <4> QED BY <3>4, <4>2, <4>3, <4>4 DEF d
    <3> HIDE DEF v, t, q, e, m, k, before, after, tol, room
    <3>6. CASE ltv # 0
      <4>1. before <= after + room + e
        <5>1. (m * k) \div WAD <= ((v * k) \div WAD) + room + e
          BY <2>1, <2>2, <3>1, <3>4, <3>5, <3>6, WeightLeft
        <5> QED BY <3>3, <5>1
      <4> QED BY <1>4, <2>2, <2>3, <3>5, <4>1
    <3>7. CASE ltv = 0
      <4>1. k = 0
        <5>1. PERCENT_SCALER \in Nat
          BY WadAssumption, Quotient DEF PERCENT_SCALER
        <5> QED BY <3>7, <5>1 DEF k, FromPercent
      <4>2. m * k = 0 /\ v * k = 0
        BY <3>4, <4>1
      <4>3. before = after
        BY <3>3, <4>2
      <4> QED BY <1>4, <2>2, <2>3, <4>3
    <3> QED BY <3>6, <3>7
  <2> HIDE DEF before, after, left, tol, allowed, borrowed
  <2>6. borrowed <= left + tol
    BY <1>3, <1>4, <2>2, <2>3, <2>4, <2>5
  <2> QED BY <1>3, <2>6 DEF left, tol
<1> QED BY <1>5, <1>6

-----------------------------------------------------------------------------
(***************************************************************************)
(* What a borrow leaves.                                                   *)
(***************************************************************************)
(* A borrow is worth no more than what the obligation may still borrow.    *)
LEMMA BorrowWithin ==
    ASSUME NEW res \in ReserveRec, NEW amount, NEW room \in Nat, NEW b \in CalculateBorrow(res, amount, room)
    PROVE  Valued(b.borrow_wads, res.market_price, res.mint_unit) <= room
<1> DEFINE price == res.market_price
           unit == res.mint_unit
<1>1. price \in Nat /\ unit \in Nat /\ unit > 0
  BY PriceTyped
<1>2. CASE amount = U64_MAX
  <2> DEFINE Split(w, f) == {[borrow_wads |-> w, receive |-> receive, fee |-> f] :
                             receive \in UNION {CheckedSub(x, f) : x \in TryFloorU64(w)}}
             Fees(w) == CalculateFees(res.config, w, res.config.borrow_fee_wad, TRUE)
  <2>1. b \in UNION {UNION {Split(w, fees.fee) : fees \in Fees(w)} : w \in MaxBorrowWads(res, room)}
    BY <1>2 DEF CalculateBorrow, CalculateMaxBorrow
  <2> HIDE DEF Split, Fees
  <2>2. PICK wads, fees : wads \in MaxBorrowWads(res, room) /\ b \in Split(wads, fees.fee)
    BY <2>1
  <2>3. b.borrow_wads = wads
    BY <2>2 DEF Split
  <2>4. PICK v, w : /\ v \in TryMulU64(room, unit) /\ w \in TryDiv(v, price)
                    /\ wads = Least(w, FromU64(res.available_amount))
    BY <2>2 DEF MaxBorrowWads
  <2>5. v = room * unit /\ v \in Nat
    BY <1>1, <2>4 DEF TryMulU64
  <2>6. price > 0 /\ w = (v * WAD) \div price
    BY <2>4 DEF TryDiv
  <2>7. v * WAD \in Nat
    BY <2>5, WadAssumption
  <2>8. w \in Nat /\ w * price <= v * WAD
    BY <1>1, <2>6, <2>7, Quotient
  <2>9. FromU64(res.available_amount) \in Nat
    BY ReserveNat DEF FromU64
  <2>10. wads \in Nat /\ wads <= w
    BY <2>4, <2>8, <2>9 DEF Least
  <2> DEFINE u == WAD * unit
             y == Valued(w, price, unit)
  <2>11. y \in Nat /\ u \in Nat /\ u > 0 /\ y * u <= w * price
    BY <1>1, <2>8, ValuedIs
  <2>12. v * WAD = room * u
    BY <1>1, <2>5, WadAssumption
  <2>13. Valued(wads, price, unit) <= y /\ Valued(wads, price, unit) \in Nat
    BY <1>1, <2>8, <2>10, ValuedMonotone, ValuedIs
  <2> HIDE DEF u, y, price, unit
  <2>14. y * u <= room * u
    <3>1. y * u \in Nat /\ w * price \in Nat /\ room * u \in Nat
      BY <1>1, <2>8, <2>11
    <3> QED BY <2>8, <2>11, <2>12, <3>1
  <2>15. y <= room
    BY <2>11, <2>14, TimesCancels
  <2> QED BY <2>3, <2>11, <2>13, <2>15 DEF price, unit
<1>3. CASE amount # U64_MAX
  <2>1. PICK wads, receive, fee :
           /\ b = [borrow_wads |-> wads, receive |-> receive, fee |-> fee]
           /\ \E v \in MarketValue(res, wads) : v <= room
    BY <1>3 DEF CalculateBorrow, CalculateExactBorrow
  <2> QED BY <2>1, MarketValueIs
<1> QED BY <1>2, <1>3

(* The obligation new is old with the debt of wads more to r.              *)
Owing(new, old, r, wads) ==
    /\ new \in ObligationRec
    /\ new.deposits = old.deposits
    /\ \A x \in Reserves \ {r} : new.borrows[x] = old.borrows[x]
    /\ new.borrows[r].present
    /\ new.borrows[r].borrowed_amount_wads = old.borrows[r].borrowed_amount_wads + wads
    /\ ~old.borrows[r].present => old.borrows[r].borrowed_amount_wads = 0

(* The reserves new are the reserves old, r having lent.                   *)
HasLent(new, old, r) ==
    /\ \A x \in Reserves \ {r} : new[x] = old[x]
    /\ new[r].market_price = old[r].market_price
    /\ new[r].mint_unit = old[r].mint_unit
    /\ new[r].config = old[r].config
    /\ RateOf(new[r]) <= RateOf(old[r])

LEMMA WorthAtLowerRate ==
    ASSUME NEW a \in Nat, NEW rate \in Nat, NEW lower \in Nat, lower > 0, lower <= rate,
           NEW price \in Nat, NEW unit \in Nat, unit > 0
    PROVE  WorthAt(a, rate, price, unit) <= WorthAt(a, lower, price, unit)
<1> DEFINE x == a * WAD * WAD
<1>1. x \in Nat
  BY WadAssumption
<1> HIDE DEF x
<1>2. x \div rate <= x \div lower
  BY <1>1, QuotientAntitone
<1>3. rate > 0
  OBVIOUS
<1>4. x \div rate \in Nat /\ x \div lower \in Nat
  BY <1>1, <1>3, Quotient
<1> QED BY <1>2, <1>4, ValuedMonotone DEF WorthAt, x

LEMMA AllowedGrows ==
    ASSUME NEW old \in ObligationRec, NEW res \in [Reserves -> ReserveRec], Valuable(old, res),
           NEW after \in [Reserves -> ReserveRec], NEW r \in Reserves, HasLent(after, res, r),
           NEW new \in ObligationRec, new.deposits = old.deposits, Valuable(new, after)
    PROVE  EntryAllowed(old, res, r) <= EntryAllowed(new, after, r)
<1> DEFINE k == FromPercent(res[r].config.loan_to_value_ratio)
           m == EntryWorth(old, res, r)
           n == EntryWorth(new, after, r)
<1>1. m \in Nat /\ n \in Nat /\ k \in Nat
  BY EntriesNat, PriceTyped
<1>2. m <= n
  <2>1. CASE old.deposits[r].present
    <3> DEFINE a == old.deposits[r].deposited_amount
               price == res[r].market_price
               unit == res[r].mint_unit
               rate == RateOf(res[r])
               lower == RateOf(after[r])
    <3>1. a \in Nat /\ price \in Nat /\ unit \in Nat /\ unit > 0
      BY DepositTyped, PriceTyped
    <3>2. rate \in Nat /\ lower \in Nat /\ lower > 0 /\ lower <= rate
      BY <2>1, RateOfNat DEF Valuable, HasLent
    <3>3. m = WorthAt(a, rate, price, unit) /\ n = WorthAt(a, lower, price, unit)
      BY <2>1 DEF EntryWorth, HasLent
    <3> HIDE DEF a, price, unit, rate, lower, m, n
    <3> QED BY <3>1, <3>2, <3>3, WorthAtLowerRate
  <2>2. CASE ~old.deposits[r].present
    BY <2>2 DEF EntryWorth
  <2> QED BY <2>1, <2>2
<1>3. EntryAllowed(old, res, r) = (m * k) \div WAD /\ EntryAllowed(new, after, r) = (n * k) \div WAD
  BY DEF EntryAllowed, HasLent
<1> HIDE DEF m, n, k
<1>4. m * k <= n * k /\ m * k \in Nat /\ n * k \in Nat
  BY <1>1, <1>2, TimesMonotone
<1>5. WAD \in Nat /\ WAD > 0
  BY WadAssumption
<1> QED BY <1>3, <1>4, <1>5, QuotientMonotone

(* Borrowing leaves the debts covered. *)
LEMMA BorrowCovered ==
    ASSUME NEW old \in ObligationRec, NEW res \in [Reserves -> ReserveRec], Summed(old, res),
           NEW r \in Reserves, NEW amount,
           old.allowed_borrow_value - old.borrowed_value \in Nat,
           NEW b \in CalculateBorrow(res[r], amount, old.allowed_borrow_value - old.borrowed_value),
           NEW new, Owing(new, old, r, b.borrow_wads),
           NEW after \in [Reserves -> ReserveRec], HasLent(after, res, r), Valuable(new, after)
    PROVE  SumFunction(Debts(new, after)) <= SumFunction(Alloweds(new, after)) + 1
<1> DEFINE room == old.allowed_borrow_value - old.borrowed_value
           wads == b.borrow_wads
           debt == old.borrows[r].borrowed_amount_wads
           price == res[r].market_price
           unit == res[r].mint_unit
<1>1. price \in Nat /\ unit \in Nat /\ unit > 0
  BY PriceTyped
<1>2. wads \in Nat /\ Valued(wads, price, unit) <= room
  BY BorrowWads, BorrowWithin
<1>3. debt \in Nat /\ new \in ObligationRec /\ new.deposits = old.deposits /\ Valuable(old, res)
  <2>1. old.borrows[r] \in LiquidityRec
    BY DEF ObligationRec
  <2>2. debt \in Nat
    BY <2>1, DecimalNat DEF LiquidityRec
  <2> QED BY <2>2 DEF Owing, Summed
<1> DEFINE oldDebt == EntryDebt(old, res, r)
           newDebt == EntryDebt(new, after, r)
<1>4. newDebt = Valued(debt + wads, price, unit)
  BY DEF EntryDebt, Owing, HasLent
<1>5. newDebt <= oldDebt + room + 1
  <2>1. /\ Valued(debt + wads, price, unit) <= Valued(debt, price, unit) + Valued(wads, price, unit) + 1
    BY <1>1, <1>2, <1>3, ValuedSum
  <2>2. Valued(debt, price, unit) = oldDebt
    <3>1. CASE old.borrows[r].present
      BY <3>1 DEF EntryDebt
    <3>2. CASE ~old.borrows[r].present
      <4>1. debt = 0 /\ oldDebt = 0
        BY <3>2 DEF Owing, EntryDebt
      <4>2. Valued(0, price, unit) = 0
        <5>1. 0 * price = 0 /\ 0 \div WAD = 0 /\ 0 \div unit = 0
          BY <1>1, WadAssumption
        <5> QED BY <5>1 DEF Valued
      <4> QED BY <4>1, <4>2
    <3> QED BY <3>1, <3>2
  <2>3. Valued(wads, price, unit) \in Nat /\ Valued(debt, price, unit) \in Nat
        /\ Valued(debt + wads, price, unit) \in Nat
    <3>1. debt + wads \in Nat
      BY <1>2, <1>3
    <3> QED BY <1>1, <1>2, <1>3, <3>1, ValuedIs
  <2> HIDE DEF newDebt, oldDebt, debt, wads, price, unit
  <2> QED BY <1>2, <1>4, <2>1, <2>2, <2>3
<1>6. EntryAllowed(old, res, r) <= EntryAllowed(new, after, r)
  BY <1>3, AllowedGrows
<1>7. \A x \in Reserves \ {r} : /\ EntryAllowed(new, after, x) = EntryAllowed(old, res, x)
                                /\ EntryDebt(new, after, x) = EntryDebt(old, res, x)
  BY DEF EntryAllowed, EntryWorth, EntryDebt, Owing, HasLent
<1> DEFINE f == Alloweds(old, res)
           g == Alloweds(new, after)
           d == Debts(old, res)
           e == Debts(new, after)
<1>8. /\ f \in [Reserves -> Int] /\ g \in [Reserves -> Int] /\ d \in [Reserves -> Int] /\ e \in [Reserves -> Int]
      /\ SumFunction(f) \in Nat /\ SumFunction(g) \in Nat /\ SumFunction(d) \in Nat /\ SumFunction(e) \in Nat
  BY <1>3, SumsNat
<1>9. /\ f[r] = EntryAllowed(old, res, r) /\ g[r] = EntryAllowed(new, after, r)
      /\ d[r] = oldDebt /\ e[r] = newDebt
      /\ \A x \in Reserves \ {r} : g[x] = f[x] /\ e[x] = d[x]
  BY <1>7 DEF Alloweds, Debts
<1>10. old.allowed_borrow_value = SumFunction(f) /\ old.borrowed_value = SumFunction(d)
  BY DEF Summed
<1>11. f[r] \in Int /\ g[r] \in Int /\ d[r] \in Int /\ e[r] \in Int
  BY <1>8
<1> HIDE DEF f, g, d, e, oldDebt, newDebt
<1>12. SumFunction(g) = SumFunction(f) - f[r] + g[r] /\ SumFunction(e) = SumFunction(d) - d[r] + e[r]
  BY <1>8, <1>9, SumChanged, ObligationAssumption
<1>13. e[r] <= d[r] + (SumFunction(f) - SumFunction(d)) + 1 /\ f[r] <= g[r]
  BY <1>5, <1>6, <1>9, <1>10
<1>14. SumFunction(e) <= SumFunction(g) + 1
  BY <1>8, <1>11, <1>12, <1>13
<1> QED BY <1>14 DEF g, e

-----------------------------------------------------------------------------
(***************************************************************************)
(* The configurations of the reserves.                                     *)
(***************************************************************************)

(* Every reserve in use has a configuration that was validated. *)
ConfigsValid == \A r \in Reserves : reserve[r].initialized => ValidConfig(reserve[r].config)

LEMMA ConfigsValidInit == Init => ConfigsValid
  BY DEF Init, ConfigsValid, UninitializedReserve

LEMMA SameConfigs ==
    ASSUME ConfigsValid, RatesKept, ConfigsKept
    PROVE  ConfigsValid'
  BY DEF ConfigsValid, RatesKept, ConfigsKept

LEMMA InitReserveValid ==
    ASSUME TypeOK, ConfigsValid, NEW r \in Reserves, NEW amount \in U64, NEW price \in Rate,
           NEW unit \in MintUnits, NEW c \in Configs,
           ProcessInitReserve(r, amount, price, unit, c)
    PROVE  ConfigsValid'
<1> DEFINE new == NewReserve(price, unit, c)
<1>1. new \in ReserveRec /\ new.config = c
  BY WadAssumption DEF NewReserve, ReserveRec, TypeOK, U64, Rate
<1>2. PICK d \in DepositLiquidity(new, amount) : SaveReserve(r, d.reserve)
  BY DEF ProcessInitReserve
<1> HIDE DEF new
<1>3. Moves(d.reserve, new, amount, d.collateral_amount)
  BY <1>1, <1>2, DepositEffect
<1>4. reserve'[r].config = c /\ \A x \in Reserves \ {r} : reserve'[x] = reserve[x]
  BY <1>1, <1>2, <1>3, SaveReserveIs DEF Moves
<1>5. ValidConfig(c)
  BY DEF ProcessInitReserve
<1> QED BY <1>4, <1>5 DEF ConfigsValid

LEMMA RefreshReserveValid ==
    ASSUME TypeOK, ConfigsValid, NEW r \in Reserves, NEW price \in Rate,
           ProcessRefreshReserve(r, price)
    PROVE  ConfigsValid'
<1>1. reserve[r] \in ReserveRec /\ Priced(r, price) \in ReserveRec /\ slot \in Nat
  BY DEF TypeOK, Priced, ReserveRec
<1>2. Priced(r, price).config = reserve[r].config
  BY <1>1 DEF Priced, ReserveRec
<1>3. PICK accrued \in AccrueInterest(Priced(r, price), slot) : SaveReserve(r, UpdateSlot(accrued, slot))
  BY DEF ProcessRefreshReserve
<1>4. \/ accrued = Priced(r, price)
      \/ \E cumulative, borrowed : accrued = Compounded(Priced(r, price), cumulative, borrowed)
  BY <1>1, <1>3, AccrueEffect
<1>5. UpdateSlot(accrued, slot).config = reserve[r].config
  BY <1>1, <1>2, <1>4 DEF Compounded, UpdateSlot, ReserveRec
<1>6. reserve'[r] = UpdateSlot(accrued, slot) /\ \A x \in Reserves \ {r} : reserve'[x] = reserve[x]
  BY <1>3, SaveReserveIs
<1>7. reserve[r].initialized
  BY DEF ProcessRefreshReserve
<1> QED BY <1>5, <1>6, <1>7 DEF ConfigsValid

LEMMA UpdateReserveValid ==
    ASSUME TypeOK, ConfigsValid, NEW r \in Reserves, NEW c, ProcessUpdateReserve(r, c)
    PROVE  ConfigsValid'
<1>1. /\ reserve'[r] = [reserve[r] EXCEPT !.config = c]
      /\ \A x \in Reserves \ {r} : reserve'[x] = reserve[x]
  BY SaveReserveIs DEF ProcessUpdateReserve
<1>2. reserve'[r].config = c
  BY <1>1 DEF TypeOK, ReserveRec
<1> QED BY <1>1, <1>2 DEF ConfigsValid, ProcessUpdateReserve

LEMMA ConfigsValidNext == TypeOK /\ ConfigsValid /\ [OpenNext]_vars => ConfigsValid'
<1> SUFFICES ASSUME TypeOK, ConfigsValid, [OpenNext]_vars PROVE ConfigsValid'
  OBVIOUS
<1>1. /\ Amounts \subseteq U64
      /\ \A r \in Reserves : PricesFor[r] \subseteq Rate /\ ConfigsFor[r] \subseteq Configs
      /\ 0 \in U64
  BY LendingAssumption, WadAssumption DEF U64
<1>2. ASSUME NEW r \in Reserves, ReserveStep(r) PROVE ConfigsValid'
  <2>1. CASE \E amount \in Amounts, price \in PricesFor[r], unit \in MintUnits, c \in ConfigsFor[r] :
                ProcessInitReserve(r, amount, price, unit, c)
    BY <1>1, <2>1, InitReserveValid
  <2>2. CASE \E price \in PricesFor[r] : ProcessRefreshReserve(r, price)
    BY <1>1, <2>2, RefreshReserveValid
  <2>3. ASSUME NEW amount \in U64,
               \/ ProcessDepositReserveLiquidity(r, amount)
               \/ ProcessRedeemReserveCollateral(r, amount)
               \/ \E overpaid : ProcessFlashLoan(r, amount, overpaid)
               \/ \E c : ProcessUpdateReserve(r, c)
               \/ ProcessWithdrawFee(r)
        PROVE  ConfigsValid'
    <3>1. RatesKept /\ (ConfigsKept \/ \E c : ProcessUpdateReserve(r, c))
      BY <2>3, ReserveKept
    <3> QED BY <3>1, SameConfigs, UpdateReserveValid
  <2> QED BY <1>1, <1>2, <2>1, <2>2, <2>3 DEF ReserveStep
<1>3. ASSUME NEW o \in Obligations, ObligationStep(o) PROVE ConfigsValid'
  <2>1. CASE ProcessInitObligation(o) \/ ProcessRefreshObligation(o)
    BY <2>1 DEF ProcessInitObligation, ProcessRefreshObligation, ConfigsValid
  <2>2. ASSUME NEW r \in Reserves, NEW w \in Reserves, NEW amount \in U64,
               \/ ProcessDepositObligationCollateral(o, r, amount)
               \/ ProcessDepositReserveLiquidityAndObligationCollateral(o, r, amount)
               \/ ProcessWithdrawObligationCollateral(o, r, amount)
               \/ ProcessBorrowObligationLiquidity(o, r, amount)
               \/ ProcessRepayObligationLiquidity(o, r, amount)
               \/ ProcessLiquidateObligation(o, r, w, amount)
        PROVE  ConfigsValid'
    <3>1. RatesKept /\ ConfigsKept
      BY <2>2, DepositCollateralKept, DepositBothKept, BorrowKept, RepayKept
    <3> QED BY <3>1, SameConfigs
  <2> QED BY <1>1, <1>3, <2>1, <2>2 DEF ObligationStep
<1>4. CASE Tick \/ UNCHANGED vars
  BY <1>4 DEF Tick, vars, ConfigsValid
<1>5. ASSUME NEW r \in Reserves, NEW price \in Rate, AnyPriceStep(r, price) PROVE ConfigsValid'
  BY <1>1, <1>5, InitReserveValid, RefreshReserveValid DEF AnyPriceStep
<1> QED BY <1>2, <1>3, <1>4, <1>5 DEF OpenNext, Next

-----------------------------------------------------------------------------
(***************************************************************************)
(* The debts an instruction leaves.                                        *)
(***************************************************************************)

(* An entry that is no debt owes nothing. *)
Tidy(ob) == \A x \in Reserves : ~ob.borrows[x].present => ob.borrows[x].borrowed_amount_wads = 0

TidyInv == \A o \in Obligations : Tidy(obligation[o])

LEMMA TidyInit == Init => TidyInv
  BY DEF Init, TidyInv, Tidy, EmptyObligation, NoLiquidity

LEMMA SavedIs ==
    ASSUME TypeOK, NEW o \in Obligations, NEW ob, SaveObligation(o, ob)
    PROVE  /\ obligation'[o] = ob /\ ob \in ObligationRec
           /\ \A p \in Obligations \ {o} : obligation'[p] = obligation[p]
  BY DEF TypeOK, SaveObligation, PackObligation

LEMMA CollateralKeepsDebts ==
    ASSUME NEW ob \in ObligationRec, NEW r \in Reserves, NEW a,
           NEW new \in AddCollateral(ob, r, a) \cup WithdrawCollateral(ob, r, a)
    PROVE  MarkStale(new).borrows = ob.borrows
<1>1. PICK col : new = SetDeposit(ob, r, col)
  BY CollateralEffects
<1> QED BY <1>1 DEF SetDeposit, MarkStale, ObligationRec

(* What a repayment leaves of a debt. *)
Rest(old, s) == IF old.borrowed_amount_wads - s = 0 THEN NoLiquidity
                ELSE [old EXCEPT !.borrowed_amount_wads = old.borrowed_amount_wads - s]

LEMMA RepaidRest ==
    ASSUME NEW ob \in ObligationRec, NEW r \in Reserves, NEW s, NEW new \in RepayDebt(ob, r, s)
    PROVE  /\ new = SetBorrow(ob, r, Rest(ob.borrows[r], s))
           /\ ob.borrows[r].borrowed_amount_wads - s \in Nat
<1>1. ob.borrows[r].borrowed_amount_wads - s \in Decimal
  BY DEF RepayDebt, TrySub
<1>2. new = SetBorrow(ob, r, Rest(ob.borrows[r], s))
  BY DEF RepayDebt, TrySub, Rest
<1> QED BY <1>1, <1>2, DecimalNat

LEMMA RestIs ==
    ASSUME NEW old \in LiquidityRec, NEW s \in Nat, old.borrowed_amount_wads - s \in Nat
    PROVE  /\ Rest(old, s).borrowed_amount_wads = old.borrowed_amount_wads - s
           /\ Rest(old, s).borrowed_amount_wads <= old.borrowed_amount_wads
           /\ ~Rest(old, s).present => Rest(old, s).borrowed_amount_wads = 0 \/ ~old.present
           /\ (old.present /\ (s > 0 \/ s = old.borrowed_amount_wads)) => Rest(old, s) # old
<1>1. old.borrowed_amount_wads \in Nat
  BY DecimalNat DEF LiquidityRec
<1>2. CASE old.borrowed_amount_wads - s = 0
  BY <1>1, <1>2 DEF Rest, NoLiquidity
<1>3. CASE old.borrowed_amount_wads - s # 0
  <2>1. Rest(old, s) = [old EXCEPT !.borrowed_amount_wads = old.borrowed_amount_wads - s]
    BY <1>3 DEF Rest
  <2>2. /\ Rest(old, s).borrowed_amount_wads = old.borrowed_amount_wads - s
        /\ Rest(old, s).present = old.present
    BY <2>1 DEF LiquidityRec
  <2> QED BY <1>1, <1>3, <2>2
<1> QED BY <1>2, <1>3

LEMMA RepaidDebts ==
    ASSUME NEW ob \in ObligationRec, NEW r \in Reserves, NEW s \in Nat,
           NEW repaid \in RepayDebt(ob, r, s), NEW w \in Reserves, NEW a,
           NEW new \in {repaid} \cup WithdrawCollateral(repaid, w, a)
    PROVE  /\ \A x \in Reserves : MarkStale(new).borrows[x] =
                 IF x = r THEN Rest(ob.borrows[r], s) ELSE ob.borrows[x]
           /\ ob.borrows[r] \in LiquidityRec /\ ob.borrows[r].borrowed_amount_wads - s \in Nat
<1> DEFINE liq == Rest(ob.borrows[r], s)
           borrows == [ob.borrows EXCEPT ![r] = liq]
<1>1. repaid = SetBorrow(ob, r, liq) /\ ob.borrows[r].borrowed_amount_wads - s \in Nat
  BY RepaidRest
<1>2. ob.borrows[r] \in LiquidityRec
  BY DEF ObligationRec
<1>3. \A x \in Reserves : borrows[x] = IF x = r THEN liq ELSE ob.borrows[x]
  BY DEF ObligationRec
<1>4. repaid = [ob EXCEPT !.deposits = ob.deposits, !.borrows = borrows]
  <2> HIDE DEF liq
  <2> QED BY <1>1, SettingBorrow
<1> HIDE DEF liq, borrows
<1>5. MarkStale(new).borrows = borrows
  <2>1. CASE new = repaid
    BY <1>4, <2>1 DEF MarkStale, ObligationRec
  <2>2. CASE new \in WithdrawCollateral(repaid, w, a)
    <3>1. PICK col : new = SetDeposit(repaid, w, col)
      BY <2>2, CollateralEffects
    <3> QED BY <1>4, <3>1 DEF SetDeposit, MarkStale, ObligationRec
  <2> QED BY <2>1, <2>2
<1> QED BY <1>1, <1>2, <1>3, <1>5 DEF liq

LEMMA RepaidTidy ==
    ASSUME NEW ob \in ObligationRec, Tidy(ob), NEW r \in Reserves, NEW s \in Nat,
           NEW new, \A x \in Reserves : new.borrows[x] = IF x = r THEN Rest(ob.borrows[r], s) ELSE ob.borrows[x],
           ob.borrows[r].borrowed_amount_wads - s \in Nat
    PROVE  Tidy(new)
<1>1. ob.borrows[r] \in LiquidityRec
  BY DEF ObligationRec
<1> DEFINE rest == Rest(ob.borrows[r], s)
           debt == ob.borrows[r].borrowed_amount_wads
<1>2. /\ rest.borrowed_amount_wads = debt - s
      /\ ~rest.present => rest.borrowed_amount_wads = 0 \/ ~ob.borrows[r].present
  BY <1>1, RestIs
<1>3. debt \in Nat
  BY <1>1, DecimalNat DEF LiquidityRec
<1>4. ~ob.borrows[r].present => debt = 0
  BY DEF Tidy
<1> HIDE DEF rest, debt
<1>5. ~rest.present => rest.borrowed_amount_wads = 0
  <2>1. debt - s \in Nat
    BY DEF debt
  <2> QED BY <1>2, <1>3, <1>4, <2>1
<1> QED BY <1>5 DEF Tidy, rest

LEMMA AddLiquidityIs ==
    ASSUME NEW ob \in ObligationRec, NEW r \in Reserves, NEW rate, NEW wads,
           NEW new \in AddLiquidity(ob, r, rate, wads)
    PROVE  /\ MarkStale(new).deposits = ob.deposits
           /\ \A x \in Reserves \ {r} : MarkStale(new).borrows[x] = ob.borrows[x]
           /\ MarkStale(new).borrows[r].present
           /\ MarkStale(new).borrows[r].borrowed_amount_wads = ob.borrows[r].borrowed_amount_wads + wads
           /\ MarkStale(new).borrows[r].cumulative_borrow_rate_wads =
                 IF ob.borrows[r].cumulative_borrow_rate_wads = 0 THEN rate
                 ELSE ob.borrows[r].cumulative_borrow_rate_wads
<1> DEFINE total == ob.borrows[r].borrowed_amount_wads + wads
           liq == [ob.borrows[r] EXCEPT !.present = TRUE, !.borrowed_amount_wads = total,
                                        !.cumulative_borrow_rate_wads = IF @ = 0 THEN rate ELSE @]
           borrows == [ob.borrows EXCEPT ![r] = liq]
<1>1. new = SetBorrow(ob, r, liq)
  BY DEF AddLiquidity, TryAdd
<1>2. ob.borrows[r] \in LiquidityRec
  BY DEF ObligationRec
<1> HIDE DEF total
<1>3. /\ liq.present /\ liq.borrowed_amount_wads = total
      /\ liq.cumulative_borrow_rate_wads =
            IF ob.borrows[r].cumulative_borrow_rate_wads = 0 THEN rate
            ELSE ob.borrows[r].cumulative_borrow_rate_wads
  BY <1>2 DEF LiquidityRec
<1> HIDE DEF liq
<1>4. new = [ob EXCEPT !.deposits = ob.deposits, !.borrows = borrows]
  BY <1>1, SettingBorrow
<1>5. \A x \in Reserves : borrows[x] = IF x = r THEN liq ELSE ob.borrows[x]
  BY DEF ObligationRec
<1> HIDE DEF borrows
<1>6. MarkStale(new).deposits = ob.deposits /\ MarkStale(new).borrows = borrows
  BY <1>4 DEF MarkStale, ObligationRec
<1> QED BY <1>3, <1>5, <1>6 DEF total

(* What the instructions of an obligation do to its debts. *)
LEMMA CollateralDebts ==
    ASSUME TypeOK, NEW o \in Obligations, NEW r \in Reserves, NEW amount,
           \/ ProcessDepositObligationCollateral(o, r, amount)
           \/ ProcessDepositReserveLiquidityAndObligationCollateral(o, r, amount)
           \/ ProcessWithdrawObligationCollateral(o, r, amount)
    PROVE  /\ obligation'[o].borrows = obligation[o].borrows
           /\ \A p \in Obligations \ {o} : obligation'[p] = obligation[p]
<1>1. obligation[o] \in ObligationRec
  BY DEF TypeOK
<1>2. PICK a, new : /\ new \in AddCollateral(obligation[o], r, a) \cup WithdrawCollateral(obligation[o], r, a)
                    /\ SaveObligation(o, MarkStale(new))
  BY DEF ProcessDepositObligationCollateral, ProcessDepositReserveLiquidityAndObligationCollateral,
         ProcessWithdrawObligationCollateral, DepositObligationCollateral
<1> QED BY <1>1, <1>2, SavedIs, CollateralKeepsDebts

(* the debt to r is lowered by s, and removed when nothing is left *)
Repaid(o, r, s) ==
    /\ \A x \in Reserves : obligation'[o].borrows[x] =
          IF x = r THEN Rest(obligation[o].borrows[r], s) ELSE obligation[o].borrows[x]
    /\ obligation[o].borrows[r].borrowed_amount_wads - s \in Nat
    /\ \A p \in Obligations \ {o} : obligation'[p] = obligation[p]

LEMMA RepaidDebtsSaved ==
    ASSUME TypeOK, NEW o \in Obligations, NEW r \in Reserves, NEW w \in Reserves, NEW s \in Nat,
           \E repaid \in RepayDebt(obligation[o], r, s) :
              \E a : \E new \in {repaid} \cup WithdrawCollateral(repaid, w, a) :
                 SaveObligation(o, MarkStale(new))
    PROVE  Repaid(o, r, s)
<1>1. obligation[o] \in ObligationRec
  BY DEF TypeOK
<1>2. PICK repaid \in RepayDebt(obligation[o], r, s) :
         \E a : \E new \in {repaid} \cup WithdrawCollateral(repaid, w, a) :
            SaveObligation(o, MarkStale(new))
  OBVIOUS
<1>3. PICK a, new : /\ new \in {repaid} \cup WithdrawCollateral(repaid, w, a)
                    /\ SaveObligation(o, MarkStale(new))
  BY <1>2
<1>4. /\ \A x \in Reserves : MarkStale(new).borrows[x] =
             IF x = r THEN Rest(obligation[o].borrows[r], s) ELSE obligation[o].borrows[x]
      /\ obligation[o].borrows[r].borrowed_amount_wads - s \in Nat
  <2> DEFINE ob == obligation[o]
  <2>1. ob \in ObligationRec /\ repaid \in RepayDebt(ob, r, s)
    BY <1>1, <1>2
  <2> HIDE DEF ob
  <2>2. /\ \A x \in Reserves : MarkStale(new).borrows[x] =
               IF x = r THEN Rest(ob.borrows[r], s) ELSE ob.borrows[x]
        /\ ob.borrows[r].borrowed_amount_wads - s \in Nat
    BY <1>3, <2>1, RepaidDebts
  <2> QED BY <2>2 DEF ob
<1> QED BY <1>3, <1>4, SavedIs DEF Repaid

LEMMA RepayRepaid ==
    ASSUME TypeOK, NEW o \in Obligations, NEW r \in Reserves, NEW amount \in U64,
           ProcessRepayObligationLiquidity(o, r, amount)
    PROVE  \E s \in Nat : Repaid(o, r, s)
<1>1. PICK p \in CalculateRepay(amount, obligation[o].borrows[r].borrowed_amount_wads) :
         \E ob \in RepayDebt(obligation[o], r, p.settle) : SaveObligation(o, MarkStale(ob))
  BY DEF ProcessRepayObligationLiquidity
<1>2. p.settle \in Nat
  BY <1>1, DebtNat, RepayPays
<1> QED BY <1>1, <1>2, RepaidDebtsSaved

(* A liquidation that is paid for settles something. *)
LEMMA LiquidationSettles ==
    ASSUME NEW c, NEW amount \in U64, NEW ob, NEW liq, NEW col, liq.borrowed_amount_wads \in Nat,
           NEW q \in CalculateLiquidation(c, amount, ob, liq, col), q.repay # 0
    PROVE  q.settle # 0 \/ q.settle = liq.borrowed_amount_wads
<1> DEFINE debt == liq.borrowed_amount_wads
<1>1. PICK bonus, most :
         q \in (IF debt < FromU64(LIQUIDATION_CLOSE_AMOUNT)
                THEN CloseOut(liq, col, bonus, most)
                ELSE UNION {PartialLiquidation(liq, col, bonus, Least(limit, most)) :
                            limit \in MaxLiquidationWads(ob, liq)})
  BY DEF CalculateLiquidation
<1>2. CASE debt < FromU64(LIQUIDATION_CLOSE_AMOUNT)
  <2>1. q \in CloseOut(liq, col, bonus, most)
    BY <1>1, <1>2
  <2>2. \E repay, withdraw : q = [settle |-> debt, repay |-> repay, withdraw |-> withdraw]
    BY <2>1 DEF CloseOut
  <2> QED BY <2>2
<1>3. CASE ~(debt < FromU64(LIQUIDATION_CLOSE_AMOUNT))
  <2>1. PICK wads : q \in PartialLiquidation(liq, col, bonus, wads)
    BY <1>1, <1>3
  <2>2. PICK settle, repay, withdraw :
           /\ q = [settle |-> settle, repay |-> repay, withdraw |-> withdraw]
           /\ repay \in TryCeilU64(settle)
    BY <2>1 DEF PartialLiquidation
  <2>3. \A x \in TryCeilU64(0) : x = 0
    <3>1. (0 + (WAD - 1)) \div WAD = 0
      BY WadAssumption
    <3> QED BY <3>1 DEF TryCeilU64
  <2> QED BY <2>2, <2>3
<1> QED BY <1>2, <1>3

LEMMA LiquidateRepaid ==
    ASSUME TypeOK, NEW o \in Obligations, NEW r \in Reserves, NEW w \in Reserves, NEW amount \in U64,
           ProcessLiquidateObligation(o, r, w, amount)
    PROVE  \E s \in Nat : /\ Repaid(o, r, s)
                          /\ obligation[o].borrows[r].present
                          /\ s > 0 \/ s = obligation[o].borrows[r].borrowed_amount_wads
<1>1. PICK q \in CalculateLiquidation(reserve[w].config, amount, obligation[o],
                                      obligation[o].borrows[r], obligation[o].deposits[w]) :
         /\ q.repay # 0
         /\ \E repaid \in RepayDebt(obligation[o], r, q.settle) :
              \E seized \in WithdrawCollateral(repaid, w, q.withdraw) : SaveObligation(o, MarkStale(seized))
  BY DEF ProcessLiquidateObligation
<1> DEFINE debt == obligation[o].borrows[r].borrowed_amount_wads
<1>2. debt \in Nat
  BY DebtNat
<1>3. q.settle \in Nat
  BY <1>1, <1>2, LiquidationPays
<1>4. q.settle # 0 \/ q.settle = debt
  BY <1>1, <1>2, LiquidationSettles
<1>5. Repaid(o, r, q.settle)
  BY <1>1, <1>3, RepaidDebtsSaved
<1>6. obligation[o].borrows[r].present
  BY DEF ProcessLiquidateObligation, Liquidatable
<1> QED BY <1>3, <1>4, <1>5, <1>6

(* the obligation owes wads more to r *)
Borrowed(o, r, wads) ==
    /\ obligation'[o].deposits = obligation[o].deposits
    /\ \A x \in Reserves \ {r} : obligation'[o].borrows[x] = obligation[o].borrows[x]
    /\ obligation'[o].borrows[r].present
    /\ obligation'[o].borrows[r].borrowed_amount_wads = obligation[o].borrows[r].borrowed_amount_wads + wads
    /\ obligation'[o].borrows[r].cumulative_borrow_rate_wads =
          IF obligation[o].borrows[r].cumulative_borrow_rate_wads = 0
          THEN reserve[r].cumulative_borrow_rate_wads
          ELSE obligation[o].borrows[r].cumulative_borrow_rate_wads
    /\ \A p \in Obligations \ {o} : obligation'[p] = obligation[p]

LEMMA BorrowedSaved ==
    ASSUME TypeOK, NEW o \in Obligations, NEW r \in Reserves, NEW wads,
           \E owing \in AddLiquidity(obligation[o], r, reserve[r].cumulative_borrow_rate_wads, wads) :
              SaveObligation(o, MarkStale(owing))
    PROVE  Borrowed(o, r, wads)
<1>1. obligation[o] \in ObligationRec
  BY DEF TypeOK
<1> QED BY <1>1, SavedIs, AddLiquidityIs DEF Borrowed

LEMMA RefreshTidy ==
    ASSUME NEW ob \in ObligationRec, Tidy(ob), NEW res \in [Reserves -> ReserveRec], NEW now \in Nat,
           NEW new \in RefreshObligation(ob, res, now)
    PROVE  Tidy(new)
<1> DEFINE B == BorrowReserves(ob)
           Refreshed(x) == RefreshedLiquidity(ob.borrows[x], res[x])
           Bors == [x \in Reserves |-> IF x \in B THEN Unwrap(Refreshed(x)) ELSE ob.borrows[x]]
<1>1. /\ \A x \in B : Refreshed(x) # {}
      /\ new.borrows = Bors
  BY DEF RefreshObligation, PackObligation, UpdateSlot, ObligationRec
<1>2. ASSUME NEW x \in Reserves, x \in B
      PROVE  Bors[x].present
  <2>1. Unwrap(Refreshed(x)) \in Refreshed(x)
    <3> HIDE DEF Refreshed
    <3> QED BY <1>1, <1>2 DEF Unwrap
  <2>2. ob.borrows[x] \in LiquidityRec /\ res[x] \in ReserveRec /\ ob.borrows[x].present
    BY <1>2 DEF ObligationRec, BorrowReserves
  <2> QED BY <1>2, <2>1, <2>2, RefreshedEffect
<1>3. ASSUME NEW x \in Reserves, x \notin B
      PROVE  Bors[x] = ob.borrows[x]
  BY <1>3
<1> HIDE DEF Bors, B, Refreshed
<1> QED BY <1>1, <1>2, <1>3 DEF Tidy

LEMMA TidyStep ==
    ASSUME TypeOK, TidyInv, NEW o \in Obligations, ObligationStep(o)
    PROVE  TidyInv'
<1>1. Amounts \subseteq U64 /\ obligation[o] \in ObligationRec /\ Tidy(obligation[o])
  BY LendingAssumption DEF TypeOK, TidyInv
<1>2. SUFFICES Tidy(obligation'[o]) /\ \A p \in Obligations \ {o} : obligation'[p] = obligation[p]
  BY DEF TidyInv, Tidy
<1>3. CASE ProcessInitObligation(o)
  <2>1. SaveObligation(o, EmptyObligation(TRUE, slot))
    BY <1>3 DEF ProcessInitObligation
  <2>2. Tidy(EmptyObligation(TRUE, slot))
    BY DEF Tidy, EmptyObligation, NoLiquidity
  <2> QED BY <2>1, <2>2, SavedIs
<1>4. CASE ProcessRefreshObligation(o)
  <2>1. PICK ob \in RefreshObligation(obligation[o], reserve, slot) :
           obligation' = [obligation EXCEPT ![o] = ob]
    BY <1>4 DEF ProcessRefreshObligation
  <2>2. obligation'[o] = ob /\ \A p \in Obligations \ {o} : obligation'[p] = obligation[p]
    BY <2>1 DEF TypeOK
  <2>3. Tidy(ob)
    BY <1>1, <2>1, RefreshTidy DEF TypeOK
  <2> QED BY <2>2, <2>3
<1>5. ASSUME NEW r \in Reserves, NEW amount \in Amounts,
             \/ ProcessDepositObligationCollateral(o, r, amount)
             \/ ProcessDepositReserveLiquidityAndObligationCollateral(o, r, amount)
             \/ ProcessWithdrawObligationCollateral(o, r, amount)
      PROVE  Tidy(obligation'[o]) /\ \A p \in Obligations \ {o} : obligation'[p] = obligation[p]
  <2>1. /\ obligation'[o].borrows = obligation[o].borrows
        /\ \A p \in Obligations \ {o} : obligation'[p] = obligation[p]
    BY <1>5, CollateralDebts
  <2> QED BY <1>1, <2>1 DEF Tidy
<1>6. ASSUME NEW r \in Reserves, NEW amount \in Amounts, ProcessBorrowObligationLiquidity(o, r, amount)
      PROVE  Tidy(obligation'[o]) /\ \A p \in Obligations \ {o} : obligation'[p] = obligation[p]
  <2>1. PICK wads : Borrowed(o, r, wads)
    BY <1>6, BorrowedSaved DEF ProcessBorrowObligationLiquidity
  <2> QED BY <1>1, <2>1 DEF Tidy, Borrowed
<1>7. ASSUME NEW r \in Reserves, NEW s \in Nat, Repaid(o, r, s)
      PROVE  Tidy(obligation'[o]) /\ \A p \in Obligations \ {o} : obligation'[p] = obligation[p]
  <2> DEFINE new == obligation'[o]
  <2>1. /\ \A x \in Reserves : new.borrows[x] =
              IF x = r THEN Rest(obligation[o].borrows[r], s) ELSE obligation[o].borrows[x]
        /\ obligation[o].borrows[r].borrowed_amount_wads - s \in Nat
        /\ \A p \in Obligations \ {o} : obligation'[p] = obligation[p]
    BY <1>7 DEF Repaid
  <2> HIDE DEF new
  <2>2. Tidy(new)
    BY <1>1, <2>1, RepaidTidy
  <2> QED BY <2>1, <2>2 DEF new
<1>8. ASSUME NEW r \in Reserves, NEW amount \in Amounts, ProcessRepayObligationLiquidity(o, r, amount)
      PROVE  Tidy(obligation'[o]) /\ \A p \in Obligations \ {o} : obligation'[p] = obligation[p]
  BY <1>1, <1>7, <1>8, RepayRepaid
<1>9. ASSUME NEW r \in Reserves, NEW w \in Reserves, NEW amount \in Amounts,
             ProcessLiquidateObligation(o, r, w, amount)
      PROVE  Tidy(obligation'[o]) /\ \A p \in Obligations \ {o} : obligation'[p] = obligation[p]
  BY <1>1, <1>7, <1>9, LiquidateRepaid
<1> QED BY <1>3, <1>4, <1>5, <1>6, <1>8, <1>9 DEF ObligationStep

(* Only the instructions of an obligation change obligations. *)
LEMMA ObligationsKept ==
    ASSUME [OpenNext]_vars
    PROVE  UNCHANGED obligation \/ \E o \in Obligations : ObligationStep(o)
<1>1. ASSUME NEW r \in Reserves, ReserveStep(r) PROVE UNCHANGED obligation
  BY <1>1 DEF ReserveStep, ProcessInitReserve, ProcessRefreshReserve,
       ProcessDepositReserveLiquidity, ProcessRedeemReserveCollateral, ProcessFlashLoan,
       ProcessUpdateReserve, ProcessWithdrawFee
<1>2. ASSUME NEW r \in Reserves, NEW price \in Rate, AnyPriceStep(r, price) PROVE UNCHANGED obligation
  BY <1>2 DEF AnyPriceStep, ProcessInitReserve, ProcessRefreshReserve
<1>3. CASE Tick \/ UNCHANGED vars
  BY <1>3 DEF Tick, vars
<1> QED BY <1>1, <1>2, <1>3 DEF OpenNext, Next

LEMMA TidyNext == TypeOK /\ TidyInv /\ [OpenNext]_vars => TidyInv'
<1>1. ASSUME TidyInv, UNCHANGED obligation PROVE TidyInv'
  BY <1>1 DEF TidyInv
<1> QED BY <1>1, ObligationsKept, TidyStep

-----------------------------------------------------------------------------
(***************************************************************************)
(* Which instructions take something out of an obligation.                 *)
(***************************************************************************)
LEMMA OthersKept ==
    ASSUME TypeOK, NEW o \in Obligations, ObligationStep(o)
    PROVE  \A p \in Obligations \ {o} : obligation'[p] = obligation[p]
<1>1. Amounts \subseteq U64 /\ 0 \in U64
  BY LendingAssumption, WadAssumption DEF U64
<1>2. CASE ProcessInitObligation(o)
  BY <1>2, SavedIs DEF ProcessInitObligation
<1>3. CASE ProcessRefreshObligation(o)
  BY <1>3 DEF ProcessRefreshObligation, TypeOK
<1>4. ASSUME NEW r \in Reserves, NEW w \in Reserves, NEW amount \in U64,
             \/ ProcessDepositObligationCollateral(o, r, amount)
             \/ ProcessDepositReserveLiquidityAndObligationCollateral(o, r, amount)
             \/ ProcessWithdrawObligationCollateral(o, r, amount)
             \/ ProcessBorrowObligationLiquidity(o, r, amount)
             \/ ProcessRepayObligationLiquidity(o, r, amount)
             \/ ProcessLiquidateObligation(o, r, w, amount)
      PROVE  \A p \in Obligations \ {o} : obligation'[p] = obligation[p]
  <2>1. \E x \in Reserves, d \in Int : Posted(o, x, d)
    BY <1>4, PostsOf
  <2> QED BY <2>1 DEF Posted
<1> QED BY <1>1, <1>2, <1>3, <1>4 DEF ObligationStep

(* A repayment raises no debt. *)
LEMMA RepaidLess ==
    ASSUME TypeOK, NEW o \in Obligations, NEW r \in Reserves, NEW s \in Nat, Repaid(o, r, s),
           NEW x \in Reserves
    PROVE  ~(obligation'[o].borrows[x].borrowed_amount_wads > obligation[o].borrows[x].borrowed_amount_wads)
<1> DEFINE old == obligation[o].borrows[r]
           rest == Rest(old, s)
<1>1. old \in LiquidityRec /\ obligation[o].borrows[x].borrowed_amount_wads \in Nat
  BY DebtNat DEF TypeOK, ObligationRec
<1>2. old.borrowed_amount_wads - s \in Nat /\ old.borrowed_amount_wads \in Nat
  BY DebtNat DEF Repaid
<1>3. rest.borrowed_amount_wads = old.borrowed_amount_wads - s
  BY <1>1, <1>2, RestIs
<1>4. CASE x = r
  <2>1. obligation'[o].borrows[x] = rest
    BY <1>4 DEF Repaid
  <2> HIDE DEF rest
  <2>2. ~(rest.borrowed_amount_wads > old.borrowed_amount_wads)
    <3> HIDE DEF old
    <3> QED BY <1>2, <1>3
  <2> QED BY <1>4, <2>1, <2>2
<1>5. CASE x # r
  BY <1>1, <1>5 DEF Repaid
<1> QED BY <1>4, <1>5

(* A liquidation changes the debts. *)
LEMMA LiquidateChanges ==
    ASSUME TypeOK, NEW o \in Obligations, NEW r \in Reserves, NEW s \in Nat, Repaid(o, r, s),
           obligation[o].borrows[r].present,
           s > 0 \/ s = obligation[o].borrows[r].borrowed_amount_wads
    PROVE  obligation'[o].borrows # obligation[o].borrows
<1> DEFINE old == obligation[o].borrows[r]
<1>1. old \in LiquidityRec /\ old.borrowed_amount_wads - s \in Nat
  BY DEF TypeOK, ObligationRec, Repaid
<1>2. Rest(old, s) # old
  BY <1>1, RestIs
<1>3. obligation'[o].borrows[r] = Rest(old, s)
  BY DEF Repaid
<1> QED BY <1>2, <1>3

(* Only withdrawing and borrowing take something out of an obligation.     *)
LEMMA ExitSteps ==
    ASSUME TypeOK, NEW o \in Obligations, NEW r \in Reserves, ObligationFresh(o), TakesOut(o, r),
           [OpenNext]_vars
    PROVE  \E amount \in U64 : \/ ProcessWithdrawObligationCollateral(o, r, amount)
                               \/ ProcessBorrowObligationLiquidity(o, r, amount)
<1> DEFINE old == obligation[o]
           new == obligation'[o]
           more(x) == new.borrows[x].borrowed_amount_wads > old.borrows[x].borrowed_amount_wads
           less(x) == new.deposits[x].deposited_amount < old.deposits[x].deposited_amount
<1>1. new.stale /\ (more(r) \/ (new.borrows = old.borrows /\ less(r)))
  BY DEF TakesOut
<1>2. old.initialized /\ old.stale = FALSE
  BY DEF ObligationFresh, Fresh, TypeOK, ObligationRec
<1>3. new # old
  BY <1>1, <1>2
<1>4. ObligationStep(o)
  BY <1>3, ObligationsKept, OthersKept
<1>5. Amounts \subseteq U64
  BY LendingAssumption
<1>6. \A x \in Reserves : /\ old.deposits[x].deposited_amount \in Nat
                          /\ old.borrows[x].borrowed_amount_wads \in Nat
  BY DepositTyped, DebtNat DEF TypeOK
<1>7. ASSUME NEW x \in Reserves, NEW d \in Int, Posted(o, x, d)
      PROVE  /\ d >= 0 => ~less(r)
             /\ r # x => ~less(r)
  <2>1. new.deposits[r].deposited_amount =
           IF r = x THEN old.deposits[r].deposited_amount + d ELSE old.deposits[r].deposited_amount
    BY <1>7 DEF Posted, Changed
  <2>2. old.deposits[r].deposited_amount \in Nat
    BY <1>6
  <2> HIDE DEF old, new
  <2> QED BY <2>1, <2>2
<1>8. ~ProcessInitObligation(o) /\ ~ProcessRefreshObligation(o)
  <2>1. CASE ProcessRefreshObligation(o)
    <3>1. PICK ob \in RefreshObligation(obligation[o], reserve, slot) :
             obligation' = [obligation EXCEPT ![o] = ob]
      BY <2>1 DEF ProcessRefreshObligation
    <3>2. new = ob
      BY <3>1 DEF TypeOK
    <3>3. ob.stale = FALSE
      BY <3>1 DEF RefreshObligation, PackObligation, UpdateSlot, TypeOK, ObligationRec
    <3> QED BY <1>1, <3>2, <3>3
  <2> QED BY <1>2, <2>1 DEF ProcessInitObligation
<1>9. ASSUME NEW x \in Reserves, NEW amount \in U64,
             \/ ProcessDepositObligationCollateral(o, x, amount)
             \/ ProcessDepositReserveLiquidityAndObligationCollateral(o, x, amount)
      PROVE  FALSE
  <2>1. new.borrows = old.borrows
    BY <1>9, CollateralDebts
  <2>2. PICK c \in U64 : Posted(o, x, c)
    BY <1>9, DepositPosts, DepositBothPosts
  <2>3. c \in Int /\ c >= 0
    BY WadAssumption DEF U64
  <2>4. ~less(r)
    BY <1>7, <2>2, <2>3
  <2>5. more(r)
    BY <1>1, <2>4
  <2> QED BY <1>6, <2>1, <2>5
<1>10. ASSUME NEW x \in Reserves, NEW amount \in U64, ProcessWithdrawObligationCollateral(o, x, amount)
       PROVE  x = r
  <2>1. new.borrows = old.borrows
    BY <1>10, CollateralDebts
  <2>2. PICK c \in Nat : Posted(o, x, -c)
    BY <1>10, WithdrawPosts
  <2>3. x # r => ~less(r)
    <3>1. -c \in Int
      OBVIOUS
    <3> QED BY <1>7, <2>2, <3>1
  <2>4. ~more(r)
    BY <1>6, <2>1
  <2> QED BY <1>1, <2>3, <2>4
<1>11. ASSUME NEW x \in Reserves, NEW amount \in U64, ProcessBorrowObligationLiquidity(o, x, amount)
       PROVE  x = r
  <2>1. PICK wads : Borrowed(o, x, wads)
    BY <1>11, BorrowedSaved DEF ProcessBorrowObligationLiquidity
  <2>2. new.deposits = old.deposits /\ (x # r => new.borrows[r] = old.borrows[r])
    BY <2>1 DEF Borrowed
  <2> QED BY <1>1, <1>6, <2>2
<1>12. ASSUME NEW x \in Reserves, NEW amount \in U64, ProcessRepayObligationLiquidity(o, x, amount)
       PROVE  FALSE
  <2>1. ~more(r)
    BY <1>12, RepayRepaid, RepaidLess
  <2>2. Posted(o, x, 0)
    BY <1>12, BorrowPosts
  <2> QED BY <1>1, <1>7, <2>1, <2>2
<1>13. ASSUME NEW x \in Reserves, NEW w \in Reserves, NEW amount \in U64,
              ProcessLiquidateObligation(o, x, w, amount)
       PROVE  FALSE
  <2>1. PICK s \in Nat : /\ Repaid(o, x, s)
                         /\ obligation[o].borrows[x].present
                         /\ s > 0 \/ s = obligation[o].borrows[x].borrowed_amount_wads
    BY <1>13, LiquidateRepaid
  <2>2. ~more(r)
    BY <2>1, RepaidLess
  <2>3. new.borrows # old.borrows
    BY <2>1, LiquidateChanges
  <2> QED BY <1>1, <2>2, <2>3
<1> HIDE DEF old, new, more, less
<1> QED BY <1>4, <1>5, <1>8, <1>9, <1>10, <1>11, <1>12, <1>13 DEF ObligationStep

-----------------------------------------------------------------------------
(***************************************************************************)
(* ExitLeavesCovered.                                                      *)
(***************************************************************************)
(* The values do not depend on when the reserves were refreshed. *)
LEMMA ValuationNow ==
    ASSUME NEW ob \in ObligationRec, NEW res \in [Reserves -> ReserveRec], NEW now \in Nat,
           SettledWith(ob, res),
           NEW new \in RefreshObligation(ob, [x \in Reserves |-> UpdateSlot(res[x], now)], now)
    PROVE  /\ Valuable(ob, res)
           /\ new.deposited_value = SumFunction(Worths(ob, res))
           /\ new.allowed_borrow_value = SumFunction(Alloweds(ob, res))
           /\ new.borrowed_value = SumFunction(Debts(ob, res))
           /\ \A x \in Reserves : ob.deposits[x].present =>
                 new.deposits[x].market_value = EntryWorth(ob, res, x)
<1> DEFINE up == [x \in Reserves |-> UpdateSlot(res[x], now)]
<1>1. ASSUME NEW x \in Reserves
      PROVE  /\ up[x] \in ReserveRec
             /\ up[x].available_amount = res[x].available_amount
             /\ up[x].borrowed_amount_wads = res[x].borrowed_amount_wads
             /\ up[x].cumulative_borrow_rate_wads = res[x].cumulative_borrow_rate_wads
             /\ up[x].market_price = res[x].market_price
             /\ up[x].mint_unit = res[x].mint_unit
             /\ up[x].mint_total_supply = res[x].mint_total_supply
             /\ up[x].config = res[x].config
  BY DEF UpdateSlot, ReserveRec
<1>2. up \in [Reserves -> ReserveRec]
  <2>1. up = [x \in Reserves |-> up[x]]
    OBVIOUS
  <2> HIDE DEF up
  <2> QED BY <1>1, <2>1
<1>3. new \in RefreshObligation(ob, up, now)
  OBVIOUS
<1> HIDE DEF up
<1>4. \A x \in Reserves : RateOf(up[x]) = RateOf(res[x])
  BY <1>1 DEF RateOf, Value
<1>5. \A x \in Reserves : /\ EntryWorth(ob, up, x) = EntryWorth(ob, res, x)
                          /\ EntryAllowed(ob, up, x) = EntryAllowed(ob, res, x)
                          /\ EntryDebt(ob, up, x) = EntryDebt(ob, res, x)
  BY <1>1, <1>4 DEF EntryWorth, EntryAllowed, EntryDebt
<1>6. Worths(ob, up) = Worths(ob, res) /\ Alloweds(ob, up) = Alloweds(ob, res) /\ Debts(ob, up) = Debts(ob, res)
  BY <1>5 DEF Worths, Alloweds, Debts
<1>7. SettledWith(ob, up)
  BY <1>1 DEF SettledWith
<1>8. /\ Valuable(ob, up)
      /\ new.deposited_value = SumFunction(Worths(ob, up))
      /\ new.allowed_borrow_value = SumFunction(Alloweds(ob, up))
      /\ new.borrowed_value = SumFunction(Debts(ob, up))
      /\ \A x \in Reserves : ob.deposits[x].present =>
            new.deposits[x].market_value = EntryWorth(ob, up, x)
  BY <1>2, <1>3, <1>7, Valuation
<1>9. Valuable(ob, res)
  BY <1>4, <1>8 DEF Valuable
<1> QED BY <1>5, <1>6, <1>8, <1>9

(* An accurate obligation carries the sums. *)
LEMMA AccurateSummed ==
    ASSUME TypeOK, InterestSettled, NEW o \in Obligations, Accurate(o)
    PROVE  SettledWith(obligation[o], reserve) /\ Summed(obligation[o], reserve)
<1>1. obligation[o] \in ObligationRec /\ reserve \in [Reserves -> ReserveRec] /\ slot \in Nat
  BY DEF TypeOK
<1>2. SettledWith(obligation[o], reserve)
  BY DEF Accurate, InterestSettled, SettledWith
<1> DEFINE ob == obligation[o]
<1>3. ob \in RefreshObligation(ob, [x \in Reserves |-> UpdateSlot(reserve[x], slot)], slot)
  BY DEF Accurate, Revalued
<1>4. ob \in ObligationRec /\ SettledWith(ob, reserve)
  BY <1>1, <1>2
<1> HIDE DEF ob
<1>5. Summed(ob, reserve)
  BY <1>1, <1>3, <1>4, ValuationNow DEF Summed
<1> QED BY <1>2, <1>5 DEF ob

(* What a refresh right after the step would compute. *)
LEMMA RevaluedIs ==
    ASSUME TypeOK', NEW o \in Obligations, SettledWith(obligation'[o], reserve'),
           NEW ob \in Revalued(o)'
    PROVE  /\ Valuable(obligation'[o], reserve')
           /\ ob.allowed_borrow_value = SumFunction(Alloweds(obligation'[o], reserve'))
           /\ ob.borrowed_value = SumFunction(Debts(obligation'[o], reserve'))
<1> DEFINE new == obligation'[o]
           res == reserve'
           now == slot'
<1>1. new \in ObligationRec /\ res \in [Reserves -> ReserveRec] /\ now \in Nat
  BY DEF TypeOK
<1>2. ob \in RefreshObligation(new, [x \in Reserves |-> UpdateSlot(res[x], now)], now)
  BY DEF Revalued
<1>3. SettledWith(new, res)
  OBVIOUS
<1> HIDE DEF new, res, now
<1>4. /\ Valuable(new, res)
      /\ ob.allowed_borrow_value = SumFunction(Alloweds(new, res))
      /\ ob.borrowed_value = SumFunction(Debts(new, res))
  BY <1>1, <1>2, <1>3, ValuationNow
<1> QED BY <1>4 DEF new, res

LEMMA WithdrawnIs ==
    ASSUME NEW ob \in ObligationRec, NEW r \in Reserves, ob.deposits[r].present, NEW w \in Nat,
           NEW new \in WithdrawCollateral(ob, r, w), MarkStale(new) \in ObligationRec
    PROVE  Without(MarkStale(new), ob, r, w)
<1> DEFINE left == ob.deposits[r].deposited_amount - w
           col == IF left = 0 THEN NoCollateral ELSE [ob.deposits[r] EXCEPT !.deposited_amount = left]
           deps == [ob.deposits EXCEPT ![r] = col]
<1>1. new = SetDeposit(ob, r, col) /\ left \in Nat
  <2>1. PICK l \in CheckedSub(ob.deposits[r].deposited_amount, w) :
           new = SetDeposit(ob, r, IF l = 0 THEN NoCollateral
                                   ELSE [ob.deposits[r] EXCEPT !.deposited_amount = l])
    BY DEF WithdrawCollateral
  <2>2. l = left /\ l \in U64
    BY DEF CheckedSub
  <2>3. left \in Nat
    <3> HIDE DEF left
    <3> QED BY <2>2, WadAssumption DEF U64
  <2> QED BY <2>1, <2>2, <2>3
<1>2. ob.deposits[r] \in CollateralRec
  BY DepositTyped
<1>3. IF left = 0 THEN ~col.present ELSE col.present /\ col.deposited_amount = left
  <2> HIDE DEF left
  <2> QED BY <1>2 DEF NoCollateral, CollateralRec
<1> HIDE DEF col
<1>4. new = [ob EXCEPT !.deposits = deps, !.borrows = ob.borrows]
  BY <1>1, SettingDeposit
<1>5. \A x \in Reserves : deps[x] = IF x = r THEN col ELSE ob.deposits[x]
  BY DEF ObligationRec
<1> HIDE DEF deps
<1>6. MarkStale(new).deposits = deps /\ MarkStale(new).borrows = ob.borrows
  BY <1>4 DEF MarkStale, ObligationRec
<1> QED BY <1>1, <1>3, <1>5, <1>6 DEF Without

LEMMA WithdrawExit ==
    ASSUME TypeOK, TypeOK', InterestSettled, ConfigsValid, NEW o \in Obligations, Accurate(o),
           NEW r \in Reserves, NEW amount \in U64, ProcessWithdrawObligationCollateral(o, r, amount),
           NEW ob \in Revalued(o)'
    PROVE  ob.borrowed_value <= ob.allowed_borrow_value + Tolerance(obligation[o], reserve, r)
<1> DEFINE old == obligation[o]
           new == obligation'[o]
           ltv == reserve[r].config.loan_to_value_ratio
<1>1. old \in ObligationRec /\ reserve \in [Reserves -> ReserveRec] /\ amount \in Nat
  BY WadAssumption DEF TypeOK, U64
<1>2. SettledWith(old, reserve) /\ Summed(old, reserve)
  BY AccurateSummed
<1>3. /\ reserve' = reserve
      /\ old.deposits[r].present /\ old.deposits[r].deposited_amount # 0
      /\ reserve[r].initialized
  BY DEF ProcessWithdrawObligationCollateral, ReserveFresh
<1>4. PICK w \in WithdrawAmount(old, r, ltv, amount) :
         \E taken \in WithdrawCollateral(old, r, w) : SaveObligation(o, MarkStale(taken))
  BY DEF ProcessWithdrawObligationCollateral
<1>5. w \in Nat
  BY <1>4, DepositedTyped, WithdrawAmounts DEF TypeOK, OthersTyped
<1>6. PICK taken \in WithdrawCollateral(old, r, w) : SaveObligation(o, MarkStale(taken))
  BY <1>4
<1>7. new = MarkStale(taken) /\ MarkStale(taken) \in ObligationRec
  BY <1>6, SavedIs
<1>8. Without(new, old, r, w)
  <2> HIDE DEF old, new
  <2>1. Without(MarkStale(taken), old, r, w)
    BY <1>1, <1>3, <1>5, <1>6, <1>7, WithdrawnIs
  <2> QED BY <1>7, <2>1
<1>9. SettledWith(new, reserve')
  BY <1>2, <1>3, <1>8 DEF SettledWith, Without
<1>10. /\ ob.allowed_borrow_value = SumFunction(Alloweds(new, reserve'))
       /\ ob.borrowed_value = SumFunction(Debts(new, reserve'))
  BY <1>9, RevaluedIs
<1>11. ltv \in Nat /\ ltv <= HUNDRED
  <2>1. reserve[r].config \in ReserveConfig
    BY <1>1, ConfigsAssumption DEF ReserveRec
  <2>2. ltv \in Nat /\ HUNDRED \in Nat
    BY <2>1, WadAssumption DEF ReserveConfig
  <2>3. ltv < HUNDRED
    BY <1>3 DEF ConfigsValid, ValidConfig
  <2> QED BY <2>2, <2>3
<1>12. SumFunction(Debts(new, reserve)) <= SumFunction(Alloweds(new, reserve)) + Tolerance(old, reserve, r)
  <2> HIDE DEF old, new
  <2> QED BY <1>1, <1>2, <1>3, <1>4, <1>8, <1>11, WithdrawCovered
<1> QED BY <1>3, <1>10, <1>12

-----------------------------------------------------------------------------
LEMMA LentIs ==
    ASSUME NEW res \in ReserveRec, NEW wads \in Nat, NEW b \in TryFloorU64(wads), b > 0,
           NEW lent \in BorrowLiquidity(res, wads), MarkStale(lent) \in ReserveRec
    PROVE  /\ MarkStale(lent).market_price = res.market_price
           /\ MarkStale(lent).mint_unit = res.mint_unit
           /\ MarkStale(lent).config = res.config
           /\ MarkStale(lent).cumulative_borrow_rate_wads = res.cumulative_borrow_rate_wads
           /\ RateOf(MarkStale(lent)) <= RateOf(res)
<1> DEFINE available == res.available_amount - b
           borrowed == res.borrowed_amount_wads + wads
           new == MarkStale(lent)
<1>1. lent = Lent(res, available, borrowed) /\ available \in Nat
  <2>1. \A x \in TryFloorU64(wads) : x = b
    BY DEF TryFloorU64
  <2> QED BY <2>1, WadAssumption DEF BorrowLiquidity, CheckedSub, TryAdd, U64
<1>2. /\ res.available_amount \in Nat /\ res.borrowed_amount_wads \in Nat /\ WAD \in Nat /\ WAD > 0
  BY ReserveNat
<1> HIDE DEF available, borrowed
<1>3. /\ new.available_amount = available /\ new.borrowed_amount_wads = borrowed
      /\ new.mint_total_supply = res.mint_total_supply
      /\ new.market_price = res.market_price
      /\ new.mint_unit = res.mint_unit
      /\ new.config = res.config
      /\ new.cumulative_borrow_rate_wads = res.cumulative_borrow_rate_wads
  BY <1>1 DEF Lent, MarkStale, ReserveRec
<1>4. b \in Nat /\ b * WAD <= wads
  BY FloorBelow
<1> DEFINE x == res.available_amount * WAD
           y == b * WAD
           z == available * WAD
<1>5. x \in Nat /\ y \in Nat /\ z \in Nat /\ z = x - y
  <2> DEFINE a == res.available_amount
  <2>1. available = a - b /\ a \in Nat
    BY <1>2 DEF available
  <2> HIDE DEF a
  <2>2. (a - b) * WAD = a * WAD - b * WAD
    BY <1>2, <1>4, <2>1
  <2>3. a * WAD \in Nat /\ b * WAD \in Nat /\ available * WAD \in Nat
    BY <1>1, <1>2, <1>4, <2>1
  <2> QED BY <2>1, <2>2, <2>3 DEF a
<1>6. y > 0
  BY <1>2, <1>4
<1>7. Value(res) = x + res.borrowed_amount_wads /\ Value(new) = z + borrowed
  BY <1>3 DEF Value
<1> HIDE DEF x, y, z, new
<1>8. Value(res) > 0 /\ Value(res) <= Value(new)
  <2>1. y <= wads
    BY <1>4 DEF y
  <2> QED BY <1>2, <1>5, <1>6, <1>7, <2>1 DEF borrowed
<1>9. RateOf(new) <= RateOf(res)
  BY <1>3, <1>8, RateFalls DEF new
<1> QED BY <1>3, <1>9 DEF new

LEMMA BorrowExit ==
    ASSUME TypeOK, TypeOK', InterestSettled, RateInv, TidyInv, NEW o \in Obligations, Accurate(o),
           NEW r \in Reserves, NEW amount \in U64, ProcessBorrowObligationLiquidity(o, r, amount),
           NEW ob \in Revalued(o)'
    PROVE  ob.borrowed_value <= ob.allowed_borrow_value + Tolerance(obligation[o], reserve, r)
<1> DEFINE old == obligation[o]
           new == obligation'[o]
           res == reserve
           after == reserve'
           room == old.allowed_borrow_value - old.borrowed_value
<1>1. /\ old \in ObligationRec /\ new \in ObligationRec
      /\ res \in [Reserves -> ReserveRec] /\ after \in [Reserves -> ReserveRec] /\ res[r] \in ReserveRec
  BY DEF TypeOK
<1>2. SettledWith(old, res) /\ Summed(old, res)
  BY AccurateSummed
<1>3. PICK remaining, b :
         /\ remaining \in RemainingBorrowValue(old)
         /\ b \in CalculateBorrow(res[r], amount, remaining)
         /\ b.receive # 0
         /\ \E lent \in BorrowLiquidity(res[r], b.borrow_wads) : SaveReserve(r, MarkStale(lent))
         /\ \E owing \in AddLiquidity(old, r, res[r].cumulative_borrow_rate_wads, b.borrow_wads) :
               SaveObligation(o, MarkStale(owing))
  BY DEF ProcessBorrowObligationLiquidity
<1>4. remaining = room /\ room \in Nat
  <2>1. remaining = room /\ room \in Decimal
    BY <1>3 DEF RemainingBorrowValue, TrySub
  <2> QED BY <2>1, DecimalNat
<1>5. b.borrow_wads \in Nat
  BY <1>1, <1>3, BorrowWads
<1>6. HasLent(after, res, r) /\ after[r].cumulative_borrow_rate_wads = res[r].cumulative_borrow_rate_wads
  <2>1. PICK lent \in BorrowLiquidity(res[r], b.borrow_wads) : SaveReserve(r, MarkStale(lent))
    BY <1>3
  <2>2. PICK x \in TryFloorU64(b.borrow_wads) : TRUE
    BY <2>1 DEF BorrowLiquidity
  <2>3. x > 0
    <3>1. b.receive \in Nat /\ b.fee \in Nat /\ x = b.fee + b.receive
      BY <1>1, <1>3, <2>2, BorrowAmounts
    <3> QED BY <1>3, <3>1
  <2>4. after[r] = MarkStale(lent) /\ \A y \in Reserves \ {r} : after[y] = res[y]
    BY <2>1, SaveReserveIs
  <2>5. MarkStale(lent) \in ReserveRec
    BY <1>1, <2>4
  <2>6. /\ MarkStale(lent).market_price = res[r].market_price
        /\ MarkStale(lent).mint_unit = res[r].mint_unit
        /\ MarkStale(lent).config = res[r].config
        /\ MarkStale(lent).cumulative_borrow_rate_wads = res[r].cumulative_borrow_rate_wads
        /\ RateOf(MarkStale(lent)) <= RateOf(res[r])
    BY <1>1, <1>5, <2>1, <2>2, <2>3, <2>5, LentIs
  <2> HIDE DEF after, res
  <2> QED BY <2>4, <2>6 DEF HasLent
<1>7. Borrowed(o, r, b.borrow_wads)
  BY <1>3, BorrowedSaved
<1>8. Owing(new, old, r, b.borrow_wads)
  BY <1>1, <1>7 DEF Borrowed, Owing, TidyInv, Tidy
<1>9. SettledWith(new, after)
  <2>1. ASSUME NEW x \in Reserves \ {r}, new.borrows[x].present
        PROVE  new.borrows[x].cumulative_borrow_rate_wads = after[x].cumulative_borrow_rate_wads
    <3>1. new.borrows[x] = old.borrows[x] /\ after[x] = res[x]
      BY <1>6, <1>7 DEF Borrowed, HasLent
    <3> QED BY <1>2, <2>1, <3>1 DEF SettledWith
  <2>2. new.borrows[r].cumulative_borrow_rate_wads = after[r].cumulative_borrow_rate_wads
    <3>1. CASE old.borrows[r].present
      <4>1. old.borrows[r].cumulative_borrow_rate_wads = res[r].cumulative_borrow_rate_wads
        BY <1>2, <3>1 DEF SettledWith
      <4> QED BY <1>6, <1>7, <4>1 DEF Borrowed
    <3>2. CASE ~old.borrows[r].present
      <4>1. old.borrows[r].cumulative_borrow_rate_wads = 0
        BY <3>2 DEF RateInv, Charged
      <4> QED BY <1>6, <1>7, <4>1 DEF Borrowed
    <3> QED BY <3>1, <3>2
  <2> HIDE DEF new, after
  <2> QED BY <2>1, <2>2 DEF SettledWith
<1>10. /\ Valuable(new, after)
       /\ ob.allowed_borrow_value = SumFunction(Alloweds(new, after))
       /\ ob.borrowed_value = SumFunction(Debts(new, after))
  BY <1>9, RevaluedIs
<1> DEFINE d == SumFunction(Debts(new, after))
           a == SumFunction(Alloweds(new, after))
           t == Tolerance(old, res, r)
<1>11. d <= a + 1
  <2>1. old.allowed_borrow_value - old.borrowed_value \in Nat
        /\ b \in CalculateBorrow(res[r], amount, old.allowed_borrow_value - old.borrowed_value)
    BY <1>3, <1>4
  <2> HIDE DEF old, new, res, after
  <2> QED BY <1>1, <1>2, <1>6, <1>8, <1>10, <2>1, BorrowCovered
<1>12. d \in Nat /\ a \in Nat /\ t \in Nat /\ t >= 3
  BY <1>1, <1>10, SumsNat, ToleranceNat
<1>13. d <= a + t
  <2> HIDE DEF d, a, t
  <2> QED BY <1>11, <1>12
<1> QED BY <1>10, <1>13

(* What an exit leaves, for every step. *)
LEMMA ExitCovered ==
    ASSUME TypeOK, TypeOK', SettledInv, RateInv, ConfigsValid, TidyInv, [OpenNext]_vars,
           NEW o \in Obligations, NEW r \in Reserves, Accurate(o), TakesOut(o, r),
           NEW ob \in Revalued(o)'
    PROVE  ob.borrowed_value
              <= ob.allowed_borrow_value + (obligation[o].deposited_value \div WAD)
                   + (reserve[r].market_price \div (WAD * reserve[r].mint_unit)) + 3
<1>1. InterestSettled
  BY SettledFresh
<1>2. PICK amount \in U64 : \/ ProcessWithdrawObligationCollateral(o, r, amount)
                            \/ ProcessBorrowObligationLiquidity(o, r, amount)
  BY ExitSteps DEF Accurate
<1>3. ob.borrowed_value <= ob.allowed_borrow_value + Tolerance(obligation[o], reserve, r)
  BY <1>1, <1>2, WithdrawExit, BorrowExit
<1>4. ob \in ObligationRec
  BY DEF Revalued, RefreshObligation, PackObligation
<1>5. ob.allowed_borrow_value \in Nat
  BY <1>4, DecimalNat DEF ObligationRec
<1>6. obligation[o] \in ObligationRec /\ reserve[r] \in ReserveRec
  BY DEF TypeOK
<1> DEFINE v == obligation[o].deposited_value \div WAD
           p == reserve[r].market_price
           u == WAD * reserve[r].mint_unit
<1>7. v \in Nat
  <2> DEFINE d == obligation[o].deposited_value
  <2>0. WAD \in Nat /\ WAD > 0
    BY WadAssumption
  <2>1. d \in Nat
    BY <1>6, DecimalNat DEF ObligationRec
  <2>2. v = d \div WAD
    OBVIOUS
  <2> HIDE DEF d, v
  <2> QED BY <2>0, <2>1, <2>2, Quotient
<1>8. p \in Nat /\ u \in Nat /\ u > 0
  BY <1>6, PriceTyped, ValuedIs
<1>9. Tolerance(obligation[o], reserve, r) = v + (p \div u) + 3
  BY DEF Tolerance
<1> HIDE DEF v, p, u
<1>10. p \div u \in Nat
  BY <1>8, Quotient
<1> DEFINE q == p \div u
<1>11. ob.borrowed_value <= ob.allowed_borrow_value + (v + q + 3) /\ q \in Nat
  BY <1>3, <1>9, <1>10
<1> HIDE DEF q
<1>12. ob.allowed_borrow_value + (v + q + 3) = ob.allowed_borrow_value + v + q + 3
  BY <1>5, <1>7, <1>11
<1>13. ob.borrowed_value <= ob.allowed_borrow_value + v + q + 3
  BY <1>11, <1>12
<1> QED BY <1>13 DEF v, p, u, q

(* For any number of reserves and obligations, any prices, rates and       *)
(* loan-to-value ratios: borrowing or withdrawing from an obligation whose *)
(* recorded values are accurate leaves its debts, valued anew, within what *)
(* its remaining collateral allows, up to the precision of a wad.          *)
THEOREM ExitsLeaveCovered == Spec => ExitLeavesCovered
<1> DEFINE Inv == TypeOK /\ SettledInv /\ RateInv /\ ConfigsValid /\ TidyInv
           Covers == \A o \in Obligations, r \in Reserves : (Accurate(o) /\ TakesOut(o, r)) =>
                        \A ob \in Revalued(o)' :
                           ob.borrowed_value
                              <= ob.allowed_borrow_value + (obligation[o].deposited_value \div WAD)
                                   + (reserve[r].market_price \div (WAD * reserve[r].mint_unit)) + 3
<1>1. Inv /\ TypeOK' /\ [Next]_vars => [Covers]_vars
  BY ExitCovered, NextIsOpen
<1>2. Spec => []TypeOK
  BY TypeCorrect
<1>3. Init /\ TypeOK => Inv
  BY SettledInit, RateInit, ConfigsValidInit, TidyInit
<1>4. Inv /\ TypeOK' /\ [Next]_vars => Inv'
  BY SettledNext, RateNext, ConfigsValidNext, TidyNext, NextIsOpen
<1>5. ExitLeavesCovered <=> [][Covers]_vars
  BY DEF ExitLeavesCovered
<1> HIDE DEF Inv, Covers
<1> QED BY <1>1, <1>2, <1>3, <1>4, <1>5, PTL DEF Spec
==============================================================================

---------------------------- MODULE MarketProofs -----------------------------
(***************************************************************************)
(* ValuationRecent of Market, and Lending's invariants with the prices of  *)
(* an oracle, for every value of the constants.                            *)
(*                                                                         *)
(* Market is not Lending with other constants: the oracle's price is any   *)
(* that passes the checks of get_pyth_price.  Every step of Market is one  *)
(* of Lending with some price that a reserve can store, because a reserve  *)
(* is packed only with such a price; what the proofs about Lending show of *)
(* its steps they show for any of these prices.                            *)
(*                                                                         *)
(* ValuationRecent is not inductive: staleness flags and the clock do not  *)
(* say when a price was checked.  An account updated in the current slot   *)
(* was, whether it is marked stale or not, and no account was updated in a *)
(* slot yet to come.                                                       *)
(***************************************************************************)
EXTENDS Market, ObligationProofs

MarketTypeOK ==
    /\ feed \in [OracleReserves -> Price]
    /\ pricedAt \in [Reserves -> Nat]
    /\ valuedAt \in [Obligations -> [Reserves -> Nat]]

-----------------------------------------------------------------------------
(***************************************************************************)
(* The steps of Market are steps of Lending.                               *)
(***************************************************************************)

(* A price that does not fit its field is never stored. *)
LEMMA RefreshedPriceFits ==
    ASSUME TypeOK, NEW r \in OracleReserves, NEW price, ProcessRefreshReserve(r, price)
    PROVE  price \in Rate
<1>1. r \in Reserves /\ reserve[r] \in ReserveRec
  BY LendingAssumption DEF TypeOK
<1> DEFINE old == [reserve[r] EXCEPT !.market_price = price]
<1>2. PICK accrued \in AccrueInterest(old, slot) : UpdateSlot(accrued, slot) \in ReserveRec
  BY DEF ProcessRefreshReserve, Priced, SaveReserve, Pack
<1>3. \/ accrued = old
      \/ \E cumulative, borrowed : accrued = Compounded(old, cumulative, borrowed)
  BY <1>2 DEF AccrueInterest, CompoundInterest
<1>4. UpdateSlot(accrued, slot).market_price = price
  BY <1>1, <1>3 DEF Compounded, UpdateSlot, ReserveRec
<1>5. UpdateSlot(accrued, slot).market_price \in Rate
  BY <1>2 DEF ReserveRec
<1> QED BY <1>4, <1>5

LEMMA InitialPriceFits ==
    ASSUME NEW r, NEW amount, NEW price, NEW unit, NEW c,
           ProcessInitReserve(r, amount, price, unit, c)
    PROVE  price \in Rate
<1> DEFINE new == NewReserve(price, unit, c)
<1>1. PICK d \in DepositLiquidity(new, amount) : d.reserve \in ReserveRec
  BY DEF ProcessInitReserve, SaveReserve, Pack
<1>2. PICK available, minted : d.reserve = Supplied(new, available, minted)
  BY <1>1 DEF DepositLiquidity
<1>3. d.reserve.market_price = price
  BY <1>2 DEF Supplied, NewReserve
<1> QED BY <1>1, <1>3 DEF ReserveRec

LEMMA MarketStepIsOpen == TypeOK /\ [MarketNext]_marketVars => [OpenNext]_vars
<1> SUFFICES ASSUME TypeOK, [MarketNext]_marketVars PROVE [OpenNext]_vars
  OBVIOUS
<1>1. \A r \in Reserves \ OracleReserves : PriceOf(r) \subseteq Rate
  BY LendingAssumption DEF PriceOf
<1>2. ASSUME NEW signer, NEW r \in Reserves, OwnerStep(signer, r) PROVE OpenNext
  <2>1. ASSUME NEW amount \in Amounts, NEW price \in PriceOf(r), NEW unit \in MintUnits,
               NEW c \in ConfigsFor[r], ProcessInitReserve(r, amount, price, unit, c)
        PROVE  OpenNext
    <3>1. price \in Rate
      BY <2>1, InitialPriceFits
    <3> QED BY <2>1, <3>1 DEF OpenNext, AnyPriceStep
  <2>2. CASE (\E c \in ConfigsFor[r] : ProcessUpdateReserve(r, c)) \/ ProcessWithdrawFee(r)
    BY <2>2 DEF OpenNext, Next, ReserveStep
  <2> QED BY <1>2, <2>1, <2>2 DEF OwnerStep
<1>3. ASSUME NEW r \in Reserves, RefreshReserveStep(r) PROVE OpenNext
  <2>1. PICK price \in PriceOf(r) : ProcessRefreshReserve(r, price)
    BY <1>3 DEF RefreshReserveStep
  <2>2. price \in Rate
    BY <1>1, <2>1, RefreshedPriceFits
  <2> QED BY <2>1, <2>2 DEF OpenNext, AnyPriceStep
<1>4. ASSUME NEW o \in Obligations, RefreshObligationStep(o) PROVE OpenNext
  BY <1>4 DEF RefreshObligationStep, OpenNext, Next, ObligationStep
<1>5. CASE UserStep
  BY <1>5 DEF UserStep, OpenNext, Next, ReserveStep, ObligationStep
<1>6. CASE \/ \E owner \in Owners : ProcessInitLendingMarket(owner)
           \/ \E signer, new_owner \in Owners : ProcessSetLendingMarketOwner(signer, new_owner)
           \/ \E r \in OracleReserves, p \in Price : Publish(r, p)
           \/ UNCHANGED marketVars
  BY <1>6 DEF ProcessInitLendingMarket, ProcessSetLendingMarketOwner, Publish, marketVars
<1> QED BY <1>2, <1>3, <1>4, <1>5, <1>6 DEF MarketNext

LEMMA MarketSettled == MarketSpec => []BooksInv /\ []TypeOK /\ []SettledInv
<1>1. MarketInit => BooksInv /\ SettledInv
  BY BooksInit, SettledInit DEF MarketInit
<1>2. BooksInv => TypeOK
  BY DEF BooksInv
<1>3. MarketSpec => []BooksInv
  BY <1>1, <1>2, MarketStepIsOpen, BooksNext, PTL DEF MarketSpec
<1>4. MarketSpec => []SettledInv
  BY <1>1, <1>2, <1>3, MarketStepIsOpen, SettledNext, PTL DEF MarketSpec
<1> QED BY <1>2, <1>3, <1>4, PTL

(* What Lending keeps whatever its prices are. *)
MarketBooks ==
    /\ LiquidityBacked /\ MintMatches /\ CollateralBacked
    /\ ObligationFits /\ InterestSettled /\ RateNeverAhead

(* The books of Lending, the interest charged and the rates of the debts   *)
(* are right also when the prices come from an oracle that publishes what  *)
(* and when it likes, and whoever owns the market.                         *)
THEOREM MarketKeepsBooks == MarketSpec => []MarketBooks
<1>1. MarketInit => CollateralInv /\ EntriesInv /\ RateInv
  BY CollateralInit, EntriesInit, RateInit DEF MarketInit
<1>2. MarketSpec => []CollateralInv
  BY <1>1, MarketSettled, MarketStepIsOpen, CollateralNext, PTL DEF MarketSpec
<1>3. MarketSpec => []EntriesInv
  BY <1>1, MarketSettled, MarketStepIsOpen, EntriesNext, PTL DEF MarketSpec
<1>4. MarketSpec => []RateInv
  BY <1>1, MarketSettled, MarketStepIsOpen, RateNext, PTL DEF MarketSpec
<1>5. BooksInv /\ TypeOK /\ SettledInv /\ CollateralInv /\ EntriesInv /\ RateInv => MarketBooks
  BY SettledFresh, EntriesFit, RateSound DEF BooksInv, CollateralInv, MarketBooks
<1> QED BY <1>2, <1>3, <1>4, <1>5, MarketSettled, PTL

(* With oracle prices and a changing owner too, every instruction is a     *)
(* move of the vault on a single reserve, and nothing but a liquidation    *)
(* lowers the liquidity behind a collateral token: no price a reserve is   *)
(* given changes what its tokens are worth in its own liquidity.           *)
THEOREM MarketImplementsVault == MarketSpec => ImplementsVault /\ TokenValueKept
<1>1. MarketInit => NothingLent /\ V!VaultInit
  BY NothingLentInit, VaultStart DEF MarketInit
<1>2. MarketSpec => []NothingLent
  BY <1>1, MarketSettled, MarketStepIsOpen, NothingLentNext, PTL DEF MarketSpec
<1>3. MarketSpec => ImplementsVault
  BY <1>1, <1>2, MarketSettled, MarketStepIsOpen, VaultStep,
     PTL DEF MarketSpec, ImplementsVault, V!VaultSpec
<1>4. BooksInv /\ BooksInv' /\ NothingLent /\ [OpenNext]_vars
        => [~Liquidation => \A r \in Reserves : ValueKept(r)]_vars
  BY ValueKeptNext
<1>5. MarketSpec => TokenValueKept
  BY <1>2, <1>4, MarketSettled, MarketStepIsOpen, PTL DEF MarketSpec, TokenValueKept
<1> QED BY <1>3, <1>5

(* At whatever prices the oracle publishes, borrowing or withdrawing from  *)
(* an obligation whose recorded values are accurate leaves its debts       *)
(* covered by its remaining collateral.                                    *)
THEOREM MarketExitsLeaveCovered == MarketSpec => ExitLeavesCovered
<1> DEFINE Inv == RateInv /\ ConfigsValid /\ TidyInv
           Covers == \A o \in Obligations, r \in Reserves : (Accurate(o) /\ TakesOut(o, r)) =>
                        \A ob \in Revalued(o)' :
                           ob.borrowed_value
                              <= ob.allowed_borrow_value + (obligation[o].deposited_value \div WAD)
                                   + (reserve[r].market_price \div (WAD * reserve[r].mint_unit)) + 3
<1>1. TypeOK /\ TypeOK' /\ SettledInv /\ Inv /\ [OpenNext]_vars => [Covers]_vars
  BY ExitCovered
<1>2. MarketInit => Inv
  BY RateInit, ConfigsValidInit, TidyInit DEF MarketInit
<1>3. TypeOK /\ TypeOK' /\ Inv /\ [OpenNext]_vars => Inv'
  BY RateNext, ConfigsValidNext, TidyNext
<1>4. ExitLeavesCovered <=> [][Covers]_vars
  BY DEF ExitLeavesCovered
<1> HIDE DEF Inv, Covers
<1>5. MarketSpec => []Inv
  BY <1>2, <1>3, MarketSettled, MarketStepIsOpen, PTL DEF MarketSpec
<1> QED BY <1>1, <1>4, <1>5, MarketSettled, MarketStepIsOpen, PTL DEF MarketSpec

-----------------------------------------------------------------------------
(***************************************************************************)
(* The age of prices.                                                      *)
(***************************************************************************)
Recent(stamp) == slot - stamp < PriceValidFor

(* An account updated in this slot has its prices from a recent update of  *)
(* the oracle; an obligation only while it is not marked stale, since      *)
(* entries may have been added.                                            *)
PricedRecently(r) == reserve[r].slot = slot => Recent(pricedAt[r])

ValuedRecently(o, r) ==
    (/\ ~obligation[o].stale /\ obligation[o].slot = slot
     /\ obligation[o].deposits[r].present \/ obligation[o].borrows[r].present)
       => Recent(valuedAt[o][r])

RecentInv ==
    /\ MarketTypeOK
    /\ \A r \in OracleReserves : PricedRecently(r)
    /\ \A o \in Obligations, r \in OracleReserves : ValuedRecently(o, r)

(* A price that get_pyth_price returns is recent. *)
LEMMA PriceIsRecent ==
    ASSUME NEW r \in OracleReserves, NEW price \in PriceOf(r)
    PROVE  Recent(AgeStamp(r))
<1>1. PICK elapsed \in CheckedSub(slot, feed[r].valid_slot) : elapsed < PriceValidFor
  BY DEF PriceOf, GetPythPrice
<1> QED BY <1>1 DEF CheckedSub, Recent, AgeStamp

LEMMA StampTyped ==
    ASSUME TypeOK, MarketTypeOK, NEW r \in Reserves
    PROVE  AgeStamp(r) \in Nat
<1>1. r \in OracleReserves => feed[r].valid_slot \in Nat
  BY LendingAssumption DEF MarketTypeOK, Price
<1> QED BY <1>1 DEF AgeStamp, TypeOK

(* Reserve r takes a price; every other reserve stays as it is. *)
LEMMA PricedKept ==
    ASSUME TypeOK, RecentInv, NEW r \in Reserves, NEW price \in PriceOf(r),
           pricedAt' = [pricedAt EXCEPT ![r] = AgeStamp(r)],
           UNCHANGED <<slot, obligation, feed, valuedAt>>,
           \A x \in Reserves \ {r} : reserve'[x] = reserve[x]
    PROVE  RecentInv'
<1>1. MarketTypeOK'
  BY StampTyped DEF RecentInv, MarketTypeOK
<1>2. ASSUME NEW x \in OracleReserves PROVE PricedRecently(x)'
  <2>0. x \in Reserves
    BY LendingAssumption
  <2>1. CASE x = r
    <3>1. Recent(AgeStamp(r)) /\ pricedAt'[r] = AgeStamp(r)
      BY <2>1, PriceIsRecent DEF RecentInv, MarketTypeOK
    <3> QED BY <2>1, <3>1 DEF PricedRecently, Recent
  <2>2. CASE x # r
    <3>1. pricedAt'[x] = pricedAt[x] /\ reserve'[x] = reserve[x] /\ PricedRecently(x)
      BY <2>0, <2>2 DEF RecentInv, MarketTypeOK
    <3> QED BY <3>1 DEF PricedRecently, Recent
  <2> QED BY <2>1, <2>2
<1>3. \A o \in Obligations, x \in OracleReserves : ValuedRecently(o, x)'
  BY DEF RecentInv, ValuedRecently, Recent
<1> QED BY <1>1, <1>2, <1>3 DEF RecentInv

(* The reserves keep their slots; an obligation is marked stale, if any.   *)
LEMMA MarkedRecent ==
    ASSUME RecentInv, RatesKept, UNCHANGED <<slot, feed, pricedAt, valuedAt>>,
           \/ UNCHANGED obligation
           \/ \E o \in Obligations : Marked(o)
    PROVE  RecentInv'
<1>1. MarketTypeOK'
  BY DEF RecentInv, MarketTypeOK
<1>2. \A r \in OracleReserves : PricedRecently(r)'
  BY LendingAssumption DEF RecentInv, PricedRecently, Recent, RatesKept
<1>3. \A o \in Obligations, r \in OracleReserves : ValuedRecently(o, r)'
  <2>1. CASE UNCHANGED obligation
    BY <2>1 DEF RecentInv, ValuedRecently, Recent
  <2>2. ASSUME NEW p \in Obligations, Marked(p)
        PROVE  \A o \in Obligations, r \in OracleReserves : ValuedRecently(o, r)'
    BY <2>2 DEF RecentInv, ValuedRecently, Recent, Marked
  <2> QED BY <2>1, <2>2
<1> QED BY <1>1, <1>2, <1>3 DEF RecentInv

LEMMA TickRecent ==
    ASSUME TypeOK, NotAhead, RecentInv, Tick, UNCHANGED <<feed, pricedAt, valuedAt>>
    PROVE  RecentInv'
<1>1. slot \in Nat /\ slot' = slot + 1 /\ reserve' = reserve /\ obligation' = obligation
  BY DEF Tick, TypeOK
<1>2. MarketTypeOK'
  BY DEF RecentInv, MarketTypeOK
<1>3. ASSUME NEW r \in OracleReserves PROVE PricedRecently(r)'
  <2>1. reserve[r].slot <= slot /\ reserve[r].slot \in Nat
    BY LendingAssumption DEF NotAhead, TypeOK, ReserveRec
  <2> QED BY <1>1, <2>1 DEF PricedRecently
<1>4. ASSUME NEW o \in Obligations, NEW r \in OracleReserves PROVE ValuedRecently(o, r)'
  <2>1. obligation[o].slot <= slot /\ obligation[o].slot \in Nat
    BY DEF NotAhead, TypeOK, ObligationRec
  <2> QED BY <1>1, <2>1 DEF ValuedRecently
<1> QED BY <1>2, <1>3, <1>4 DEF RecentInv

LEMMA InitReserveRecent ==
    ASSUME TypeOK, RecentInv, NEW r \in Reserves, NEW price \in PriceOf(r), NEW amount, NEW unit, NEW c,
           ProcessInitReserve(r, amount, price, unit, c),
           pricedAt' = [pricedAt EXCEPT ![r] = AgeStamp(r)], UNCHANGED <<feed, valuedAt>>
    PROVE  RecentInv'
<1>1. \A x \in Reserves \ {r} : reserve'[x] = reserve[x]
  BY DEF ProcessInitReserve, SaveReserve, TypeOK
<1>2. UNCHANGED <<slot, obligation, feed, valuedAt>>
  BY DEF ProcessInitReserve
<1> QED BY <1>1, <1>2, PricedKept

LEMMA RefreshReserveRecent ==
    ASSUME TypeOK, RecentInv, NEW r \in Reserves, RefreshReserveStep(r)
    PROVE  RecentInv'
<1>1. PICK price \in PriceOf(r) : ProcessRefreshReserve(r, price)
  BY DEF RefreshReserveStep
<1>2. \A x \in Reserves \ {r} : reserve'[x] = reserve[x]
  BY <1>1 DEF ProcessRefreshReserve, SaveReserve, TypeOK
<1>3. /\ UNCHANGED <<slot, obligation, feed, valuedAt>>
      /\ pricedAt' = [pricedAt EXCEPT ![r] = AgeStamp(r)]
  BY <1>1 DEF ProcessRefreshReserve, RefreshReserveStep
<1> QED BY <1>2, <1>3, PricedKept

LEMMA InitObligationRecent ==
    ASSUME TypeOK, RecentInv, NEW o \in Obligations, ProcessInitObligation(o),
           UNCHANGED <<feed, pricedAt, valuedAt>>
    PROVE  RecentInv'
<1>1. obligation' = [obligation EXCEPT ![o] = EmptyObligation(TRUE, slot)]
  BY DEF ProcessInitObligation, SaveObligation, PackObligation
<1>2. slot' = slot /\ reserve' = reserve
  BY DEF ProcessInitObligation
<1>3. MarketTypeOK' /\ \A r \in OracleReserves : PricedRecently(r)'
  BY <1>2 DEF RecentInv, MarketTypeOK, PricedRecently, Recent
<1>4. \A r \in Reserves : ~obligation'[o].deposits[r].present /\ ~obligation'[o].borrows[r].present
  BY <1>1 DEF TypeOK, EmptyObligation, NoCollateral, NoLiquidity
<1>5. \A p \in Obligations \ {o} : obligation'[p] = obligation[p]
  BY <1>1 DEF TypeOK
<1>6. \A p \in Obligations, r \in OracleReserves : ValuedRecently(p, r)'
  BY <1>2, <1>4, <1>5, LendingAssumption DEF RecentInv, ValuedRecently, Recent
<1> QED BY <1>3, <1>6 DEF RecentInv

(* A refresh takes the prices of reserves that are fresh, each updated in  *)
(* this slot.                                                              *)
LEMMA RefreshObligationRecent ==
    ASSUME TypeOK, RecentInv, NEW o \in Obligations, RefreshObligationStep(o)
    PROVE  RecentInv'
<1>1. obligation[o] \in ObligationRec /\ reserve \in [Reserves -> ReserveRec] /\ slot \in Nat
  BY DEF TypeOK
<1>2. PICK ob \in RefreshObligation(obligation[o], reserve, slot) :
         obligation' = [obligation EXCEPT ![o] = ob]
  BY DEF RefreshObligationStep, ProcessRefreshObligation
<1>3. /\ UNCHANGED <<slot, reserve, feed, pricedAt>>
      /\ valuedAt' = [valuedAt EXCEPT ![o] = pricedAt]
  BY DEF RefreshObligationStep, ProcessRefreshObligation
<1>4. MarketTypeOK' /\ \A r \in OracleReserves : PricedRecently(r)'
  BY <1>3 DEF RecentInv, MarketTypeOK, PricedRecently, Recent
<1>5. ASSUME NEW r \in OracleReserves PROVE ValuedRecently(o, r)'
  <2>1. r \in Reserves /\ reserve[r].slot \in Nat
    BY <1>1, LendingAssumption DEF ReserveRec
  <2>2. /\ obligation'[o].deposits[r].present => r \in DepositReserves(obligation[o])
        /\ obligation'[o].borrows[r].present => r \in BorrowReserves(obligation[o])
    <3>1. DepositReserves(ob) \subseteq DepositReserves(obligation[o])
      BY <1>1, <1>2, RefreshChanges
    <3>2. BorrowReserves(ob) \subseteq BorrowReserves(obligation[o])
      BY <1>1, <1>2, RefreshEffect DEF BorrowReserves
    <3>3. obligation'[o] = ob
      BY <1>2 DEF TypeOK
    <3> QED BY <2>1, <3>1, <3>2, <3>3 DEF DepositReserves, BorrowReserves
  <2>3. \A x \in DepositReserves(obligation[o]) \cup BorrowReserves(obligation[o]) : Fresh(reserve[x], slot)
    BY <1>2 DEF RefreshObligation
  <2>4. CASE r \in DepositReserves(obligation[o]) \cup BorrowReserves(obligation[o])
    <3>1. reserve[r].slot = slot
      BY <1>1, <2>1, <2>3, <2>4, FreshSlot
    <3>2. Recent(pricedAt[r])
      BY <3>1 DEF RecentInv, PricedRecently
    <3>3. valuedAt'[o][r] = pricedAt[r]
      BY <1>3 DEF RecentInv, MarketTypeOK
    <3> QED BY <1>3, <3>2, <3>3 DEF ValuedRecently, Recent
  <2> QED BY <2>2, <2>4 DEF ValuedRecently
<1>6. ASSUME NEW p \in Obligations \ {o}, NEW r \in OracleReserves PROVE ValuedRecently(p, r)'
  <2>1. obligation'[p] = obligation[p] /\ valuedAt'[p] = valuedAt[p]
    BY <1>2, <1>3 DEF TypeOK, RecentInv, MarketTypeOK
  <2>2. ValuedRecently(p, r)
    BY DEF RecentInv
  <2> QED BY <1>3, <2>1, <2>2 DEF ValuedRecently, Recent
<1> QED BY <1>4, <1>5, <1>6 DEF RecentInv

LEMMA UserRecent ==
    ASSUME TypeOK, NotAhead, RecentInv, UserStep
    PROVE  RecentInv'
<1>1. Amounts \subseteq U64
  BY LendingAssumption
<1>2. UNCHANGED <<feed, pricedAt, valuedAt>>
  BY DEF UserStep
<1>3. ASSUME NEW r \in Reserves, NEW amount \in Amounts,
             \/ ProcessDepositReserveLiquidity(r, amount)
             \/ ProcessRedeemReserveCollateral(r, amount)
             \/ \E overpaid \in 0..MaxOverpay : ProcessFlashLoan(r, amount, overpaid)
      PROVE  RecentInv'
  BY <1>1, <1>2, <1>3, ReserveKept, MarkedRecent
<1>4. ASSUME NEW o \in Obligations, NEW r \in Reserves, NEW w \in Reserves, NEW amount \in Amounts,
             \/ ProcessDepositObligationCollateral(o, r, amount)
             \/ ProcessDepositReserveLiquidityAndObligationCollateral(o, r, amount)
             \/ ProcessWithdrawObligationCollateral(o, r, amount)
             \/ ProcessBorrowObligationLiquidity(o, r, amount)
             \/ ProcessRepayObligationLiquidity(o, r, amount)
             \/ ProcessLiquidateObligation(o, r, w, amount)
      PROVE  RecentInv'
  <2>1. RatesKept /\ UNCHANGED slot /\ Marked(o)
    BY <1>1, <1>4, DepositCollateralKept, DepositBothKept, BorrowKept, RepayKept
  <2> QED BY <1>2, <2>1, MarkedRecent
<1> QED BY <1>2, <1>3, <1>4, TickRecent, InitObligationRecent DEF UserStep

LEMMA RecentNext == TypeOK /\ NotAhead /\ RecentInv /\ [MarketNext]_marketVars => RecentInv'
<1> SUFFICES ASSUME TypeOK, NotAhead, RecentInv, [MarketNext]_marketVars PROVE RecentInv'
  OBVIOUS
<1>1. ASSUME NEW signer, NEW r \in Reserves, OwnerStep(signer, r) PROVE RecentInv'
  <2>1. CASE \E amount \in Amounts, price \in PriceOf(r), unit \in MintUnits, c \in ConfigsFor[r] :
               /\ ProcessInitReserve(r, amount, price, unit, c)
               /\ pricedAt' = [pricedAt EXCEPT ![r] = AgeStamp(r)]
    BY <1>1, <2>1, InitReserveRecent DEF OwnerStep
  <2>2. CASE /\ (\E c \in ConfigsFor[r] : ProcessUpdateReserve(r, c)) \/ ProcessWithdrawFee(r)
             /\ UNCHANGED pricedAt
    <3>1. 0 \in U64
      BY WadAssumption DEF U64
    <3>2. RatesKept /\ UNCHANGED <<slot, obligation>>
      BY <2>2, <3>1, ReserveKept
    <3> QED BY <1>1, <2>2, <3>2, MarkedRecent DEF OwnerStep
  <2> QED BY <1>1, <2>1, <2>2 DEF OwnerStep
<1>2. ASSUME NEW r \in OracleReserves, NEW p \in Price, Publish(r, p) PROVE RecentInv'
  BY <1>2 DEF Publish, vars, RecentInv, MarketTypeOK, PricedRecently, ValuedRecently, Recent
<1>3. CASE \/ \E owner \in Owners : ProcessInitLendingMarket(owner)
           \/ \E signer, new_owner \in Owners : ProcessSetLendingMarketOwner(signer, new_owner)
           \/ UNCHANGED marketVars
  <2>1. RatesKept /\ UNCHANGED <<slot, obligation, feed, pricedAt, valuedAt>>
    BY <1>3 DEF ProcessInitLendingMarket, ProcessSetLendingMarketOwner, marketVars, vars, RatesKept
  <2> QED BY <2>1, MarkedRecent
<1> QED BY <1>1, <1>2, <1>3, RefreshReserveRecent, RefreshObligationRecent, UserRecent DEF MarketNext

(* No instruction that checks freshness works with a price of the oracle   *)
(* of PriceValidFor slots or more, for any number of reserves, obligations *)
(* and slots, whatever the oracle publishes and when.                      *)
THEOREM ValuationIsRecent == MarketSpec => []ValuationRecent
<1>1. MarketInit => RecentInv
  <2> SUFFICES ASSUME MarketInit PROVE RecentInv
    OBVIOUS
  <2>1. MarketTypeOK
    BY DEF MarketInit, MarketTypeOK
  <2>2. \A r \in OracleReserves : PricedRecently(r)
    BY LendingAssumption, MarketAssumption DEF MarketInit, Init, PricedRecently, Recent
  <2>3. \A o \in Obligations, r \in OracleReserves : ValuedRecently(o, r)
    BY LendingAssumption, MarketAssumption DEF MarketInit, Init, ValuedRecently, Recent
  <2> QED BY <2>1, <2>2, <2>3 DEF RecentInv
<1>2. TypeOK /\ RecentInv => ValuationRecent
  <2> SUFFICES ASSUME TypeOK, RecentInv PROVE ValuationRecent
    OBVIOUS
  <2>1. /\ slot \in Nat
        /\ \A r \in OracleReserves : reserve[r].slot \in Nat
        /\ \A o \in Obligations : obligation[o].slot \in Nat
    BY LendingAssumption DEF TypeOK, ReserveRec, ObligationRec
  <2>2. ASSUME NEW r \in OracleReserves, ReserveFresh(r) PROVE slot - pricedAt[r] < PriceValidFor
    BY <2>1, <2>2, FreshSlot DEF ReserveFresh, RecentInv, PricedRecently, Recent
  <2>3. ASSUME NEW o \in Obligations, ObligationFresh(o), NEW r \in PricedEntries(o)
        PROVE  slot - valuedAt[o][r] < PriceValidFor
    <3>1. /\ r \in OracleReserves
          /\ obligation[o].deposits[r].present \/ obligation[o].borrows[r].present
      BY DEF PricedEntries, DepositReserves, BorrowReserves
    <3>2. ~obligation[o].stale /\ obligation[o].slot = slot
      BY <2>1, <2>3, FreshSlot DEF ObligationFresh
    <3> QED BY <3>1, <3>2 DEF RecentInv, ValuedRecently, Recent
  <2> QED BY <2>2, <2>3 DEF ValuationRecent
<1>3. MarketSpec => []TypeOK /\ []SettledInv
  BY MarketSettled
<1>4. SettledInv => NotAhead
  BY DEF SettledInv
<1> QED BY <1>1, <1>2, <1>3, <1>4, RecentNext, PTL DEF MarketSpec
=============================================================================

-------------------------------- MODULE Market --------------------------------
(***************************************************************************)
(* Lending with the two parties it leaves open: the owner of the lending   *)
(* market, whose signature the management of reserves takes, and the Pyth  *)
(* price accounts that refresh_reserve reads.  The price oracle publishes  *)
(* when it likes, halts, or falls silent; the program must not value       *)
(* anything with a price that has become too old.                          *)
(***************************************************************************)
EXTENDS Lending

CONSTANTS
    Owners,         \* keys that may own the lending market
    NoOwner,        \* the owner of a market that is not initialised
    Statuses,       \* Price.agg.status, one of them Trading
    Trading,
    OraclePrices,   \* values of Price.agg.price, an i64
    Exponents,      \* values of Price.expo
    PriceValidFor,  \* STALE_AFTER_SLOTS_ELAPSED of get_pyth_price, 240 in the code
    BASE            \* the base of Price.expo, 10 in the code

ASSUME MarketAssumption ==
    /\ NoOwner \notin Owners
    /\ Trading \in Statuses
    /\ OraclePrices \subseteq Int
    /\ Exponents \subseteq Int
    /\ PriceValidFor \in Nat \ {0}
    /\ BASE \in Nat \ {0}

VARIABLES
    marketOwner, \* LendingMarket.owner
    feed,        \* Pyth price accounts
    pricedAt,    \* history: valid_slot of the price a reserve carries
    valuedAt     \* history: valid_slot of the price behind an obligation's value of a reserve

marketVars == <<vars, marketOwner, feed, pricedAt, valuedAt>>

(* a Pyth price account *)
Price == [status : Statuses, price : OraclePrices, expo : Exponents, valid_slot : 0..MaxSlot]

MarketInit ==
    /\ Init
    /\ marketOwner = NoOwner
    /\ feed \in [OracleReserves -> {p \in Price : p.status = Trading /\ p.valid_slot = 0}]
    /\ pricedAt = [r \in Reserves |-> 0]
    /\ valuedAt = [o \in Obligations |-> [r \in Reserves |-> 0]]

(***************************************************************************)
(* get_pyth_price.  The exponent scales the price up or, truncating, down. *)
(***************************************************************************)
CheckedPow(exponent) == {BASE ^ exponent} \cap U64

Scaled(price, expo) ==
    IF expo >= 0 THEN UNION {TryMulU64(FromU64(price), zeros) : zeros \in CheckedPow(expo)}
    ELSE UNION {TryDivU64(FromU64(price), decimals) : decimals \in CheckedPow(-expo)}

(* Faulty variant, to show what ValuationRecent detects: the age of the price is not looked at.  *)
PriceOfAnyAge(f, now) ==
    UNION {Scaled(price, f.expo) : price \in IF f.status = Trading THEN {f.price} \cap U64 ELSE {}}

GetPythPrice(f, now) ==
    UNION {Scaled(price, f.expo) :
           price \in IF /\ f.status = Trading
                        /\ \E elapsed \in CheckedSub(now, f.valid_slot) : elapsed < PriceValidFor
                     THEN {f.price} \cap U64 ELSE {}}

(* the prices an instruction may take for reserve r, the fixed one or the oracle's *)
PriceOf(r) == IF r \in OracleReserves THEN GetPythPrice(feed[r], slot) ELSE PricesFor[r]
AgeStamp(r) == IF r \in OracleReserves THEN feed[r].valid_slot ELSE slot

(***************************************************************************)
(* The oracle (external): a new aggregate price, valid since its last      *)
(* update of some slot up to this one.                                     *)
(***************************************************************************)
Publish(r, p) ==
    /\ feed[r].valid_slot <= p.valid_slot
    /\ p.valid_slot <= slot
    /\ feed' = [feed EXCEPT ![r] = p]
    /\ UNCHANGED <<vars, marketOwner, pricedAt, valuedAt>>

(***************************************************************************)
(* process_init_lending_market and process_set_lending_market_owner.       *)
(***************************************************************************)
ProcessInitLendingMarket(owner) ==
    /\ marketOwner = NoOwner
    /\ marketOwner' = owner
    /\ UNCHANGED <<vars, feed, pricedAt, valuedAt>>

ProcessSetLendingMarketOwner(signer, new_owner) ==
    /\ signer = marketOwner
    /\ marketOwner' = new_owner
    /\ UNCHANGED <<vars, feed, pricedAt, valuedAt>>

(* init_reserve, update_reserve and withdraw_fee, which the owner signs *)
OwnerStep(signer, r) ==
    /\ signer = marketOwner
    /\ \/ /\ \E amount \in Amounts, price \in PriceOf(r), unit \in MintUnits, c \in ConfigsFor[r] :
                ProcessInitReserve(r, amount, price, unit, c)
          /\ pricedAt' = [pricedAt EXCEPT ![r] = AgeStamp(r)]
       \/ /\ (\E c \in ConfigsFor[r] : ProcessUpdateReserve(r, c)) \/ ProcessWithdrawFee(r)
          /\ UNCHANGED pricedAt
    /\ UNCHANGED <<marketOwner, feed, valuedAt>>

RefreshReserveStep(r) ==
    /\ \E price \in PriceOf(r) : ProcessRefreshReserve(r, price)
    /\ pricedAt' = [pricedAt EXCEPT ![r] = AgeStamp(r)]
    /\ UNCHANGED <<marketOwner, feed, valuedAt>>

RefreshObligationStep(o) ==
    /\ ProcessRefreshObligation(o)
    /\ valuedAt' = [valuedAt EXCEPT ![o] = pricedAt]
    /\ UNCHANGED <<marketOwner, feed, pricedAt>>

(* the instructions of depositors, borrowers and liquidators *)
UserStep ==
    /\ \/ Tick
       \/ \E r \in Reserves, amount \in Amounts :
             \/ ProcessDepositReserveLiquidity(r, amount)
             \/ ProcessRedeemReserveCollateral(r, amount)
             \/ \E overpaid \in 0..MaxOverpay : ProcessFlashLoan(r, amount, overpaid)
       \/ \E o \in Obligations : ProcessInitObligation(o)
       \/ \E o \in Obligations, r \in Reserves, amount \in Amounts :
             \/ ProcessDepositObligationCollateral(o, r, amount)
             \/ ProcessDepositReserveLiquidityAndObligationCollateral(o, r, amount)
             \/ ProcessWithdrawObligationCollateral(o, r, amount)
             \/ ProcessBorrowObligationLiquidity(o, r, amount)
             \/ ProcessRepayObligationLiquidity(o, r, amount)
       \/ \E o \in Obligations, r, w \in Reserves, amount \in Amounts :
             ProcessLiquidateObligation(o, r, w, amount)
    /\ UNCHANGED <<marketOwner, feed, pricedAt, valuedAt>>

MarketNext ==
    \/ \E owner \in Owners : ProcessInitLendingMarket(owner)
    \/ \E signer, new_owner \in Owners : ProcessSetLendingMarketOwner(signer, new_owner)
    \/ \E signer \in Owners, r \in Reserves : OwnerStep(signer, r)
    \/ \E r \in OracleReserves, p \in Price : Publish(r, p)
    \/ \E r \in Reserves : RefreshReserveStep(r)
    \/ \E o \in Obligations : RefreshObligationStep(o)
    \/ UserStep

MarketSpec == MarketInit /\ [][MarketNext]_marketVars

-----------------------------------------------------------------------------
(* The reserves whose price counts for an obligation's values. *)
PricedEntries(o) ==
    (DepositReserves(obligation[o]) \cup BorrowReserves(obligation[o])) \cap OracleReserves

(* No instruction that checks freshness works with a price of the oracle   *)
(* that is PriceValidFor slots old or older: not the price a fresh reserve *)
(* carries, and not the ones behind a fresh obligation's values, although  *)
(* the age was checked two instructions earlier, the deposit into an       *)
(* obligation declares a reserve fresh without looking at the oracle, and  *)
(* the oracle may have halted or published anew since.                     *)
ValuationRecent ==
    /\ \A r \in OracleReserves : ReserveFresh(r) => slot - pricedAt[r] < PriceValidFor
    /\ \A o \in Obligations : ObligationFresh(o) =>
          \A r \in PricedEntries(o) : slot - valuedAt[o][r] < PriceValidFor
===============================================================================

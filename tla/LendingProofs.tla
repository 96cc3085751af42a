---------------------------- MODULE LendingProofs -----------------------------
(***************************************************************************)
(* Theorems about the reserves of Lending, for any number of reserves and  *)
(* obligations, any amounts, prices, configurations, scale and integer     *)
(* widths: the books of their tokens, and that Lending implements Vault.   *)
(***************************************************************************)
EXTENDS LendingVault, PowerProofs, TLAPS

-----------------------------------------------------------------------------
(***************************************************************************)
(* What the methods of a reserve do to the amounts the books are kept in.  *)
(***************************************************************************)
Moves(new, old, liquidity, collateral) ==
    /\ new.available_amount = old.available_amount + liquidity
    /\ new.mint_total_supply = old.mint_total_supply + collateral
    /\ new.cumulative_borrow_rate_wads = old.cumulative_borrow_rate_wads
    /\ new.slot = old.slot
    /\ new.initialized = old.initialized
    /\ new.config = old.config

(* deposit_liquidity adds the liquidity and mints what it reports. *)
LEMMA DepositEffect ==
    ASSUME NEW res \in ReserveRec, NEW amount \in U64,
           NEW d \in DepositLiquidity(res, amount)
    PROVE  /\ d.collateral_amount \in U64
           /\ Moves(d.reserve, res, amount, d.collateral_amount)
           /\ Moves(MarkStale(d.reserve), res, amount, d.collateral_amount)
           /\ Moves(UpdateSlot(MarkStale(d.reserve), res.slot), res, amount, d.collateral_amount)
<1>1. PICK available \in CheckedAdd(res.available_amount, amount),
           minted \in UNION {UNION {CheckedAdd(res.mint_total_supply, c) :
                                    c \in LiquidityToCollateral(rate, amount)} :
                             rate \in CollateralExchangeRate(res)} :
         d = [reserve |-> Supplied(res, available, minted),
              collateral_amount |-> minted - res.mint_total_supply]
  BY DEF DepositLiquidity
<1>2. PICK rate \in CollateralExchangeRate(res) :
         \E c \in LiquidityToCollateral(rate, amount) : minted \in CheckedAdd(res.mint_total_supply, c)
  BY <1>1
<1>3. PICK c \in LiquidityToCollateral(rate, amount) : minted \in CheckedAdd(res.mint_total_supply, c)
  BY <1>2
<1>4. c \in U64
  BY <1>3 DEF LiquidityToCollateral, TryFloorU64
<1>5. res.mint_total_supply \in U64 /\ res.available_amount \in U64
  BY DEF ReserveRec
<1>6. available = res.available_amount + amount /\ minted = res.mint_total_supply + c
  BY <1>1, <1>3 DEF CheckedAdd
<1>7. minted - res.mint_total_supply = c
  BY <1>4, <1>5, <1>6, WadAssumption DEF U64
<1>8. d.collateral_amount = c /\ d.reserve = Supplied(res, available, minted)
  BY <1>1, <1>7
<1> QED
  BY <1>4, <1>6, <1>8 DEF Moves, ReserveRec, Supplied, Lent, MarkStale, UpdateSlot

(* redeem_collateral burns the collateral and removes what it reports. *)
LEMMA RedeemEffect ==
    ASSUME NEW res \in ReserveRec, NEW amount \in U64,
           NEW d \in RedeemCollateral(res, amount)
    PROVE  /\ d.liquidity_amount \in U64
           /\ Moves(MarkStale(d.reserve), res, -d.liquidity_amount, -amount)
<1>1. PICK supply \in CheckedSub(res.mint_total_supply, amount),
           available \in UNION {UNION {CheckedSub(res.available_amount, l) :
                                       l \in CollateralToLiquidity(rate, amount)} :
                                rate \in CollateralExchangeRate(res)} :
         d = [reserve |-> Supplied(res, available, supply),
              liquidity_amount |-> res.available_amount - available]
  BY DEF RedeemCollateral
<1>2. PICK rate \in CollateralExchangeRate(res) :
         \E l \in CollateralToLiquidity(rate, amount) : available \in CheckedSub(res.available_amount, l)
  BY <1>1
<1>3. PICK l \in CollateralToLiquidity(rate, amount) : available \in CheckedSub(res.available_amount, l)
  BY <1>2
<1>4. l \in U64
  BY <1>3 DEF CollateralToLiquidity, TryFloorU64
<1>5. res.mint_total_supply \in U64 /\ res.available_amount \in U64
  BY DEF ReserveRec
<1>6. available = res.available_amount - l /\ supply = res.mint_total_supply - amount
  BY <1>1, <1>3 DEF CheckedSub
<1>7. /\ res.available_amount - available = l
      /\ available = res.available_amount + (-l)
      /\ supply = res.mint_total_supply + (-amount)
  BY <1>4, <1>5, <1>6, WadAssumption DEF U64
<1>8. d.liquidity_amount = l /\ d.reserve = Supplied(res, available, supply)
  BY <1>1, <1>7
<1> QED
  BY <1>4, <1>7, <1>8 DEF Moves, ReserveRec, Supplied, Lent, MarkStale, UpdateSlot

(* ReserveLiquidity::borrow takes the whole part of the loan. *)
LEMMA BorrowEffect ==
    ASSUME NEW res \in ReserveRec, NEW wads, NEW b \in TryFloorU64(wads),
           NEW new \in BorrowLiquidity(res, wads)
    PROVE  Moves(new, res, -b, 0) /\ Moves(MarkStale(new), res, -b, 0)
<1>1. PICK available \in UNION {CheckedSub(res.available_amount, x) : x \in TryFloorU64(wads)},
           borrowed \in TryAdd(res.borrowed_amount_wads, wads) :
         new = Lent(res, available, borrowed)
  BY DEF BorrowLiquidity
<1>2. b \in U64 /\ \A x \in TryFloorU64(wads) : x = b
  BY DEF TryFloorU64
<1>3. res.mint_total_supply \in U64 /\ res.available_amount \in U64
  BY DEF ReserveRec
<1>4. available = res.available_amount - b
  BY <1>1, <1>2 DEF CheckedSub
<1>5. available = res.available_amount + (-b) /\ res.mint_total_supply = res.mint_total_supply + 0
  BY <1>2, <1>3, <1>4, WadAssumption DEF U64
<1> QED
  BY <1>1, <1>5 DEF Moves, ReserveRec, Supplied, Lent, MarkStale, UpdateSlot

(* ReserveLiquidity::repay adds the tokens repaid. *)
LEMMA RepayEffect ==
    ASSUME NEW res \in ReserveRec, NEW amount \in U64, NEW wads,
           NEW new \in RepayLiquidity(res, amount, wads)
    PROVE  Moves(new, res, amount, 0) /\ Moves(MarkStale(new), res, amount, 0)
<1>1. PICK available, borrowed : /\ available \in CheckedAdd(res.available_amount, amount)
                                /\ new = Lent(res, available, borrowed)
  BY DEF RepayLiquidity
<1>2. available = res.available_amount + amount /\ res.mint_total_supply = res.mint_total_supply + 0
  BY <1>1, WadAssumption DEF CheckedAdd, ReserveRec, U64
<1> QED
  BY <1>1, <1>2 DEF Moves, ReserveRec, Supplied, Lent, MarkStale, UpdateSlot

-----------------------------------------------------------------------------
(***************************************************************************)
(* Changes of one balance by n.                                            *)
(***************************************************************************)
Shifted(new, old, r, n) ==
    /\ new = [x \in Reserves |-> new[x]]
    /\ \A x \in Reserves : new[x] = IF x = r THEN old[x] + n ELSE old[x]

(* Credit, Debit and no change at all are changes by n, -n and 0. *)
LEMMA Shifting ==
    ASSUME NEW old \in [Reserves -> Int], NEW r \in Reserves, NEW n \in Int
    PROVE  /\ Shifted(Credit(old, r, n), old, r, n)
           /\ Shifted(Debit(old, r, n), old, r, -n)
           /\ Shifted(old, old, r, 0)
<1>1. Shifted(Credit(old, r, n), old, r, n)
  BY DEF Shifted, Credit
<1>2. Shifted(Debit(old, r, n), old, r, -n)
  BY DEF Shifted, Debit
<1>3. Shifted(old, old, r, 0)
  BY DEF Shifted
<1> QED
  BY <1>1, <1>2, <1>3
-----------------------------------------------------------------------------
(***************************************************************************)
(* The books.  A balance can only be shown to fit a u64 together with the  *)
(* equations between balances, so the invariant joins them: the tokens of  *)
(* a mint are conserved, and the reserve account agrees with its token     *)
(* accounts.                                                               *)
(***************************************************************************)
Conserved ==
    \A r \in Reserves :
       liquiditySupply[r] + feeReceiver[r] + userLiquidity[r] = LiquidityTokens

(* A reserve account that is not initialised holds nothing. *)
Untouched ==
    \A r \in Reserves : ~reserve[r].initialized =>
       reserve[r].available_amount = 0 /\ reserve[r].mint_total_supply = 0

LiquidityBooks ==
    /\ reserve \in [Reserves -> ReserveRec]
    /\ liquiditySupply \in Balances
    /\ feeReceiver \in Balances
    /\ userLiquidity \in Balances
    /\ surplus \in [Reserves -> Nat]
    /\ Conserved
    /\ Untouched
    /\ LiquidityBacked

CollateralBooks ==
    /\ reserve \in [Reserves -> ReserveRec]
    /\ collateralSupply \in Balances
    /\ userCollateral \in Balances
    /\ MintMatches

BooksInv == TypeOK /\ Conserved /\ Untouched /\ LiquidityBacked /\ MintMatches

(* The reserve accounts after a step that changes at most the one of r. *)
Saved(r, liquidity, collateral) ==
    /\ reserve' \in [Reserves -> ReserveRec]
    /\ reserve'[r].available_amount = reserve[r].available_amount + liquidity
    /\ reserve'[r].mint_total_supply = reserve[r].mint_total_supply + collateral
    /\ reserve'[r].initialized \/ reserve'[r] = reserve[r]
    /\ \A x \in Reserves \ {r} : reserve'[x] = reserve[x]

(* Reserve::pack of a record whose amounts moved. *)
LEMMA SaveMoved ==
    ASSUME reserve \in [Reserves -> ReserveRec], NEW r \in Reserves,
           NEW res, NEW l, NEW m, Moves(res, reserve[r], l, m), SaveReserve(r, res),
           reserve[r].initialized
    PROVE  Saved(r, l, m)
  BY DEF SaveReserve, Pack, Saved, Moves

(* A step that leaves the reserve accounts alone. *)
LEMMA SavedSame ==
    ASSUME reserve \in [Reserves -> ReserveRec], NEW r \in Reserves, reserve' = reserve
    PROVE  Saved(r, 0, 0)
<1>1. reserve[r].available_amount \in Int /\ reserve[r].mint_total_supply \in Int
  BY WadAssumption DEF ReserveRec, U64
<1> QED
  BY <1>1 DEF Saved

(* Liquidity that moves between the token accounts of one mint, in step    *)
(* with the reserve, keeps its books.                                      *)
LEMMA LiquidityPosted ==
    ASSUME LiquidityBooks, NEW r \in Reserves,
           NEW l \in Int, NEW f \in Int, NEW u \in Int, NEW s \in Nat, NEW m,
           Saved(r, l - s, m),
           Shifted(liquiditySupply', liquiditySupply, r, l),
           Shifted(feeReceiver', feeReceiver, r, f),
           Shifted(userLiquidity', userLiquidity, r, u),
           Shifted(surplus', surplus, r, s),
           l + f + u = 0,
           liquiditySupply[r] + l >= 0, feeReceiver[r] + f >= 0, userLiquidity[r] + u >= 0
    PROVE  LiquidityBooks'
<1> USE DEF LiquidityBooks, Balances
<1>1. ASSUME NEW x \in Reserves
      PROVE  /\ liquiditySupply'[x] \in Nat /\ feeReceiver'[x] \in Nat /\ userLiquidity'[x] \in Nat
             /\ surplus'[x] \in Nat
             /\ liquiditySupply'[x] + feeReceiver'[x] + userLiquidity'[x] = LiquidityTokens
  <2>1. liquiditySupply[x] \in Nat /\ feeReceiver[x] \in Nat /\ userLiquidity[x] \in Nat /\ surplus[x] \in Nat
    BY DEF U64
  <2> QED
    BY <2>1 DEF Shifted, Conserved
<1>2. ASSUME NEW x \in Reserves
      PROVE  liquiditySupply'[x] \in U64 /\ feeReceiver'[x] \in U64 /\ userLiquidity'[x] \in U64
  BY <1>1, LendingAssumption, WadAssumption DEF U64
<1>3. ASSUME NEW x \in Reserves
      PROVE  liquiditySupply'[x] = reserve'[x].available_amount + surplus'[x]
  <2>1. /\ liquiditySupply[x] = reserve[x].available_amount + surplus[x]
        /\ liquiditySupply[x] \in Nat /\ reserve[x].available_amount \in Nat /\ surplus[x] \in Nat
    BY DEF LiquidityBacked, U64, ReserveRec
  <2>2. CASE x = r
    BY <2>1, <2>2 DEF Shifted, Saved
  <2>3. CASE x # r
    BY <2>1, <2>3 DEF Shifted, Saved
  <2> QED
    BY <2>2, <2>3
<1>4. /\ liquiditySupply' \in Balances /\ feeReceiver' \in Balances /\ userLiquidity' \in Balances
      /\ surplus' \in [Reserves -> Nat]
  BY <1>1, <1>2 DEF Shifted
<1> QED
  BY <1>1, <1>3, <1>4 DEF Saved, Conserved, Untouched, LiquidityBacked

(* Collateral that is minted, burnt or moved, in step with the reserve.    *)
LEMMA CollateralPosted ==
    ASSUME CollateralBooks, NEW r \in Reserves, NEW w \in Reserves,
           NEW l, NEW m \in Int, NEW c \in Int, NEW u \in Int,
           Saved(r, l, m),
           Shifted(collateralSupply', collateralSupply, w, c),
           Shifted(userCollateral', userCollateral, w, u),
           (r = w /\ m = c + u) \/ (m = 0 /\ c + u = 0),
           collateralSupply[w] + c >= 0, userCollateral[w] + u >= 0
    PROVE  CollateralBooks'
<1> USE DEF CollateralBooks, Balances
<1>1. ASSUME NEW x \in Reserves
      PROVE  /\ collateralSupply'[x] \in Nat /\ userCollateral'[x] \in Nat
             /\ reserve'[x].mint_total_supply = userCollateral'[x] + collateralSupply'[x]
  <2>1. /\ collateralSupply[x] \in Nat /\ userCollateral[x] \in Nat
        /\ reserve[x].mint_total_supply \in Nat
        /\ reserve[x].mint_total_supply = userCollateral[x] + collateralSupply[x]
    BY DEF U64, ReserveRec, MintMatches
  <2>2. /\ collateralSupply'[x] = IF x = w THEN collateralSupply[x] + c ELSE collateralSupply[x]
        /\ userCollateral'[x] = IF x = w THEN userCollateral[x] + u ELSE userCollateral[x]
    BY DEF Shifted
  <2>3. reserve'[x].mint_total_supply
           = IF x = r THEN reserve[x].mint_total_supply + m ELSE reserve[x].mint_total_supply
    BY DEF Saved
  <2>4. collateralSupply'[x] \in Nat /\ userCollateral'[x] \in Nat
    BY <2>1, <2>2
  <2> QED
    BY <2>1, <2>2, <2>3, <2>4
<1>2. ASSUME NEW x \in Reserves
      PROVE  collateralSupply'[x] \in U64 /\ userCollateral'[x] \in U64
  <2>1. reserve'[x].mint_total_supply \in U64
    BY DEF Saved, ReserveRec
  <2> QED
    BY <1>1, <2>1, WadAssumption DEF U64
<1>3. collateralSupply' \in Balances /\ userCollateral' \in Balances
  BY <1>2 DEF Shifted
<1> QED
  BY <1>1, <1>3 DEF Saved, MintMatches
-----------------------------------------------------------------------------
(***************************************************************************)
(* The amounts instructions move are amounts.                              *)
(***************************************************************************)
LEMMA WholeTokens ==
    ASSUME NEW n \in Nat
    PROVE  FromU64(n) \div WAD = n
<1>1. WAD \in Nat /\ WAD > 0
  BY WadAssumption
<1> QED
  BY <1>1 DEF FromU64

(* Both parts of a fee are amounts. *)
LEMMA FeesTyped ==
    ASSUME NEW c, NEW wads, NEW fee_wad, NEW inclusive,
           NEW fees \in CalculateFees(c, wads, fee_wad, inclusive)
    PROVE  fees.fee \in Nat /\ fees.host_fee \in Nat
<1>1. CASE fee_wad = 0 \/ wads = 0
  BY <1>1 DEF CalculateFees
<1>2. CASE ~(fee_wad = 0 \/ wads = 0)
  <2>1. PICK charged, fee, host :
           /\ fee \in TryRoundU64(charged)
           /\ host \in HostFee(charged, c.host_fee_percentage)
           /\ fees = [fee |-> fee, host_fee |-> host]
    BY <1>2 DEF CalculateFees
  <2>2. fee \in Nat
    BY <2>1, WadAssumption DEF TryRoundU64, U64
  <2>3. host \in Nat
    BY <2>1, WadAssumption DEF HostFee, TryRoundU64, U64, Greatest
  <2> QED
    BY <2>1, <2>2, <2>3
<1> QED
  BY <1>1, <1>2

(* What the borrower receives and the fee make up the whole part of the    *)
(* loan that is recorded.                                                  *)
LEMMA BorrowAmounts ==
    ASSUME NEW res \in ReserveRec, NEW amount \in U64, NEW max_value,
           NEW b \in CalculateBorrow(res, amount, max_value)
    PROVE  /\ b.receive \in Nat /\ b.fee \in Nat
           /\ \A x \in TryFloorU64(b.borrow_wads) : x = b.fee + b.receive
<1>1. CASE amount = U64_MAX
  <2>1. PICK wads : \E fees \in CalculateFees(res.config, wads, res.config.borrow_fee_wad, TRUE) :
           \E receive \in UNION {CheckedSub(x, fees.fee) : x \in TryFloorU64(wads)} :
              b = [borrow_wads |-> wads, receive |-> receive, fee |-> fees.fee]
    <3>1. b \in CalculateMaxBorrow(res, max_value)
      BY <1>1 DEF CalculateBorrow
    <3> DEFINE Receives(w, f) == UNION {CheckedSub(x, f) : x \in TryFloorU64(w)}
               Split(w, f) == {[borrow_wads |-> w, receive |-> receive, fee |-> f] : receive \in Receives(w, f)}
               Fees(w) == CalculateFees(res.config, w, res.config.borrow_fee_wad, TRUE)
    <3>2. b \in UNION {UNION {Split(w, fees.fee) : fees \in Fees(w)} : w \in MaxBorrowWads(res, max_value)}
      BY <3>1 DEF CalculateMaxBorrow
    <3> HIDE DEF Split, Fees
    <3>3. PICK w, fees : fees \in Fees(w) /\ b \in Split(w, fees.fee)
      BY <3>2
    <3>4. PICK receive \in Receives(w, fees.fee) : b = [borrow_wads |-> w, receive |-> receive, fee |-> fees.fee]
      BY <3>3 DEF Split
    <3> QED
      BY <3>3, <3>4 DEF Fees
  <2>2. PICK fees \in CalculateFees(res.config, wads, res.config.borrow_fee_wad, TRUE) :
           \E receive \in UNION {CheckedSub(x, fees.fee) : x \in TryFloorU64(wads)} :
              b = [borrow_wads |-> wads, receive |-> receive, fee |-> fees.fee]
    BY <2>1
  <2>3. PICK receive \in UNION {CheckedSub(x, fees.fee) : x \in TryFloorU64(wads)} :
              b = [borrow_wads |-> wads, receive |-> receive, fee |-> fees.fee]
    BY <2>2
  <2>4. PICK whole \in TryFloorU64(wads) : receive \in CheckedSub(whole, fees.fee)
    BY <2>3
  <2>5. fees.fee \in Nat
    BY <2>2, FeesTyped
  <2>6. whole \in Nat /\ \A x \in TryFloorU64(wads) : x = whole
    BY <2>4, WadAssumption DEF TryFloorU64, U64
  <2>7. receive \in Nat /\ whole = fees.fee + receive
    BY <2>4, <2>5, <2>6, WadAssumption DEF CheckedSub, U64
  <2> QED
    BY <2>3, <2>5, <2>6, <2>7
<1>2. CASE amount # U64_MAX
  <2>1. PICK fees \in CalculateFees(res.config, FromU64(amount), res.config.borrow_fee_wad, FALSE) :
           \E wads \in TryAdd(FromU64(amount), FromU64(fees.fee)) :
              b = [borrow_wads |-> wads, receive |-> amount, fee |-> fees.fee]
    BY <1>2 DEF CalculateBorrow, CalculateExactBorrow
  <2>2. PICK wads \in TryAdd(FromU64(amount), FromU64(fees.fee)) :
              b = [borrow_wads |-> wads, receive |-> amount, fee |-> fees.fee]
    BY <2>1
  <2>3. fees.fee \in Nat /\ amount \in Nat
    <3>1. fees.fee \in Nat
      BY <2>1, FeesTyped
    <3> QED
      BY <3>1, WadAssumption DEF U64
  <2>4. wads = FromU64(fees.fee + amount)
    <3>1. \A n, m, k \in Nat : n * k + m * k = (m + n) * k
      OBVIOUS
    <3>2. FromU64(amount) + FromU64(fees.fee) = FromU64(fees.fee + amount)
      BY <3>1, <2>3, WadAssumption DEF FromU64
    <3> QED
      BY <2>2, <3>2 DEF TryAdd
  <2>5. wads \div WAD = fees.fee + amount
    BY <2>3, <2>4, WholeTokens
  <2> QED
    BY <2>2, <2>3, <2>5 DEF TryFloorU64
<1> QED
  BY <1>1, <1>2

LEMMA CeilTyped ==
    ASSUME NEW a, NEW x \in TryCeilU64(a)
    PROVE  x \in U64
  BY DEF TryCeilU64

(* The tokens repaid are an amount. *)
LEMMA RepayAmounts ==
    ASSUME NEW amount, NEW wads, NEW p \in CalculateRepay(amount, wads)
    PROVE  p.repay \in U64
<1>1. PICK settle, repay : repay \in TryCeilU64(settle) /\ p = [settle |-> settle, repay |-> repay]
  BY DEF CalculateRepay
<1> QED
  BY <1>1, CeilTyped

(* A withdrawal, bounded by the deposit, is an amount. *)
LEMMA WithdrawAmounts ==
    ASSUME NEW ob, NEW r, NEW ltv, NEW amount \in U64, NEW w \in WithdrawAmount(ob, r, ltv, amount),
           ob.deposits[r].deposited_amount \in U64
    PROVE  w \in Nat
<1> DEFINE col == ob.deposits[r]
<1>1. CASE BorrowReserves(ob) = {}
  BY <1>1, WadAssumption DEF WithdrawAmount, Least, U64
<1>2. CASE BorrowReserves(ob) # {}
  <2>1. PICK v : w \in IF amount = U64_MAX THEN MaxWithdraw(col, v) ELSE ExactWithdraw(col, amount, v)
    BY <1>2 DEF WithdrawAmount
  <2>2. CASE amount = U64_MAX
    <3>1. PICK a \in U64 : w = Least(a, col.deposited_amount)
      BY <2>1, <2>2 DEF MaxWithdraw, TryFloorU64
    <3> QED
      BY <3>1, WadAssumption DEF Least, U64
  <2>3. CASE amount # U64_MAX
    BY <2>1, <2>3, WadAssumption DEF ExactWithdraw, Least, U64
  <2> QED
    BY <2>2, <2>3
<1> QED
  BY <1>1, <1>2

LEMMA SeizedTyped ==
    ASSUME NEW col, NEW value, NEW x \in SeizedShare(col, value)
    PROVE  x \in U64
  BY DEF SeizedShare, TryFloorU64

(* The tokens a liquidator pays and the collateral she takes are amounts.  *)
LEMMA LiquidationAmounts ==
    ASSUME NEW c, NEW amount, NEW ob, NEW liq, NEW col, col.deposited_amount \in U64,
           NEW q \in CalculateLiquidation(c, amount, ob, liq, col)
    PROVE  q.repay \in U64 /\ q.withdraw \in U64
<1>1. PICK bonus, wads : q \in CloseOut(liq, col, bonus, wads) \/ q \in PartialLiquidation(liq, col, bonus, wads)
  BY DEF CalculateLiquidation
<1>2. CASE q \in CloseOut(liq, col, bonus, wads)
  <2>1. PICK value, repay, withdraw :
           /\ q = [settle |-> liq.borrowed_amount_wads, repay |-> repay, withdraw |-> withdraw]
           /\ \E a : repay \in TryCeilU64(a)
           /\ withdraw \in SeizedShare(col, value) \cup {col.deposited_amount}
    BY <1>2 DEF CloseOut
  <2> QED
    BY <2>1, CeilTyped, SeizedTyped
<1>3. CASE q \in PartialLiquidation(liq, col, bonus, wads)
  <2>1. PICK value, settle, repay, withdraw :
           /\ q = [settle |-> settle, repay |-> repay, withdraw |-> withdraw]
           /\ repay \in TryCeilU64(settle)
           /\ withdraw \in SeizedShare(col, value) \cup {col.deposited_amount}
    BY <1>3 DEF PartialLiquidation
  <2> QED
    BY <2>1, CeilTyped, SeizedTyped
<1> QED
  BY <1>1, <1>2, <1>3
-----------------------------------------------------------------------------
(***************************************************************************)
(* Types of what a step leaves behind.                                     *)
(***************************************************************************)
LEMMA BalancesInt ==
    ASSUME NEW b \in Balances
    PROVE  b \in [Reserves -> Int] /\ \A r \in Reserves : b[r] \in Nat
  BY WadAssumption DEF Balances, U64

LEMMA SaveObligationTyped ==
    ASSUME obligation \in [Obligations -> ObligationRec], NEW o, NEW ob, SaveObligation(o, ob)
    PROVE  obligation' \in [Obligations -> ObligationRec]
  BY DEF SaveObligation, PackObligation

LEMMA StakeTyped ==
    ASSUME stake \in [Obligations -> [StakingPools -> U64]], NEW o \in Obligations,
           NEW pool \in StakingPools \cup {NoPool}, NEW amount,
           StakeDeposit(o, pool, amount) \/ StakeWithdraw(o, pool, amount)
    PROVE  stake' \in [Obligations -> [StakingPools -> U64]]
<1>1. CASE pool = NoPool
  BY <1>1 DEF StakeDeposit, StakeWithdraw
<1>2. CASE pool # NoPool
  <2>1. PICK total \in U64 : stake' = [stake EXCEPT ![o][pool] = total]
    BY <1>2 DEF StakeDeposit, StakeWithdraw, CheckedAdd, CheckedSub
  <2> QED
    BY <1>2, <2>1
<1> QED
  BY <1>1, <1>2

LEMMA PoolTyped ==
    ASSUME NEW res \in ReserveRec
    PROVE  res.config.deposit_staking_pool \in StakingPools \cup {NoPool}
  BY ConfigsAssumption DEF ReserveRec, ReserveConfig

(* The invariant in its two halves, to be put together after a step.       *)
OthersTyped ==
    /\ slot \in Nat
    /\ obligation \in [Obligations -> ObligationRec]
    /\ stake \in [Obligations -> [StakingPools -> U64]]

LEMMA BooksSplit == BooksInv <=> OthersTyped /\ LiquidityBooks /\ CollateralBooks
  BY DEF BooksInv, OthersTyped, LiquidityBooks, CollateralBooks, TypeOK

(* A step that touches neither token accounts nor reserves.                *)
LEMMA NothingPosted ==
    ASSUME UNCHANGED <<reserve, liquiditySupply, feeReceiver, collateralSupply,
                       userLiquidity, userCollateral, surplus>>
    PROVE  /\ LiquidityBooks => LiquidityBooks'
           /\ CollateralBooks => CollateralBooks'
  BY DEF LiquidityBooks, CollateralBooks, Conserved, Untouched, LiquidityBacked, MintMatches
-----------------------------------------------------------------------------
(***************************************************************************)
(* Each instruction keeps the books.                                       *)
(***************************************************************************)
LEMMA BooksInit == Init => BooksInv
<1> SUFFICES ASSUME Init PROVE BooksInv
  OBVIOUS
<1> USE DEF Init
<1>1. UninitializedReserve \in ReserveRec
  <2>1. (CHOOSE u \in MintUnits : TRUE) \in MintUnits /\ (CHOOSE c \in Configs : TRUE) \in Configs
    BY LendingAssumption
  <2> QED
    BY <2>1, WadAssumption DEF UninitializedReserve, ReserveRec, U64, Rate
<1>2. EmptyObligation(FALSE, 0) \in ObligationRec
  BY WadAssumption DEF EmptyObligation, ObligationRec, NoCollateral, NoLiquidity, CollateralRec, LiquidityRec, U64, Rate
<1>3. 0 \in U64 /\ LiquidityTokens \in U64 /\ LiquidityTokens \in Int
  BY WadAssumption, LendingAssumption DEF U64
<1>4. /\ slot \in Nat
      /\ reserve \in [Reserves -> ReserveRec]
      /\ obligation \in [Obligations -> ObligationRec]
  BY <1>1, <1>2
<1>5. /\ liquiditySupply \in Balances /\ feeReceiver \in Balances /\ collateralSupply \in Balances
      /\ userLiquidity \in Balances /\ userCollateral \in Balances
      /\ stake \in [Obligations -> [StakingPools -> U64]]
      /\ surplus \in [Reserves -> Nat]
  BY <1>3 DEF Balances
<1>6. TypeOK
  BY <1>4, <1>5 DEF TypeOK
<1>7. Conserved /\ Untouched /\ LiquidityBacked /\ MintMatches
  BY <1>3 DEF Conserved, Untouched, LiquidityBacked, MintMatches, UninitializedReserve
<1> QED
  BY <1>6, <1>7 DEF BooksInv

(* Liquidity of a user goes to the supply, collateral is minted to users   *)
(* (m) or to the collateral supply (c).                                    *)
LEMMA DepositPosted ==
    ASSUME BooksInv, NEW r \in Reserves, NEW l \in U64, NEW m \in Nat, NEW c \in Nat,
           Saved(r, l, m + c),
           Transfer(userLiquidity, liquiditySupply, r, l),
           Shifted(userCollateral', userCollateral, r, m),
           Shifted(collateralSupply', collateralSupply, r, c),
           UNCHANGED <<feeReceiver, surplus>>
    PROVE  LiquidityBooks' /\ CollateralBooks'
<1>1. LiquidityBooks /\ CollateralBooks
  BY BooksSplit
<1>2. l \in Nat /\ -l \in Int
  BY WadAssumption DEF U64
<1>3. /\ Shifted(liquiditySupply', liquiditySupply, r, l)
      /\ Shifted(userLiquidity', userLiquidity, r, -l)
      /\ Shifted(feeReceiver', feeReceiver, r, 0)
      /\ Shifted(surplus', surplus, r, 0)
  <2>1. /\ liquiditySupply \in [Reserves -> Int] /\ userLiquidity \in [Reserves -> Int]
        /\ feeReceiver \in [Reserves -> Int] /\ surplus \in [Reserves -> Int]
    BY <1>1, BalancesInt DEF LiquidityBooks
  <2> QED
    BY <1>2, <2>1, Shifting DEF Transfer
<1>4. /\ liquiditySupply[r] + l >= 0 /\ feeReceiver[r] + 0 >= 0 /\ userLiquidity[r] + (-l) >= 0
      /\ userCollateral[r] + m >= 0 /\ collateralSupply[r] + c >= 0
  <2>1. /\ liquiditySupply[r] \in Nat /\ feeReceiver[r] \in Nat /\ userLiquidity[r] \in Nat
        /\ userCollateral[r] \in Nat /\ collateralSupply[r] \in Nat /\ userLiquidity[r] >= l
    BY <1>1, BalancesInt DEF LiquidityBooks, CollateralBooks, Transfer
  <2> QED
    BY <1>2, <2>1
<1>5. l + 0 + (-l) = 0 /\ l - 0 = l /\ 0 \in Nat /\ c + m = m + c
  BY <1>2
<1>6. LiquidityBooks'
  BY <1>1, <1>2, <1>3, <1>4, <1>5, LiquidityPosted
<1>7. CollateralBooks'
  BY <1>1, <1>4, <1>5, CollateralPosted
<1> QED
  BY <1>6, <1>7

LEMMA InitReserveStep ==
    ASSUME BooksInv, NEW r \in Reserves, NEW amount \in U64, NEW price \in Rate,
           NEW unit \in MintUnits, NEW c \in Configs,
           ProcessInitReserve(r, amount, price, unit, c)
    PROVE  BooksInv'
<1>1. OthersTyped /\ LiquidityBooks /\ CollateralBooks
  BY BooksSplit
<1> DEFINE new == NewReserve(price, unit, c)
<1>2. new \in ReserveRec
  BY <1>1, WadAssumption DEF NewReserve, ReserveRec, OthersTyped, U64, Rate
<1>3. PICK d \in DepositLiquidity(new, amount) :
         /\ SaveReserve(r, d.reserve)
         /\ userCollateral' = Credit(userCollateral, r, d.collateral_amount)
  BY DEF ProcessInitReserve
<1>4. new.initialized /\ new.available_amount = 0 /\ new.mint_total_supply = 0
  BY DEF NewReserve
<1> HIDE DEF new
<1>5. d.collateral_amount \in U64 /\ Moves(d.reserve, new, amount, d.collateral_amount)
  BY <1>2, <1>3, DepositEffect
<1>6. d.collateral_amount \in Nat /\ d.collateral_amount + 0 = d.collateral_amount
  BY <1>5, WadAssumption DEF U64
<1>7. Saved(r, amount, d.collateral_amount + 0)
  <2>1. reserve[r].available_amount = 0 /\ reserve[r].mint_total_supply = 0
    BY <1>1 DEF ProcessInitReserve, LiquidityBooks, Untouched
  <2> QED
    BY <1>1, <1>3, <1>4, <1>5, <1>6, <2>1 DEF SaveReserve, Pack, Saved, Moves, LiquidityBooks
<1>8. /\ Shifted(userCollateral', userCollateral, r, d.collateral_amount)
      /\ Shifted(collateralSupply', collateralSupply, r, 0)
  BY <1>1, <1>3, <1>6, BalancesInt, Shifting DEF CollateralBooks, ProcessInitReserve
<1>9. LiquidityBooks' /\ CollateralBooks'
  BY <1>6, <1>7, <1>8, DepositPosted DEF ProcessInitReserve
<1>10. OthersTyped'
  BY <1>1 DEF OthersTyped, ProcessInitReserve
<1> QED
  BY <1>9, <1>10, BooksSplit, PTL

LEMMA DepositReserveLiquidityStep ==
    ASSUME BooksInv, NEW r \in Reserves, NEW amount \in U64,
           ProcessDepositReserveLiquidity(r, amount)
    PROVE  BooksInv'
<1>1. OthersTyped /\ LiquidityBooks /\ CollateralBooks
  BY BooksSplit
<1>2. reserve[r] \in ReserveRec /\ reserve[r].initialized
  BY <1>1 DEF LiquidityBooks, ProcessDepositReserveLiquidity, ReserveFresh
<1>3. PICK d \in DepositLiquidity(reserve[r], amount) :
         /\ SaveReserve(r, MarkStale(d.reserve))
         /\ userCollateral' = Credit(userCollateral, r, d.collateral_amount)
  BY DEF ProcessDepositReserveLiquidity
<1>4. d.collateral_amount \in U64 /\ Moves(MarkStale(d.reserve), reserve[r], amount, d.collateral_amount)
  BY <1>2, <1>3, DepositEffect
<1>5. d.collateral_amount \in Nat /\ d.collateral_amount + 0 = d.collateral_amount
  BY <1>4, WadAssumption DEF U64
<1>6. Saved(r, amount, d.collateral_amount + 0)
  BY <1>1, <1>2, <1>3, <1>4, <1>5, SaveMoved DEF LiquidityBooks
<1>7. /\ Shifted(userCollateral', userCollateral, r, d.collateral_amount)
      /\ Shifted(collateralSupply', collateralSupply, r, 0)
  BY <1>1, <1>3, <1>5, BalancesInt, Shifting DEF CollateralBooks, ProcessDepositReserveLiquidity
<1>8. LiquidityBooks' /\ CollateralBooks'
  BY <1>5, <1>6, <1>7, DepositPosted DEF ProcessDepositReserveLiquidity
<1>9. OthersTyped'
  BY <1>1 DEF OthersTyped, ProcessDepositReserveLiquidity
<1> QED
  BY <1>8, <1>9, BooksSplit, PTL

(* a reserve that passes the staleness check was updated in this slot *)
LEMMA FreshSlot ==
    ASSUME NEW rec, NEW now, rec.slot \in Nat, now \in Nat, Fresh(rec, now)
    PROVE  rec.slot = now /\ ~rec.stale
  BY ReserveAssumption DEF Fresh, SlotsElapsed

LEMMA DepositBothStep ==
    ASSUME BooksInv, NEW o \in Obligations, NEW r \in Reserves, NEW amount \in U64,
           ProcessDepositReserveLiquidityAndObligationCollateral(o, r, amount)
    PROVE  BooksInv'
<1> USE DEF ProcessDepositReserveLiquidityAndObligationCollateral
<1>1. OthersTyped /\ LiquidityBooks /\ CollateralBooks
  BY BooksSplit
<1>2. reserve[r] \in ReserveRec /\ reserve[r].initialized /\ reserve[r].slot = slot
  <2>1. reserve[r] \in ReserveRec /\ reserve[r].initialized /\ Fresh(reserve[r], slot)
    BY <1>1 DEF LiquidityBooks, ReserveFresh
  <2>2. reserve[r].slot \in Nat /\ slot \in Nat
    BY <1>1, <2>1 DEF ReserveRec, OthersTyped
  <2> QED
    BY <2>1, <2>2, FreshSlot
<1> DEFINE After(d) == UpdateSlot(MarkStale(d.reserve), slot)
<1>3. PICK d \in DepositLiquidity(reserve[r], amount) :
         /\ SaveReserve(r, After(d))
         /\ DepositObligationCollateral(o, r, After(d), d.collateral_amount)
         /\ collateralSupply' = Credit(collateralSupply, r, d.collateral_amount)
  OBVIOUS
<1>4. d.collateral_amount \in U64 /\ Moves(After(d), reserve[r], amount, d.collateral_amount)
  BY <1>2, <1>3, DepositEffect
<1> HIDE DEF After
<1>5. d.collateral_amount \in Nat /\ 0 + d.collateral_amount = d.collateral_amount
  BY <1>4, WadAssumption DEF U64
<1>6. Saved(r, amount, 0 + d.collateral_amount)
  BY <1>1, <1>2, <1>3, <1>4, <1>5, SaveMoved DEF LiquidityBooks
<1>7. /\ Shifted(userCollateral', userCollateral, r, 0)
      /\ Shifted(collateralSupply', collateralSupply, r, d.collateral_amount)
  BY <1>1, <1>3, <1>5, BalancesInt, Shifting DEF CollateralBooks
<1>8. LiquidityBooks' /\ CollateralBooks'
  BY <1>5, <1>6, <1>7, DepositPosted
<1>9. After(d) \in ReserveRec
  BY <1>3 DEF SaveReserve, Pack
<1>10. obligation' \in [Obligations -> ObligationRec]
  BY <1>1, <1>3, SaveObligationTyped DEF DepositObligationCollateral, OthersTyped
<1>11. stake' \in [Obligations -> [StakingPools -> U64]]
  BY <1>1, <1>3, <1>9, PoolTyped, StakeTyped DEF DepositObligationCollateral, OthersTyped
<1>12. OthersTyped'
  BY <1>1, <1>10, <1>11 DEF OthersTyped
<1> QED
  BY <1>8, <1>12, BooksSplit, PTL

(* accrue_interest leaves the amounts alone, and within a slot everything. *)
LEMMA AccrueEffect ==
    ASSUME NEW res \in ReserveRec, NEW now \in Nat, NEW new \in AccrueInterest(res, now)
    PROVE  /\ \/ new = res
              \/ \E cumulative, borrowed : new = Compounded(res, cumulative, borrowed)
           /\ now = res.slot => new = res
           /\ res.slot <= now
<1> DEFINE Grown == {Compounded(res, cumulative, borrowed) :
                        cumulative \in Decimal, borrowed \in Decimal}
<1>1. \A factor : CompoundInterest(res, factor) \subseteq Grown
  <2>1. \A a, b : TryMul(a, b) \subseteq Decimal
    BY DEF TryMul
  <2> QED
    BY <2>1 DEF CompoundInterest
<1>2. PICK elapsed \in SlotsElapsed(res, now) : IF elapsed > 0 THEN new \in Grown ELSE new = res
  <2> HIDE DEF Grown
  <2> QED
    BY <1>1 DEF AccrueInterest
<1>3. elapsed \in Nat /\ elapsed = now - res.slot /\ res.slot \in Nat
  BY <1>2 DEF SlotsElapsed, ReserveRec
<1> QED
  BY <1>2, <1>3

LEMMA RefreshReserveBooks ==
    ASSUME BooksInv, NEW r \in Reserves, NEW price \in Rate, ProcessRefreshReserve(r, price)
    PROVE  BooksInv'
<1> USE DEF ProcessRefreshReserve
<1>1. OthersTyped /\ LiquidityBooks /\ CollateralBooks
  BY BooksSplit
<1>2. reserve[r] \in ReserveRec /\ Priced(r, price) \in ReserveRec
  BY <1>1 DEF LiquidityBooks, Priced, ReserveRec
<1>3. /\ Priced(r, price).available_amount = reserve[r].available_amount
      /\ Priced(r, price).mint_total_supply = reserve[r].mint_total_supply
      /\ Priced(r, price).initialized = reserve[r].initialized
  BY <1>2 DEF Priced, ReserveRec
<1>4. PICK accrued \in AccrueInterest(Priced(r, price), slot) : SaveReserve(r, UpdateSlot(accrued, slot))
  OBVIOUS
<1>5. /\ UpdateSlot(accrued, slot).available_amount = reserve[r].available_amount
      /\ UpdateSlot(accrued, slot).mint_total_supply = reserve[r].mint_total_supply
      /\ UpdateSlot(accrued, slot).initialized = reserve[r].initialized
  <2>1. \/ accrued = Priced(r, price)
        \/ \E cumulative, borrowed : accrued = Compounded(Priced(r, price), cumulative, borrowed)
    BY <1>1, <1>2, <1>4, AccrueEffect DEF OthersTyped
  <2> QED
    BY <1>2, <1>3, <2>1 DEF Compounded, UpdateSlot, ReserveRec
<1>6. \A x \in Reserves :
         /\ reserve'[x].available_amount = reserve[x].available_amount
         /\ reserve'[x].mint_total_supply = reserve[x].mint_total_supply
         /\ reserve'[x].initialized = reserve[x].initialized
  BY <1>1, <1>4, <1>5 DEF SaveReserve, Pack, LiquidityBooks
<1>7. reserve' \in [Reserves -> ReserveRec]
  BY <1>1, <1>4 DEF SaveReserve, Pack, LiquidityBooks
<1>8. LiquidityBooks' /\ CollateralBooks'
  BY <1>1, <1>6, <1>7
     DEF LiquidityBooks, CollateralBooks, Conserved, Untouched, LiquidityBacked, MintMatches
<1>9. OthersTyped'
  BY <1>1 DEF OthersTyped
<1> QED
  BY <1>8, <1>9, BooksSplit, PTL

LEMMA RedeemStep ==
    ASSUME BooksInv, NEW r \in Reserves, NEW amount \in U64,
           ProcessRedeemReserveCollateral(r, amount)
    PROVE  BooksInv'
<1> USE DEF ProcessRedeemReserveCollateral
<1>1. OthersTyped /\ LiquidityBooks /\ CollateralBooks
  BY BooksSplit
<1>2. reserve[r] \in ReserveRec /\ reserve[r].initialized
  BY <1>1 DEF LiquidityBooks, ReserveFresh
<1>3. PICK d \in RedeemCollateral(reserve[r], amount) :
         /\ SaveReserve(r, MarkStale(d.reserve))
         /\ Transfer(liquiditySupply, userLiquidity, r, d.liquidity_amount)
  OBVIOUS
<1> DEFINE l == d.liquidity_amount
<1>4. l \in U64 /\ Moves(MarkStale(d.reserve), reserve[r], -l, -amount)
  BY <1>2, <1>3, RedeemEffect
<1>5. l \in Nat /\ -l \in Int /\ amount \in Nat /\ -amount \in Int /\ 0 \in Nat
  BY <1>4, WadAssumption DEF U64
<1>6. Saved(r, -l, -amount)
  BY <1>1, <1>2, <1>3, <1>4, SaveMoved DEF LiquidityBooks
<1>7. /\ Transfer(liquiditySupply, userLiquidity, r, l)
      /\ userCollateral[r] >= amount /\ userCollateral' = Debit(userCollateral, r, amount)
      /\ UNCHANGED <<slot, obligation, feeReceiver, collateralSupply, stake, surplus>>
  BY <1>3
<1> HIDE DEF l
<1>8. /\ liquiditySupply \in [Reserves -> Int] /\ userLiquidity \in [Reserves -> Int]
      /\ feeReceiver \in [Reserves -> Int] /\ surplus \in [Reserves -> Int]
      /\ userCollateral \in [Reserves -> Int] /\ collateralSupply \in [Reserves -> Int]
  BY <1>1, BalancesInt DEF LiquidityBooks, CollateralBooks
<1>9. /\ Shifted(liquiditySupply', liquiditySupply, r, -l)
      /\ Shifted(userLiquidity', userLiquidity, r, l)
      /\ Shifted(feeReceiver', feeReceiver, r, 0)
      /\ Shifted(surplus', surplus, r, 0)
      /\ Shifted(userCollateral', userCollateral, r, -amount)
      /\ Shifted(collateralSupply', collateralSupply, r, 0)
  BY <1>5, <1>7, <1>8, Shifting DEF Transfer
<1>10. /\ liquiditySupply[r] + (-l) >= 0 /\ feeReceiver[r] + 0 >= 0 /\ userLiquidity[r] + l >= 0
       /\ userCollateral[r] + (-amount) >= 0 /\ collateralSupply[r] + 0 >= 0
  <2>1. /\ liquiditySupply[r] \in Nat /\ feeReceiver[r] \in Nat /\ userLiquidity[r] \in Nat
        /\ userCollateral[r] \in Nat /\ collateralSupply[r] \in Nat
        /\ liquiditySupply[r] >= l /\ userCollateral[r] >= amount
    BY <1>1, <1>7, BalancesInt DEF LiquidityBooks, CollateralBooks, Transfer
  <2> QED
    BY <1>5, <2>1
<1>11. (-l) + 0 + l = 0 /\ (-l) - 0 = -l /\ 0 + (-amount) = -amount
  BY <1>5
<1>12. LiquidityBooks'
  BY <1>1, <1>5, <1>6, <1>9, <1>10, <1>11, LiquidityPosted
<1>13. CollateralBooks'
  BY <1>1, <1>5, <1>6, <1>9, <1>10, <1>11, CollateralPosted
<1>14. OthersTyped'
  BY <1>1, <1>7 DEF OthersTyped
<1> QED
  BY <1>12, <1>13, <1>14, BooksSplit, PTL

(* Obligations and the clock do not enter the books. *)
LEMMA UnpostedStep ==
    ASSUME BooksInv,
           \/ Tick
           \/ \E o \in Obligations : ProcessInitObligation(o) \/ ProcessRefreshObligation(o)
           \/ UNCHANGED vars
    PROVE  BooksInv'
<1>1. OthersTyped /\ LiquidityBooks /\ CollateralBooks
  BY BooksSplit
<1>2. CASE Tick
  <2>1. OthersTyped'
    BY <1>1, <1>2 DEF OthersTyped, Tick
  <2>2. LiquidityBooks' /\ CollateralBooks'
    BY <1>1, <1>2, NothingPosted DEF Tick
  <2> QED
    BY <2>1, <2>2, BooksSplit, PTL
<1>3. ASSUME NEW o \in Obligations, ProcessInitObligation(o) PROVE BooksInv'
  <2>1. OthersTyped'
    BY <1>1, <1>3, SaveObligationTyped DEF OthersTyped, ProcessInitObligation
  <2>2. LiquidityBooks' /\ CollateralBooks'
    BY <1>1, <1>3, NothingPosted DEF ProcessInitObligation
  <2> QED
    BY <2>1, <2>2, BooksSplit, PTL
<1>4. ASSUME NEW o \in Obligations, ProcessRefreshObligation(o) PROVE BooksInv'
  <2>1. PICK ob \in RefreshObligation(obligation[o], reserve, slot) :
           obligation' = [obligation EXCEPT ![o] = ob]
    BY <1>4 DEF ProcessRefreshObligation
  <2>2. ob \in ObligationRec
    BY <2>1 DEF RefreshObligation, PackObligation
  <2>3. OthersTyped'
    BY <1>1, <1>4, <2>1, <2>2 DEF OthersTyped, ProcessRefreshObligation
  <2>4. LiquidityBooks' /\ CollateralBooks'
    BY <1>1, <1>4, NothingPosted DEF ProcessRefreshObligation
  <2> QED
    BY <2>3, <2>4, BooksSplit, PTL
<1>5. CASE UNCHANGED vars
  <2>1. OthersTyped'
    BY <1>1, <1>5 DEF OthersTyped, vars
  <2>2. LiquidityBooks' /\ CollateralBooks'
    BY <1>1, <1>5, NothingPosted DEF vars
  <2> QED
    BY <2>1, <2>2, BooksSplit, PTL
<1> QED
  BY <1>2, <1>3, <1>4, <1>5

(* Collateral of w moves between users and the collateral supply, by c.    *)
LEMMA CollateralTransfer ==
    ASSUME BooksInv, NEW r \in Reserves, NEW w \in Reserves, NEW l, NEW c \in Nat, Saved(r, l, 0),
           \/ Transfer(userCollateral, collateralSupply, w, c)
           \/ Transfer(collateralSupply, userCollateral, w, c)
    PROVE  CollateralBooks'
<1>1. CollateralBooks
  BY BooksSplit
<1>2. userCollateral \in [Reserves -> Int] /\ collateralSupply \in [Reserves -> Int]
  BY <1>1, BalancesInt DEF CollateralBooks
<1>3. userCollateral[w] \in Nat /\ collateralSupply[w] \in Nat
  BY <1>1, BalancesInt DEF CollateralBooks
<1>4. c \in Int /\ -c \in Int /\ c + (-c) = 0 /\ (-c) + c = 0
  OBVIOUS
<1>5. CASE Transfer(userCollateral, collateralSupply, w, c)
  <2>1. /\ Shifted(userCollateral', userCollateral, w, -c)
        /\ Shifted(collateralSupply', collateralSupply, w, c)
    BY <1>2, <1>4, <1>5, Shifting DEF Transfer
  <2>2. userCollateral[w] + (-c) >= 0 /\ collateralSupply[w] + c >= 0
    BY <1>3, <1>5 DEF Transfer
  <2> QED
    BY <1>1, <1>4, <2>1, <2>2, CollateralPosted
<1>6. CASE Transfer(collateralSupply, userCollateral, w, c)
  <2>1. /\ Shifted(userCollateral', userCollateral, w, c)
        /\ Shifted(collateralSupply', collateralSupply, w, -c)
    BY <1>2, <1>4, <1>6, Shifting DEF Transfer
  <2>2. userCollateral[w] + c >= 0 /\ collateralSupply[w] + (-c) >= 0
    BY <1>3, <1>6 DEF Transfer
  <2> QED
    BY <1>1, <1>4, <2>1, <2>2, CollateralPosted
<1> QED
  BY <1>5, <1>6

LEMMA DepositCollateralStep ==
    ASSUME BooksInv, NEW o \in Obligations, NEW r \in Reserves, NEW amount \in U64,
           ProcessDepositObligationCollateral(o, r, amount)
    PROVE  BooksInv'
<1> USE DEF ProcessDepositObligationCollateral
<1>1. OthersTyped /\ LiquidityBooks /\ CollateralBooks
  BY BooksSplit
<1>2. Saved(r, 0, 0)
  BY <1>1, SavedSame DEF LiquidityBooks
<1>3. amount \in Nat
  BY WadAssumption DEF U64
<1>4. CollateralBooks'
  BY <1>2, <1>3, CollateralTransfer
<1>5. LiquidityBooks'
  BY <1>1 DEF LiquidityBooks, Conserved, Untouched, LiquidityBacked
<1>6. obligation' \in [Obligations -> ObligationRec]
  BY <1>1, SaveObligationTyped DEF DepositObligationCollateral, OthersTyped
<1>7. stake' \in [Obligations -> [StakingPools -> U64]]
  <2>1. reserve[r] \in ReserveRec
    BY <1>1 DEF LiquidityBooks
  <2> QED
    BY <1>1, <2>1, PoolTyped, StakeTyped DEF DepositObligationCollateral, OthersTyped
<1>8. OthersTyped'
  BY <1>1, <1>6, <1>7 DEF OthersTyped
<1> QED
  BY <1>4, <1>5, <1>8, BooksSplit, PTL

LEMMA DepositedTyped ==
    ASSUME OthersTyped, NEW o \in Obligations, NEW r \in Reserves
    PROVE  obligation[o].deposits[r].deposited_amount \in U64
  BY DEF OthersTyped, ObligationRec, CollateralRec

LEMMA WithdrawCollateralStep ==
    ASSUME BooksInv, NEW o \in Obligations, NEW r \in Reserves, NEW amount \in U64,
           ProcessWithdrawObligationCollateral(o, r, amount)
    PROVE  BooksInv'
<1> USE DEF ProcessWithdrawObligationCollateral
<1>1. OthersTyped /\ LiquidityBooks /\ CollateralBooks
  BY BooksSplit
<1>2. Saved(r, 0, 0)
  BY <1>1, SavedSame DEF LiquidityBooks
<1>3. PICK w \in WithdrawAmount(obligation[o], r, reserve[r].config.loan_to_value_ratio, amount) :
         /\ \E ob \in WithdrawCollateral(obligation[o], r, w) : SaveObligation(o, MarkStale(ob))
         /\ Transfer(collateralSupply, userCollateral, r, w)
         /\ StakeWithdraw(o, reserve[r].config.deposit_staking_pool, w)
  OBVIOUS
<1>4. w \in Nat
  BY <1>1, <1>3, DepositedTyped, WithdrawAmounts
<1>5. CollateralBooks'
  BY <1>2, <1>3, <1>4, CollateralTransfer
<1>6. LiquidityBooks'
  BY <1>1 DEF LiquidityBooks, Conserved, Untouched, LiquidityBacked
<1>7. obligation' \in [Obligations -> ObligationRec]
  BY <1>1, <1>3, SaveObligationTyped DEF OthersTyped
<1>8. stake' \in [Obligations -> [StakingPools -> U64]]
  <2>1. reserve[r] \in ReserveRec
    BY <1>1 DEF LiquidityBooks
  <2> QED
    BY <1>1, <1>3, <2>1, PoolTyped, StakeTyped DEF OthersTyped
<1>9. OthersTyped'
  BY <1>1, <1>7, <1>8 DEF OthersTyped
<1> QED
  BY <1>5, <1>6, <1>9, BooksSplit, PTL

LEMMA BorrowStep ==
    ASSUME BooksInv, NEW o \in Obligations, NEW r \in Reserves, NEW amount \in U64,
           ProcessBorrowObligationLiquidity(o, r, amount)
    PROVE  BooksInv'
<1> USE DEF ProcessBorrowObligationLiquidity
<1>1. OthersTyped /\ LiquidityBooks /\ CollateralBooks
  BY BooksSplit
<1>2. reserve[r] \in ReserveRec /\ reserve[r].initialized
  BY <1>1 DEF LiquidityBooks, ReserveFresh
<1>3. PICK v : \E b \in CalculateBorrow(reserve[r], amount, v) :
         /\ \E lent \in BorrowLiquidity(reserve[r], b.borrow_wads) : SaveReserve(r, MarkStale(lent))
         /\ \E owing : SaveObligation(o, owing)
         /\ liquiditySupply[r] >= b.fee + b.receive
         /\ liquiditySupply' = Debit(liquiditySupply, r, b.fee + b.receive)
         /\ feeReceiver' = Credit(feeReceiver, r, b.fee)
         /\ userLiquidity' = Credit(userLiquidity, r, b.receive)
  OBVIOUS
<1>4. PICK b \in CalculateBorrow(reserve[r], amount, v) :
         /\ \E lent \in BorrowLiquidity(reserve[r], b.borrow_wads) : SaveReserve(r, MarkStale(lent))
         /\ \E owing : SaveObligation(o, owing)
         /\ liquiditySupply[r] >= b.fee + b.receive
         /\ liquiditySupply' = Debit(liquiditySupply, r, b.fee + b.receive)
         /\ feeReceiver' = Credit(feeReceiver, r, b.fee)
         /\ userLiquidity' = Credit(userLiquidity, r, b.receive)
  BY <1>3
<1>5. PICK lent \in BorrowLiquidity(reserve[r], b.borrow_wads) : SaveReserve(r, MarkStale(lent))
  BY <1>4
<1>6. /\ b.receive \in Nat /\ b.fee \in Nat
      /\ \A x \in TryFloorU64(b.borrow_wads) : x = b.fee + b.receive
  BY <1>2, <1>4, BorrowAmounts
<1> DEFINE out == b.fee + b.receive
<1>7. out \in TryFloorU64(b.borrow_wads)
  BY <1>5, <1>6 DEF BorrowLiquidity
<1>8. Saved(r, -out, 0)
  <2>1. Moves(MarkStale(lent), reserve[r], -out, 0)
    BY <1>2, <1>5, <1>7, BorrowEffect
  <2> QED
    BY <1>1, <1>2, <1>5, <2>1, SaveMoved DEF LiquidityBooks
<1>9. out \in Nat /\ -out \in Int /\ (-out) - 0 = -out /\ (-out) + b.fee + b.receive = 0
  BY <1>6
<1>10. /\ liquiditySupply[r] \in Nat /\ feeReceiver[r] \in Nat /\ userLiquidity[r] \in Nat
       /\ liquiditySupply \in [Reserves -> Int] /\ userLiquidity \in [Reserves -> Int]
       /\ feeReceiver \in [Reserves -> Int] /\ surplus \in [Reserves -> Int]
  BY <1>1, BalancesInt DEF LiquidityBooks
<1>11. /\ Shifted(liquiditySupply', liquiditySupply, r, -out)
       /\ Shifted(feeReceiver', feeReceiver, r, b.fee)
       /\ Shifted(userLiquidity', userLiquidity, r, b.receive)
       /\ Shifted(surplus', surplus, r, 0)
  BY <1>4, <1>6, <1>9, <1>10, Shifting
<1>12. /\ liquiditySupply[r] + (-out) >= 0
       /\ feeReceiver[r] + b.fee >= 0 /\ userLiquidity[r] + b.receive >= 0
  BY <1>4, <1>6, <1>10
<1> HIDE DEF out
<1>13. LiquidityBooks'
  BY <1>1, <1>6, <1>8, <1>9, <1>11, <1>12, LiquidityPosted
<1>14. CollateralBooks'
  BY <1>1, <1>8 DEF CollateralBooks, Saved, MintMatches, ReserveRec, U64
<1>15. OthersTyped'
  BY <1>1, <1>4, SaveObligationTyped DEF OthersTyped
<1> QED
  BY <1>13, <1>14, <1>15, BooksSplit, PTL

(* A user pays n tokens into the supply of r. *)
LEMMA RepayMoved ==
    ASSUME BooksInv, NEW r \in Reserves, NEW n \in U64, NEW wads, reserve[r].initialized,
           \E res \in RepayLiquidity(reserve[r], n, wads) : SaveReserve(r, MarkStale(res)),
           Transfer(userLiquidity, liquiditySupply, r, n),
           UNCHANGED <<feeReceiver, surplus>>
    PROVE  Saved(r, n, 0) /\ LiquidityBooks'
<1>1. LiquidityBooks
  BY BooksSplit
<1>2. PICK res \in RepayLiquidity(reserve[r], n, wads) : SaveReserve(r, MarkStale(res))
  OBVIOUS
<1>3. Saved(r, n, 0)
  <2>1. reserve[r] \in ReserveRec
    BY <1>1 DEF LiquidityBooks
  <2>2. Moves(MarkStale(res), reserve[r], n, 0)
    BY <1>2, <2>1, RepayEffect
  <2> QED
    BY <1>1, <1>2, <2>2, SaveMoved DEF LiquidityBooks
<1>4. n \in Nat /\ -n \in Int /\ n - 0 = n /\ n + 0 + (-n) = 0
  BY WadAssumption DEF U64
<1>5. /\ liquiditySupply[r] \in Nat /\ feeReceiver[r] \in Nat /\ userLiquidity[r] \in Nat
      /\ liquiditySupply \in [Reserves -> Int] /\ userLiquidity \in [Reserves -> Int]
      /\ feeReceiver \in [Reserves -> Int] /\ surplus \in [Reserves -> Int]
  BY <1>1, BalancesInt DEF LiquidityBooks
<1>6. /\ Shifted(liquiditySupply', liquiditySupply, r, n)
      /\ Shifted(feeReceiver', feeReceiver, r, 0)
      /\ Shifted(userLiquidity', userLiquidity, r, -n)
      /\ Shifted(surplus', surplus, r, 0)
  BY <1>4, <1>5, Shifting DEF Transfer
<1>7. liquiditySupply[r] + n >= 0 /\ feeReceiver[r] + 0 >= 0 /\ userLiquidity[r] + (-n) >= 0
  BY <1>4, <1>5 DEF Transfer
<1>8. LiquidityBooks'
  <2>1. Saved(r, n - 0, 0) /\ n \in Int /\ 0 \in Int /\ 0 \in Nat
    BY <1>3, <1>4
  <2> QED
    BY <1>1, <1>4, <1>6, <1>7, <2>1, LiquidityPosted
<1> QED
  BY <1>3, <1>8

LEMMA RepayStep ==
    ASSUME BooksInv, NEW o \in Obligations, NEW r \in Reserves, NEW amount \in U64,
           ProcessRepayObligationLiquidity(o, r, amount)
    PROVE  BooksInv'
<1> USE DEF ProcessRepayObligationLiquidity
<1>1. OthersTyped /\ LiquidityBooks /\ CollateralBooks
  BY BooksSplit
<1>2. PICK p \in CalculateRepay(amount, obligation[o].borrows[r].borrowed_amount_wads) :
         /\ \E res \in RepayLiquidity(reserve[r], p.repay, p.settle) : SaveReserve(r, MarkStale(res))
         /\ \E ob \in RepayDebt(obligation[o], r, p.settle) : SaveObligation(o, MarkStale(ob))
         /\ Transfer(userLiquidity, liquiditySupply, r, p.repay)
  OBVIOUS
<1>3. p.repay \in U64
  BY <1>2, RepayAmounts
<1>4. Saved(r, p.repay, 0) /\ LiquidityBooks'
  BY <1>2, <1>3, RepayMoved DEF ReserveFresh
<1>5. CollateralBooks'
  BY <1>1, <1>4 DEF CollateralBooks, Saved, MintMatches, ReserveRec, U64
<1>6. OthersTyped'
  BY <1>1, <1>2, SaveObligationTyped DEF OthersTyped
<1> QED
  BY <1>4, <1>5, <1>6, BooksSplit, PTL

LEMMA LiquidateStep ==
    ASSUME BooksInv, NEW o \in Obligations, NEW r \in Reserves, NEW w \in Reserves,
           NEW amount \in U64, ProcessLiquidateObligation(o, r, w, amount)
    PROVE  BooksInv'
<1> USE DEF ProcessLiquidateObligation
<1>1. OthersTyped /\ LiquidityBooks /\ CollateralBooks
  BY BooksSplit
<1> DEFINE ob == obligation[o]
<1>2. PICK q \in CalculateLiquidation(reserve[w].config, amount, ob, ob.borrows[r], ob.deposits[w]) :
         /\ \E res \in RepayLiquidity(reserve[r], q.repay, q.settle) : SaveReserve(r, MarkStale(res))
         /\ \E seized : SaveObligation(o, seized)
         /\ Transfer(userLiquidity, liquiditySupply, r, q.repay)
         /\ Transfer(collateralSupply, userCollateral, w, q.withdraw)
         /\ StakeWithdraw(o, reserve[w].config.deposit_staking_pool, q.withdraw)
  OBVIOUS
<1>3. q.repay \in U64 /\ q.withdraw \in U64
  BY <1>1, <1>2, DepositedTyped, LiquidationAmounts
<1>4. Saved(r, q.repay, 0) /\ LiquidityBooks'
  BY <1>2, <1>3, RepayMoved DEF ReserveFresh
<1>5. CollateralBooks'
  <2>1. q.withdraw \in Nat
    BY <1>3, WadAssumption DEF U64
  <2> QED
    BY <1>2, <1>4, <2>1, CollateralTransfer
<1>6. obligation' \in [Obligations -> ObligationRec]
  BY <1>1, <1>2, SaveObligationTyped DEF OthersTyped
<1>7. stake' \in [Obligations -> [StakingPools -> U64]]
  <2>1. reserve[w] \in ReserveRec
    BY <1>1 DEF LiquidityBooks
  <2> QED
    BY <1>1, <1>2, <2>1, PoolTyped, StakeTyped DEF OthersTyped
<1>8. OthersTyped'
  BY <1>1, <1>6, <1>7 DEF OthersTyped
<1> QED
  BY <1>4, <1>5, <1>8, BooksSplit, PTL

LEMMA FlashLoanStep ==
    ASSUME BooksInv, NEW r \in Reserves, NEW amount \in U64, NEW overpaid \in Nat,
           ProcessFlashLoan(r, amount, overpaid)
    PROVE  BooksInv'
<1> USE DEF ProcessFlashLoan
<1>1. OthersTyped /\ LiquidityBooks /\ CollateralBooks
  BY BooksSplit
<1>2. reserve[r] \in ReserveRec /\ reserve[r].initialized
  BY <1>1 DEF LiquidityBooks
<1> DEFINE loan == FlashLoanAmount(reserve[r], amount)
<1>3. loan \in U64 /\ loan \in Nat
  BY <1>2, WadAssumption DEF FlashLoanAmount, ReserveRec, U64
<1>4. PICK fees \in CalculateFees(reserve[r].config, FromU64(loan), reserve[r].config.flash_loan_fee_wad, FALSE) :
         /\ fees.host_fee <= fees.fee
         /\ \E lent \in BorrowLiquidity(reserve[r], FromU64(loan)) :
              \E packed \in Pack(lent) :
                \E returned \in RepayLiquidity(packed, loan, FromU64(loan)) : SaveReserve(r, returned)
         /\ userLiquidity[r] >= fees.fee + overpaid
         /\ liquiditySupply' = Credit(liquiditySupply, r, overpaid)
         /\ userLiquidity' = [userLiquidity EXCEPT ![r] = @ - (fees.fee - fees.host_fee) - overpaid]
         /\ feeReceiver' = Credit(feeReceiver, r, fees.fee - fees.host_fee)
  OBVIOUS
<1>5. PICK lent \in BorrowLiquidity(reserve[r], FromU64(loan)) :
         \E packed \in Pack(lent) :
            \E returned \in RepayLiquidity(packed, loan, FromU64(loan)) : SaveReserve(r, returned)
  BY <1>4
<1>6. PICK returned \in RepayLiquidity(lent, loan, FromU64(loan)) : SaveReserve(r, returned) /\ lent \in ReserveRec
  BY <1>5 DEF Pack
<1> DEFINE f == fees.fee - fees.host_fee
           u == -(f + overpaid)
<1>7. fees.fee \in Nat /\ fees.host_fee \in Nat
  BY <1>4, FeesTyped
<1>8. f \in Nat /\ u \in Int /\ overpaid - overpaid = 0 /\ overpaid + f + u = 0
  BY <1>4, <1>7
<1>9. userLiquidity \in [Reserves -> Int] /\ userLiquidity[r] \in Nat
  BY <1>1, BalancesInt DEF LiquidityBooks
<1>10. userLiquidity' = Credit(userLiquidity, r, u) /\ userLiquidity[r] + u >= 0
  <2>1. userLiquidity[r] - (fees.fee - fees.host_fee) - overpaid = userLiquidity[r] + u
    BY <1>7, <1>9
  <2>2. userLiquidity' = Credit(userLiquidity, r, u)
    BY <1>4, <1>9, <2>1 DEF Credit
  <2>3. userLiquidity[r] + u >= 0
    BY <1>4, <1>7, <1>9
  <2> QED
    BY <2>2, <2>3
<1>11. Saved(r, 0, 0)
  <2> HIDE DEF loan
  <2>1. loan \in TryFloorU64(FromU64(loan))
    BY <1>3, WholeTokens DEF TryFloorU64
  <2>2. Moves(lent, reserve[r], -loan, 0)
    BY <1>2, <1>5, <2>1, BorrowEffect
  <2>3. Moves(returned, lent, loan, 0)
    BY <1>3, <1>6, RepayEffect
  <2>4. Moves(returned, reserve[r], 0, 0)
    <3>1. reserve[r].available_amount \in Int /\ reserve[r].mint_total_supply \in Int
      BY <1>2, WadAssumption DEF ReserveRec, U64
    <3> QED
      BY <1>3, <2>2, <2>3, <3>1 DEF Moves
  <2> QED
    BY <1>1, <1>2, <1>6, <2>4, SaveMoved DEF LiquidityBooks
<1>12. /\ liquiditySupply' = Credit(liquiditySupply, r, overpaid)
       /\ feeReceiver' = Credit(feeReceiver, r, f)
       /\ surplus' = Credit(surplus, r, overpaid)
       /\ UNCHANGED <<slot, obligation, collateralSupply, userCollateral, stake>>
  BY <1>4
<1> HIDE DEF loan, f, u
<1>13. /\ liquiditySupply[r] \in Nat /\ feeReceiver[r] \in Nat
       /\ liquiditySupply \in [Reserves -> Int]
       /\ feeReceiver \in [Reserves -> Int] /\ surplus \in [Reserves -> Int]
  BY <1>1, BalancesInt DEF LiquidityBooks
<1>14. /\ Shifted(liquiditySupply', liquiditySupply, r, overpaid)
       /\ Shifted(feeReceiver', feeReceiver, r, f)
       /\ Shifted(userLiquidity', userLiquidity, r, u)
       /\ Shifted(surplus', surplus, r, overpaid)
  <2>1. f \in Int /\ u \in Int /\ overpaid \in Int
    BY <1>8
  <2>2. Shifted(liquiditySupply', liquiditySupply, r, overpaid)
    BY <1>12, <1>13, <2>1, Shifting
  <2>3. Shifted(feeReceiver', feeReceiver, r, f)
    BY <1>12, <1>13, <2>1, Shifting
  <2>4. Shifted(userLiquidity', userLiquidity, r, u)
    BY <1>9, <1>10, <2>1, Shifting
  <2>5. Shifted(surplus', surplus, r, overpaid)
    BY <1>12, <1>13, <2>1, Shifting
  <2> QED
    BY <2>2, <2>3, <2>4, <2>5
<1>15. liquiditySupply[r] + overpaid >= 0 /\ feeReceiver[r] + f >= 0
  BY <1>8, <1>13
<1>16. LiquidityBooks'
  <2>1. Saved(r, overpaid - overpaid, 0) /\ f \in Int /\ u \in Int /\ overpaid \in Int
    BY <1>8, <1>11
  <2> QED
    BY <1>1, <1>8, <1>10, <1>14, <1>15, <2>1, LiquidityPosted
<1>17. CollateralBooks'
  BY <1>1, <1>11, <1>12 DEF CollateralBooks, Saved, MintMatches, ReserveRec, U64
<1>18. OthersTyped'
  BY <1>1, <1>12 DEF OthersTyped
<1> QED
  BY <1>16, <1>17, <1>18, BooksSplit, PTL

LEMMA UpdateReserveStep ==
    ASSUME BooksInv, NEW r \in Reserves, NEW c \in Configs, ProcessUpdateReserve(r, c)
    PROVE  BooksInv'
<1> USE DEF ProcessUpdateReserve
<1>1. OthersTyped /\ LiquidityBooks /\ CollateralBooks
  BY BooksSplit
<1>2. /\ reserve' \in [Reserves -> ReserveRec]
      /\ \A x \in Reserves :
           /\ reserve'[x].available_amount = reserve[x].available_amount
           /\ reserve'[x].mint_total_supply = reserve[x].mint_total_supply
           /\ reserve'[x].initialized = reserve[x].initialized
  BY <1>1 DEF LiquidityBooks, SaveReserve, Pack, ReserveRec
<1>3. LiquidityBooks' /\ CollateralBooks'
  BY <1>1, <1>2
     DEF LiquidityBooks, CollateralBooks, Conserved, Untouched, LiquidityBacked, MintMatches
<1>4. OthersTyped'
  BY <1>1 DEF OthersTyped
<1> QED
  BY <1>3, <1>4, BooksSplit, PTL

LEMMA WithdrawFeeStep ==
    ASSUME BooksInv, NEW r \in Reserves, ProcessWithdrawFee(r)
    PROVE  BooksInv'
<1> USE DEF ProcessWithdrawFee
<1>1. OthersTyped /\ LiquidityBooks /\ CollateralBooks
  BY BooksSplit
<1>2. Saved(r, 0, 0)
  BY <1>1, SavedSame DEF LiquidityBooks
<1> DEFINE f == feeReceiver[r]
<1>3. /\ liquiditySupply[r] \in Nat /\ f \in Nat /\ userLiquidity[r] \in Nat
      /\ liquiditySupply \in [Reserves -> Int] /\ userLiquidity \in [Reserves -> Int]
      /\ feeReceiver \in [Reserves -> Int] /\ surplus \in [Reserves -> Int]
  BY <1>1, BalancesInt DEF LiquidityBooks
<1>4. /\ Shifted(liquiditySupply', liquiditySupply, r, 0)
      /\ Shifted(feeReceiver', feeReceiver, r, -f)
      /\ Shifted(userLiquidity', userLiquidity, r, f)
      /\ Shifted(surplus', surplus, r, 0)
  BY <1>3, Shifting DEF Transfer
<1>5. /\ liquiditySupply[r] + 0 >= 0 /\ feeReceiver[r] + (-f) >= 0 /\ userLiquidity[r] + f >= 0
      /\ 0 + (-f) + f = 0 /\ 0 - 0 = 0 /\ -f \in Int
  BY <1>3
<1> HIDE DEF f
<1>6. LiquidityBooks'
  BY <1>1, <1>2, <1>3, <1>4, <1>5, LiquidityPosted
<1>7. CollateralBooks'
  BY <1>1 DEF CollateralBooks, MintMatches
<1>8. OthersTyped'
  BY <1>1 DEF OthersTyped
<1> QED
  BY <1>6, <1>7, <1>8, BooksSplit, PTL

(* The steps of Lending, with any price that a reserve can store: module   *)
(* Market gives reserves other prices than PricesFor does.                 *)
AnyPriceStep(r, price) ==
    \/ ProcessRefreshReserve(r, price)
    \/ \E amount \in Amounts, unit \in MintUnits, c \in ConfigsFor[r] :
          ProcessInitReserve(r, amount, price, unit, c)

OpenNext == Next \/ \E r \in Reserves, price \in Rate : AnyPriceStep(r, price)

LEMMA NextIsOpen == [Next]_vars => [OpenNext]_vars
  BY DEF OpenNext

LEMMA BooksNext == BooksInv /\ [OpenNext]_vars => BooksInv'
<1> SUFFICES ASSUME BooksInv, [OpenNext]_vars PROVE BooksInv'
  OBVIOUS
<1>1. /\ Amounts \subseteq U64 /\ 0..MaxOverpay \subseteq Nat
      /\ \A r \in Reserves : PricesFor[r] \subseteq Rate /\ ConfigsFor[r] \subseteq Configs
  BY LendingAssumption, WadAssumption DEF U64
<1>2. ASSUME NEW r \in Reserves, ReserveStep(r) PROVE BooksInv'
  BY <1>1, <1>2, InitReserveStep, RefreshReserveBooks, DepositReserveLiquidityStep, RedeemStep,
     FlashLoanStep, UpdateReserveStep, WithdrawFeeStep DEF ReserveStep
<1>3. ASSUME NEW o \in Obligations, ObligationStep(o) PROVE BooksInv'
  BY <1>1, <1>3, UnpostedStep, DepositCollateralStep, DepositBothStep, WithdrawCollateralStep,
     BorrowStep, RepayStep, LiquidateStep DEF ObligationStep
<1>4. CASE Tick \/ UNCHANGED vars
  BY <1>4, UnpostedStep
<1>5. ASSUME NEW r \in Reserves, NEW price \in Rate, AnyPriceStep(r, price) PROVE BooksInv'
  BY <1>1, <1>5, InitReserveStep, RefreshReserveBooks DEF AnyPriceStep
<1> QED
  BY <1>2, <1>3, <1>4, <1>5 DEF OpenNext, Next

(* Every account stays within its type: no balance of a token account ever *)
(* leaves the range of a u64, no decimal outgrows its packed form.         *)
THEOREM TypeCorrect == Spec => []TypeOK
<1>1. BooksInv => TypeOK
  BY DEF BooksInv
<1> QED
  BY <1>1, BooksInit, BooksNext, NextIsOpen, PTL DEF Spec

(* The tokens in a reserve's liquidity supply account are exactly its      *)
(* available amount plus what flash loans overpaid, for any number of      *)
(* reserves, obligations and instructions.                                 *)
THEOREM LiquidityIsBacked == Spec => []LiquidityBacked
<1>1. BooksInv => LiquidityBacked
  BY DEF BooksInv
<1> QED
  BY <1>1, BooksInit, BooksNext, NextIsOpen, PTL DEF Spec

(* mint_total_supply is the number of collateral tokens in existence.      *)
THEOREM MintIsMatched == Spec => []MintMatches
<1>1. BooksInv => MintMatches
  BY DEF BooksInv
<1> QED
  BY <1>1, BooksInit, BooksNext, NextIsOpen, PTL DEF Spec

-----------------------------------------------------------------------------
(***************************************************************************)
(* The vault.  What each method of a reserve does to its three figures,    *)
(* the available amount, the borrowed amount and the collateral tokens, is *)
(* a move of Vault, by the direction in which it rounds.  Nothing has to   *)
(* be known of a state but that the books are in order and that a reserve  *)
(* that is not initialised has lent nothing.                               *)
(***************************************************************************)

(* the liquidity behind the collateral tokens of a reserve, in wads *)
Value(res) == res.available_amount * WAD + res.borrowed_amount_wads

LEMMA ReserveNat ==
    ASSUME NEW res \in ReserveRec
    PROVE  /\ res.available_amount \in Nat /\ res.borrowed_amount_wads \in Nat
           /\ res.mint_total_supply \in Nat /\ Value(res) \in Nat
           /\ WAD \in Nat /\ WAD > 0
<1>1. U64 \subseteq Nat /\ Rate \subseteq Nat /\ WAD \in Nat /\ WAD > 0
  BY WadAssumption DEF U64, Rate
<1>2. /\ res.available_amount \in Nat /\ res.borrowed_amount_wads \in Nat
      /\ res.mint_total_supply \in Nat
  BY <1>1 DEF ReserveRec
<1>3. res.available_amount * WAD \in Nat
  BY <1>1, <1>2
<1> QED BY <1>1, <1>2, <1>3 DEF Value

(* The exchange rate is the number of collateral tokens per token of       *)
(* liquidity, rounded down to a wad, once there are both.                  *)
LEMMA RateRounded ==
    ASSUME NEW res \in ReserveRec, NEW rate \in CollateralExchangeRate(res)
    PROVE  /\ rate \in Nat
           /\ (res.mint_total_supply > 0 /\ Value(res) > 0) =>
                /\ rate * Value(res) <= res.mint_total_supply * WAD * WAD
                /\ res.mint_total_supply * WAD * WAD <= rate * Value(res) + Value(res)
           /\ (res.mint_total_supply > 0 /\ Value(res) = 0) => rate = WAD
<1> DEFINE m == res.mint_total_supply
           B == Value(res)
<1>1. m \in Nat /\ B \in Nat /\ WAD \in Nat /\ WAD > 0
  BY ReserveNat
<1>2. rate \in ExchangeRate(res, B)
  BY DEF CollateralExchangeRate, TotalSupply, TryAdd, FromU64, Value
<1>3. CASE m = 0 \/ B = 0
  <2>1. rate = WAD
    BY <1>2, <1>3 DEF ExchangeRate, INITIAL_COLLATERAL_RATE
  <2> QED BY <1>1, <1>3, <2>1
<1>4. CASE m > 0 /\ B > 0
  <2>1. rate \in UNION {RateTryFrom(d) : d \in TryDiv(FromU64(m), B)}
    BY <1>1, <1>2, <1>4 DEF ExchangeRate
  <2>2. rate = (m * WAD * WAD) \div B
    BY <2>1 DEF RateTryFrom, TryDiv, FromU64
  <2> DEFINE a == m * WAD * WAD
  <2>3. a \in Nat
    BY <1>1
  <2> HIDE DEF a, B
  <2>4. rate = a \div B
    BY <2>2 DEF a
  <2>5. rate \in Nat /\ rate * B <= a /\ a < rate * B + B
    BY <1>1, <1>4, <2>3, <2>4, Quotient
  <2>6. rate * B \in Nat
    BY <1>1, <2>5
  <2> QED BY <1>1, <1>4, <2>3, <2>5, <2>6 DEF a, B
<1> QED BY <1>1, <1>3, <1>4

(* A deposit mints too few collateral tokens to dilute the others.         *)
LEMMA DepositPrice ==
    ASSUME NEW res \in ReserveRec, NEW amount \in Nat,
           NEW rate \in CollateralExchangeRate(res), NEW c \in LiquidityToCollateral(rate, amount)
    PROVE  /\ c \in Nat
           /\ res.mint_total_supply > 0 =>
                c * Value(res) <= amount * WAD * res.mint_total_supply
<1> DEFINE m == res.mint_total_supply
           B == Value(res)
<1>1. m \in Nat /\ B \in Nat /\ WAD \in Nat /\ WAD > 0
  BY ReserveNat
<1>2. rate \in Nat
  BY RateRounded
<1>3. PICK d \in TryMul(FromU64(amount), rate) : c \in TryFloorU64(d)
  BY DEF LiquidityToCollateral, DecimalLiquidityToCollateral
<1>4. d = (amount * WAD * rate) \div WAD
  BY <1>3 DEF TryMul, FromU64
<1>5. d = amount * rate
  <2>1. amount * rate \in Nat
    BY <1>2
  <2>2. amount * WAD * rate = (amount * rate) * WAD
    BY <1>1, <1>2
  <2> DEFINE x == amount * rate
  <2>3. d = FromU64(x) \div WAD
    BY <1>4, <2>2 DEF FromU64
  <2> HIDE DEF x
  <2>4. d = x
    BY <2>1, <2>3, WholeTokens DEF x
  <2> QED BY <2>4 DEF x
<1>6. c = d \div WAD /\ d \in Nat
  BY <1>2, <1>3, <1>5 DEF TryFloorU64
<1>7. c \in Nat /\ c * WAD <= amount * rate
  BY <1>1, <1>5, <1>6, Quotient
<1>8. ASSUME m > 0, B > 0 PROVE c * B <= amount * WAD * m
  <2>1. rate * B <= m * WAD * WAD
    BY <1>8, RateRounded
  <2> HIDE DEF m, B
  <2>2. (c * WAD) * B <= (amount * rate) * B
    <3>1. c * WAD \in Int /\ amount * rate \in Int
      BY <1>1, <1>2, <1>7
    <3> QED BY <1>1, <1>7, <3>1, TimesMonotone
  <2>3. (rate * B) * amount <= (m * WAD * WAD) * amount
    <3>1. rate * B \in Int /\ m * WAD * WAD \in Int
      BY <1>1, <1>2
    <3> QED BY <2>1, <3>1, TimesMonotone
  <2>4. (c * B) * WAD <= (amount * WAD * m) * WAD
    <3>1. (c * WAD) * B = (c * B) * WAD
      BY <1>1, <1>7
    <3>2. (amount * rate) * B = (rate * B) * amount
      BY <1>1, <1>2
    <3>3. (m * WAD * WAD) * amount = (amount * WAD * m) * WAD
      BY <1>1
    <3>4. /\ (c * B) * WAD \in Int /\ (rate * B) * amount \in Int
          /\ (amount * WAD * m) * WAD \in Int
      BY <1>1, <1>2, <1>7
    <3> QED BY <2>2, <2>3, <3>1, <3>2, <3>3, <3>4
  <2>5. c * B \in Int /\ amount * WAD * m \in Int
    BY <1>1, <1>7
  <2> QED BY <1>1, <2>4, <2>5, TimesCancels
<1>9. ASSUME m > 0, B = 0 PROVE c * B <= amount * WAD * m
  <2>1. c * B = 0 /\ amount * WAD * m \in Nat
    BY <1>1, <1>7, <1>9
  <2> QED BY <2>1
<1> QED BY <1>1, <1>7, <1>8, <1>9

(* A redemption pays the share of its collateral tokens at that rate.      *)
LEMMA RedeemPrice ==
    ASSUME NEW res \in ReserveRec, NEW amount \in Nat, amount > 0,
           NEW rate \in CollateralExchangeRate(res), NEW l \in CollateralToLiquidity(rate, amount),
           l <= res.available_amount, amount <= res.mint_total_supply
    PROVE  /\ l \in Nat
           /\ (l * WAD) * (res.mint_total_supply * WAD * WAD - Value(res))
                <= amount * WAD * WAD * Value(res)
<1> DEFINE m == res.mint_total_supply
           B == Value(res)
<1>1. m \in Nat /\ B \in Nat /\ WAD \in Nat /\ WAD > 0 /\ res.available_amount \in Nat
      /\ res.borrowed_amount_wads \in Nat
  BY ReserveNat
<1>2. rate \in Nat /\ m > 0
  BY <1>1, RateRounded
<1>3. PICK d \in TryDiv(FromU64(amount), rate) : l \in TryFloorU64(d)
  BY DEF CollateralToLiquidity, DecimalCollateralToLiquidity
<1>4. d = (amount * WAD * WAD) \div rate /\ rate > 0
  BY <1>3 DEF TryDiv, FromU64
<1> DEFINE a == amount * WAD * WAD
<1>5. a \in Nat
  BY <1>1
<1>6. d \in Nat /\ d * rate <= a
  <2> HIDE DEF a
  <2>1. d = a \div rate
    BY <1>4 DEF a
  <2> QED BY <1>2, <1>4, <1>5, <2>1, Quotient
<1>7. l = d \div WAD
  BY <1>3 DEF TryFloorU64
<1>8. l \in Nat /\ l * WAD <= d
  BY <1>1, <1>6, <1>7, Quotient
<1>9. (l * WAD) * rate <= a
  <2>1. l * WAD \in Int
    BY <1>1, <1>8
  <2>2. (l * WAD) * rate <= d * rate
    BY <1>2, <1>6, <1>8, <2>1, TimesMonotone
  <2>3. (l * WAD) * rate \in Int /\ d * rate \in Int
    BY <1>2, <1>6, <2>1
  <2> HIDE DEF a
  <2> QED BY <1>5, <1>6, <2>2, <2>3
<1>10. CASE B = 0
  <2>1. rate = WAD
    BY <1>2, <1>10, RateRounded
  <2>2. res.available_amount = 0
    <3>1. res.available_amount * WAD = 0
      <4>1. res.available_amount * WAD \in Nat
        BY <1>1
      <4> QED BY <1>1, <1>10, <4>1 DEF Value
    <3>2. res.available_amount * WAD <= 0 * WAD
      BY <1>1, <3>1
    <3>3. res.available_amount <= 0
      BY <1>1, <3>2, TimesCancels
    <3> QED BY <1>1, <3>3
  <2>3. l = 0
    BY <1>1, <1>8, <2>2
  <2> QED BY <1>1, <1>5, <1>8, <1>10, <2>3
<1>11. CASE B > 0
  <2>1. m * WAD * WAD <= rate * B + B
    BY <1>2, <1>11, RateRounded
  <2> DEFINE p == l * WAD
             n == m * WAD * WAD - B
  <2>2. p \in Nat /\ n \in Int /\ rate * B \in Int
    BY <1>1, <1>2, <1>8
  <2>3. n <= rate * B
    <3>1. m * WAD * WAD \in Int
      BY <1>1
    <3> HIDE DEF m, B
    <3> QED BY <1>1, <2>1, <2>2, <3>1
  <2>4. p * rate <= a /\ p * rate \in Int
    BY <1>2, <1>9, <2>2
  <2> HIDE DEF p, n, a, m, B
  <2>5. n * p <= (rate * B) * p
    BY <2>2, <2>3, TimesMonotone
  <2>6. (p * rate) * B <= a * B
    BY <1>1, <1>5, <2>4, TimesMonotone
  <2>7. (rate * B) * p = (p * rate) * B /\ n * p = p * n
    BY <1>1, <1>2, <2>2
  <2>8. p * n <= a * B
    <3>1. p * n \in Int /\ (p * rate) * B \in Int /\ a * B \in Int
      BY <1>1, <1>5, <2>2, <2>4
    <3> QED BY <2>5, <2>6, <2>7, <3>1
  <2> QED BY <1>8, <2>8 DEF p, n, a, m, B
<1> QED BY <1>1, <1>10, <1>11

-----------------------------------------------------------------------------
(***************************************************************************)
(* The moves of Vault, from an old to a new record of a reserve.           *)
(***************************************************************************)
SameFigures(a, b) ==
    /\ a.available_amount = b.available_amount
    /\ a.borrowed_amount_wads = b.borrowed_amount_wads
    /\ a.mint_total_supply = b.mint_total_supply

Entered(new, old) ==
    /\ new.available_amount > old.available_amount
    /\ new.mint_total_supply >= old.mint_total_supply
    /\ new.borrowed_amount_wads = old.borrowed_amount_wads
    /\ old.mint_total_supply > 0 =>
         Value(new) * old.mint_total_supply >= Value(old) * new.mint_total_supply

Redeemed(new, old) ==
    /\ old.mint_total_supply - new.mint_total_supply > 0
    /\ new.available_amount <= old.available_amount
    /\ new.borrowed_amount_wads = old.borrowed_amount_wads
    /\ (Value(old) - Value(new)) * (old.mint_total_supply * WAD * WAD - Value(old))
         <= (old.mint_total_supply - new.mint_total_supply) * WAD * WAD * Value(old)

LentOut(new, old) ==
    /\ new.available_amount < old.available_amount
    /\ new.borrowed_amount_wads - old.borrowed_amount_wads
         >= (old.available_amount - new.available_amount) * WAD
    /\ new.mint_total_supply = old.mint_total_supply

Settled(new, old) ==
    /\ new.available_amount > old.available_amount
    /\ new.borrowed_amount_wads <= old.borrowed_amount_wads
    /\ old.borrowed_amount_wads - new.borrowed_amount_wads
         <= (new.available_amount - old.available_amount) * WAD
    /\ new.mint_total_supply = old.mint_total_supply

WrittenOff(new, old) ==
    /\ new.available_amount > old.available_amount
    /\ new.borrowed_amount_wads <= old.borrowed_amount_wads
    /\ old.borrowed_amount_wads - new.borrowed_amount_wads < FromU64(LIQUIDATION_CLOSE_AMOUNT)
    /\ new.mint_total_supply = old.mint_total_supply

Accrued(new, old) ==
    /\ new.borrowed_amount_wads >= old.borrowed_amount_wads
    /\ new.available_amount = old.available_amount
    /\ new.mint_total_supply = old.mint_total_supply

(* The moves that keep the value of a collateral token. *)
Fair(new, old) ==
    Entered(new, old) \/ Redeemed(new, old) \/ LentOut(new, old) \/ Settled(new, old) \/ Accrued(new, old)

(* Freshness, prices and configurations are no part of a move. *)
LEMMA FiguresOnly ==
    ASSUME NEW new, NEW old, NEW new1, NEW old1, SameFigures(new1, new), SameFigures(old1, old)
    PROVE  /\ Fair(new, old) => Fair(new1, old1)
           /\ WrittenOff(new, old) => WrittenOff(new1, old1)
<1>1. Value(new1) = Value(new) /\ Value(old1) = Value(old)
  BY DEF SameFigures, Value
<1> QED BY <1>1 DEF SameFigures, Fair, Entered, Redeemed, LentOut, Settled, Accrued, WrittenOff

LEMMA Remarked ==
    ASSUME NEW res \in ReserveRec, NEW x, NEW y, NEW new, NEW now,
           new \in {res, Supplied(res, x, y), Lent(res, x, y), Compounded(res, x, y)}
    PROVE  /\ SameFigures(MarkStale(new), new)
           /\ SameFigures(UpdateSlot(MarkStale(new), now), new)
           /\ SameFigures(UpdateSlot(new, now), new)
           /\ SameFigures(new, new)
           /\ SameFigures(res, res)
  BY DEF SameFigures, MarkStale, UpdateSlot, Supplied, Lent, Compounded, ReserveRec

LEMMA DepositEnters ==
    ASSUME NEW res \in ReserveRec, NEW amount \in U64, amount > 0,
           NEW d \in DepositLiquidity(res, amount), NEW now
    PROVE  /\ Fair(d.reserve, res)
           /\ Fair(MarkStale(d.reserve), res)
           /\ Fair(UpdateSlot(MarkStale(d.reserve), now), res)
<1>1. PICK available \in CheckedAdd(res.available_amount, amount),
           minted \in UNION {UNION {CheckedAdd(res.mint_total_supply, x) :
                                    x \in LiquidityToCollateral(rate, amount)} :
                             rate \in CollateralExchangeRate(res)} :
         d = [reserve |-> Supplied(res, available, minted),
              collateral_amount |-> minted - res.mint_total_supply]
  BY DEF DepositLiquidity
<1>2. PICK rate \in CollateralExchangeRate(res) :
         \E x \in LiquidityToCollateral(rate, amount) : minted \in CheckedAdd(res.mint_total_supply, x)
  BY <1>1
<1>3. PICK c \in LiquidityToCollateral(rate, amount) : minted \in CheckedAdd(res.mint_total_supply, c)
  BY <1>2
<1>4. amount \in Nat
  BY WadAssumption DEF U64
<1> DEFINE m == res.mint_total_supply
           B == Value(res)
<1>5. m \in Nat /\ B \in Nat /\ WAD \in Nat /\ res.available_amount \in Nat /\ res.borrowed_amount_wads \in Nat
  BY ReserveNat
<1>6. c \in Nat /\ (m > 0 => c * B <= amount * WAD * m)
  BY <1>4, DepositPrice
<1>7. available = res.available_amount + amount /\ minted = m + c
  BY <1>1, <1>3 DEF CheckedAdd
<1>8. /\ d.reserve.available_amount = res.available_amount + amount
      /\ d.reserve.mint_total_supply = m + c
      /\ d.reserve.borrowed_amount_wads = res.borrowed_amount_wads
  BY <1>1, <1>7 DEF Supplied, ReserveRec
<1>9. Value(d.reserve) = B + amount * WAD
  <2>1. (res.available_amount + amount) * WAD = res.available_amount * WAD + amount * WAD
    BY <1>4, <1>5
  <2>2. res.available_amount * WAD \in Nat /\ amount * WAD \in Nat
    BY <1>4, <1>5
  <2> QED BY <1>5, <1>8, <2>1, <2>2 DEF Value
<1>10. ASSUME m > 0 PROVE Value(d.reserve) * m >= B * (m + c)
  <2> DEFINE a == amount * WAD
  <2>1. a \in Nat /\ c * B <= a * m
    BY <1>4, <1>5, <1>6, <1>10
  <2>2. Value(d.reserve) = B + a
    BY <1>9
  <2> HIDE DEF a, m, B
  <2>3. (B + a) * m = B * m + a * m /\ B * (m + c) = B * m + c * B
    BY <1>5, <1>6, <2>1
  <2>4. B * m \in Int /\ a * m \in Int /\ c * B \in Int
    BY <1>5, <1>6, <2>1
  <2> QED BY <2>1, <2>2, <2>3, <2>4
<1>11. Entered(d.reserve, res)
  <2>1. res.available_amount + amount > res.available_amount /\ m + c >= m
    BY <1>4, <1>5, <1>6
  <2> QED BY <1>8, <1>10, <2>1 DEF Entered
<1>12. d.reserve = Supplied(res, available, minted)
  BY <1>1
<1> QED BY <1>11, <1>12, Remarked, FiguresOnly DEF Fair

LEMMA RedeemLeaves ==
    ASSUME NEW res \in ReserveRec, NEW amount \in U64, amount > 0,
           NEW d \in RedeemCollateral(res, amount)
    PROVE  Fair(MarkStale(d.reserve), res)
<1>1. PICK supply \in CheckedSub(res.mint_total_supply, amount),
           available \in UNION {UNION {CheckedSub(res.available_amount, x) :
                                       x \in CollateralToLiquidity(rate, amount)} :
                                rate \in CollateralExchangeRate(res)} :
         d = [reserve |-> Supplied(res, available, supply),
              liquidity_amount |-> res.available_amount - available]
  BY DEF RedeemCollateral
<1>2. PICK rate \in CollateralExchangeRate(res) :
         \E x \in CollateralToLiquidity(rate, amount) : available \in CheckedSub(res.available_amount, x)
  BY <1>1
<1>3. PICK l \in CollateralToLiquidity(rate, amount) : available \in CheckedSub(res.available_amount, l)
  BY <1>2
<1> DEFINE m == res.mint_total_supply
           B == Value(res)
           cash == res.available_amount
<1>4. amount \in Nat /\ m \in Nat /\ B \in Nat /\ WAD \in Nat /\ cash \in Nat
      /\ res.borrowed_amount_wads \in Nat
  BY ReserveNat, WadAssumption DEF U64
<1>5. l \in Nat
  BY <1>3, WadAssumption DEF CollateralToLiquidity, TryFloorU64, U64
<1>6. available = cash - l /\ supply = m - amount /\ cash - l \in Nat /\ m - amount \in Nat
  BY <1>1, <1>3, WadAssumption DEF CheckedSub, U64
<1>7. /\ d.reserve.available_amount = cash - l
      /\ d.reserve.mint_total_supply = m - amount
      /\ d.reserve.borrowed_amount_wads = res.borrowed_amount_wads
  BY <1>1, <1>6 DEF Supplied, ReserveRec
<1>8. l <= cash /\ amount <= m
  <2> HIDE DEF m, cash
  <2> QED BY <1>4, <1>5, <1>6
<1>9. (l * WAD) * (m * WAD * WAD - B) <= amount * WAD * WAD * B
  BY <1>3, <1>4, <1>8, RedeemPrice
<1>10. B - Value(d.reserve) = l * WAD
  <2>1. (cash - l) * WAD = cash * WAD - l * WAD
    BY <1>4, <1>5
  <2>2. cash * WAD \in Nat /\ l * WAD \in Nat
    BY <1>4, <1>5
  <2>3. B = cash * WAD + res.borrowed_amount_wads
    BY DEF Value
  <2>4. Value(d.reserve) = (cash - l) * WAD + res.borrowed_amount_wads
    BY <1>7 DEF Value
  <2> HIDE DEF cash, B
  <2> QED BY <1>4, <2>1, <2>2, <2>3, <2>4
<1>11. m - (m - amount) = amount /\ cash - l <= cash
  BY <1>4, <1>5
<1>12. Redeemed(d.reserve, res)
  <2> HIDE DEF cash
  <2> QED BY <1>7, <1>9, <1>10, <1>11 DEF Redeemed, cash
<1>13. d.reserve = Supplied(res, available, supply)
  BY <1>1
<1> QED BY <1>12, <1>13, Remarked, FiguresOnly DEF Fair

(* Rounding a number of wads to tokens. *)
LEMMA FloorBelow ==
    ASSUME NEW a \in Nat, NEW x \in TryFloorU64(a)
    PROVE  x \in Nat /\ x * WAD <= a
<1>1. x = a \div WAD /\ WAD \in Nat /\ WAD > 0
  BY WadAssumption DEF TryFloorU64
<1> QED BY <1>1, Quotient

LEMMA CeilAbove ==
    ASSUME NEW a \in Nat, NEW x \in TryCeilU64(a)
    PROVE  x \in Nat /\ a <= x * WAD
<1>1. x = (a + (WAD - 1)) \div WAD /\ WAD \in Nat /\ WAD > 0
  BY WadAssumption DEF TryCeilU64
<1>2. a + (WAD - 1) \in Nat
  BY <1>1
<1>3. x \in Nat /\ a + (WAD - 1) < x * WAD + WAD
  BY <1>1, <1>2, Quotient
<1>4. x * WAD \in Nat
  BY <1>1, <1>3
<1> QED BY <1>1, <1>3, <1>4

LEMMA BorrowLends ==
    ASSUME NEW res \in ReserveRec, NEW wads \in Nat, NEW b \in TryFloorU64(wads), b > 0,
           NEW new \in BorrowLiquidity(res, wads)
    PROVE  Fair(MarkStale(new), res)
<1>1. PICK available \in UNION {CheckedSub(res.available_amount, x) : x \in TryFloorU64(wads)},
           borrowed \in TryAdd(res.borrowed_amount_wads, wads) :
         new = Lent(res, available, borrowed)
  BY DEF BorrowLiquidity
<1>2. \A x \in TryFloorU64(wads) : x = b
  BY DEF TryFloorU64
<1>3. b \in Nat /\ b * WAD <= wads
  BY FloorBelow
<1>4. available = res.available_amount - b /\ borrowed = res.borrowed_amount_wads + wads
  BY <1>1, <1>2 DEF CheckedSub, TryAdd
<1>5. /\ new.available_amount = res.available_amount - b
      /\ new.borrowed_amount_wads = res.borrowed_amount_wads + wads
      /\ new.mint_total_supply = res.mint_total_supply
  BY <1>1, <1>4 DEF Lent, ReserveRec
<1>6. res.available_amount \in Nat /\ res.borrowed_amount_wads \in Nat
  BY ReserveNat
<1>7. /\ res.available_amount - b < res.available_amount
      /\ res.available_amount - (res.available_amount - b) = b
      /\ (res.borrowed_amount_wads + wads) - res.borrowed_amount_wads = wads
  BY <1>3, <1>6
<1>8. wads >= b * WAD
  <2>1. b * WAD \in Int
    BY <1>3, WadAssumption
  <2> QED BY <1>3, <2>1
<1>9. LentOut(new, res)
  BY <1>5, <1>7, <1>8 DEF LentOut
<1> QED BY <1>1, <1>9, Remarked, FiguresOnly DEF Fair

(* What is settled never exceeds the settled amount, and the payment is    *)
(* what the available amount grows by.                                     *)
LEMMA RepaySettles ==
    ASSUME NEW res \in ReserveRec, NEW n \in U64, n > 0, NEW wads \in Nat,
           NEW new \in RepayLiquidity(res, n, wads)
    PROVE  /\ wads <= n * WAD => Fair(MarkStale(new), res)
           /\ wads < FromU64(LIQUIDATION_CLOSE_AMOUNT) => WrittenOff(MarkStale(new), res)
<1> DEFINE b == res.borrowed_amount_wads
           left == IF wads >= b THEN 0 ELSE b - wads
<1>1. PICK available \in CheckedAdd(res.available_amount, n) : new = Lent(res, available, left)
  BY DEF RepayLiquidity
<1>2. available = res.available_amount + n
  BY <1>1 DEF CheckedAdd
<1>3. res.available_amount \in Nat /\ b \in Nat /\ n \in Nat /\ WAD \in Nat
  BY ReserveNat, WadAssumption DEF U64
<1>4. left \in Nat /\ left <= b /\ b - left <= wads
  BY <1>3
<1> HIDE DEF left
<1>5. /\ new.available_amount = res.available_amount + n
      /\ new.borrowed_amount_wads = left
      /\ new.mint_total_supply = res.mint_total_supply
  BY <1>1, <1>2 DEF Lent, ReserveRec
<1>6. res.available_amount + n > res.available_amount /\ (res.available_amount + n) - res.available_amount = n
  BY <1>3
<1>7. ASSUME wads <= n * WAD PROVE Settled(new, res)
  <2>1. n * WAD \in Int
    BY <1>3
  <2>2. b - left <= n * WAD
    BY <1>3, <1>4, <1>7, <2>1
  <2> QED BY <1>4, <1>5, <1>6, <2>2 DEF Settled
<1>8. ASSUME wads < FromU64(LIQUIDATION_CLOSE_AMOUNT) PROVE WrittenOff(new, res)
  <2>1. FromU64(LIQUIDATION_CLOSE_AMOUNT) \in Int
    <3>1. LIQUIDATION_CLOSE_AMOUNT \in Nat
      BY ReserveAssumption, WadAssumption DEF U64
    <3> QED BY <1>3, <3>1 DEF FromU64
  <2>2. b - left < FromU64(LIQUIDATION_CLOSE_AMOUNT)
    BY <1>3, <1>4, <1>8, <2>1
  <2> QED BY <1>4, <1>5, <1>6, <2>2 DEF WrittenOff
<1> QED BY <1>1, <1>7, <1>8, Remarked, FiguresOnly DEF Fair

(* A factor of compounding is at least one. *)
LEMMA FactorAtLeastOne ==
    ASSUME NEW rate, NEW elapsed \in Nat, NEW factor \in CompoundedInterestRate(rate, elapsed)
    PROVE  factor \in Nat /\ factor >= WAD
<1>1. PICK per_slot \in RateDivU64(rate, SLOTS_PER_YEAR) :
         factor \in UNION {TryPow(base, elapsed) : base \in RateAdd(WAD, per_slot)}
  BY DEF CompoundedInterestRate
<1>2. PICK base \in RateAdd(WAD, per_slot) : factor \in TryPow(base, elapsed)
  BY <1>1
<1>3. per_slot \in Nat /\ WAD \in Nat /\ Rate \subseteq Nat
  BY WadAssumption DEF RateDivU64, Rate
<1>4. base \in Rate /\ base = WAD + per_slot
  BY <1>2 DEF RateAdd
<1>5. factor \in Rate /\ factor >= WAD + elapsed * (base - WAD)
  <2>1. base >= WAD
    BY <1>3, <1>4
  <2> QED BY <1>2, <1>4, <2>1, PowerAtLeastSimple
<1>6. elapsed * (base - WAD) \in Nat
  <2>1. base - WAD \in Nat
    BY <1>3, <1>4
  <2> QED BY <2>1
<1> QED BY <1>3, <1>5, <1>6

(* Multiplying by such a factor and rounding down loses nothing. *)
LEMMA RoundedProduct ==
    ASSUME NEW a \in Nat, NEW f \in Nat, f >= WAD, NEW p \in TryMul(a, f)
    PROVE  p >= a
<1>1. p = (a * f) \div WAD /\ WAD \in Nat /\ WAD > 0
  BY WadAssumption DEF TryMul
<1>2. a * f \in Nat /\ a * f >= a * WAD
  <2>1. PICK d \in Nat : f = WAD + d
    BY <1>1
  <2>2. a * f = a * WAD + a * d /\ a * d \in Nat /\ a * WAD \in Nat
    BY <1>1, <2>1
  <2> QED BY <2>2
<1>3. ASSUME NEW x \in Nat, x >= a * WAD PROVE x \div WAD >= a
  <2> DEFINE q == x \div WAD
  <2>1. q \in Int /\ x < WAD * (q + 1)
    BY <1>1, <1>3
  <2> HIDE DEF q
  <2>2. a * WAD < (q + 1) * WAD
    BY <1>1, <1>3, <2>1
  <2>3. a < q + 1
    <3> SUFFICES ASSUME q + 1 <= a PROVE FALSE
      BY <2>1
    <3>1. PICK e \in Nat : a = q + 1 + e
      BY <2>1
    <3>2. a * WAD = (q + 1) * WAD + e * WAD /\ e * WAD \in Nat
      BY <1>1, <2>1, <3>1
    <3> QED BY <1>1, <2>1, <2>2, <3>2
  <2>4. q >= a
    BY <2>1, <2>3
  <2> QED BY <2>4 DEF q
<1> QED BY <1>1, <1>2, <1>3

LEMMA AccrueAccrues ==
    ASSUME NEW res \in ReserveRec, NEW now \in Nat, NEW new \in AccrueInterest(res, now)
    PROVE  Fair(UpdateSlot(new, now), res)
<1> DEFINE debt == res.borrowed_amount_wads
<1>1. debt \in Nat
  BY ReserveNat
<1>2. PICK elapsed \in SlotsElapsed(res, now) :
         IF elapsed > 0
         THEN \E rate : \E factor \in CompoundedInterestRate(rate, elapsed) : new \in CompoundInterest(res, factor)
         ELSE new = res
  BY DEF AccrueInterest
<1>3. elapsed \in Nat
  BY <1>2 DEF SlotsElapsed
<1>4. CASE new = res
  <2>1. Accrued(new, res)
    BY <1>1, <1>4 DEF Accrued
  <2> QED BY <1>4, <2>1, Remarked, FiguresOnly DEF Fair
<1>5. ASSUME NEW rate, NEW factor \in CompoundedInterestRate(rate, elapsed), new \in CompoundInterest(res, factor)
      PROVE  Fair(UpdateSlot(new, now), res)
  <2>1. PICK cumulative \in TryMul(res.cumulative_borrow_rate_wads, factor),
             borrowed \in TryMul(debt, factor) : new = Compounded(res, cumulative, borrowed)
    BY <1>5 DEF CompoundInterest
  <2>2. factor \in Nat /\ factor >= WAD
    BY <1>3, <1>5, FactorAtLeastOne
  <2>3. borrowed >= debt
    <3> HIDE DEF debt
    <3> QED BY <1>1, <2>1, <2>2, RoundedProduct
  <2>4. /\ new.borrowed_amount_wads = borrowed
        /\ new.available_amount = res.available_amount
        /\ new.mint_total_supply = res.mint_total_supply
    BY <2>1 DEF Compounded, ReserveRec
  <2>5. Accrued(new, res)
    BY <2>3, <2>4 DEF Accrued
  <2> QED BY <2>1, <2>5, Remarked, FiguresOnly DEF Fair
<1> QED BY <1>2, <1>4, <1>5

-----------------------------------------------------------------------------
(***************************************************************************)
(* The amounts the instructions compute.                                   *)
(***************************************************************************)
LEMMA DecimalNat == Decimal \subseteq Nat /\ Rate \subseteq Nat /\ U64 \subseteq Nat
  BY WadAssumption DEF Decimal, Rate, U64

LEMMA BorrowWads ==
    ASSUME NEW res \in ReserveRec, NEW amount, NEW max_value,
           NEW b \in CalculateBorrow(res, amount, max_value)
    PROVE  b.borrow_wads \in Nat
<1>1. CASE amount = U64_MAX
  <2>1. PICK wads \in MaxBorrowWads(res, max_value) : \E receive, fee :
           b = [borrow_wads |-> wads, receive |-> receive, fee |-> fee]
    <3> DEFINE Split(w, f) == {[borrow_wads |-> w, receive |-> receive, fee |-> f] :
                               receive \in UNION {CheckedSub(x, f) : x \in TryFloorU64(w)}}
               Fees(w) == CalculateFees(res.config, w, res.config.borrow_fee_wad, TRUE)
    <3>1. b \in UNION {UNION {Split(w, fees.fee) : fees \in Fees(w)} : w \in MaxBorrowWads(res, max_value)}
      BY <1>1 DEF CalculateBorrow, CalculateMaxBorrow
    <3> HIDE DEF Split, Fees
    <3>2. PICK w, fees : w \in MaxBorrowWads(res, max_value) /\ b \in Split(w, fees.fee)
      BY <3>1
    <3>3. \E receive : b = [borrow_wads |-> w, receive |-> receive, fee |-> fees.fee]
      BY <3>2 DEF Split
    <3> QED BY <3>2, <3>3
  <2>2. PICK v, w : w \in TryDiv(v, res.market_price) /\ wads = Least(w, FromU64(res.available_amount))
    BY <2>1 DEF MaxBorrowWads
  <2>3. w \in Nat
    BY <2>2, DecimalNat DEF TryDiv
  <2>4. FromU64(res.available_amount) \in Nat
    BY ReserveNat DEF FromU64
  <2> QED BY <2>1, <2>2, <2>3, <2>4 DEF Least
<1>2. CASE amount # U64_MAX
  <2>1. PICK x, y, wads, receive, fee :
           wads \in TryAdd(x, y) /\ b = [borrow_wads |-> wads, receive |-> receive, fee |-> fee]
    BY <1>2 DEF CalculateBorrow, CalculateExactBorrow
  <2> QED BY <2>1, DecimalNat DEF TryAdd
<1> QED BY <1>1, <1>2

LEMMA RepayPays ==
    ASSUME NEW amount \in U64, NEW wads \in Nat, NEW p \in CalculateRepay(amount, wads)
    PROVE  p.settle \in Nat /\ p.repay \in U64 /\ p.settle <= p.repay * WAD
<1> DEFINE settle == IF amount = U64_MAX THEN wads ELSE Least(FromU64(amount), wads)
<1>1. p.settle = settle /\ p.repay \in TryCeilU64(settle)
  BY DEF CalculateRepay
<1>2. FromU64(amount) \in Nat
  BY WadAssumption DEF FromU64, U64
<1>3. settle \in Nat
  BY <1>2 DEF Least
<1> HIDE DEF settle
<1> QED BY <1>1, <1>3, CeilAbove, CeilTyped

(* A liquidation settles what it pays for, or a debt that is small enough  *)
(* to be closed.                                                           *)
LEMMA LiquidationPays ==
    ASSUME NEW c, NEW amount \in U64, NEW ob, NEW liq, NEW col, liq.borrowed_amount_wads \in Nat,
           NEW q \in CalculateLiquidation(c, amount, ob, liq, col)
    PROVE  /\ q.settle \in Nat
           /\ q.repay \in U64
           /\ \/ q.settle <= q.repay * WAD
              \/ q.settle < FromU64(LIQUIDATION_CLOSE_AMOUNT)
<1> DEFINE debt == liq.borrowed_amount_wads
           most == IF amount = U64_MAX THEN debt ELSE Least(FromU64(amount), debt)
<1>1. most \in Nat
  <2>1. FromU64(amount) \in Nat
    BY WadAssumption DEF FromU64, U64
  <2> QED BY <2>1 DEF Least
<1>2. PICK bonus : q \in (IF debt < FromU64(LIQUIDATION_CLOSE_AMOUNT)
                         THEN CloseOut(liq, col, bonus, most)
                         ELSE UNION {PartialLiquidation(liq, col, bonus, Least(limit, most)) :
                                     limit \in MaxLiquidationWads(ob, liq)})
  BY DEF CalculateLiquidation
<1> HIDE DEF most
<1>3. CASE debt < FromU64(LIQUIDATION_CLOSE_AMOUNT)
  <2>1. q \in CloseOut(liq, col, bonus, most)
    BY <1>2, <1>3
  <2>2. PICK repay, withdraw :
           /\ q = [settle |-> debt, repay |-> repay, withdraw |-> withdraw]
           /\ \E a : repay \in TryCeilU64(a)
    BY <2>1 DEF CloseOut
  <2> QED BY <1>3, <2>2, CeilTyped
<1>4. CASE ~(debt < FromU64(LIQUIDATION_CLOSE_AMOUNT))
  <2>1. PICK limit \in MaxLiquidationWads(ob, liq) : q \in PartialLiquidation(liq, col, bonus, Least(limit, most))
    BY <1>2, <1>4
  <2>2. limit \in Nat
    <3>1. PICK pct : limit \in TryMul(debt, pct)
      BY <2>1 DEF MaxLiquidationWads
    <3> QED BY <3>1, DecimalNat DEF TryMul
  <2> DEFINE wads == Least(limit, most)
  <2>3. wads \in Nat
    BY <1>1, <2>2 DEF Least
  <2> HIDE DEF wads
  <2>4. q \in PartialLiquidation(liq, col, bonus, wads)
    BY <2>1 DEF wads
  <2>5. PICK value, settle, repay, withdraw :
           /\ settle \in PayableWads(wads, col, value) \cup {wads}
           /\ q = [settle |-> settle, repay |-> repay, withdraw |-> withdraw]
           /\ repay \in TryCeilU64(settle)
    BY <2>4 DEF PartialLiquidation
  <2>6. settle \in Nat
    <3>1. \A x \in PayableWads(wads, col, value) : x \in Nat
      BY DecimalNat DEF PayableWads, TryMul
    <3> QED BY <2>3, <2>5, <3>1
  <2> QED BY <2>5, <2>6, CeilAbove, CeilTyped
<1> QED BY <1>3, <1>4

-----------------------------------------------------------------------------
(***************************************************************************)
(* Every instruction that saves a reserve makes one of the moves.          *)
(***************************************************************************)

(* A reserve account that is not initialised has lent nothing. *)
NothingLent ==
    \A r \in Reserves : ~reserve[r].initialized => reserve[r].borrowed_amount_wads = 0

FairStep(r) ==
    /\ Fair(reserve'[r], reserve[r])
    /\ reserve'[r].initialized
    /\ \A x \in Reserves \ {r} : reserve'[x] = reserve[x]

WriteOffStep(r) ==
    /\ WrittenOff(reserve'[r], reserve[r])
    /\ reserve'[r].initialized
    /\ \A x \in Reserves \ {r} : reserve'[x] = reserve[x]

LEMMA SaveReserveIs ==
    ASSUME TypeOK, NEW r \in Reserves, NEW res, SaveReserve(r, res)
    PROVE  reserve'[r] = res /\ \A x \in Reserves \ {r} : reserve'[x] = reserve[x]
  BY DEF TypeOK, SaveReserve, Pack

LEMMA InitReserveMoves ==
    ASSUME BooksInv, NothingLent, NEW r \in Reserves, NEW amount \in U64, amount > 0, NEW price \in Rate,
           NEW unit \in MintUnits, NEW c \in Configs,
           ProcessInitReserve(r, amount, price, unit, c)
    PROVE  FairStep(r)
<1> DEFINE new == NewReserve(price, unit, c)
<1>1. TypeOK /\ Untouched
  BY DEF BooksInv
<1>2. /\ new \in ReserveRec /\ new.initialized
      /\ new.available_amount = 0 /\ new.borrowed_amount_wads = 0 /\ new.mint_total_supply = 0
  BY <1>1, WadAssumption DEF NewReserve, ReserveRec, TypeOK, U64, Rate
<1>3. SameFigures(reserve[r], new)
  <2>1. ~reserve[r].initialized
    BY DEF ProcessInitReserve
  <2> HIDE DEF new
  <2> QED BY <1>1, <1>2, <2>1 DEF SameFigures, Untouched, NothingLent
<1>4. PICK d \in DepositLiquidity(new, amount) : SaveReserve(r, d.reserve)
  BY DEF ProcessInitReserve
<1> HIDE DEF new
<1>5. Fair(d.reserve, new) /\ d.reserve.initialized
  BY <1>2, <1>4, DepositEnters, DepositEffect DEF Moves
<1>6. Fair(d.reserve, reserve[r])
  <2>1. SameFigures(d.reserve, d.reserve)
    BY DEF SameFigures
  <2> QED BY <1>3, <1>5, <2>1, FiguresOnly
<1> QED BY <1>1, <1>4, <1>5, <1>6, SaveReserveIs DEF FairStep

LEMMA RefreshReserveMoves ==
    ASSUME TypeOK, NEW r \in Reserves, NEW price \in Rate, ProcessRefreshReserve(r, price)
    PROVE  FairStep(r)
<1>1. reserve[r] \in ReserveRec /\ Priced(r, price) \in ReserveRec /\ slot \in Nat
  BY DEF TypeOK, Priced, ReserveRec
<1>2. Priced(r, price).initialized = reserve[r].initialized /\ SameFigures(reserve[r], Priced(r, price))
  BY <1>1 DEF Priced, ReserveRec, SameFigures
<1>3. PICK accrued \in AccrueInterest(Priced(r, price), slot) : SaveReserve(r, UpdateSlot(accrued, slot))
  BY DEF ProcessRefreshReserve
<1>4. \/ accrued = Priced(r, price)
      \/ \E cumulative, borrowed : accrued = Compounded(Priced(r, price), cumulative, borrowed)
  BY <1>1, <1>3, AccrueEffect
<1>5. UpdateSlot(accrued, slot).initialized = reserve[r].initialized
  BY <1>1, <1>2, <1>4 DEF Compounded, UpdateSlot, ReserveRec
<1>6. Fair(UpdateSlot(accrued, slot), Priced(r, price))
  BY <1>1, <1>3, AccrueAccrues
<1>7. Fair(UpdateSlot(accrued, slot), reserve[r])
  <2>1. SameFigures(UpdateSlot(accrued, slot), UpdateSlot(accrued, slot))
    BY DEF SameFigures
  <2> QED BY <1>2, <1>6, <2>1, FiguresOnly
<1>8. reserve[r].initialized
  BY DEF ProcessRefreshReserve
<1> QED BY <1>3, <1>5, <1>7, <1>8, SaveReserveIs DEF FairStep

LEMMA LiquidityDepositMoves ==
    ASSUME TypeOK, NEW r \in Reserves, NEW amount \in U64, amount > 0,
           \/ ProcessDepositReserveLiquidity(r, amount)
           \/ \E o \in Obligations : ProcessDepositReserveLiquidityAndObligationCollateral(o, r, amount)
    PROVE  FairStep(r)
<1>1. reserve[r] \in ReserveRec /\ slot \in Nat
  BY DEF TypeOK
<1>2. reserve[r].initialized /\ Fresh(reserve[r], slot)
  BY DEF ProcessDepositReserveLiquidity, ProcessDepositReserveLiquidityAndObligationCollateral, ReserveFresh
<1>3. reserve[r].slot = slot
  BY <1>1, <1>2, FreshSlot DEF ReserveRec
<1>4. PICK d, new :
         /\ d \in DepositLiquidity(reserve[r], amount)
         /\ SaveReserve(r, new)
         /\ new \in {MarkStale(d.reserve), UpdateSlot(MarkStale(d.reserve), slot)}
  BY DEF ProcessDepositReserveLiquidity, ProcessDepositReserveLiquidityAndObligationCollateral
<1>5. Fair(new, reserve[r])
  BY <1>1, <1>4, DepositEnters
<1>6. new.initialized
  BY <1>1, <1>2, <1>3, <1>4, DepositEffect DEF Moves
<1> QED BY <1>4, <1>5, <1>6, SaveReserveIs DEF FairStep

LEMMA RedeemMoves ==
    ASSUME TypeOK, NEW r \in Reserves, NEW amount \in U64, amount > 0,
           ProcessRedeemReserveCollateral(r, amount)
    PROVE  FairStep(r)
<1>1. reserve[r] \in ReserveRec /\ reserve[r].initialized
  BY DEF TypeOK, ProcessRedeemReserveCollateral, ReserveFresh
<1>2. PICK d \in RedeemCollateral(reserve[r], amount) : SaveReserve(r, MarkStale(d.reserve))
  BY DEF ProcessRedeemReserveCollateral
<1>3. Fair(MarkStale(d.reserve), reserve[r])
  BY <1>1, <1>2, RedeemLeaves
<1>4. MarkStale(d.reserve).initialized
  BY <1>1, <1>2, RedeemEffect DEF Moves
<1> QED BY <1>2, <1>3, <1>4, SaveReserveIs DEF FairStep

LEMMA BorrowMoves ==
    ASSUME TypeOK, NEW o \in Obligations, NEW r \in Reserves, NEW amount \in U64,
           ProcessBorrowObligationLiquidity(o, r, amount)
    PROVE  FairStep(r)
<1>1. reserve[r] \in ReserveRec /\ reserve[r].initialized
  BY DEF TypeOK, ProcessBorrowObligationLiquidity, ReserveFresh
<1>2. PICK remaining, b :
         /\ b \in CalculateBorrow(reserve[r], amount, remaining)
         /\ b.receive # 0
         /\ \E lent \in BorrowLiquidity(reserve[r], b.borrow_wads) : SaveReserve(r, MarkStale(lent))
  BY DEF ProcessBorrowObligationLiquidity
<1>3. PICK lent \in BorrowLiquidity(reserve[r], b.borrow_wads) : SaveReserve(r, MarkStale(lent))
  BY <1>2
<1>4. b.borrow_wads \in Nat
  BY <1>1, <1>2, BorrowWads
<1>5. PICK x \in TryFloorU64(b.borrow_wads) : TRUE
  BY <1>3 DEF BorrowLiquidity
<1>6. x > 0
  <2>1. b.receive \in Nat /\ b.fee \in Nat /\ x = b.fee + b.receive
    BY <1>1, <1>2, <1>5, BorrowAmounts
  <2> QED BY <1>2, <2>1
<1>7. Fair(MarkStale(lent), reserve[r])
  BY <1>1, <1>3, <1>4, <1>5, <1>6, BorrowLends
<1>8. MarkStale(lent).initialized
  BY <1>1, <1>3, <1>5, BorrowEffect DEF Moves
<1> QED BY <1>3, <1>7, <1>8, SaveReserveIs DEF FairStep

LEMMA DebtNat ==
    ASSUME TypeOK, NEW o \in Obligations, NEW r \in Reserves
    PROVE  obligation[o].borrows[r].borrowed_amount_wads \in Nat
<1>1. obligation[o] \in ObligationRec
  BY DEF TypeOK
<1> QED BY <1>1, DecimalNat DEF ObligationRec, LiquidityRec

LEMMA RepayMoves ==
    ASSUME TypeOK, NEW o \in Obligations, NEW r \in Reserves, NEW amount \in U64,
           ProcessRepayObligationLiquidity(o, r, amount)
    PROVE  FairStep(r)
<1> DEFINE debt == obligation[o].borrows[r].borrowed_amount_wads
<1>1. reserve[r] \in ReserveRec /\ reserve[r].initialized
  BY DEF TypeOK, ProcessRepayObligationLiquidity, ReserveFresh
<1>2. PICK p \in CalculateRepay(amount, debt) :
         /\ p.repay # 0
         /\ \E res \in RepayLiquidity(reserve[r], p.repay, p.settle) : SaveReserve(r, MarkStale(res))
  BY DEF ProcessRepayObligationLiquidity
<1>3. PICK res \in RepayLiquidity(reserve[r], p.repay, p.settle) : SaveReserve(r, MarkStale(res))
  BY <1>2
<1>4. debt \in Nat
  BY DebtNat
<1> HIDE DEF debt
<1>5. p.settle \in Nat /\ p.repay \in U64 /\ p.settle <= p.repay * WAD
  BY <1>2, <1>4, RepayPays
<1>6. p.repay > 0
  <2>1. p.repay \in Nat
    BY <1>5, DecimalNat
  <2> QED BY <1>2, <2>1
<1>7. Fair(MarkStale(res), reserve[r])
  BY <1>1, <1>3, <1>5, <1>6, RepaySettles
<1>8. MarkStale(res).initialized
  BY <1>1, <1>3, <1>5, RepayEffect DEF Moves
<1> QED BY <1>3, <1>7, <1>8, SaveReserveIs DEF FairStep

LEMMA LiquidateMoves ==
    ASSUME TypeOK, NEW o \in Obligations, NEW r \in Reserves, NEW w \in Reserves, NEW amount \in U64,
           ProcessLiquidateObligation(o, r, w, amount)
    PROVE  FairStep(r) \/ WriteOffStep(r)
<1> DEFINE ob == obligation[o]
<1>1. reserve[r] \in ReserveRec /\ reserve[r].initialized
  BY DEF TypeOK, ProcessLiquidateObligation, ReserveFresh
<1>2. PICK q \in CalculateLiquidation(reserve[w].config, amount, ob, ob.borrows[r], ob.deposits[w]) :
         /\ q.repay # 0
         /\ \E res \in RepayLiquidity(reserve[r], q.repay, q.settle) : SaveReserve(r, MarkStale(res))
  BY DEF ProcessLiquidateObligation
<1>3. PICK res \in RepayLiquidity(reserve[r], q.repay, q.settle) : SaveReserve(r, MarkStale(res))
  BY <1>2
<1>4. ob.borrows[r].borrowed_amount_wads \in Nat
  BY DebtNat
<1> HIDE DEF ob
<1>5. /\ q.settle \in Nat
      /\ q.repay \in U64
      /\ q.settle <= q.repay * WAD \/ q.settle < FromU64(LIQUIDATION_CLOSE_AMOUNT)
  BY <1>2, <1>4, LiquidationPays
<1>6. q.repay > 0
  <2>1. q.repay \in Nat
    BY <1>5, DecimalNat
  <2> QED BY <1>2, <2>1
<1>7. Fair(MarkStale(res), reserve[r]) \/ WrittenOff(MarkStale(res), reserve[r])
  BY <1>1, <1>3, <1>5, <1>6, RepaySettles
<1>8. MarkStale(res).initialized
  BY <1>1, <1>3, <1>5, RepayEffect DEF Moves
<1> QED BY <1>3, <1>7, <1>8, SaveReserveIs DEF FairStep, WriteOffStep

(* A flash loan leaves the reserve's figures as they were. *)
LEMMA FlashLoanMoves ==
    ASSUME TypeOK, NEW r \in Reserves, NEW amount \in U64, NEW overpaid,
           ProcessFlashLoan(r, amount, overpaid)
    PROVE  FairStep(r)
<1> DEFINE loan == FlashLoanAmount(reserve[r], amount)
<1>1. reserve[r] \in ReserveRec /\ reserve[r].initialized
  BY DEF TypeOK, ProcessFlashLoan
<1>2. loan \in U64 /\ loan \in Nat
  BY <1>1, WadAssumption DEF FlashLoanAmount, ReserveRec, U64
<1>3. PICK lent \in BorrowLiquidity(reserve[r], FromU64(loan)) :
         \E packed \in Pack(lent) :
            \E returned \in RepayLiquidity(packed, loan, FromU64(loan)) : SaveReserve(r, returned)
  BY DEF ProcessFlashLoan
<1>4. PICK returned \in RepayLiquidity(lent, loan, FromU64(loan)) : SaveReserve(r, returned) /\ lent \in ReserveRec
  BY <1>3 DEF Pack
<1> HIDE DEF loan
<1>5. loan \in TryFloorU64(FromU64(loan))
  BY <1>2, WholeTokens DEF TryFloorU64
<1>6. Moves(lent, reserve[r], -loan, 0) /\ Moves(returned, lent, loan, 0)
  BY <1>1, <1>2, <1>3, <1>4, <1>5, BorrowEffect, RepayEffect
<1>7. /\ returned.available_amount = reserve[r].available_amount
      /\ returned.mint_total_supply = reserve[r].mint_total_supply
      /\ returned.initialized
  <2>1. reserve[r].available_amount \in Nat /\ reserve[r].mint_total_supply \in Nat
    BY <1>1, ReserveNat
  <2> QED BY <1>1, <1>2, <1>6, <2>1 DEF Moves
<1>8. returned.borrowed_amount_wads = reserve[r].borrowed_amount_wads
  <2> DEFINE debt == reserve[r].borrowed_amount_wads
             wads == FromU64(loan)
  <2>1. debt \in Nat /\ wads \in Nat
    BY <1>1, <1>2, ReserveNat DEF FromU64
  <2>2. PICK a1, b1 : b1 \in TryAdd(debt, wads) /\ lent = Lent(reserve[r], a1, b1)
    <3>1. PICK a1 \in UNION {CheckedSub(reserve[r].available_amount, b) : b \in TryFloorU64(wads)},
               b1 \in TryAdd(debt, wads) : lent = Lent(reserve[r], a1, b1)
      BY <1>3 DEF BorrowLiquidity
    <3> QED BY <3>1
  <2>3. lent.borrowed_amount_wads = debt + wads
    BY <1>1, <2>2 DEF Lent, ReserveRec, TryAdd
  <2>4. PICK a2 : returned = Lent(lent, a2, IF wads >= debt + wads THEN 0 ELSE (debt + wads) - wads)
    BY <1>4, <2>3 DEF RepayLiquidity
  <2> HIDE DEF wads, debt
  <2>5. returned.borrowed_amount_wads = IF wads >= debt + wads THEN 0 ELSE (debt + wads) - wads
    BY <1>4, <2>4 DEF Lent, ReserveRec
  <2> QED BY <2>1, <2>5 DEF debt
<1>9. Fair(returned, reserve[r])
  <2>1. reserve[r].borrowed_amount_wads \in Nat
    BY <1>1, ReserveNat
  <2> QED BY <1>7, <1>8, <2>1 DEF Fair, Accrued
<1> QED BY <1>4, <1>7, <1>9, SaveReserveIs DEF FairStep

LEMMA UpdateReserveMoves ==
    ASSUME TypeOK, NEW r \in Reserves, NEW c, ProcessUpdateReserve(r, c)
    PROVE  FairStep(r)
<1>1. reserve[r] \in ReserveRec /\ reserve[r].initialized
  BY DEF TypeOK, ProcessUpdateReserve
<1> DEFINE new == [reserve[r] EXCEPT !.config = c]
<1>2. SaveReserve(r, new)
  BY DEF ProcessUpdateReserve
<1>3. new.initialized /\ SameFigures(new, reserve[r])
  BY <1>1 DEF ReserveRec, SameFigures
<1> HIDE DEF new
<1>4. Fair(new, reserve[r])
  <2>1. reserve[r].borrowed_amount_wads \in Nat
    BY <1>1, ReserveNat
  <2> QED BY <1>3, <2>1 DEF Fair, Accrued, SameFigures
<1> QED BY <1>2, <1>3, <1>4, SaveReserveIs DEF FairStep

-----------------------------------------------------------------------------
(***************************************************************************)
(* All steps.                                                              *)
(***************************************************************************)
LEMMA AmountsPositive == \A amount \in Amounts : amount \in U64 /\ amount > 0
<1>1. ASSUME NEW amount \in U64 \ {0} PROVE amount > 0
  BY WadAssumption DEF U64
<1> QED BY <1>1, LendingAssumption

(* A step that is not a liquidation makes a fair move on one reserve or    *)
(* touches none; a liquidation may also write off a debt.                  *)
LEMMA EveryStepMoves ==
    ASSUME BooksInv, NothingLent, [OpenNext]_vars
    PROVE  \/ reserve' = reserve
           \/ \E r \in Reserves : FairStep(r)
           \/ Liquidation /\ \E r \in Reserves : WriteOffStep(r)
<1>1. TypeOK
  BY DEF BooksInv
<1>2. PricesFor \in [Reserves -> SUBSET Rate] /\ ConfigsFor \in [Reserves -> SUBSET Configs]
  BY LendingAssumption
<1>3. ASSUME NEW r \in Reserves, NEW amount \in Amounts, NEW price \in Rate, NEW unit \in MintUnits,
             NEW c \in ConfigsFor[r], ProcessInitReserve(r, amount, price, unit, c)
      PROVE  FairStep(r)
  <2>1. c \in Configs
    BY <1>2
  <2> QED BY <1>3, <2>1, AmountsPositive, InitReserveMoves
<1>4. ASSUME NEW r \in Reserves, ReserveStep(r)
      PROVE  reserve' = reserve \/ FairStep(r)
  <2>1. ASSUME NEW amount \in Amounts, NEW price \in PricesFor[r], NEW unit \in MintUnits, NEW c \in ConfigsFor[r],
               ProcessInitReserve(r, amount, price, unit, c)
        PROVE  FairStep(r)
    <3>1. price \in Rate
      BY <1>2
    <3> QED BY <1>3, <2>1, <3>1
  <2>2. ASSUME NEW price \in PricesFor[r], ProcessRefreshReserve(r, price)
        PROVE  FairStep(r)
    <3>1. price \in Rate
      BY <1>2
    <3> QED BY <1>1, <2>2, <3>1, RefreshReserveMoves
  <2>3. ASSUME NEW amount \in Amounts, ProcessDepositReserveLiquidity(r, amount)
        PROVE  FairStep(r)
    BY <1>1, <2>3, AmountsPositive, LiquidityDepositMoves
  <2>4. ASSUME NEW amount \in Amounts, ProcessRedeemReserveCollateral(r, amount)
        PROVE  FairStep(r)
    BY <1>1, <2>4, AmountsPositive, RedeemMoves
  <2>5. ASSUME NEW amount \in Amounts, NEW overpaid \in 0..MaxOverpay, ProcessFlashLoan(r, amount, overpaid)
        PROVE  FairStep(r)
    BY <1>1, <2>5, AmountsPositive, FlashLoanMoves
  <2>6. ASSUME NEW c \in ConfigsFor[r], ProcessUpdateReserve(r, c)
        PROVE  FairStep(r)
    BY <1>1, <2>6, UpdateReserveMoves
  <2>7. CASE ProcessWithdrawFee(r)
    BY <2>7 DEF ProcessWithdrawFee
  <2> QED BY <1>4, <2>1, <2>2, <2>3, <2>4, <2>5, <2>6, <2>7 DEF ReserveStep
<1>5. ASSUME NEW o \in Obligations, ObligationStep(o)
      PROVE  \/ reserve' = reserve
             \/ \E r \in Reserves : FairStep(r)
             \/ Liquidation /\ \E r \in Reserves : WriteOffStep(r)
  <2>1. CASE ProcessInitObligation(o) \/ ProcessRefreshObligation(o)
    BY <2>1 DEF ProcessInitObligation, ProcessRefreshObligation
  <2>2. ASSUME NEW r \in Reserves, NEW amount \in Amounts,
               \/ ProcessDepositObligationCollateral(o, r, amount)
               \/ ProcessWithdrawObligationCollateral(o, r, amount)
        PROVE  reserve' = reserve
    BY <2>2 DEF ProcessDepositObligationCollateral, ProcessWithdrawObligationCollateral
  <2>3. ASSUME NEW r \in Reserves, NEW amount \in Amounts,
               ProcessDepositReserveLiquidityAndObligationCollateral(o, r, amount)
        PROVE  FairStep(r)
    BY <1>1, <2>3, AmountsPositive, LiquidityDepositMoves
  <2>4. ASSUME NEW r \in Reserves, NEW amount \in Amounts, ProcessBorrowObligationLiquidity(o, r, amount)
        PROVE  FairStep(r)
    BY <1>1, <2>4, AmountsPositive, BorrowMoves
  <2>5. ASSUME NEW r \in Reserves, NEW amount \in Amounts, ProcessRepayObligationLiquidity(o, r, amount)
        PROVE  FairStep(r)
    BY <1>1, <2>5, AmountsPositive, RepayMoves
  <2>6. ASSUME NEW r \in Reserves, NEW w \in Reserves, NEW amount \in Amounts,
               ProcessLiquidateObligation(o, r, w, amount)
        PROVE  FairStep(r) \/ (Liquidation /\ WriteOffStep(r))
    <3>1. Liquidation
      BY <2>6 DEF Liquidation
    <3> QED BY <1>1, <2>6, <3>1, AmountsPositive, LiquidateMoves
  <2> QED BY <1>5, <2>1, <2>2, <2>3, <2>4, <2>5, <2>6 DEF ObligationStep
<1>6. ASSUME NEW r \in Reserves, NEW price \in Rate, AnyPriceStep(r, price)
      PROVE  FairStep(r)
  BY <1>1, <1>3, <1>6, RefreshReserveMoves DEF AnyPriceStep
<1>7. CASE Tick \/ UNCHANGED vars
  BY <1>7 DEF Tick, vars
<1> QED BY <1>4, <1>5, <1>6, <1>7 DEF OpenNext, Next

LEMMA NothingLentNext == BooksInv /\ NothingLent /\ [OpenNext]_vars => NothingLent'
<1> SUFFICES ASSUME BooksInv, NothingLent, [OpenNext]_vars PROVE NothingLent'
  OBVIOUS
<1>1. CASE reserve' = reserve
  BY <1>1 DEF NothingLent
<1>2. ASSUME NEW r \in Reserves, FairStep(r) \/ WriteOffStep(r) PROVE NothingLent'
  BY <1>2 DEF NothingLent, FairStep, WriteOffStep
<1> QED BY <1>1, <1>2, EveryStepMoves

LEMMA NothingLentInit == Init => NothingLent
  BY DEF Init, NothingLent, UninitializedReserve

-----------------------------------------------------------------------------
(***************************************************************************)
(* Lending implements Vault.                                               *)
(***************************************************************************)
LEMMA MoveOf ==
    ASSUME NEW r \in Reserves, Fair(reserve'[r], reserve[r]) \/ WrittenOff(reserve'[r], reserve[r])
    PROVE  V!Move(r)
<1> DEFINE new == reserve'[r]
           old == reserve[r]
<1>1. V!Backing(r) = Value(old) /\ V!Backing(r)' = Value(new)
  BY DEF V!Backing, Value
<1>2. ASSUME Entered(new, old) PROVE V!Enter(r)
  BY <1>1, <1>2 DEF Entered, V!Enter
<1>3. ASSUME Redeemed(new, old) PROVE V!Leave(r)
  BY <1>1, <1>3 DEF Redeemed, V!Leave
<1>4. ASSUME LentOut(new, old) PROVE V!Lend(r)
  BY <1>4 DEF LentOut, V!Lend
<1>5. ASSUME Settled(new, old) PROVE V!Settle(r)
  BY <1>5 DEF Settled, V!Settle
<1>6. ASSUME WrittenOff(new, old) PROVE V!WriteOff(r)
  BY <1>6 DEF WrittenOff, V!WriteOff
<1>7. ASSUME Accrued(new, old) PROVE V!Accrue(r)
  BY <1>7 DEF Accrued, V!Accrue
<1> QED BY <1>2, <1>3, <1>4, <1>5, <1>6, <1>7 DEF Fair, V!Move

LEMMA VaultStep == BooksInv /\ NothingLent /\ [OpenNext]_vars => [V!VaultNext]_(V!vars)
<1> SUFFICES ASSUME BooksInv, NothingLent, [OpenNext]_vars PROVE [V!VaultNext]_(V!vars)
  OBVIOUS
<1>1. CASE reserve' = reserve
  BY <1>1 DEF V!vars
<1>2. ASSUME NEW r \in Reserves, FairStep(r) \/ WriteOffStep(r) PROVE V!VaultNext
  <2>1. V!Move(r)
    BY <1>2, MoveOf DEF FairStep, WriteOffStep
  <2>2. ASSUME NEW q \in Reserves \ {r} PROVE V!Untouched(q)
    BY <1>2, <2>2 DEF FairStep, WriteOffStep, V!Untouched
  <2> QED BY <2>1, <2>2 DEF V!VaultNext
<1> QED BY <1>1, <1>2, EveryStepMoves

LEMMA VaultStart == Init => V!VaultInit
  BY DEF Init, UninitializedReserve, V!VaultInit

(* Every instruction on any number of reserves and obligations is one of   *)
(* the vault's moves on a single reserve, or leaves all reserves' figures  *)
(* as they were: the lending program implements Vault.                     *)
THEOREM LendingImplementsVault == Spec => ImplementsVault
<1> QED BY BooksInit, BooksNext, NextIsOpen, NothingLentInit, NothingLentNext, VaultStart, VaultStep,
           PTL DEF Spec, ImplementsVault, V!VaultSpec

-----------------------------------------------------------------------------
LEMMA FairKeeps ==
    ASSUME NEW new \in ReserveRec, NEW old \in ReserveRec, Fair(new, old), old.mint_total_supply > 0
    PROVE  IF new.mint_total_supply < old.mint_total_supply
           THEN (Value(old) - Value(new)) * (old.mint_total_supply * WAD * WAD - Value(old))
                  <= (old.mint_total_supply - new.mint_total_supply) * WAD * WAD * Value(old)
           ELSE Value(new) * old.mint_total_supply >= Value(old) * new.mint_total_supply
<1> DEFINE m == old.mint_total_supply
<1>1. /\ m \in Nat /\ new.mint_total_supply \in Nat
      /\ new.available_amount \in Nat /\ old.available_amount \in Nat
      /\ new.borrowed_amount_wads \in Nat /\ old.borrowed_amount_wads \in Nat
      /\ WAD \in Nat /\ Value(new) \in Nat /\ Value(old) \in Nat
  BY ReserveNat
<1>2. CASE Entered(new, old)
  BY <1>1, <1>2 DEF Entered
<1>3. CASE Redeemed(new, old)
  <2>1. new.mint_total_supply < m
    BY <1>1, <1>3 DEF Redeemed
  <2> QED BY <1>3, <2>1 DEF Redeemed
<1>4. ASSUME new.mint_total_supply = m, Value(new) >= Value(old)
      PROVE  /\ ~(new.mint_total_supply < m)
             /\ Value(new) * m >= Value(old) * new.mint_total_supply
  <2>1. Value(old) * m <= Value(new) * m
    BY <1>1, <1>4, TimesMonotone
  <2>2. Value(old) * m \in Int /\ Value(new) * m \in Int
    BY <1>1
  <2> QED BY <1>1, <1>4, <2>1, <2>2
<1> DEFINE a == new.available_amount
           b == old.available_amount
           x == a * WAD
           y == b * WAD
<1>5. /\ x \in Nat /\ y \in Nat
      /\ Value(new) = x + new.borrowed_amount_wads
      /\ Value(old) = y + old.borrowed_amount_wads
      /\ (a - b) * WAD = x - y /\ (b - a) * WAD = y - x
  BY <1>1 DEF Value
<1>6. CASE LentOut(new, old)
  <2>1. new.borrowed_amount_wads - old.borrowed_amount_wads >= (b - a) * WAD /\ new.mint_total_supply = m
    BY <1>6 DEF LentOut
  <2>2. Value(new) >= Value(old)
    <3> HIDE DEF x, y, a, b
    <3> QED BY <1>1, <1>5, <2>1
  <2> QED BY <1>4, <2>1, <2>2
<1>7. CASE Settled(new, old)
  <2>1. old.borrowed_amount_wads - new.borrowed_amount_wads <= (a - b) * WAD /\ new.mint_total_supply = m
    BY <1>7 DEF Settled
  <2>2. Value(new) >= Value(old)
    <3> HIDE DEF x, y, a, b
    <3> QED BY <1>1, <1>5, <2>1
  <2> QED BY <1>4, <2>1, <2>2
<1>8. CASE Accrued(new, old)
  <2>1. new.borrowed_amount_wads >= old.borrowed_amount_wads /\ a = b /\ new.mint_total_supply = m
    BY <1>8 DEF Accrued
  <2>2. Value(new) >= Value(old)
    BY <1>1, <1>5, <2>1
  <2> QED BY <1>4, <2>1, <2>2
<1> QED BY <1>2, <1>3, <1>6, <1>7, <1>8 DEF Fair

LEMMA ValueKeptNext ==
    ASSUME BooksInv, BooksInv', NothingLent, [OpenNext]_vars, ~Liquidation, NEW r \in Reserves
    PROVE  ValueKept(r)
<1>1. reserve[r] \in ReserveRec /\ reserve'[r] \in ReserveRec
  BY DEF BooksInv, TypeOK
<1>2. Backing(r) = Value(reserve[r]) /\ Backing(r)' = Value(reserve'[r])
  BY DEF Backing, Value
<1>3. Fair(reserve'[r], reserve[r])
  <2>1. ASSUME reserve'[r] = reserve[r] PROVE Fair(reserve'[r], reserve[r])
    <3>1. reserve[r].borrowed_amount_wads \in Nat
      BY <1>1, ReserveNat
    <3> QED BY <2>1, <3>1 DEF Fair, Accrued
  <2>2. CASE reserve' = reserve
    BY <2>1, <2>2
  <2>3. ASSUME NEW x \in Reserves, FairStep(x) PROVE Fair(reserve'[r], reserve[r])
    BY <2>1, <2>3 DEF FairStep
  <2> QED BY <2>2, <2>3, EveryStepMoves
<1> QED BY <1>1, <1>2, <1>3, FairKeeps DEF ValueKept

(* For any number of reserves, obligations and instructions, and whatever  *)
(* is rounded: nothing but a liquidation lowers the liquidity behind a     *)
(* collateral token, except that a redemption is paid at an exchange rate  *)
(* rounded down by less than one in WAD.                                   *)
THEOREM TokenValueIsKept == Spec => TokenValueKept
<1>1. BooksInv /\ BooksInv' /\ NothingLent /\ [Next]_vars
        => [~Liquidation => \A r \in Reserves : ValueKept(r)]_vars
  BY ValueKeptNext, NextIsOpen
<1> QED BY <1>1, BooksInit, BooksNext, NextIsOpen, NothingLentInit, NothingLentNext,
           PTL DEF Spec, TokenValueKept
==============================================================================

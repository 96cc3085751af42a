---------------------------- MODULE StakedProofs ------------------------------
(***************************************************************************)
(* The two programs together, for every value of the constants and any     *)
(* number of reserves, obligations and stake accounts:                     *)
(* StakesFollowCollateral of StakedLending, that the market's authority    *)
(* keeps the right to sign where it is needed and that nothing but an      *)
(* overflow holds collateral back; and that neither program notices the    *)
(* other, so that what was proved of each alone holds of both together.    *)
(*                                                                         *)
(* On the lending side an instruction changes one collateral and one stake *)
(* by the same amount (Posted), and never together with the configuration  *)
(* that ties a reserve to its pool (StepShape).  On the staking side an    *)
(* instruction changes the deposit of one account (StakeMoved) and leaves  *)
(* the pool's keys alone, unless their holders sign (SameKeys).  StakedInv *)
(* puts them together; nothing is claimed once apart holds.                *)
(***************************************************************************)
EXTENDS StakedLending, ObligationProofs

(***************************************************************************)
(* The stake accounts.                                                     *)
(***************************************************************************)

LEMMA SameU64 == SP!U64 = U64
  BY DEF SP!U64, U64

(* The deposit of stake account a changes by d, that of no other account.  *)
StakeMoved(a, d) ==
    /\ account' \in [Accounts -> SP!AccountRec]
    /\ account'[a].deposited_amount = account[a].deposited_amount + d
    /\ \A b \in Accounts \ {a} : account'[b] = account[b]

LEMMA DepositTotal ==
    ASSUME NEW acc \in SP!AccountRec
    PROVE  acc.deposited_amount \in U64 /\ acc.deposited_amount \in Int
<1>1. acc.deposited_amount \in U64
  BY SameU64 DEF SP!AccountRec
<1> QED BY <1>1, WadAssumption DEF U64

LEMMA AccruedAccount ==
    ASSUME NEW acc, NEW cumulative, NEW new \in SP!AccrueReward(acc, cumulative)
    PROVE  \E unclaimed : new = [acc EXCEPT !.unclaimed_reward_wads = unclaimed, !.start_rate = cumulative]
<1>1. PICK earned \in SP!CalculateReward(acc, cumulative) :
         new \in {[acc EXCEPT !.unclaimed_reward_wads = unclaimed, !.start_rate = cumulative] :
                  unclaimed \in SP!ForEachKind([k \in SP!Kind |-> SP!TryAdd(acc.unclaimed_reward_wads[k], earned[k])])}
  BY DEF SP!AccrueReward
<1> QED BY <1>1

LEMMA AccruedDeposit ==
    ASSUME NEW acc \in SP!AccountRec, NEW cumulative, NEW new \in SP!AccrueReward(acc, cumulative)
    PROVE  /\ new.deposited_amount = acc.deposited_amount
           /\ \A total : [new EXCEPT !.deposited_amount = total].deposited_amount = total
           /\ \A unclaimed : [new EXCEPT !.unclaimed_reward_wads = unclaimed].deposited_amount = acc.deposited_amount
<1>1. PICK unclaimed : new = [acc EXCEPT !.unclaimed_reward_wads = unclaimed, !.start_rate = cumulative]
  BY AccruedAccount
<1> QED BY <1>1 DEF SP!AccountRec

LEMMA DepositMoves ==
    ASSUME account \in [Accounts -> SP!AccountRec], NEW a \in Accounts, NEW amount, NEW signer,
           SP!ProcessDeposit(a, amount, signer)
    PROVE  StakeMoved(a, amount)
<1>1. PICK cumulative, acc :
         acc \in SP!AccountDeposit(account[a], cumulative, amount) /\ SP!SaveAccount(a, acc)
  BY DEF SP!ProcessDeposit
<1>2. account' = [account EXCEPT ![a] = acc] /\ acc \in SP!AccountRec
  BY <1>1 DEF SP!SaveAccount, SP!PackAccount
<1>3. PICK new \in SP!AccrueReward(account[a], cumulative) :
         \E total \in SP!CheckedAdd(new.deposited_amount, amount) : acc = [new EXCEPT !.deposited_amount = total]
  BY <1>1 DEF SP!AccountDeposit
<1>4. acc.deposited_amount = account[a].deposited_amount + amount
  BY <1>3, AccruedDeposit DEF SP!CheckedAdd
<1> QED BY <1>2, <1>4 DEF StakeMoved

LEMMA WithdrawMoves ==
    ASSUME account \in [Accounts -> SP!AccountRec], NEW a \in Accounts, NEW amount \in Int, NEW signer,
           SP!ProcessWithdraw(a, amount, signer)
    PROVE  StakeMoved(a, -amount)
<1>1. PICK cumulative, acc :
         acc \in SP!AccountWithdraw(account[a], cumulative, amount) /\ SP!SaveAccount(a, acc)
  BY DEF SP!ProcessWithdraw
<1>2. account' = [account EXCEPT ![a] = acc] /\ acc \in SP!AccountRec
  BY <1>1 DEF SP!SaveAccount, SP!PackAccount
<1>3. PICK new \in SP!AccrueReward(account[a], cumulative) :
         \E left \in SP!CheckedSub(new.deposited_amount, amount) : acc = [new EXCEPT !.deposited_amount = left]
  BY <1>1 DEF SP!AccountWithdraw
<1>4. acc.deposited_amount = account[a].deposited_amount - amount
  BY <1>3, AccruedDeposit DEF SP!CheckedSub
<1>5. account[a].deposited_amount - amount = account[a].deposited_amount + (-amount)
  BY DepositTotal
<1> QED BY <1>2, <1>4, <1>5 DEF StakeMoved

(* Creating an account and claiming from it move no stake. *)
LEMMA ClaimMoves ==
    ASSUME account \in [Accounts -> SP!AccountRec], NEW a \in Accounts,
           SP!ProcessCreateStakeAccount(a) \/ SP!ProcessClaimReward(a)
    PROVE  StakeMoved(a, 0)
<1>1. account[a].deposited_amount + 0 = account[a].deposited_amount
  BY DepositTotal
<1>2. CASE SP!ProcessCreateStakeAccount(a)
  <2>1. account' = [account EXCEPT ![a] = [account[a] EXCEPT !.initialized = TRUE]]
    BY <1>2 DEF SP!ProcessCreateStakeAccount, SP!SaveAccount, SP!PackAccount
  <2>2. [account[a] EXCEPT !.initialized = TRUE] \in SP!AccountRec
    BY DEF SP!AccountRec
  <2>3. [account[a] EXCEPT !.initialized = TRUE].deposited_amount = account[a].deposited_amount
    BY DEF SP!AccountRec
  <2> QED BY <1>1, <2>1, <2>2, <2>3 DEF StakeMoved
<1>3. CASE SP!ProcessClaimReward(a)
  <2>1. PICK cumulative, c :
           c \in SP!AccountClaim(account[a], cumulative) /\ SP!SaveAccount(a, c.account)
    BY <1>3 DEF SP!ProcessClaimReward
  <2>2. account' = [account EXCEPT ![a] = c.account] /\ c.account \in SP!AccountRec
    BY <2>1 DEF SP!SaveAccount, SP!PackAccount
  <2> DEFINE Left(new, paid) == [k \in SP!Kind |-> new.unclaimed_reward_wads[k] - SP!FromU64(paid[k])]
             Paid(new) == SP!ForEachKind([k \in SP!Kind |-> SP!TryFloorU64(new.unclaimed_reward_wads[k])])
  <2>3. PICK new \in SP!AccrueReward(account[a], cumulative) :
          c \in {[account |-> [new EXCEPT !.unclaimed_reward_wads = Left(new, paid)], paid |-> paid] :
                 paid \in Paid(new)}
    BY <2>1 DEF SP!AccountClaim
  <2> HIDE DEF Left, Paid
  <2>4. PICK paid : c.account = [new EXCEPT !.unclaimed_reward_wads = Left(new, paid)]
    BY <2>3
  <2>5. c.account.deposited_amount = account[a].deposited_amount
    BY <2>4, AccruedDeposit
  <2> QED BY <1>1, <2>2, <2>5 DEF StakeMoved
<1> QED BY <1>2, <1>3

(* The sum over an owner's accounts follows. *)
LEMMA AccountsFinite ==
    ASSUME NEW o
    PROVE  IsFiniteSet(AccountsOf(o))
<1>1. AccountsOf(o) \subseteq Accounts
  BY DEF AccountsOf
<1> QED BY <1>1, StakedLendingAssumption, FS_Subset

LEMMA ImageMoves ==
    ASSUME account \in [Accounts -> SP!AccountRec],
           NEW a \in Accounts, NEW d \in Int, StakeMoved(a, d),
           NEW o \in Obligations, NEW p \in StakingPools
    PROVE  /\ StakeImage[o][p] \in Int
           /\ StakeImage'[o][p] = IF OwnerOf[a] = o THEN StakeImage[o][p] + d ELSE StakeImage[o][p]
<1> DEFINE S == AccountsOf(o)
           f == [b \in S |-> account[b].deposited_amount]
           g == [b \in S |-> account'[b].deposited_amount]
<1>1. f \in [S -> Int] /\ g \in [S -> Int]
  <2>1. \A b \in Accounts : account[b].deposited_amount \in Int /\ account'[b].deposited_amount \in Int
    BY DepositTotal DEF StakeMoved
  <2> QED BY <2>1 DEF AccountsOf
<1>2. StakeImage[o][p] = SumFunction(f) /\ StakeImage'[o][p] = SumFunction(g)
  BY DEF StakeImage, AccountsOf
<1>3. IsFiniteSet(S)
  BY AccountsFinite
<1>4. CASE OwnerOf[a] = o
  <2>1. a \in S
    BY <1>4 DEF AccountsOf
  <2>2. g[a] = f[a] + d /\ f[a] \in Int /\ \A x \in S \ {a} : g[x] = f[x]
    BY <1>1, <2>1 DEF StakeMoved, AccountsOf
  <2> HIDE DEF S, f, g
  <2>3. SumFunction(f) \in Int /\ SumFunction(g) = SumFunction(f) - f[a] + g[a]
    BY <1>1, <1>3, <2>1, <2>2, SumChanged
  <2> QED BY <1>2, <1>4, <2>2, <2>3
<1>5. CASE OwnerOf[a] # o
  <2>1. g = f
    BY <1>5 DEF StakeMoved, AccountsOf
  <2>2. SumFunction(f) \in Int
    <3>1. f \in [S -> Nat]
      <4>1. \A b \in Accounts : account[b].deposited_amount \in Nat
        BY DepositTotal, WadAssumption DEF U64
      <4> QED BY <4>1 DEF AccountsOf
    <3> HIDE DEF S, f
    <3> QED BY <1>3, <3>1, SumAtLeast
  <2> QED BY <1>2, <1>5, <2>1, <2>2
<1> QED BY <1>4, <1>5

-----------------------------------------------------------------------------
(***************************************************************************)
(* The pool's owner and admin.                                             *)
(***************************************************************************)
PoolFields == {"initialized", "last_update", "end_time", "duration", "earliest_reward_claim_time",
               "rate_per_slot", "cumulative_rate", "pool_size", "has_sub", "owner_authority", "admin_authority"}

Keyed(p) == p = [f \in PoolFields |-> p[f]]

SameKeys(q, p) ==
    /\ Keyed(q)
    /\ q.initialized = p.initialized
    /\ q.owner_authority = p.owner_authority
    /\ q.admin_authority = p.admin_authority

LEMMA PoolKeyed == \A p \in SP!PoolRec : SameKeys(p, p)
  BY DEF SP!PoolRec, Keyed, PoolFields, SameKeys

(* Other fields may be set. *)
LEMMA SetKeeps ==
    ASSUME NEW p, Keyed(p), NEW x, NEW y
    PROVE  /\ SameKeys([p EXCEPT !.last_update = x, !.cumulative_rate = y], p)
           /\ SameKeys([p EXCEPT !.end_time = x, !.last_update = y], p)
           /\ SameKeys([p EXCEPT !.pool_size = x], p)
           /\ SameKeys([p EXCEPT !.rate_per_slot = x], p)
           /\ SameKeys([p EXCEPT !.duration = x, !.rate_per_slot = y], p)
  BY DEF Keyed, PoolFields, SameKeys

LEMMA ClaimKeepsKeys ==
    ASSUME NEW p, Keyed(p), NEW now, NEW q \in SP!ClaimRewardHelper(p, now)
    PROVE  SameKeys(q, p)
<1>1. PICK mark, cumulative : q = [p EXCEPT !.last_update = mark, !.cumulative_rate = cumulative]
  BY DEF SP!ClaimRewardHelper
<1> QED BY <1>1, SetKeeps

LEMMA SizeKeepsKeys ==
    ASSUME NEW p, Keyed(p), NEW now, NEW amount, NEW q
    PROVE  /\ q \in SP!PoolDeposit(p, now, amount) => SameKeys(q, p)
           /\ q \in SP!PoolWithdraw(p, now, amount) => SameKeys(q, p)
<1>1. ASSUME NEW m \in SP!StartEmission(p, now) PROVE SameKeys(m, p)
  <2>1. PICK e : m = [p EXCEPT !.end_time = e, !.last_update = now]
    BY DEF SP!StartEmission
  <2> QED BY <2>1, SetKeeps
<1>2. ASSUME q \in SP!PoolDeposit(p, now, amount) PROVE SameKeys(q, p)
  <2>1. PICK m, size : /\ m \in SP!StartEmission(p, now) \cup SP!ClaimRewardHelper(p, now)
                       /\ q = [m EXCEPT !.pool_size = size]
    BY <1>2 DEF SP!PoolDeposit
  <2>2. SameKeys(m, p)
    BY <1>1, <2>1, ClaimKeepsKeys
  <2>3. SameKeys(q, m)
    BY <2>1, <2>2, SetKeeps DEF SameKeys
  <2> QED BY <2>2, <2>3 DEF SameKeys
<1>3. ASSUME q \in SP!PoolWithdraw(p, now, amount) PROVE SameKeys(q, p)
  <2>1. PICK m, size : /\ m \in SP!ClaimRewardHelper(p, now)
                       /\ q = [m EXCEPT !.pool_size = size]
    BY <1>3 DEF SP!PoolWithdraw
  <2>2. SameKeys(m, p)
    BY <2>1, ClaimKeepsKeys
  <2>3. SameKeys(q, m)
    BY <2>1, <2>2, SetKeeps DEF SameKeys
  <2> QED BY <2>2, <2>3 DEF SameKeys
<1> QED BY <1>2, <1>3

LEMMA UpdateKeepsKeys ==
    ASSUME NEW p, Keyed(p), NEW now, NEW change, NEW q \in SP!UpdateRewardSupply(p, change, now)
    PROVE  SameKeys(q, p)
<1>1. PICK m, rate : m \in SP!ClaimRewardHelper(p, now) /\ q = [m EXCEPT !.rate_per_slot = rate]
  BY DEF SP!UpdateRewardSupply
<1>2. SameKeys(m, p)
  BY <1>1, ClaimKeepsKeys
<1>3. SameKeys(q, m)
  BY <1>1, <1>2, SetKeeps DEF SameKeys
<1> QED BY <1>2, <1>3 DEF SameKeys

LEMMA AddSubKeepsKeys ==
    ASSUME NEW p, Keyed(p), NEW now, NEW amount, NEW q \in SP!AddSubReward(p, amount, now)
    PROVE  SameKeys(q, p)
<1> DEFINE New(m, t) == {[m EXCEPT !.has_sub = TRUE, !.cumulative_rate["sub_reward"] = 0,
                                   !.rate_per_slot["sub_reward"] = rate] :
                         rate \in SP!TryDivU64(SP!FromU64(amount), t)}
<1>1. PICK t \in (IF p.has_sub THEN {} ELSE SP!CheckedSub(p.end_time, now)) :
        q \in UNION {New(m, t) : m \in SP!ClaimRewardHelper(p, now)}
  BY DEF SP!AddSubReward
<1>2. PICK m \in SP!ClaimRewardHelper(p, now) : q \in New(m, t)
  BY <1>1
<1>3. PICK rate : q = [m EXCEPT !.has_sub = TRUE, !.cumulative_rate["sub_reward"] = 0,
                                !.rate_per_slot["sub_reward"] = rate]
  BY <1>2
<1>4. SameKeys(m, p)
  BY <1>2, ClaimKeepsKeys
<1>5. SameKeys(q, m)
  BY <1>3, <1>4 DEF SameKeys, Keyed, PoolFields
<1> QED BY <1>4, <1>5 DEF SameKeys

LEMMA ExtendKeepsKeys ==
    ASSUME NEW p, Keyed(p), NEW now, NEW extend, NEW q \in SP!ExtendDuration(p, extend, now)
    PROVE  SameKeys(q, p)
<1>1. CASE q \in SP!ExtendBeforeStart(p, extend)
  <2> DEFINE Res(k, d) == UNION {SP!RateOver(k, supply, d) :
                                 supply \in SP!RateTimes(k, p.rate_per_slot[k], p.duration)}
             New(d) == {[p EXCEPT !.duration = d, !.rate_per_slot = rate] :
                        rate \in SP!ForEachKind([k \in SP!Kind |-> Res(k, d)])}
  <2>1. SP!ExtendBeforeStart(p, extend) =
          UNION {New(d) : d \in IF extend < 0 THEN {} ELSE SP!CheckedAdd(p.duration, extend)}
    BY DEF SP!ExtendBeforeStart
  <2>2. PICK d : q \in New(d)
    <3> HIDE DEF New
    <3> QED BY <1>1, <2>1
  <2>3. PICK rate : q = [p EXCEPT !.duration = d, !.rate_per_slot = rate]
    <3> HIDE DEF Res
    <3> QED BY <2>2
  <2> QED BY <2>3, SetKeeps
<1>2. ASSUME NEW m \in SP!ClaimRewardHelper(p, now),
             q \in SP!ExtendRunning(m, extend, now) \/ q = SP!Extended(m, extend)
      PROVE  SameKeys(q, p)
  <2>1. SameKeys(m, p)
    BY ClaimKeepsKeys
  <2>2. SameKeys(SP!Extended(m, extend), m)
    <3>1. Keyed(m)
      BY <2>1 DEF SameKeys
    <3>2. PICK x, y, z : SP!Extended(m, extend) = [m EXCEPT !.end_time = x, !.duration = y, !.rate_per_slot = z]
      BY DEF SP!Extended
    <3> QED BY <3>1, <3>2 DEF SameKeys, Keyed, PoolFields
  <2>3. CASE q \in SP!ExtendRunning(m, extend, now)
    <3>1. PICK left : q \in SP!UpdateRewardSupply(SP!Extended(m, extend), left, now)
      BY <2>3 DEF SP!ExtendRunning
    <3>2. SameKeys(q, SP!Extended(m, extend))
      BY <2>2, <3>1, UpdateKeepsKeys DEF SameKeys
    <3> QED BY <2>1, <2>2, <3>2 DEF SameKeys
  <2>4. CASE q = SP!Extended(m, extend)
    BY <2>1, <2>2, <2>4 DEF SameKeys
  <2> QED BY <1>2, <2>3, <2>4
<1> QED BY <1>1, <1>2 DEF SP!ExtendDuration

(* The market's authority may sign for a pool that is in use. *)
Held == pool.initialized /\ SP!MaySign(Authority)

LEMMA SavedKeys ==
    ASSUME NEW q, SP!SavePool(q), SameKeys(q, pool)
    PROVE  pool' \in SP!PoolRec /\ (Held => Held')
<1>1. pool' = q /\ q \in SP!PoolRec
  BY DEF SP!SavePool, SP!PackPool
<1> QED BY <1>1 DEF SameKeys, Held, SP!MaySign

LEMMA AccountStepKeys ==
    ASSUME pool \in SP!PoolRec, NEW a, NEW amount, NEW signer,
           \/ SP!ProcessDeposit(a, amount, signer)
           \/ SP!ProcessWithdraw(a, amount, signer)
           \/ SP!ProcessCreateStakeAccount(a)
           \/ SP!ProcessClaimReward(a)
    PROVE  pool' \in SP!PoolRec /\ (Held => Held')
<1>0. Keyed(pool)
  BY PoolKeyed DEF SameKeys
<1>1. CASE SP!ProcessDeposit(a, amount, signer)
  <2>1. PICK q \in SP!PoolDeposit(pool, slot, amount) : SP!SavePool(q)
    BY <1>1 DEF SP!ProcessDeposit
  <2> QED BY <1>0, <2>1, SizeKeepsKeys, SavedKeys
<1>2. CASE SP!ProcessWithdraw(a, amount, signer)
  <2>1. PICK q \in SP!PoolWithdraw(pool, slot, amount) : SP!SavePool(q)
    BY <1>2 DEF SP!ProcessWithdraw
  <2> QED BY <1>0, <2>1, SizeKeepsKeys, SavedKeys
<1>3. CASE SP!ProcessCreateStakeAccount(a)
  BY <1>3 DEF SP!ProcessCreateStakeAccount, Held, SP!MaySign
<1>4. CASE SP!ProcessClaimReward(a)
  <2>1. PICK q \in SP!ClaimRewardHelper(pool, slot) : SP!SavePool(q)
    BY <1>4 DEF SP!ProcessClaimReward
  <2> QED BY <1>0, <2>1, ClaimKeepsKeys, SavedKeys
<1> QED BY <1>1, <1>2, <1>3, <1>4

(* Nobody but the authority can take its right to sign away.               *)
LEMMA PoolStepKeys ==
    ASSUME pool \in SP!PoolRec, NEW signer, signer # Authority, SP!PoolStep(signer)
    PROVE  pool' \in SP!PoolRec /\ (Held => Held') /\ account' = account
<1>0. Keyed(pool)
  BY PoolKeyed DEF SameKeys
<1>1. ASSUME NEW time, SP!ProcessUpdateEarliestRewardClaimTime(time, signer)
      PROVE  pool' \in SP!PoolRec /\ (Held => Held') /\ account' = account
  <2>1. SameKeys([pool EXCEPT !.earliest_reward_claim_time = time], pool)
    BY <1>0 DEF SameKeys, Keyed, PoolFields
  <2> QED BY <1>1, <2>1, SavedKeys DEF SP!ProcessUpdateEarliestRewardClaimTime
<1>2. ASSUME NEW amount, NEW sub_amount, SP!ProcessChangeRewardSupply(amount, sub_amount, signer)
      PROVE  pool' \in SP!PoolRec /\ (Held => Held') /\ account' = account
  <2>1. PICK q \in SP!UpdateRewardSupply(pool, SP!Pair(amount, sub_amount), slot) : SP!SavePool(q)
    BY <1>2 DEF SP!ProcessChangeRewardSupply
  <2>2. account' = account
    BY <1>2 DEF SP!ProcessChangeRewardSupply
  <2> QED BY <1>0, <2>1, <2>2, UpdateKeepsKeys, SavedKeys
<1>3. ASSUME NEW extend, SP!ProcessChangeDuration(extend, signer)
      PROVE  pool' \in SP!PoolRec /\ (Held => Held') /\ account' = account
  <2>1. PICK q \in SP!ExtendDuration(pool, extend, slot) : SP!SavePool(q)
    BY <1>3 DEF SP!ProcessChangeDuration
  <2>2. account' = account
    BY <1>3 DEF SP!ProcessChangeDuration
  <2> QED BY <1>0, <2>1, <2>2, ExtendKeepsKeys, SavedKeys
<1>4. ASSUME NEW amount, SP!ProcessAddSubRewardPool(amount, signer)
      PROVE  pool' \in SP!PoolRec /\ (Held => Held') /\ account' = account
  <2>1. PICK q \in SP!AddSubReward(pool, amount, slot) : SP!SavePool(q)
    BY <1>4 DEF SP!ProcessAddSubRewardPool
  <2>2. account' = account
    BY <1>4 DEF SP!ProcessAddSubRewardPool
  <2> QED BY <1>0, <2>1, <2>2, AddSubKeepsKeys, SavedKeys
<1>5. ASSUME NEW key, SP!ProcessChangeOwner(signer, key)
      PROVE  pool' \in SP!PoolRec /\ (Held => Held') /\ account' = account
  <2>1. pool' = [pool EXCEPT !.owner_authority = key] /\ pool' \in SP!PoolRec
    BY <1>5 DEF SP!ProcessChangeOwner, SP!SavePool, SP!PackPool
  <2>2. signer = pool.owner_authority /\ account' = account
    BY <1>5 DEF SP!ProcessChangeOwner
  <2>3. pool'.initialized = pool.initialized /\ pool'.admin_authority = pool.admin_authority
    BY <2>1 DEF SP!PoolRec
  <2> QED BY <2>1, <2>2, <2>3 DEF Held, SP!MaySign
<1>6. ASSUME NEW key, SP!ProcessChangeAdmin(signer, key)
      PROVE  pool' \in SP!PoolRec /\ (Held => Held') /\ account' = account
  <2>1. pool' = [pool EXCEPT !.admin_authority = key] /\ pool' \in SP!PoolRec
    BY <1>6 DEF SP!ProcessChangeAdmin, SP!SavePool, SP!PackPool
  <2>2. signer = pool.admin_authority /\ account' = account
    BY <1>6 DEF SP!ProcessChangeAdmin
  <2>3. pool'.initialized = pool.initialized /\ pool'.owner_authority = pool.owner_authority
    BY <2>1 DEF SP!PoolRec
  <2> QED BY <2>1, <2>2, <2>3 DEF Held, SP!MaySign
<1> QED BY <1>1, <1>2, <1>3, <1>4, <1>5, <1>6 DEF SP!PoolStep

LEMMA InitPoolKeys ==
    ASSUME pool \in SP!PoolRec, NEW supply, NEW sub_supply, NEW duration, NEW time, NEW owner, NEW admin,
           SP!ProcessInitStakingPool(supply, sub_supply, duration, time, owner, admin)
    PROVE  pool' \in SP!PoolRec /\ ~Held /\ account' = account
  BY DEF SP!ProcessInitStakingPool, SP!SavePool, SP!PackPool, Held

-----------------------------------------------------------------------------
(***************************************************************************)
(* The instructions of Lending and the pools of the reserves.              *)
(***************************************************************************)

(* An instruction that moves collateral leaves the configurations alone.   *)
LEMMA StepShape ==
    ASSUME TypeOK, Next
    PROVE  \/ Unposted
           \/ ConfigsKept /\ \E o \in Obligations : ProcessInitObligation(o) \/ ProcessRefreshObligation(o)
           \/ ConfigsKept /\ \E o \in Obligations, w \in Reserves, d \in Int : Posted(o, w, d)
<1>1. Amounts \subseteq U64
  BY LendingAssumption
<1>2. ASSUME NEW r \in Reserves, ReserveStep(r) PROVE Unposted
  BY <1>2 DEF ReserveStep, Unposted, ProcessInitReserve, ProcessRefreshReserve,
       ProcessDepositReserveLiquidity, ProcessRedeemReserveCollateral, ProcessFlashLoan,
       ProcessUpdateReserve, ProcessWithdrawFee
<1>3. ASSUME NEW o \in Obligations, ObligationStep(o)
      PROVE  /\ ConfigsKept
             /\ \/ ProcessInitObligation(o) \/ ProcessRefreshObligation(o)
                \/ \E w \in Reserves, d \in Int : Posted(o, w, d)
  <2>1. ASSUME NEW r \in Reserves, NEW w \in Reserves, NEW amount \in U64,
               \/ ProcessDepositObligationCollateral(o, r, amount)
               \/ ProcessDepositReserveLiquidityAndObligationCollateral(o, r, amount)
               \/ ProcessWithdrawObligationCollateral(o, r, amount)
               \/ ProcessBorrowObligationLiquidity(o, r, amount)
               \/ ProcessRepayObligationLiquidity(o, r, amount)
               \/ ProcessLiquidateObligation(o, r, w, amount)
        PROVE  ConfigsKept /\ \E x \in Reserves, d \in Int : Posted(o, x, d)
    <3>1. ConfigsKept
      BY <2>1, DepositCollateralKept, DepositBothKept, BorrowKept, RepayKept
    <3> QED BY <2>1, <3>1, PostsOf
  <2>2. ASSUME ProcessInitObligation(o) \/ ProcessRefreshObligation(o) PROVE ConfigsKept
    BY <2>2 DEF ProcessInitObligation, ProcessRefreshObligation, ConfigsKept
  <2> QED BY <1>1, <1>3, <2>1, <2>2 DEF ObligationStep
<1>4. CASE Tick
  BY <1>4 DEF Tick, Unposted
<1> QED BY <1>2, <1>3, <1>4 DEF Next

(* What an owner's collateral in the reserves tied to pool p amounts to.   *)
Stakes(res, ob, p) ==
    [r \in Reserves |-> IF res[r].config.deposit_staking_pool = p
                        THEN ob.deposits[r].deposited_amount ELSE 0]

LEMMA StakesTyped ==
    ASSUME NEW res, NEW ob \in ObligationRec, NEW p
    PROVE  /\ Stakes(res, ob, p) \in [Reserves -> Nat]
           /\ Stakes(res, ob, p) \in [Reserves -> Int]
<1>1. \A r \in Reserves : ob.deposits[r].deposited_amount \in Nat
  BY DepositTyped
<1> QED BY <1>1 DEF Stakes

LEMMA StakesSum ==
    ASSUME NEW res, NEW ob \in ObligationRec, NEW p
    PROVE  SumFunction([r \in {r \in Reserves : res[r].config.deposit_staking_pool = p} |->
                          ob.deposits[r].deposited_amount])
             = SumFunction(Stakes(res, ob, p))
<1> DEFINE T == {r \in Reserves : res[r].config.deposit_staking_pool = p}
           g == Stakes(res, ob, p)
<1>1. T \in SUBSET Reserves /\ IsFiniteSet(Reserves)
  BY ObligationAssumption
<1>2. g \in [Reserves -> Int]
  BY StakesTyped
<1>3. \A r \in Reserves \ T : g[r] = 0
  BY DEF Stakes
<1>4. [r \in T |-> ob.deposits[r].deposited_amount] = [r \in T |-> g[r]]
  BY DEF Stakes
<1>5. SumFunction([r \in T |-> g[r]]) = SumFunction(g)
  <2> HIDE DEF T, g
  <2> QED BY <1>1, <1>2, <1>3, SumPadded
<1> QED BY <1>4, <1>5

LEMMA MatchesIs ==
    ASSUME TypeOK
    PROVE  StakeMatchesCollateral <=>
             \A o \in Obligations, p \in StakingPools :
                stake[o][p] = SumFunction(Stakes(reserve, obligation[o], p))
<1>1. ASSUME NEW o \in Obligations, NEW p \in StakingPools
      PROVE  SumFunction([r \in {r \in Reserves : reserve[r].config.deposit_staking_pool = p} |->
                            obligation[o].deposits[r].deposited_amount])
               = SumFunction(Stakes(reserve, obligation[o], p))
  <2>1. obligation[o] \in ObligationRec
    BY DEF TypeOK
  <2> QED BY <2>1, StakesSum
<1> QED BY <1>1, Zenon DEF StakeMatchesCollateral

LEMMA MatchesIsNext ==
    ASSUME TypeOK'
    PROVE  StakeMatchesCollateral' <=>
             \A o \in Obligations, p \in StakingPools :
                stake'[o][p] = SumFunction(Stakes(reserve', obligation'[o], p))
<1>1. ASSUME NEW o \in Obligations, NEW p \in StakingPools
      PROVE  SumFunction([r \in {r \in Reserves : reserve'[r].config.deposit_staking_pool = p} |->
                            obligation'[o].deposits[r].deposited_amount])
               = SumFunction(Stakes(reserve', obligation'[o], p))
  <2>1. obligation'[o] \in ObligationRec
    BY DEF TypeOK
  <2> QED BY <2>1, StakesSum
<1> QED BY <1>1, Zenon DEF StakeMatchesCollateral

(* Nothing is posted, and no reserve with collateral changes its pool. *)
LEMMA UnpostedMatches ==
    ASSUME TypeOK, TypeOK', StakeMatchesCollateral, UNCHANGED stake, ~PoolSwitched,
           \A o \in Obligations, r \in Reserves :
              obligation'[o].deposits[r].deposited_amount = obligation[o].deposits[r].deposited_amount
    PROVE  StakeMatchesCollateral'
<1>1. ASSUME NEW o \in Obligations, NEW p \in StakingPools
      PROVE  Stakes(reserve', obligation'[o], p) = Stakes(reserve, obligation[o], p)
  <2>1. ASSUME NEW r \in Reserves
        PROVE  Stakes(reserve', obligation'[o], p)[r] = Stakes(reserve, obligation[o], p)[r]
    <3>1. obligation[o].deposits[r].deposited_amount \in Nat
      BY DepositTyped DEF TypeOK
    <3>2. \/ reserve'[r].config.deposit_staking_pool = reserve[r].config.deposit_staking_pool
          \/ obligation[o].deposits[r].deposited_amount = 0
      BY <3>1 DEF PoolSwitched
    <3> QED BY <3>2 DEF Stakes
  <2> QED BY <2>1 DEF Stakes
<1> QED BY <1>1, MatchesIs, MatchesIsNext

LEMMA PostedMatches ==
    ASSUME TypeOK, TypeOK', StakeMatchesCollateral, ConfigsKept,
           NEW o \in Obligations, NEW w \in Reserves, NEW d \in Int, Posted(o, w, d)
    PROVE  StakeMatchesCollateral'
<1> SUFFICES ASSUME NEW x \in Obligations, NEW p \in StakingPools
             PROVE  stake'[x][p] = SumFunction(Stakes(reserve', obligation'[x], p))
  BY MatchesIsNext
<1> DEFINE f == Stakes(reserve, obligation[x], p)
           g == Stakes(reserve', obligation'[x], p)
           q == reserve[w].config.deposit_staking_pool
<1>1. f \in [Reserves -> Int] /\ g \in [Reserves -> Int]
  BY StakesTyped DEF TypeOK
<1>2. stake[x][p] = SumFunction(f) /\ stake[x][p] \in Int
  <2>1. stake[x][p] \in Int
    BY WadAssumption DEF TypeOK, U64
  <2> QED BY <2>1, MatchesIs
<1>3. stake'[x][p] = IF x = o /\ p = q THEN stake[x][p] + d ELSE stake[x][p]
  <2>1. NoPool # p
    BY ReserveAssumption
  <2>2. stake \in [Obligations -> [StakingPools -> U64]]
    BY DEF TypeOK
  <2>3. stake' = IF q = NoPool THEN stake ELSE [stake EXCEPT ![o][q] = @ + d]
    BY DEF Posted, Restaked
  <2> HIDE DEF q
  <2> QED BY <2>1, <2>2, <2>3
<1>4. \A r \in Reserves \ {w} : g[r] = f[r]
  BY DEF Posted, Changed, ConfigsKept, Stakes
<1>5. g[w] = IF x = o /\ p = q THEN f[w] + d ELSE f[w]
  BY DEF Posted, Changed, ConfigsKept, Stakes
<1>6. IsFiniteSet(Reserves) /\ f[w] \in Int
  BY <1>1, ObligationAssumption
<1> HIDE DEF f, g, q
<1>7. SumFunction(f) \in Int /\ SumFunction(g) = SumFunction(f) - f[w] + g[w]
  BY <1>1, <1>4, <1>6, SumChanged
<1>8. stake'[x][p] = SumFunction(g)
  BY <1>2, <1>3, <1>5, <1>6, <1>7
<1> QED BY <1>8 DEF g

LEMMA MatchesNext ==
    ASSUME TypeOK, TypeOK', Blank, StakeMatchesCollateral, Next, ~PoolSwitched
    PROVE  StakeMatchesCollateral'
<1>1. CASE Unposted
  BY <1>1, UnpostedMatches DEF Unposted
<1>2. ASSUME NEW o \in Obligations, ProcessInitObligation(o) PROVE StakeMatchesCollateral'
  <2>1. obligation' = [obligation EXCEPT ![o] = EmptyObligation(TRUE, slot)]
    BY <1>2 DEF ProcessInitObligation, SaveObligation, PackObligation
  <2>2. ~obligation[o].initialized /\ UNCHANGED stake
    BY <1>2 DEF ProcessInitObligation
  <2>3. /\ \A r \in Reserves : obligation'[o].deposits[r].deposited_amount = 0
        /\ \A p \in Obligations \ {o} : obligation'[p] = obligation[p]
    BY <2>1 DEF TypeOK, EmptyObligation, NoCollateral
  <2>4. \A p \in Obligations, r \in Reserves :
           obligation'[p].deposits[r].deposited_amount = obligation[p].deposits[r].deposited_amount
    BY <2>2, <2>3 DEF Blank
  <2> QED BY <2>2, <2>4, UnpostedMatches
<1>3. ASSUME NEW o \in Obligations, ProcessRefreshObligation(o) PROVE StakeMatchesCollateral'
  <2>1. ASSUME NEW p \in Obligations, NEW r \in Reserves
        PROVE  obligation'[p].deposits[r].deposited_amount = obligation[p].deposits[r].deposited_amount
    <3>1. Posted(o, r, 0)
      BY <1>3, RefreshPosts
    <3>2. obligation[p].deposits[r].deposited_amount \in Nat
      BY DepositTyped DEF TypeOK
    <3>3. obligation[p].deposits[r].deposited_amount + 0 = obligation[p].deposits[r].deposited_amount
      BY <3>2
    <3> QED BY <3>1, <3>3 DEF Posted, Changed
  <2>2. UNCHANGED stake
    BY <1>3 DEF ProcessRefreshObligation
  <2> QED BY <2>1, <2>2, UnpostedMatches
<1>4. ASSUME NEW o \in Obligations, NEW w \in Reserves, NEW d \in Int, Posted(o, w, d), ConfigsKept
      PROVE  StakeMatchesCollateral'
  BY <1>4, PostedMatches
<1> QED BY <1>1, <1>2, <1>3, <1>4, StepShape

-----------------------------------------------------------------------------
(***************************************************************************)
(* Both programs together.                                                 *)
(***************************************************************************)
StakeSigned == \A o \in Obligations, p \in StakingPools : stake[o][p] > 0 => Held

StakedInv ==
    /\ apart \in BOOLEAN
    /\ account \in [Accounts -> SP!AccountRec]
    /\ pool \in SP!PoolRec
    /\ ~apart => /\ BooksInv
                 /\ CollateralInv
                 /\ stake = StakeImage
                 /\ StakeMatchesCollateral
                 /\ StakeSigned

(* A call of the staking program moves the accounts as Lending moves the   *)
(* stake.                                                                  *)
LEMMA CallFollows ==
    ASSUME TypeOK, TypeOK', account \in [Accounts -> SP!AccountRec], stake = StakeImage,
           NEW o \in Obligations, NEW p \in StakingPools, NEW d \in Int,
           stake' = [stake EXCEPT ![o][p] = @ + d],
           NEW x \in Obligations, NEW q \in StakingPools, StakingCall(x, q)
    PROVE  stake' = StakeImage' /\ account' \in [Accounts -> SP!AccountRec]
<1>1. StakingPools = {p} /\ q = p
  BY StakedLendingAssumption
<1>2. /\ \A y \in Obligations : stake[y][p] \in Int
      /\ stake \in [Obligations -> [StakingPools -> U64]] /\ stake' \in [Obligations -> [StakingPools -> U64]]
  BY WadAssumption DEF TypeOK, U64
<1>3. /\ stake'[o][p] = stake[o][p] + d
      /\ \A y \in Obligations \ {o} : stake'[y][p] = stake[y][p]
  BY <1>2
<1>4. PICK a \in AccountsOf(x) :
         \/ /\ stake'[x][p] > stake[x][p]
            /\ SP!ProcessDeposit(a, stake'[x][p] - stake[x][p], Authority)
         \/ /\ stake'[x][p] < stake[x][p]
            /\ SP!ProcessWithdraw(a, stake[x][p] - stake'[x][p], Authority)
  BY <1>1 DEF StakingCall
<1>5. x = o
  BY <1>2, <1>3, <1>4
<1>6. a \in Accounts /\ OwnerOf[a] = o
  BY <1>5 DEF AccountsOf
<1>7. StakeMoved(a, d)
  <2>1. CASE SP!ProcessDeposit(a, stake'[x][p] - stake[x][p], Authority)
    <3>1. stake'[x][p] - stake[x][p] = d
      BY <1>2, <1>3, <1>5
    <3> QED BY <1>6, <2>1, <3>1, DepositMoves
  <2>2. CASE SP!ProcessWithdraw(a, stake[x][p] - stake'[x][p], Authority)
    <3>1. stake[x][p] - stake'[x][p] = -d /\ -d \in Int /\ -(-d) = d
      BY <1>2, <1>3, <1>5
    <3>2. SP!ProcessWithdraw(a, -d, Authority)
      BY <2>2, <3>1
    <3>3. StakeMoved(a, -(-d))
      BY <1>6, <3>1, <3>2, WithdrawMoves
    <3> QED BY <3>1, <3>3
  <2> QED BY <1>4, <2>1, <2>2
<1>8. ASSUME NEW y \in Obligations PROVE stake'[y][p] = StakeImage'[y][p]
  BY <1>3, <1>6, <1>7, ImageMoves
<1>9. stake' = StakeImage'
  <2>1. ASSUME NEW y \in Obligations PROVE stake'[y] = StakeImage'[y]
    <3>1. StakeImage'[y] = [z \in StakingPools |-> StakeImage'[y][z]]
      BY DEF StakeImage
    <3>2. stake'[y] = [z \in StakingPools |-> stake'[y][z]]
      BY <1>2
    <3>3. \A z \in StakingPools : stake'[y][z] = StakeImage'[y][z]
      BY <1>1, <1>8
    <3> QED BY <3>1, <3>2, <3>3
  <2> QED BY <1>2, <2>1 DEF StakeImage
<1> QED BY <1>7, <1>9 DEF StakeMoved

LEMMA StakeChanges ==
    ASSUME TypeOK, Next, stake' # stake
    PROVE  \E o \in Obligations, p \in StakingPools, d \in Int : stake' = [stake EXCEPT ![o][p] = @ + d]
<1>1. PICK o \in Obligations, w \in Reserves, d \in Int : Posted(o, w, d)
  BY StepShape DEF Unposted, ProcessInitObligation, ProcessRefreshObligation
<1>2. /\ reserve[w].config.deposit_staking_pool \in StakingPools
      /\ stake' = [stake EXCEPT ![o][reserve[w].config.deposit_staking_pool] = @ + d]
  BY <1>1, PoolTyped DEF TypeOK, Posted, Restaked
<1> QED BY <1>2

LEMMA CallTyped ==
    ASSUME StakedInv, NEW x \in Obligations, NEW q \in StakingPools, StakingCall(x, q)
    PROVE  /\ account' \in [Accounts -> SP!AccountRec] /\ pool' \in SP!PoolRec
           /\ Held'
<1>1. PICK a \in AccountsOf(x) : \E amount :
         \/ SP!ProcessDeposit(a, amount, Authority)
         \/ SP!ProcessWithdraw(a, amount, Authority)
  BY DEF StakingCall
<1>2. a \in Accounts
  BY DEF AccountsOf
<1>3. pool' \in SP!PoolRec /\ (Held => Held')
  BY <1>1, AccountStepKeys DEF StakedInv
<1>4. Held
  BY <1>1 DEF SP!ProcessDeposit, SP!ProcessWithdraw, Held
<1>5. account' \in [Accounts -> SP!AccountRec]
  BY <1>1, <1>2 DEF SP!ProcessDeposit, SP!ProcessWithdraw, SP!SaveAccount, SP!PackAccount, StakedInv
<1> QED BY <1>3, <1>4, <1>5

LEMMA LendingStepInv ==
    ASSUME StakedInv, LendingStep
    PROVE  StakedInv'
<1>1. apart' \in BOOLEAN /\ (~apart' => ~apart /\ ~PoolSwitched)
  BY DEF StakedInv, LendingStep
<1>2. CASE stake' = stake
  <2>1. UNCHANGED stakingVars
    BY <1>2 DEF LendingStep
  <2>2. account' = account /\ pool' = pool
    BY <2>1 DEF stakingVars
  <2>3. ASSUME ~apart'
        PROVE  BooksInv' /\ CollateralInv' /\ stake' = StakeImage' /\ StakeMatchesCollateral' /\ StakeSigned'
    <3>1. BooksInv /\ CollateralInv /\ stake = StakeImage /\ StakeMatchesCollateral /\ StakeSigned
      BY <1>1, <2>3 DEF StakedInv
    <3>2. BooksInv' /\ TypeOK /\ TypeOK'
      BY <3>1, BooksNext, NextIsOpen DEF LendingStep, BooksInv
    <3>3. CollateralInv'
      BY <3>1, <3>2, CollateralNext, NextIsOpen DEF LendingStep
    <3>4. stake' = StakeImage'
      BY <1>2, <2>2, <3>1 DEF StakeImage, AccountsOf
    <3>5. StakeMatchesCollateral'
      BY <1>1, <2>3, <3>1, <3>2, MatchesNext DEF LendingStep, CollateralInv
    <3>6. StakeSigned'
      BY <1>2, <2>2, <3>1 DEF StakeSigned, Held, SP!MaySign
    <3> QED BY <3>2, <3>3, <3>4, <3>5, <3>6
  <2> QED BY <1>1, <2>2, <2>3 DEF StakedInv
<1>3. CASE stake' # stake
  <2>1. PICK x \in Obligations, q \in StakingPools : StakingCall(x, q)
    BY <1>3 DEF LendingStep
  <2>2. account' \in [Accounts -> SP!AccountRec] /\ pool' \in SP!PoolRec /\ Held'
    BY <2>1, CallTyped
  <2>3. ASSUME ~apart'
        PROVE  BooksInv' /\ CollateralInv' /\ stake' = StakeImage' /\ StakeMatchesCollateral' /\ StakeSigned'
    <3>1. /\ BooksInv /\ CollateralInv /\ stake = StakeImage /\ StakeMatchesCollateral /\ StakeSigned
          /\ account \in [Accounts -> SP!AccountRec] /\ Next
      BY <1>1, <2>3 DEF StakedInv, LendingStep
    <3>2. BooksInv' /\ TypeOK /\ TypeOK'
      BY <3>1, BooksNext, NextIsOpen DEF BooksInv
    <3>3. CollateralInv'
      BY <3>1, <3>2, CollateralNext, NextIsOpen
    <3>4. stake' = StakeImage'
      <4>1. PICK o \in Obligations, p \in StakingPools, d \in Int : stake' = [stake EXCEPT ![o][p] = @ + d]
        BY <1>3, <3>1, <3>2, StakeChanges
      <4> QED BY <2>1, <3>1, <3>2, <4>1, CallFollows
    <3>5. StakeMatchesCollateral'
      BY <1>1, <2>3, <3>1, <3>2, MatchesNext DEF CollateralInv
    <3>6. StakeSigned'
      BY <2>2 DEF StakeSigned
    <3> QED BY <3>2, <3>3, <3>4, <3>5, <3>6
  <2> QED BY <1>1, <2>2, <2>3 DEF StakedInv
<1> QED BY <1>2, <1>3

(* A step of the staking program alone. *)
LEMMA AlonePreserves ==
    ASSUME StakedInv, StakeImage' = StakeImage, stake' = StakeImage', UNCHANGED lendingVars, slot' = slot,
           account' \in [Accounts -> SP!AccountRec], pool' \in SP!PoolRec, UNCHANGED apart,
           Held => Held'
    PROVE  StakedInv'
<1>1. ASSUME ~apart
      PROVE  BooksInv' /\ CollateralInv' /\ stake' = StakeImage' /\ StakeMatchesCollateral' /\ StakeSigned'
  <2>1. BooksInv /\ CollateralInv /\ stake = StakeImage /\ StakeMatchesCollateral /\ StakeSigned
    BY <1>1 DEF StakedInv
  <2>2. UNCHANGED vars /\ stake' = stake /\ obligation' = obligation /\ reserve' = reserve
    BY <2>1 DEF vars, lendingVars
  <2>3. BooksInv' /\ TypeOK /\ TypeOK'
    BY <2>1, <2>2, BooksNext DEF BooksInv
  <2>4. CollateralInv'
    BY <2>1, <2>2, <2>3, CollateralNext
  <2>5. StakeMatchesCollateral'
    BY <2>1, <2>2 DEF StakeMatchesCollateral
  <2>6. StakeSigned'
    BY <2>1, <2>2 DEF StakeSigned
  <2> QED BY <2>3, <2>4, <2>5, <2>6
<1> QED BY <1>1 DEF StakedInv

LEMMA SameImage ==
    ASSUME account \in [Accounts -> SP!AccountRec], NEW a \in Accounts, StakeMoved(a, 0)
    PROVE  StakeImage' = StakeImage
<1>1. ASSUME NEW o \in Obligations, NEW p \in StakingPools PROVE StakeImage'[o][p] = StakeImage[o][p]
  <2>1. /\ StakeImage[o][p] \in Int
        /\ StakeImage'[o][p] = IF OwnerOf[a] = o THEN StakeImage[o][p] + 0 ELSE StakeImage[o][p]
    BY ImageMoves
  <2> QED BY <2>1
<1>2. ASSUME NEW o \in Obligations PROVE StakeImage'[o] = StakeImage[o]
  <2>1. /\ StakeImage'[o] = [p \in StakingPools |-> StakeImage'[o][p]]
        /\ StakeImage[o] = [p \in StakingPools |-> StakeImage[o][p]]
    BY DEF StakeImage
  <2> QED BY <1>1, <2>1
<1>3. /\ StakeImage' = [o \in Obligations |-> StakeImage'[o]]
      /\ StakeImage = [o \in Obligations |-> StakeImage[o]]
  BY DEF StakeImage
<1> QED BY <1>2, <1>3

LEMMA SlotKept ==
    ASSUME NEW signer, NEW a, NEW amount, NEW supply, NEW sub_supply, NEW duration, NEW time, NEW owner, NEW admin,
           \/ SP!PoolStep(signer)
           \/ SP!ProcessDeposit(a, amount, signer) \/ SP!ProcessWithdraw(a, amount, signer)
           \/ SP!ProcessCreateStakeAccount(a) \/ SP!ProcessClaimReward(a)
           \/ SP!ProcessInitStakingPool(supply, sub_supply, duration, time, owner, admin)
    PROVE  slot' = slot
  BY DEF SP!PoolStep, SP!ProcessDeposit, SP!ProcessWithdraw, SP!ProcessCreateStakeAccount, SP!ProcessClaimReward,
     SP!ProcessInitStakingPool, SP!ProcessUpdateEarliestRewardClaimTime, SP!ProcessChangeRewardSupply,
     SP!ProcessChangeDuration, SP!ProcessAddSubRewardPool, SP!ProcessChangeOwner, SP!ProcessChangeAdmin

LEMMA StakingStepInv ==
    ASSUME StakedInv, StakingStep
    PROVE  StakedInv'
<1>0. /\ account \in [Accounts -> SP!AccountRec] /\ pool \in SP!PoolRec /\ apart \in BOOLEAN
      /\ stake' = StakeImage' /\ UNCHANGED lendingVars
  BY DEF StakedInv, StakingStep
<1>1. ASSUME NEW signer \in Keys, signer # Authority, SP!PoolStep(signer), UNCHANGED apart
      PROVE  StakedInv'
  <2>1. pool' \in SP!PoolRec /\ (Held => Held') /\ account' = account
    BY <1>0, <1>1, PoolStepKeys
  <2>2. StakeImage' = StakeImage /\ account' \in [Accounts -> SP!AccountRec]
    BY <1>0, <2>1 DEF StakeImage, AccountsOf
  <2>3. slot' = slot
    BY <1>1, SlotKept
  <2> QED BY <1>0, <1>1, <2>1, <2>2, <2>3, AlonePreserves
<1>2. ASSUME NEW signer \in Keys, NEW a \in Accounts, NEW amount \in StakeAmounts,
             SP!ProcessDeposit(a, amount, signer) \/ SP!ProcessWithdraw(a, amount, signer),
             apart' = (apart \/ signer \in {pool.owner_authority, pool.admin_authority})
      PROVE  StakedInv'
  <2>1. apart' = TRUE
    BY <1>2 DEF SP!ProcessDeposit, SP!ProcessWithdraw, SP!MaySign
  <2>2. pool' \in SP!PoolRec
    BY <1>0, <1>2, AccountStepKeys
  <2>3. account' \in [Accounts -> SP!AccountRec]
    BY <1>0, <1>2 DEF SP!ProcessDeposit, SP!ProcessWithdraw, SP!SaveAccount, SP!PackAccount
  <2> QED BY <2>1, <2>2, <2>3 DEF StakedInv
<1>3. ASSUME NEW a \in Accounts, SP!ProcessCreateStakeAccount(a) \/ SP!ProcessClaimReward(a), UNCHANGED apart
      PROVE  StakedInv'
  <2>1. pool' \in SP!PoolRec /\ (Held => Held')
    BY <1>0, <1>3, AccountStepKeys
  <2>2. StakeMoved(a, 0)
    BY <1>0, <1>3, ClaimMoves
  <2>3. StakeImage' = StakeImage /\ account' \in [Accounts -> SP!AccountRec]
    BY <1>0, <2>2, SameImage DEF StakeMoved
  <2>4. slot' = slot
    BY <1>3, SlotKept
  <2> QED BY <1>0, <1>3, <2>1, <2>3, <2>4, AlonePreserves
<1>4. ASSUME NEW supply, NEW sub_supply, NEW duration, NEW time, NEW owner, NEW admin,
             SP!ProcessInitStakingPool(supply, sub_supply, duration, time, owner, admin), UNCHANGED apart
      PROVE  StakedInv'
  <2>1. pool' \in SP!PoolRec /\ ~Held /\ account' = account
    BY <1>0, <1>4, InitPoolKeys
  <2>2. StakeImage' = StakeImage /\ account' \in [Accounts -> SP!AccountRec]
    BY <1>0, <2>1 DEF StakeImage, AccountsOf
  <2>3. slot' = slot
    BY <1>4, SlotKept
  <2> QED BY <1>0, <1>4, <2>1, <2>2, <2>3, AlonePreserves
<1> QED BY <1>1, <1>2, <1>3, <1>4 DEF StakingStep, DirectStep

LEMMA StakedInvInit == StakedInit => StakedInv
<1> SUFFICES ASSUME StakedInit PROVE StakedInv
  OBVIOUS
<1>1. Init /\ SP!Init /\ apart = FALSE
  BY DEF StakedInit
<1>2. BooksInv /\ CollateralInv /\ TypeOK
  BY <1>1, BooksInit, CollateralInit DEF BooksInv
<1>3. SP!UninitializedAccount \in SP!AccountRec /\ SP!UninitializedAccount.deposited_amount = 0
  BY WadAssumption DEF SP!UninitializedAccount, SP!AccountRec, SP!NoReward, SP!U64, SP!Rate
<1>4. pool \in SP!PoolRec
  <2>1. (CHOOSE k \in Keys : TRUE) \in Keys
    BY StakedLendingAssumption
  <2> QED BY <1>1, <2>1, WadAssumption DEF SP!Init, SP!UninitializedPool, SP!PoolRec, SP!NoReward, SP!U64, SP!Rate
<1>5. account \in [Accounts -> SP!AccountRec] /\ \A a \in Accounts : account[a].deposited_amount = 0
  BY <1>1, <1>3 DEF SP!Init
<1>6. stake = StakeImage
  <2>1. ASSUME NEW o \in Obligations
        PROVE  SumFunction([a \in AccountsOf(o) |-> account[a].deposited_amount]) = 0
    <3>1. [a \in AccountsOf(o) |-> account[a].deposited_amount] \in [AccountsOf(o) -> {0}]
      BY <1>5 DEF AccountsOf
    <3> QED BY <3>1, AccountsFinite, SumOfZeros
  <2>2. StakeImage = [o \in Obligations |-> [p \in StakingPools |-> 0]]
    BY <2>1, Zenon DEF StakeImage
  <2> QED BY <1>1, <2>2 DEF Init
<1>7. \A o \in Obligations, p \in StakingPools : stake[o][p] = 0
  BY <1>1 DEF Init
<1>8. StakeMatchesCollateral
  <2>1. ASSUME NEW o \in Obligations, NEW p \in StakingPools
        PROVE  SumFunction(Stakes(reserve, obligation[o], p)) = 0
    <3>1. Stakes(reserve, obligation[o], p) \in [Reserves -> {0}]
      BY <1>1 DEF Init, EmptyObligation, NoCollateral, Stakes
    <3> QED BY <3>1, ObligationAssumption, SumOfZeros
  <2> QED BY <1>2, <1>7, <2>1, MatchesIs
<1>9. StakeSigned
  BY <1>7 DEF StakeSigned
<1> QED BY <1>1, <1>2, <1>4, <1>5, <1>6, <1>8, <1>9 DEF StakedInv

LEMMA StakedInvNext == StakedInv /\ [StakedNext]_allVars => StakedInv'
<1> SUFFICES ASSUME StakedInv, [StakedNext]_allVars PROVE StakedInv'
  OBVIOUS
<1>1. CASE UNCHANGED allVars
  <2>1. UNCHANGED <<vars, stakingVars, apart>>
    BY <1>1 DEF allVars
  <2>2. account' = account /\ pool' = pool /\ stake' = stake /\ slot' = slot /\ apart' = apart
    BY <2>1 DEF stakingVars, vars
  <2>3. StakeImage' = StakeImage /\ (Held => Held')
    BY <2>2 DEF StakeImage, AccountsOf, Held, SP!MaySign
  <2>4. UNCHANGED lendingVars
    BY <2>1 DEF vars, lendingVars
  <2>5. CASE apart
    BY <2>2, <2>5 DEF StakedInv
  <2>6. CASE ~apart
    <3>1. stake' = StakeImage'
      BY <2>2, <2>3, <2>6 DEF StakedInv
    <3> QED BY <2>2, <2>3, <2>4, <3>1, AlonePreserves DEF StakedInv
  <2> QED BY <2>5, <2>6
<1> QED BY <1>1, LendingStepInv, StakingStepInv DEF StakedNext

(* As long as nobody but the lending program moves the stakes and no       *)
(* reserve with collateral changes its pool, the stake accounts of an      *)
(* owner, however many and however she spreads it over them, hold exactly  *)
(* her collateral in the reserves tied to the pool: a deposit, withdrawal  *)
(* or liquidation moves both, and neither claims nor anything the pool's   *)
(* owner and admin do to the pool moves one of them.                       *)
THEOREM StakesDoFollowCollateral == StakedSpec => []StakesFollowCollateral
<1>1. StakedInv => StakesFollowCollateral
  BY DEF StakedInv, StakesFollowCollateral
<1> QED BY <1>1, StakedInvInit, StakedInvNext, PTL DEF StakedSpec

(* Collateral in a reserve tied to the pool stands in a stake account of   *)
(* its owner, or in several, and the market's authority may sign for them. *)
LEMMA PostedIsStaked ==
    ASSUME StakedInv, ~apart, NEW r \in Reserves, NEW o \in Obligations,
           reserve[r].config.deposit_staking_pool # NoPool,
           obligation[o].deposits[r].deposited_amount > 0
    PROVE  Held /\ \E a \in AccountsOf(o) : account[a].deposited_amount > 0
<1>1. TypeOK /\ StakeMatchesCollateral /\ StakeSigned /\ stake = StakeImage
  BY DEF StakedInv, BooksInv
<1> DEFINE p == reserve[r].config.deposit_staking_pool
           f == Stakes(reserve, obligation[o], p)
           g == [a \in AccountsOf(o) |-> account[a].deposited_amount]
<1>2. p \in StakingPools
  BY <1>1, PoolTyped DEF TypeOK
<1>3. f \in [Reserves -> Nat] /\ IsFiniteSet(Reserves)
  BY <1>1, StakesTyped, ObligationAssumption DEF TypeOK
<1>4. f[r] > 0
  BY DEF Stakes
<1>5. stake[o][p] = SumFunction(f)
  BY <1>1, <1>2, MatchesIs
<1>6. stake[o][p] = SumFunction(g)
  BY <1>1, <1>2 DEF StakeImage
<1> HIDE DEF f, p
<1>7. SumFunction(f) \in Nat /\ f[r] <= SumFunction(f) /\ f[r] \in Nat
  BY <1>3, SumAtLeast
<1>8. stake[o][p] > 0
  BY <1>4, <1>5, <1>7
<1>9. ASSUME ~ \E a \in AccountsOf(o) : account[a].deposited_amount > 0 PROVE FALSE
  <2>1. \A a \in AccountsOf(o) : account[a].deposited_amount \in Nat
    BY DEF StakedInv, AccountsOf, SP!AccountRec, SP!U64
  <2>2. g \in [AccountsOf(o) -> {0}]
    BY <1>9, <2>1
  <2>3. IsFiniteSet(AccountsOf(o))
    BY StakedLendingAssumption, FS_Subset DEF AccountsOf
  <2>4. SumFunction(g) = 0
    <3> HIDE DEF g
    <3> QED BY <2>2, <2>3, SumOfZeros
  <2> QED BY <1>6, <1>8, <2>4
<1> QED BY <1>1, <1>2, <1>8, <1>9 DEF StakeSigned

(* Where collateral is deposited in a reserve tied to the pool, the        *)
(* market's authority may sign for the pool.                               *)
AuthorityKept ==
    ~apart =>
      \A r \in Reserves, o \in Obligations :
        (/\ reserve[r].config.deposit_staking_pool # NoPool
         /\ obligation[o].deposits[r].deposited_amount > 0) => SP!MaySign(Authority)

(* The part of CollateralReleasable that is about the right to sign, for   *)
(* every value of the constants: it is lost by no change of the pool's     *)
(* owner or admin, as only the authority could give it away.               *)
THEOREM AuthorityIsKept == StakedSpec => []AuthorityKept
<1>1. StakedInv => AuthorityKept
  BY PostedIsStaked DEF AuthorityKept, Held
<1> QED BY <1>1, StakedInvInit, StakedInvNext, PTL DEF StakedSpec

-----------------------------------------------------------------------------
(***************************************************************************)
(* The staking program does not notice that another program calls it:      *)
(* every step of the two programs is one of Staking, with whatever amounts *)
(* the lending program moves.  What StakingProofs shows then holds here.   *)
(***************************************************************************)
ST == INSTANCE StakingProofs WITH Amounts <- U64

(* the assumptions of Staking *)
LEMMA StakingConstants ==
    /\ U64 \subseteq ST!U64
    /\ Supplies \subseteq ST!U64
    /\ SubSupplies \subseteq ST!U64
    /\ Changes \subseteq -ST!I64_MAX..ST!I64_MAX
    /\ SubChanges \subseteq -ST!I64_MAX..ST!I64_MAX
    /\ Extensions \subseteq -ST!I64_MAX..ST!I64_MAX
    /\ Durations \subseteq ST!U64 \ {0}
    /\ ClaimTimes \subseteq ST!U64
    /\ Funds \in ST!U64
    /\ MaxStake \in ST!U64
    /\ MaxDuration \in ST!U64
    /\ MaxSlot \in ST!U64
    /\ Keys # {}
    /\ ST!IsFiniteSet(Accounts)
<1>1. ST!U64 = U64 /\ ST!I64_MAX = U64_MAX \div 2
  BY DEF ST!U64, U64, ST!I64_MAX
<1>2. ST!IsFiniteSet(Accounts)
  BY StakedLendingAssumption DEF IsFiniteSet, ST!IsFiniteSet
<1>3. Keys # {}
  BY StakedLendingAssumption
<1> QED BY <1>1, <1>2, <1>3, StakedLendingAssumption

(* SP and ST name the same operators: one knows what amounts are moved     *)
(* directly, the other what has been proved.                               *)
LEMMA SameOperators ==
    /\ SP!Init => ST!Init
    /\ \A a, amount, signer : SP!ProcessDeposit(a, amount, signer) => ST!ProcessDeposit(a, amount, signer)
    /\ \A a, amount, signer : SP!ProcessWithdraw(a, amount, signer) => ST!ProcessWithdraw(a, amount, signer)
    /\ \A a : SP!ProcessCreateStakeAccount(a) => ST!ProcessCreateStakeAccount(a)
    /\ \A a : SP!ProcessClaimReward(a) => ST!ProcessClaimReward(a)
    /\ \A supply, sub_supply, duration, time, owner, admin :
          SP!ProcessInitStakingPool(supply, sub_supply, duration, time, owner, admin)
            => ST!ProcessInitStakingPool(supply, sub_supply, duration, time, owner, admin)
    /\ \A signer : SP!PoolStep(signer) => ST!PoolStep(signer)
    /\ \A a, amount : ST!Releasable(a, amount) => SP!Releasable(a, amount)
<1> USE DEF SP!Releasable, ST!Releasable,
    SP!U64, ST!U64, SP!Rate, ST!Rate, SP!Decimal, ST!Decimal, SP!FromU64, ST!FromU64,
    SP!CheckedAdd, ST!CheckedAdd, SP!CheckedSub, ST!CheckedSub, SP!TryAdd, ST!TryAdd, SP!TrySub,
    ST!TrySub, SP!TryMul, ST!TryMul, SP!TryDiv, ST!TryDiv,
    SP!TryMulU64, ST!TryMulU64, SP!TryDivU64, ST!TryDivU64, SP!TryFloorU64,
    ST!TryFloorU64, SP!RateTryFrom, ST!RateTryFrom, SP!Least, ST!Least, SP!I64_MAX, ST!I64_MAX,
    SP!Kind, ST!Kind, SP!Abs, ST!Abs, SP!PoolRec, ST!PoolRec, SP!AccountRec, ST!AccountRec,
    SP!PackPool, ST!PackPool, SP!PackAccount, ST!PackAccount, SP!NoReward, ST!NoReward,
    SP!ForEachKind, ST!ForEachKind, SP!RateOf, ST!RateOf,
    SP!RateTimes, ST!RateTimes, SP!RateOver, ST!RateOver, SP!AccumulateRate, ST!AccumulateRate,
    SP!ClaimRewardHelper, ST!ClaimRewardHelper, SP!StartEmission, ST!StartEmission,
    SP!PoolDeposit, ST!PoolDeposit, SP!PoolWithdraw, ST!PoolWithdraw, SP!ChangedRate,
    ST!ChangedRate, SP!UpdateRewardSupply, ST!UpdateRewardSupply, SP!AddSubReward,
    ST!AddSubReward, SP!ExtendBeforeStart, ST!ExtendBeforeStart, SP!Extended, ST!Extended,
    SP!ExtendRunning, ST!ExtendRunning, SP!ExtendDuration, ST!ExtendDuration,
    SP!CalculateReward, ST!CalculateReward, SP!AccrueReward, ST!AccrueReward, SP!AccountDeposit,
    ST!AccountDeposit, SP!AccountWithdraw, ST!AccountWithdraw, SP!AccountClaim, ST!AccountClaim,
    SP!MoveRewards, ST!MoveRewards, SP!SavePool, ST!SavePool, SP!SaveAccount, ST!SaveAccount,
    SP!Pair, ST!Pair, SP!MaySign, ST!MaySign, SP!ExcessAfter, ST!ExcessAfter,
    SP!ProcessInitStakingPool, ST!ProcessInitStakingPool, SP!ProcessCreateStakeAccount,
    ST!ProcessCreateStakeAccount, SP!ProcessDeposit, ST!ProcessDeposit, SP!ProcessWithdraw,
    ST!ProcessWithdraw, SP!ProcessClaimReward, ST!ProcessClaimReward,
    SP!ProcessUpdateEarliestRewardClaimTime, ST!ProcessUpdateEarliestRewardClaimTime,
    SP!ProcessChangeRewardSupply, ST!ProcessChangeRewardSupply, SP!ProcessChangeDuration,
    ST!ProcessChangeDuration, SP!ProcessAddSubRewardPool, ST!ProcessAddSubRewardPool,
    SP!ProcessChangeOwner, ST!ProcessChangeOwner, SP!ProcessChangeAdmin, ST!ProcessChangeAdmin,
    SP!PoolStep, ST!PoolStep, SP!UninitializedPool, ST!UninitializedPool,
    SP!UninitializedAccount, ST!UninitializedAccount, SP!Init, ST!Init
<1>1. SP!Init => ST!Init
  BY Zenon
<1>2. ASSUME NEW a, NEW amount, NEW signer, SP!ProcessDeposit(a, amount, signer)
      PROVE  ST!ProcessDeposit(a, amount, signer)
  BY <1>2, Zenon
<1>3. ASSUME NEW a, NEW amount, NEW signer, SP!ProcessWithdraw(a, amount, signer)
      PROVE  ST!ProcessWithdraw(a, amount, signer)
  BY <1>3, Zenon
<1>4. ASSUME NEW a, SP!ProcessCreateStakeAccount(a) PROVE ST!ProcessCreateStakeAccount(a)
  BY <1>4, Zenon
<1>5. ASSUME NEW a, SP!ProcessClaimReward(a) PROVE ST!ProcessClaimReward(a)
  BY <1>5, Zenon
<1>6. ASSUME NEW supply, NEW sub_supply, NEW duration, NEW time, NEW owner, NEW admin,
             SP!ProcessInitStakingPool(supply, sub_supply, duration, time, owner, admin)
      PROVE  ST!ProcessInitStakingPool(supply, sub_supply, duration, time, owner, admin)
  BY <1>6, Zenon
<1>7. ASSUME NEW signer, SP!PoolStep(signer) PROVE ST!PoolStep(signer)
  BY <1>7, Zenon
<1>8. ASSUME NEW a, NEW amount, ST!Releasable(a, amount) PROVE SP!Releasable(a, amount)
  BY <1>8, Zenon
<1> HIDE DEF SP!Init, ST!Init, SP!ProcessDeposit, ST!ProcessDeposit, SP!ProcessWithdraw, ST!ProcessWithdraw,
             SP!ProcessCreateStakeAccount, ST!ProcessCreateStakeAccount, SP!ProcessClaimReward, ST!ProcessClaimReward,
             SP!ProcessInitStakingPool, ST!ProcessInitStakingPool, SP!PoolStep, ST!PoolStep,
             SP!Releasable, ST!Releasable
<1> QED BY <1>1, <1>2, <1>3, <1>4, <1>5, <1>6, <1>7, <1>8

LEMMA SameSum == \A f : ST!SumFunction(f) = SumFunction(f)
  BY DEF ST!SumFunction, SumFunction, ST!SumFunctionOnSet, SumFunctionOnSet, ST!FoldFunctionOnSet, FoldFunctionOnSet,
         ST!MapThenFoldSet, MapThenFoldSet

(* A step of the lending program that calls nobody lets time pass, or does nothing to the stakes. *)
LEMMA SilentStep ==
    ASSUME Next, UNCHANGED stakingVars
    PROVE  [ST!Next]_(ST!vars)
<1>1. UNCHANGED <<pool, account, rewardPool, funds, restarted, excess>>
  BY DEF stakingVars
<1>2. CASE Tick
  <2>1. ST!Tick
    BY <1>1, <1>2 DEF Tick, ST!Tick
  <2> QED BY <2>1 DEF ST!Next
<1>3. CASE slot' = slot
  BY <1>1, <1>3 DEF ST!vars
<1>4. ASSUME NEW r \in Reserves, ReserveStep(r) PROVE slot' = slot
  BY <1>4 DEF ReserveStep, ProcessInitReserve, ProcessRefreshReserve,
       ProcessDepositReserveLiquidity, ProcessRedeemReserveCollateral, ProcessFlashLoan,
       ProcessUpdateReserve, ProcessWithdrawFee
<1>5. ASSUME NEW o \in Obligations, ObligationStep(o) PROVE slot' = slot
  BY <1>5 DEF ObligationStep, ProcessInitObligation, ProcessRefreshObligation,
       ProcessDepositObligationCollateral, ProcessDepositReserveLiquidityAndObligationCollateral,
       ProcessWithdrawObligationCollateral, ProcessBorrowObligationLiquidity,
       ProcessRepayObligationLiquidity, ProcessLiquidateObligation
<1> QED BY <1>2, <1>3, <1>4, <1>5 DEF Next

(* The amounts of the calls are those of a u64. *)
LEMMA LendingIsStaking ==
    ASSUME TypeOK, TypeOK', LendingStep
    PROVE  [ST!Next]_(ST!vars)
<1>1. CASE stake' = stake
  BY <1>1, SilentStep DEF LendingStep
<1>2. CASE stake' # stake
  <2>1. PICK o \in Obligations, p \in StakingPools : StakingCall(o, p)
    BY <1>2 DEF LendingStep
  <2>2. stake[o][p] \in U64 /\ stake'[o][p] \in U64
    BY DEF TypeOK
  <2>3. stake[o][p] \in Nat /\ stake'[o][p] \in Nat
        /\ stake[o][p] <= U64_MAX /\ stake'[o][p] <= U64_MAX /\ U64_MAX \in Nat
    BY <2>2, WadAssumption DEF U64
  <2>4. PICK a \in AccountsOf(o) :
           \/ /\ stake'[o][p] > stake[o][p]
              /\ SP!ProcessDeposit(a, stake'[o][p] - stake[o][p], Authority)
           \/ /\ stake'[o][p] < stake[o][p]
              /\ SP!ProcessWithdraw(a, stake[o][p] - stake'[o][p], Authority)
    BY <2>1 DEF StakingCall
  <2>5. PICK amount \in U64 : \/ SP!ProcessDeposit(a, amount, Authority)
                              \/ SP!ProcessWithdraw(a, amount, Authority)
    BY <2>3, <2>4 DEF U64
  <2>6. a \in Accounts /\ Authority \in Keys
    BY StakedLendingAssumption DEF AccountsOf
  <2>7. ST!ProcessDeposit(a, amount, Authority) \/ ST!ProcessWithdraw(a, amount, Authority)
    BY <2>5, SameOperators
  <2> QED BY <2>6, <2>7 DEF ST!Next, ST!AccountStep
<1> QED BY <1>1, <1>2

LEMMA DirectIsStaking ==
    ASSUME StakingStep
    PROVE  ST!Next
<1>1. StakeAmounts \subseteq U64
  BY StakedLendingAssumption
<1>2. ASSUME NEW signer \in Keys, DirectStep(signer) PROVE ST!Next
  <2>1. CASE SP!PoolStep(signer)
    BY <2>1, SameOperators DEF ST!Next
  <2>2. ASSUME NEW a \in Accounts, NEW amount \in StakeAmounts,
               SP!ProcessDeposit(a, amount, signer) \/ SP!ProcessWithdraw(a, amount, signer)
        PROVE  ST!Next
    <3>1. ST!ProcessDeposit(a, amount, signer) \/ ST!ProcessWithdraw(a, amount, signer)
      BY <2>2, SameOperators
    <3> QED BY <1>1, <3>1 DEF ST!Next, ST!AccountStep
  <2> QED BY <1>2, <2>1, <2>2 DEF DirectStep
<1>3. ASSUME NEW a \in Accounts, SP!ProcessCreateStakeAccount(a) \/ SP!ProcessClaimReward(a)
      PROVE  ST!Next
  BY <1>3, SameOperators DEF ST!Next, ST!AccountStep
<1>4. ASSUME NEW supply \in Supplies, NEW sub_supply \in SubSupplies, NEW duration \in Durations,
             NEW time \in ClaimTimes, NEW owner \in Keys, NEW admin \in Keys,
             SP!ProcessInitStakingPool(supply, sub_supply, duration, time, owner, admin)
      PROVE  ST!Next
  BY <1>4, SameOperators DEF ST!Next
<1> QED BY <1>2, <1>3, <1>4 DEF StakingStep

(* What the accounts of one owner hold is a part of the pool, and fits. *)
LEMMA PartFits ==
    ASSUME NEW accounts \in [Accounts -> ST!AccountRec], NEW size \in U64,
           size = SumFunction([a \in Accounts |-> accounts[a].deposited_amount]),
           NEW o
    PROVE  SumFunction([a \in AccountsOf(o) |-> accounts[a].deposited_amount]) \in U64
<1> DEFINE f == [a \in Accounts |-> accounts[a].deposited_amount]
           T == AccountsOf(o)
<1>1. U64 \subseteq Nat /\ U64_MAX \in Nat
  BY WadAssumption DEF U64
<1>2. f \in [Accounts -> Nat]
  BY <1>1 DEF ST!AccountRec, ST!U64, U64
<1>3. T \in SUBSET Accounts /\ IsFiniteSet(Accounts)
  BY StakedLendingAssumption DEF AccountsOf
<1>4. [a \in T |-> accounts[a].deposited_amount] = [a \in T |-> f[a]]
  BY <1>3
<1> HIDE DEF f, T
<1>5. SumFunction([a \in T |-> f[a]]) \in Nat /\ SumFunction([a \in T |-> f[a]]) <= SumFunction(f)
  BY <1>2, <1>3, SumPart
<1>6. SumFunction(f) \in U64
  BY DEF f
<1>7. SumFunction([a \in T |-> f[a]]) \in U64
  BY <1>1, <1>5, <1>6 DEF U64
<1> QED BY <1>4, <1>7 DEF T

(* What makes a step of both programs one of Staking: the stakes that      *)
(* Lending keeps fit a u64, also when the pool's owner moves them, as the  *)
(* pool's size does.                                                       *)
BothInv == BooksInv /\ ST!StakingInv /\ ST!PoolSizeIsSum

LEMMA BothInit == StakedInit => BothInv /\ ST!Init
<1> SUFFICES ASSUME StakedInit PROVE BothInv /\ ST!Init
  OBVIOUS
<1>1. BooksInv /\ ST!Init
  BY BooksInit, SameOperators DEF StakedInit
<1>2. ST!StakingInv /\ ST!PoolSizeIsSum
  BY <1>1, StakingConstants, WadAssumption, ST!InitInv, ST!SizeStart
<1> QED BY <1>1, <1>2 DEF BothInv

LEMMA BothStep ==
    ASSUME BothInv, [StakedNext]_allVars
    PROVE  BothInv' /\ [ST!Next]_(ST!vars)
<1>1. ASSUME [ST!Next]_(ST!vars) PROVE ST!StakingInv' /\ ST!PoolSizeIsSum'
  BY <1>1, StakingConstants, WadAssumption, ST!StepInv, ST!SizeStep DEF BothInv
<1>2. BooksInv /\ TypeOK
  BY DEF BothInv, BooksInv
<1>3. CASE UNCHANGED allVars
  <2>1. UNCHANGED vars /\ UNCHANGED ST!vars
    BY <1>3 DEF allVars, vars, stakingVars, ST!vars
  <2>2. BooksInv'
    BY <1>2, <2>1, BooksNext
  <2> QED BY <1>1, <2>1, <2>2 DEF BothInv
<1>4. CASE LendingStep
  <2>1. BooksInv' /\ TypeOK'
    BY <1>2, <1>4, BooksNext, NextIsOpen DEF LendingStep, BooksInv
  <2>2. [ST!Next]_(ST!vars)
    BY <1>2, <1>4, <2>1, LendingIsStaking
  <2> QED BY <1>1, <2>1, <2>2 DEF BothInv
<1>5. CASE StakingStep
  <2>1. [ST!Next]_(ST!vars)
    BY <1>5, DirectIsStaking
  <2>2. ST!StakingInv' /\ ST!PoolSizeIsSum'
    BY <1>1, <2>1
  <2>3. account' \in [Accounts -> ST!AccountRec] /\ pool'.pool_size \in U64
    BY <2>2 DEF ST!StakingInv, ST!TypeOK, ST!PoolRec, ST!U64, U64
  <2>4. pool'.pool_size = SumFunction([a \in Accounts |-> account'[a].deposited_amount])
    BY <2>2, SameSum DEF ST!PoolSizeIsSum
  <2>5. \A o \in Obligations :
           SumFunction([a \in AccountsOf(o) |-> account'[a].deposited_amount]) \in U64
    BY <2>3, <2>4, PartFits
  <2>6. StakeImage' = [o \in Obligations |-> [p \in StakingPools |->
                         SumFunction([a \in AccountsOf(o) |-> account'[a].deposited_amount])]]
    BY DEF StakeImage, AccountsOf
  <2>7. stake' = StakeImage' /\ UNCHANGED lendingVars
    BY <1>5 DEF StakingStep
  <2>8. stake' \in [Obligations -> [StakingPools -> U64]]
    BY <2>5, <2>6, <2>7
  <2>9. slot' = slot
    BY <1>5, SlotKept DEF StakingStep, DirectStep
  <2>10. BooksInv'
    BY <1>2, <2>7, <2>8, <2>9 DEF BooksInv, TypeOK, Conserved, Untouched, LiquidityBacked, MintMatches, lendingVars
  <2> QED BY <2>1, <2>2, <2>10 DEF BothInv
<1> QED BY <1>3, <1>4, <1>5 DEF StakedNext

LEMMA BothInvariant == StakedSpec => []BothInv
<1>1. StakedInit => BothInv
  BY BothInit
<1>2. BothInv /\ [StakedNext]_allVars => BothInv'
  BY BothStep
<1> QED BY <1>1, <1>2, PTL DEF StakedSpec

(* Every behaviour of the two programs is one of the staking program:      *)
(* whoever calls it, and whatever amounts the lending program moves, each  *)
(* instruction leaves the pool, the stake accounts and the reward tokens   *)
(* as an instruction of the staking program would, or does not touch them. *)
THEOREM StakedImplementsStaking == StakedSpec => ST!Spec
<1>1. StakedInit => ST!Init
  BY BothInit
<1>2. BothInv /\ [StakedNext]_allVars => [ST!Next]_(ST!vars)
  BY BothStep
<1> QED BY <1>1, <1>2, BothInvariant, PTL DEF StakedSpec, ST!Spec

(* What holds of the staking program holds of it when the lending program  *)
(* calls it: no change of the schedule moves the end of emission before    *)
(* the last update, no account starts from a rate the pool has not         *)
(* reached, earnings are covered unless the pool was restarted, and no     *)
(* instruction of either program changes what was earned before it.        *)
THEOREM StakedKeepsRewards ==
    StakedSpec => /\ [](ST!ScheduleSound /\ ST!StartRateReached /\ ST!PayableUnlessRestarted)
                  /\ ST!EarningsKept
<1>1. ST!Spec => []ST!ScheduleSound
  BY StakingConstants, WadAssumption, ST!ScheduleIsSound
<1>2. ST!Spec => []ST!StartRateReached
  BY StakingConstants, WadAssumption, ST!StartRateIsReached
<1>3. ST!Spec => []ST!PayableUnlessRestarted
  BY StakingConstants, WadAssumption, ST!EarningsAreCovered
<1>4. ST!Spec => ST!EarningsKept
  BY StakingConstants, WadAssumption, ST!EarningsAreKept
<1> QED BY <1>1, <1>2, <1>3, <1>4, StakedImplementsStaking, PTL

(* CollateralReleasable as far as the numbers fit: a call for more than    *)
(* the account holds is refused; one for no more than that goes through    *)
(* unless the rewards of the pool or of the account overflow.              *)
CollateralReleasableWhenFit ==
    ~apart =>
      \A r \in Reserves, o \in Obligations :
        (/\ reserve[r].config.deposit_staking_pool # NoPool
         /\ obligation[o].deposits[r].deposited_amount > 0) =>
           /\ \E a \in AccountsOf(o) : account[a].deposited_amount > 0
           /\ \A a \in AccountsOf(o) : \A amount \in 1..obligation[o].deposits[r].deposited_amount :
                 /\ Returned(a, amount) => amount <= account[a].deposited_amount
                 /\ amount <= account[a].deposited_amount /\ ST!RewardsFit(a) => Returned(a, amount)

LEMMA ReturnedIsHeld ==
    ASSUME account \in [Accounts -> SP!AccountRec], NEW a \in Accounts, NEW amount \in Nat,
           Returned(a, amount)
    PROVE  amount <= account[a].deposited_amount
<1> DEFINE acc == account[a]
<1>1. PICK cum : \E b : b \in SP!AccountWithdraw(acc, cum, amount)
  BY DEF Returned, SP!Releasable
<1>2. PICK c \in SP!AccrueReward(acc, cum) : SP!CheckedSub(c.deposited_amount, amount) # {}
  BY <1>1 DEF SP!AccountWithdraw
<1>3. PICK unclaimed : c = [acc EXCEPT !.unclaimed_reward_wads = unclaimed, !.start_rate = cum]
  BY <1>2 DEF SP!AccrueReward
<1>4. acc \in SP!AccountRec /\ acc.deposited_amount \in Nat
  BY DEF SP!AccountRec, SP!U64
<1>5. c.deposited_amount = acc.deposited_amount
  BY <1>3, <1>4 DEF SP!AccountRec
<1>6. acc.deposited_amount - amount \in SP!U64
  BY <1>2, <1>5 DEF SP!CheckedSub
<1> QED BY <1>4, <1>6, WadAssumption DEF SP!U64

(* Nothing but an overflow of the reward arithmetic, or a stake spread     *)
(* over several accounts, makes the staking program refuse a withdrawal or *)
(* a liquidation: not the end of emission, nor a change of supply,         *)
(* duration, owner or admin, nor a claim.  And however the owner spreads   *)
(* it, collateral that is deposited stands in some account of hers.        *)
THEOREM OnlyOverflowHoldsCollateral == StakedSpec => []CollateralReleasableWhenFit
<1>1. ST!Spec => []ST!DepositsReleasableWhenFit
  BY StakingConstants, WadAssumption, ST!OnlyOverflowLocksDeposits
<1>2. ASSUME StakedInv, ST!DepositsReleasableWhenFit PROVE CollateralReleasableWhenFit
  <2> SUFFICES ASSUME ~apart, NEW r \in Reserves, NEW o \in Obligations,
                      reserve[r].config.deposit_staking_pool # NoPool,
                      obligation[o].deposits[r].deposited_amount > 0
               PROVE  /\ \E a \in AccountsOf(o) : account[a].deposited_amount > 0
                      /\ \A a \in AccountsOf(o) : \A amount \in 1..obligation[o].deposits[r].deposited_amount :
                            /\ Returned(a, amount) => amount <= account[a].deposited_amount
                            /\ amount <= account[a].deposited_amount /\ ST!RewardsFit(a)
                                 => Returned(a, amount)
    BY DEF CollateralReleasableWhenFit
  <2>1. Held /\ \E a \in AccountsOf(o) : account[a].deposited_amount > 0
    BY <1>2, PostedIsStaked
  <2>2. obligation[o].deposits[r].deposited_amount \in Nat
    BY <1>2, DepositTyped DEF StakedInv, BooksInv, TypeOK
  <2>3. ASSUME NEW a \in AccountsOf(o), NEW amount \in 1..obligation[o].deposits[r].deposited_amount
        PROVE  /\ Returned(a, amount) => amount <= account[a].deposited_amount
               /\ amount <= account[a].deposited_amount /\ ST!RewardsFit(a) => Returned(a, amount)
    <3>1. a \in Accounts /\ amount \in Nat /\ amount >= 1 /\ account \in [Accounts -> SP!AccountRec]
      BY <1>2, <2>2 DEF AccountsOf, StakedInv
    <3>2. Returned(a, amount) => amount <= account[a].deposited_amount
      BY <3>1, ReturnedIsHeld
    <3>3. ASSUME amount <= account[a].deposited_amount, ST!RewardsFit(a) PROVE Returned(a, amount)
      <4>1. account[a].deposited_amount \in Nat
        BY <3>1 DEF SP!AccountRec, SP!U64
      <4>2. amount \in 1..account[a].deposited_amount
        BY <3>1, <3>3, <4>1
      <4>3. SP!Releasable(a, amount)
        BY <1>2, <3>1, <3>3, <4>2, SameOperators DEF ST!DepositsReleasableWhenFit
      <4> QED BY <2>1, <4>3 DEF Returned, Held
    <3> QED BY <3>2, <3>3
  <2> QED BY <2>1, <2>3
<1>3. StakedSpec => []StakedInv
  BY StakedInvInit, StakedInvNext, PTL DEF StakedSpec
<1> QED BY <1>1, <1>2, <1>3, StakedImplementsStaking, PTL

-----------------------------------------------------------------------------
(***************************************************************************)
(* Nor does the lending program notice: a call that goes through moves the *)
(* stake as Lending says, one that is refused is an instruction that did   *)
(* not happen, and a direct step of the staking program changes nothing    *)
(* but the stakes, which no guard or book of the lending program depends   *)
(* on.  This needs no condition on who moves the stakes.                   *)
(***************************************************************************)
LendingInv == SettledInv /\ CollateralInv /\ EntriesInv /\ RateInv /\ NothingLent

(* A step of both programs is one of Lending, or changes stakes only. *)
LEMMA LendingOrStakes ==
    ASSUME [StakedNext]_allVars
    PROVE  [OpenNext]_vars \/ (UNCHANGED lendingVars /\ slot' = slot)
<1>1. CASE LendingStep
  BY <1>1, NextIsOpen DEF LendingStep
<1>2. CASE StakingStep
  BY <1>2, SlotKept DEF StakingStep, DirectStep
<1>3. CASE UNCHANGED allVars
  BY <1>3 DEF allVars
<1> QED BY <1>1, <1>2, <1>3 DEF StakedNext

LEMMA LendingInvNext ==
    ASSUME TypeOK, TypeOK', BooksInv, LendingInv, [StakedNext]_allVars
    PROVE  LendingInv'
<1>1. CASE [OpenNext]_vars
  BY <1>1, SettledNext, CollateralNext, EntriesNext, RateNext, NothingLentNext DEF LendingInv
<1>2. CASE UNCHANGED lendingVars /\ slot' = slot
  <2>1. reserve' = reserve /\ obligation' = obligation /\ collateralSupply' = collateralSupply /\ slot' = slot
    BY <1>2 DEF lendingVars
  <2>2. SettledInv' /\ EntriesInv'
    BY <2>1 DEF LendingInv, SettledInv, NotAhead, OwedInitialized, SettledNow, UpToDate, EntriesInv
  <2>3. CollateralInv'
    BY <2>1 DEF LendingInv, CollateralInv, CollateralBacked, Blank
  <2>4. RateInv' /\ NothingLent'
    BY <2>1 DEF LendingInv, RateInv, NothingLent
  <2> QED BY <2>2, <2>3, <2>4 DEF LendingInv
<1> QED BY <1>1, <1>2, LendingOrStakes

LEMMA LendingInvariant == StakedSpec => []LendingInv
<1>1. StakedInit => LendingInv
  BY SettledInit, CollateralInit, EntriesInit, RateInit, NothingLentInit DEF StakedInit, LendingInv
<1>2. BothInv => TypeOK /\ BooksInv
  BY DEF BothInv, BooksInv
<1>3. TypeOK /\ TypeOK' /\ BooksInv /\ LendingInv /\ [StakedNext]_allVars => LendingInv'
  BY LendingInvNext
<1> QED BY <1>1, <1>2, <1>3, BothInvariant, PTL DEF StakedSpec

(* The books of the lending program agree, obligations fit their accounts, *)
(* fresh ones have been charged all interest and no debt is locked, with   *)
(* the staking program in between and whatever its owner and admin do.     *)
THEOREM StakedKeepsBooks ==
    StakedSpec => [](/\ LiquidityBacked /\ MintMatches /\ CollateralBacked
                     /\ ObligationFits /\ InterestSettled /\ RateNeverAhead)
<1>1. BothInv /\ LendingInv => /\ LiquidityBacked /\ MintMatches /\ CollateralBacked
                               /\ ObligationFits /\ InterestSettled /\ RateNeverAhead
  BY SettledFresh, EntriesFit, RateSound DEF BothInv, BooksInv, LendingInv, CollateralInv
<1> QED BY <1>1, BothInvariant, LendingInvariant, PTL

(* Every instruction of either program is a move of the vault on a single  *)
(* reserve, or leaves all reserves alone.                                  *)
THEOREM StakedImplementsVault == StakedSpec => ImplementsVault
<1>1. StakedInit => V!VaultInit
  BY VaultStart DEF StakedInit
<1>2. BothInv /\ LendingInv /\ [StakedNext]_allVars => [V!VaultNext]_(V!vars)
  <2> SUFFICES ASSUME BothInv, LendingInv, [StakedNext]_allVars PROVE [V!VaultNext]_(V!vars)
    OBVIOUS
  <2>1. CASE [OpenNext]_vars
    BY <2>1, VaultStep DEF BothInv, LendingInv
  <2>2. CASE UNCHANGED lendingVars
    BY <2>2 DEF lendingVars, V!vars
  <2> QED BY <2>1, <2>2, LendingOrStakes
<1> QED BY <1>1, <1>2, BothInvariant, LendingInvariant, PTL DEF StakedSpec, ImplementsVault, V!VaultSpec
==============================================================================

----------------------------- MODULE StakingProofs -----------------------------
(***************************************************************************)
(* Results about the staking program, for every value of the constants:    *)
(* any number of stake accounts, any amounts and schedules, any scale.     *)
(*                                                                         *)
(* The inductive invariant StakingInv relates the parts of the pool and of *)
(* the stake accounts that the instructions read without checking: the     *)
(* schedule to its last update, the rate a stake starts from to the pool's *)
(* rate.  PayInv adds what the pool owes: debts at the recorded rate, and  *)
(* emission still to come, are covered by the reward tokens.  ForEachKind  *)
(* makes every result one of both reward tokens or of none, so most lemmas *)
(* are about one token and are put together by EachKind.                   *)
(***************************************************************************)
EXTENDS Staking, FiniteSums

(***************************************************************************)
(* Results of the fixed-point operations.                                  *)
(***************************************************************************)
LEMMA KindIs == "reward" \in Kind /\ "sub_reward" \in Kind /\ "reward" # "sub_reward"
BY DEF Kind

LEMMA Widths ==
    /\ WAD \in Nat /\ WAD > 0 /\ U64_MAX \in Nat /\ U128_MAX \in Nat /\ U192_MAX \in Nat
    /\ U64 \subseteq Nat /\ Rate \subseteq Nat /\ Decimal \subseteq Nat /\ 0 \in U64 /\ 0 \in Rate
BY WadAssumption DEF U64, Rate, Decimal

(***************************************************************************)
(* Multiplying and dividing a rate gives the same result for both tokens;  *)
(* for the second one, fewer results fit.                                  *)
(***************************************************************************)
LEMMA DivideScaled ==
    ASSUME NEW a \in Nat, NEW b \in Nat, b > 0, NEW c \in Nat, c > 0
    PROVE  (a * c) \div (b * c) = a \div b
<1> DEFINE q == a \div b
           r == a % b
<1>1. q \in Nat /\ r \in Nat /\ r < b /\ a = q * b + r
  OBVIOUS
<1> HIDE DEF q, r
<1>2. \A x, y, z \in Nat : (x + y) * z = x * z + y * z /\ (x * y) * z = x * (y * z)
  OBVIOUS
<1>3. a * c = q * (b * c) + r * c
  <2>1. q * b \in Nat
    BY <1>1
  <2> QED BY <1>1, <1>2, <2>1
<1>4. r * c \in Nat /\ b * c \in Nat /\ r * c < b * c
  <2>1. r + 1 <= b
    BY <1>1
  <2>2. \A x, y \in Nat : x <= y => x * c <= y * c
    OBVIOUS
  <2>3. (r + 1) * c <= b * c
    BY <1>1, <2>1, <2>2
  <2>4. (r + 1) * c = r * c + c
    BY <1>1
  <2>5. r * c \in Nat /\ b * c \in Nat
    BY <1>1
  <2> QED BY <2>3, <2>4, <2>5
<1>5. \A m, s \in Nat : s < m => (q * m + s) \div m = q
  BY <1>1
<1>6. (a * c) \div (b * c) = q
  BY <1>3, <1>4, <1>5
<1> QED BY <1>6 DEF q

LEMMA RateTimesIs ==
    ASSUME NEW k, NEW a \in Nat, NEW n \in Nat
    PROVE  /\ \A x \in RateTimes(k, a, n) : x = a * n /\ x \in Decimal
           /\ (a * n \in Decimal /\ (k = "reward" \/ (a * n) * WAD \in Decimal))
                => a * n \in RateTimes(k, a, n)
<1>1. CASE k = "reward"
  BY <1>1 DEF RateTimes, TryMulU64
<1>2. CASE k # "reward"
  <2> DEFINE m == a * n
  <2>1. m \in Nat /\ a * (n * WAD) = m * WAD
    BY Widths
  <2>2. (m * WAD) \div (1 * WAD) = m \div 1
    <3> HIDE DEF m
    <3> QED BY <2>1, Widths, DivideScaled
  <2>3. (m * WAD) \div WAD = m
    <3> HIDE DEF m
    <3> QED BY <2>1, <2>2, Widths
  <2>4. RateTimes(k, a, n) = IF m * WAD \in Decimal THEN {m} \cap Decimal ELSE {}
    BY <1>2, <2>1, <2>3 DEF RateTimes, TryMul, FromU64
  <2> HIDE DEF m
  <2>5. /\ \A x \in RateTimes(k, a, n) : x = m /\ x \in Decimal
        /\ (m \in Decimal /\ (k = "reward" \/ m * WAD \in Decimal)) => m \in RateTimes(k, a, n)
    BY <1>2, <2>4
  <2> QED BY <2>5 DEF m
<1> QED BY <1>1, <1>2

LEMMA RateOverIs ==
    ASSUME NEW k, NEW a \in Nat, NEW n \in Nat
    PROVE  /\ \A x \in RateOver(k, a, n) : n > 0 /\ x = a \div n /\ x \in Decimal
           /\ (n > 0 /\ a \div n \in Decimal /\ (k = "reward" \/ a * WAD \in Decimal))
                => a \div n \in RateOver(k, a, n)
<1>1. CASE k = "reward"
  BY <1>1 DEF RateOver, TryDivU64
<1>2. CASE k # "reward"
  <2>1. n * WAD > 0 <=> n > 0
    <3>1. \A x, y \in Nat : x > 0 /\ y > 0 => x * y > 0
      OBVIOUS
    <3>2. n = 0 => n * WAD = 0
      BY Widths
    <3> QED BY <3>1, <3>2, Widths
  <2>2. n > 0 => (a * WAD) \div (n * WAD) = a \div n
    BY Widths, DivideScaled
  <2>3. RateOver(k, a, n) = IF a * WAD \in Decimal /\ n > 0 THEN {a \div n} \cap Decimal ELSE {}
    BY <1>2, <2>1, <2>2 DEF RateOver, TryDiv, FromU64
  <2> QED BY <1>2, <2>3
<1> QED BY <1>1, <1>2

(* ForEachKind has at most one result, made of a result for either token. *)
LEMMA EachKind ==
    ASSUME NEW res, NEW x \in ForEachKind(res)
    PROVE  /\ ForEachKind(res) = {x}
           /\ x = [k \in Kind |-> x[k]]
           /\ \A k \in Kind : x[k] \in res[k]
<1> DEFINE c == [k \in Kind |-> CHOOSE y \in res[k] : TRUE]
<1>1. (\A k \in Kind : res[k] # {}) /\ ForEachKind(res) = {c}
  BY DEF ForEachKind
<1>2. \A k \in Kind : c[k] \in res[k]
  BY <1>1
<1>3. x = c
  BY <1>1
<1> QED BY <1>1, <1>2, <1>3

(***************************************************************************)
(* A pool before it is packed, when its numbers may be too large for that. *)
(***************************************************************************)
Time == Int
RawRates == [Kind -> Decimal]

RawPool == [
    initialized : BOOLEAN, last_update : U64, end_time : Time, duration : Time,
    earliest_reward_claim_time : U64, rate_per_slot : RawRates,
    cumulative_rate : RawRates, pool_size : U64, has_sub : BOOLEAN,
    owner_authority : Keys, admin_authority : Keys ]

LEMMA RateIsDecimal == Rate \subseteq Decimal
<1>1. \A a, b \in Nat : b > 0 => a <= a * b
  OBVIOUS
<1>2. U128_MAX <= U192_MAX
  <2>1. U128_MAX <= U128_MAX * WAD
    BY <1>1, WadAssumption
  <2>2. U128_MAX * WAD \in Nat
    BY WadAssumption
  <2> QED BY <2>1, <2>2, WadAssumption
<1> QED BY <1>2, WadAssumption DEF Rate, Decimal

LEMMA PoolIsRaw == PoolRec \subseteq RawPool
<1>3. U64 \subseteq Time /\ Rate \subseteq Decimal
  BY RateIsDecimal, Widths DEF Time
<1>4. [Kind -> Rate] \subseteq RawRates
  BY <1>3 DEF RawRates
<1> QED BY <1>3, <1>4 DEF PoolRec, RawPool

LEMMA RawTypes ==
    ASSUME NEW p \in RawPool
    PROVE  /\ p.last_update \in Nat /\ p.end_time \in Int /\ p.duration \in Int /\ p.pool_size \in Nat
           /\ p.initialized \in BOOLEAN /\ p.has_sub \in BOOLEAN
           /\ p.rate_per_slot \in RawRates /\ p.cumulative_rate \in RawRates
           /\ \A k \in Kind : p.rate_per_slot[k] \in Nat /\ p.cumulative_rate[k] \in Nat
<1>1. /\ p.last_update \in U64 /\ p.end_time \in Time /\ p.duration \in Time /\ p.pool_size \in U64
      /\ p.initialized \in BOOLEAN /\ p.has_sub \in BOOLEAN
      /\ p.rate_per_slot \in RawRates /\ p.cumulative_rate \in RawRates
  BY DEF RawPool
<1> QED BY <1>1, Widths DEF Time, RawRates

(***************************************************************************)
(* claim_reward_helper.                                                    *)
(***************************************************************************)
LEMMA Accumulated ==
    ASSUME NEW cum \in RawRates, NEW rate \in RawRates, NEW t \in U64, NEW n \in U64,
           NEW x \in AccumulateRate(cum, rate, t, n)
    PROVE  /\ n > 0
           /\ AccumulateRate(cum, rate, t, n) = {x}
           /\ x \in RawRates
           /\ \A k \in Kind : x[k] = cum[k] + (rate[k] * t) \div n
<1> DEFINE res == [k \in Kind |->
       UNION {UNION {TryAdd(cum[k], per_token) : per_token \in RateOver(k, total, n)} :
              total \in RateTimes(k, rate[k], t)}]
<1>1. x \in ForEachKind(res) /\ AccumulateRate(cum, rate, t, n) = ForEachKind(res)
  BY DEF AccumulateRate
<1>2. \A k \in Kind : res[k] = UNION {UNION {TryAdd(cum[k], per_token) : per_token \in RateOver(k, total, n)} :
              total \in RateTimes(k, rate[k], t)}
  OBVIOUS
<1> HIDE DEF res
<1>3. /\ ForEachKind(res) = {x}
      /\ x = [k \in Kind |-> x[k]]
      /\ \A k \in Kind : x[k] \in res[k]
  BY <1>1, EachKind
<1>4. ASSUME NEW k \in Kind
      PROVE  n > 0 /\ x[k] \in Decimal /\ x[k] = cum[k] + (rate[k] * t) \div n
  <2>1. PICK total \in RateTimes(k, rate[k], t) :
          x[k] \in UNION {TryAdd(cum[k], per_token) : per_token \in RateOver(k, total, n)}
    BY <1>2, <1>3
  <2>2. PICK per_token \in RateOver(k, total, n) : x[k] \in TryAdd(cum[k], per_token)
    BY <2>1
  <2>3. rate[k] \in Nat /\ t \in Nat /\ n \in Nat
    BY Widths DEF RawRates
  <2>4. total = rate[k] * t /\ total \in Nat
    BY <2>1, <2>3, RateTimesIs, Widths
  <2>5. n > 0 /\ per_token = total \div n
    BY <2>2, <2>3, <2>4, RateOverIs
  <2>6. x[k] = cum[k] + per_token /\ x[k] \in Decimal
    BY <2>2 DEF TryAdd
  <2> QED BY <2>4, <2>6, <2>5
<1>5. n > 0
  BY <1>4, KindIs
<1> QED BY <1>1, <1>3, <1>4, <1>5 DEF RawRates

LEMMA Quotient ==
    ASSUME NEW a \in Nat, NEW b \in Nat, b > 0
    PROVE  a \div b \in Nat /\ 0 \div b = 0
OBVIOUS

LEMMA LeastIs ==
    ASSUME NEW a \in Nat, NEW b \in Nat
    PROVE  Least(a, b) \in Nat /\ Least(a, b) <= a /\ Least(a, b) <= b /\ Least(a, b) \in {a, b}
BY DEF Least

(* the time emission runs for until now *)
Elapsed(p, now) == Least(now, p.end_time) - p.last_update

LEMMA Claimed ==
    ASSUME NEW p \in RawPool, NEW now \in U64, NEW q \in ClaimRewardHelper(p, now)
    PROVE  /\ p.pool_size > 0
           /\ Elapsed(p, now) \in U64
           /\ ClaimRewardHelper(p, now) = {q}
           /\ q = [p EXCEPT !.last_update = Least(now, p.end_time),
                            !.cumulative_rate = q.cumulative_rate]
           /\ q.cumulative_rate \in RawRates
           /\ \A k \in Kind : q.cumulative_rate[k] = p.cumulative_rate[k]
                                + (p.rate_per_slot[k] * Elapsed(p, now)) \div p.pool_size
<1> DEFINE m == Least(now, p.end_time)
           A(e) == AccumulateRate(p.cumulative_rate, p.rate_per_slot, e, p.pool_size)
           C == UNION {A(e) : e \in CheckedSub(m, p.last_update)}
<1>1. ClaimRewardHelper(p, now) = {[p EXCEPT !.last_update = m, !.cumulative_rate = c] : c \in C}
  BY DEF ClaimRewardHelper
<1>2. PICK c \in C : q = [p EXCEPT !.last_update = m, !.cumulative_rate = c]
  BY <1>1
<1>3. PICK e \in CheckedSub(m, p.last_update) : c \in A(e)
  BY <1>2
<1>4. e = Elapsed(p, now) /\ e \in U64 /\ C = A(e)
  BY <1>3 DEF CheckedSub, Elapsed
<1>5. p.cumulative_rate \in RawRates /\ p.rate_per_slot \in RawRates /\ p.pool_size \in U64
  BY DEF RawPool
<1>6. /\ p.pool_size > 0
      /\ A(e) = {c}
      /\ c \in RawRates
      /\ \A k \in Kind : c[k] = p.cumulative_rate[k] + (p.rate_per_slot[k] * e) \div p.pool_size
  BY <1>3, <1>4, <1>5, Accumulated
<1>7. q.cumulative_rate = c
  BY <1>2 DEF RawPool
<1> HIDE DEF A, C, m
<1>8. ClaimRewardHelper(p, now) = {q}
  BY <1>1, <1>2, <1>4, <1>6
<1> QED BY <1>2, <1>4, <1>6, <1>7, <1>8 DEF m

(* the fields of a pool that emission brought up to date *)
LEMMA ClaimedFields ==
    ASSUME NEW p \in RawPool, NEW now \in U64, NEW q \in ClaimRewardHelper(p, now)
    PROVE  /\ q \in RawPool
           /\ q.initialized = p.initialized /\ q.has_sub = p.has_sub
           /\ q.last_update = Least(now, p.end_time)
           /\ q.end_time = p.end_time /\ q.duration = p.duration
           /\ q.rate_per_slot = p.rate_per_slot /\ q.pool_size = p.pool_size
           /\ \A k \in Kind : q.cumulative_rate[k] >= p.cumulative_rate[k]
<1>1. /\ q = [p EXCEPT !.last_update = Least(now, p.end_time), !.cumulative_rate = q.cumulative_rate]
      /\ q.cumulative_rate \in RawRates
      /\ p.pool_size > 0 /\ Elapsed(p, now) \in U64
      /\ \A k \in Kind : q.cumulative_rate[k] = p.cumulative_rate[k]
                                + (p.rate_per_slot[k] * Elapsed(p, now)) \div p.pool_size
  BY Claimed
<1>3. Least(now, p.end_time) \in U64
  <2>1. p.last_update \in Nat /\ p.end_time \in Int /\ now \in Nat
    BY RawTypes, Widths
  <2>2. Least(now, p.end_time) >= 0
    BY <1>1, <2>1 DEF Elapsed, Least, U64
  <2> QED BY <2>1, <2>2, WadAssumption DEF Least, U64
<1>4. q \in RawPool
  BY <1>1, <1>3 DEF RawPool
<1>5. ASSUME NEW k \in Kind PROVE q.cumulative_rate[k] >= p.cumulative_rate[k]
  <2>1. p.rate_per_slot[k] \in Nat /\ p.cumulative_rate[k] \in Nat /\ p.pool_size \in Nat
    BY RawTypes
  <2>2. Elapsed(p, now) \in Nat
    BY <1>1, Widths
  <2>3. p.rate_per_slot[k] * Elapsed(p, now) \in Nat
    BY <2>1, <2>2
  <2>4. (p.rate_per_slot[k] * Elapsed(p, now)) \div p.pool_size \in Nat
    BY <1>1, <2>1, <2>3, Quotient
  <2> QED BY <1>1, <2>1, <2>4
<1> QED BY <1>1, <1>4, <1>5 DEF RawPool

(***************************************************************************)
(* What every method keeps of a pool.                                      *)
(***************************************************************************)
Sched(p, now) ==
    p.last_update <= now /\ p.last_update <= p.end_time /\ p.end_time - now <= p.duration

(* nothing has been done with an uninitialized pool *)
Idle(p) == ~p.initialized => p.duration = 0 /\ p.end_time = 0 /\ ~p.has_sub

(* without a second token, nothing was ever emitted of it *)
OneToken(p) ==
    ~p.has_sub => p.rate_per_slot["sub_reward"] = 0 /\ p.cumulative_rate["sub_reward"] = 0

Good(p, now) == Sched(p, now) /\ Idle(p) /\ OneToken(p)

CurrentOf(p, now) == IF ClaimRewardHelper(p, now) = {} THEN p
                     ELSE CHOOSE q \in ClaimRewardHelper(p, now) : TRUE

Earned(p, now) == CurrentOf(p, now).cumulative_rate

(* a pool that has nothing to emit before the next slot *)
Quiet(p, now) == Elapsed(p, now) = 0 \/ p.rate_per_slot = NoReward

LEMMA EarnedClaimed ==
    ASSUME NEW p \in RawPool, NEW now \in U64, NEW q \in ClaimRewardHelper(p, now)
    PROVE  Earned(p, now) = q.cumulative_rate
<1>1. ClaimRewardHelper(p, now) = {q}
  BY Claimed
<1> QED BY <1>1 DEF Earned, CurrentOf

LEMMA EarnedQuiet ==
    ASSUME NEW p \in RawPool, NEW now \in U64, Quiet(p, now)
    PROVE  Earned(p, now) = p.cumulative_rate
<1>1. CASE ClaimRewardHelper(p, now) = {}
  BY <1>1 DEF Earned, CurrentOf
<1>2. ASSUME NEW q \in ClaimRewardHelper(p, now) PROVE Earned(p, now) = p.cumulative_rate
  <2>1. /\ p.pool_size > 0 /\ Elapsed(p, now) \in U64
        /\ q.cumulative_rate \in RawRates
        /\ \A k \in Kind : q.cumulative_rate[k] = p.cumulative_rate[k]
                                + (p.rate_per_slot[k] * Elapsed(p, now)) \div p.pool_size
    BY Claimed
  <2>2. ASSUME NEW k \in Kind PROVE q.cumulative_rate[k] = p.cumulative_rate[k]
    <3>1. p.rate_per_slot[k] \in Nat /\ p.cumulative_rate[k] \in Nat /\ p.pool_size \in Nat
      BY RawTypes
    <3>2. Elapsed(p, now) \in Nat
      BY <2>1, Widths
    <3>3. p.rate_per_slot[k] * Elapsed(p, now) = 0
      BY <3>1, <3>2 DEF Quiet, NoReward
    <3> QED BY <2>1, <3>1, <3>3, Quotient
  <2>3. p.cumulative_rate \in [Kind -> Decimal]
    BY RawTypes DEF RawRates
  <2>4. q.cumulative_rate = p.cumulative_rate
    BY <2>1, <2>2, <2>3 DEF RawRates
  <2> QED BY <2>4, EarnedClaimed
<1> QED BY <1>1, <1>2

LEMMA EarnedReached ==
    ASSUME NEW p \in RawPool, NEW now \in U64, NEW k \in Kind
    PROVE  Earned(p, now)[k] >= p.cumulative_rate[k]
<1>1. CASE ClaimRewardHelper(p, now) = {}
  <2>1. p.cumulative_rate[k] \in Nat
    BY RawTypes
  <2> QED BY <1>1, <2>1 DEF Earned, CurrentOf
<1>2. ASSUME NEW q \in ClaimRewardHelper(p, now) PROVE Earned(p, now)[k] >= p.cumulative_rate[k]
  BY EarnedClaimed, ClaimedFields
<1> QED BY <1>1, <1>2

(***************************************************************************)
(* The effect of each method of StakingPool on the schedule and the rates. *)
(***************************************************************************)
Kept(p, q, now) ==
    /\ Good(q, now)
    /\ Quiet(q, now)
    /\ q.cumulative_rate = Earned(p, now)
    /\ q.initialized = p.initialized

LEMMA ClaimKeeps ==
    ASSUME NEW p \in RawPool, NEW now \in U64, Good(p, now), NEW q \in ClaimRewardHelper(p, now)
    PROVE  q \in RawPool /\ Kept(p, q, now) /\ Elapsed(q, now) = 0
<1>1. /\ q \in RawPool
      /\ q.initialized = p.initialized /\ q.has_sub = p.has_sub
      /\ q.last_update = Least(now, p.end_time)
      /\ q.end_time = p.end_time /\ q.duration = p.duration
      /\ q.rate_per_slot = p.rate_per_slot /\ q.pool_size = p.pool_size
  BY ClaimedFields
<1>2. q.cumulative_rate = Earned(p, now)
  BY EarnedClaimed
<1>3. p.last_update \in Nat /\ p.end_time \in Int /\ p.duration \in Int /\ now \in Nat
  BY RawTypes, Widths
<1>4. Sched(q, now) /\ Elapsed(q, now) = 0
  <2>1. /\ Least(now, p.end_time) \in Int
        /\ Least(now, p.end_time) <= now /\ Least(now, p.end_time) <= p.end_time
    BY <1>3 DEF Least
  <2>2. p.end_time - now <= p.duration
    BY DEF Good, Sched
  <2> QED BY <1>1, <2>1, <2>2 DEF Sched, Elapsed
<1>5. OneToken(q)
  <2>1. CASE p.has_sub
    BY <1>1, <2>1 DEF OneToken
  <2>2. CASE ~p.has_sub
    <3>1. p.rate_per_slot["sub_reward"] = 0 /\ p.cumulative_rate["sub_reward"] = 0
      BY <2>2 DEF Good, OneToken
    <3>2. /\ p.pool_size > 0 /\ Elapsed(p, now) \in U64
          /\ q.cumulative_rate["sub_reward"] = p.cumulative_rate["sub_reward"]
               + (p.rate_per_slot["sub_reward"] * Elapsed(p, now)) \div p.pool_size
      <4>1. /\ p.pool_size > 0 /\ Elapsed(p, now) \in U64
            /\ \A k \in Kind : q.cumulative_rate[k] = p.cumulative_rate[k]
                                + (p.rate_per_slot[k] * Elapsed(p, now)) \div p.pool_size
        BY Claimed
      <4> QED BY <4>1, KindIs
    <3>3. Elapsed(p, now) \in Nat /\ p.pool_size \in Nat
      BY <3>2, Widths, RawTypes
    <3>4. 0 * Elapsed(p, now) = 0 /\ 0 \div p.pool_size = 0
      BY <3>2, <3>3
    <3> QED BY <1>1, <3>1, <3>2, <3>4 DEF OneToken
  <2>3. p.has_sub \in BOOLEAN
    BY RawTypes
  <2> QED BY <2>1, <2>2
<1>6. Idle(q)
  BY <1>1 DEF Good, Idle
<1> QED BY <1>1, <1>2, <1>4, <1>5, <1>6 DEF Kept, Good, Quiet

LEMMA StartKeeps ==
    ASSUME NEW p \in PoolRec, NEW now \in U64, Good(p, now), p.pool_size = 0, p.initialized,
           NEW q \in StartEmission(p, now)
    PROVE  q \in RawPool /\ Kept(p, q, now) /\ q.pool_size = 0
<1>1. PICK end \in U64 : end = now + p.duration /\ q = [p EXCEPT !.end_time = end, !.last_update = now]
  BY DEF StartEmission, CheckedAdd
<1>2. p \in RawPool /\ p.duration \in Nat /\ now \in Nat /\ end \in Time
  <2>1. p.duration \in U64
    BY DEF PoolRec
  <2>2. p.duration \in Nat /\ now \in Nat /\ end \in Nat
    BY <2>1, Widths
  <2> QED BY <2>2, PoolIsRaw DEF Time
<1>3. q \in RawPool
  BY <1>1, <1>2 DEF RawPool
<1>4. /\ q.initialized = p.initialized /\ q.has_sub = p.has_sub /\ q.pool_size = p.pool_size
      /\ q.last_update = now /\ q.end_time = end /\ q.duration = p.duration
      /\ q.rate_per_slot = p.rate_per_slot /\ q.cumulative_rate = p.cumulative_rate
  BY <1>1 DEF PoolRec
<1>5. Sched(q, now) /\ Elapsed(q, now) = 0
  BY <1>1, <1>2, <1>4 DEF Sched, Elapsed, Least
<1>6. Earned(p, now) = p.cumulative_rate
  <2>1. ASSUME NEW c \in ClaimRewardHelper(p, now) PROVE FALSE
    <3>1. p.pool_size > 0
      BY <1>2, Claimed
    <3> QED BY <3>1
  <2> QED BY <2>1 DEF Earned, CurrentOf
<1> QED BY <1>3, <1>4, <1>5, <1>6 DEF Kept, Good, Quiet, OneToken, Idle

(* setting the size touches none of it *)
LEMMA SizeKeeps ==
    ASSUME NEW p, NEW q \in RawPool, NEW now \in U64, Kept(p, q, now), NEW n \in U64,
           NEW r, r = [q EXCEPT !.pool_size = n]
    PROVE  Kept(p, r, now) /\ r.pool_size = n
<1>1. /\ r.initialized = q.initialized /\ r.has_sub = q.has_sub /\ r.pool_size = n
      /\ r.last_update = q.last_update /\ r.end_time = q.end_time /\ r.duration = q.duration
      /\ r.rate_per_slot = q.rate_per_slot /\ r.cumulative_rate = q.cumulative_rate
  BY DEF RawPool
<1> QED BY <1>1 DEF Kept, Good, Sched, Idle, OneToken, Quiet, Elapsed

LEMMA DepositKeeps ==
    ASSUME NEW p \in PoolRec, NEW now \in U64, Good(p, now), p.initialized, NEW amount \in U64,
           NEW r \in PoolDeposit(p, now, amount)
    PROVE  Kept(p, r, now) /\ r.pool_size = p.pool_size + amount
<1>1. PICK q : /\ q \in (IF amount = 0 THEN {} ELSE IF p.pool_size = 0 THEN StartEmission(p, now)
                         ELSE ClaimRewardHelper(p, now))
               /\ r \in {[q EXCEPT !.pool_size = size] : size \in CheckedAdd(q.pool_size, amount)}
  BY DEF PoolDeposit
<1>2. q \in RawPool /\ Kept(p, q, now) /\ q.pool_size = p.pool_size
  BY <1>1, StartKeeps, ClaimKeeps, ClaimedFields, PoolIsRaw
<1>3. PICK size \in U64 : size = q.pool_size + amount /\ r = [q EXCEPT !.pool_size = size]
  BY <1>1 DEF CheckedAdd
<1> QED BY <1>2, <1>3, SizeKeeps

LEMMA WithdrawKeeps ==
    ASSUME NEW p \in PoolRec, NEW now \in U64, Good(p, now), NEW amount \in U64,
           NEW r \in PoolWithdraw(p, now, amount)
    PROVE  Kept(p, r, now) /\ r.pool_size = p.pool_size - amount
<1>1. PICK q : /\ q \in ClaimRewardHelper(p, now)
               /\ r \in {[q EXCEPT !.pool_size = size] : size \in CheckedSub(q.pool_size, amount)}
  BY DEF PoolWithdraw
<1>2. q \in RawPool /\ Kept(p, q, now) /\ q.pool_size = p.pool_size
  BY <1>1, ClaimKeeps, ClaimedFields, PoolIsRaw
<1>3. PICK size \in U64 : size = q.pool_size - amount /\ r = [q EXCEPT !.pool_size = size]
  BY <1>1 DEF CheckedSub
<1> QED BY <1>2, <1>3, SizeKeeps

LEMMA RateChanged ==
    ASSUME NEW rate \in RawRates, NEW change \in [Kind -> Int], NEW t \in U64,
           NEW x \in ChangedRate(rate, change, t)
    PROVE  x \in RawRates /\ \A k \in Kind : change[k] = 0 => x[k] = rate[k]
<1> DEFINE Res(k) == UNION {IF change[k] > 0 THEN TryAdd(rate[k], delta) ELSE TrySub(rate[k], delta) :
                            delta \in TryDivU64(FromU64(Abs(change[k])), t)}
           res == [k \in Kind |-> Res(k)]
<1>1. x = [k \in Kind |-> x[k]] /\ \A k \in Kind : x[k] \in Res(k)
  <2>1. x \in ForEachKind(res)
    BY DEF ChangedRate
  <2>2. x = [k \in Kind |-> x[k]] /\ \A k \in Kind : x[k] \in res[k]
    BY <2>1, EachKind
  <2> QED BY <2>2
<1>2. ASSUME NEW k \in Kind PROVE x[k] \in Decimal /\ (change[k] = 0 => x[k] = rate[k])
  <2>1. PICK delta \in TryDivU64(FromU64(Abs(change[k])), t) :
          x[k] \in IF change[k] > 0 THEN TryAdd(rate[k], delta) ELSE TrySub(rate[k], delta)
    BY <1>1
  <2>2. x[k] \in Decimal
    BY <2>1 DEF TryAdd, TrySub
  <2>3. ASSUME change[k] = 0 PROVE x[k] = rate[k]
    <3>1. FromU64(Abs(change[k])) = 0
      BY <2>3, Widths DEF FromU64, Abs
    <3>2. t \in Nat /\ t > 0 /\ delta = 0 \div t
      BY <2>1, <3>1, Widths DEF TryDivU64
    <3>3. delta = 0
      BY <3>2, Quotient
    <3>4. rate[k] \in Nat
      BY Widths DEF RawRates
    <3>5. x[k] = rate[k] - 0
      BY <2>1, <2>3, <3>3 DEF TrySub
    <3> QED BY <3>4, <3>5
  <2> QED BY <2>2, <2>3
<1> HIDE DEF Res
<1> QED BY <1>1, <1>2 DEF RawRates

LEMMA SupplyIs ==
    ASSUME NEW p, NEW change, NEW now, NEW r \in UpdateRewardSupply(p, change, now)
    PROVE  \E t \in CheckedSub(p.end_time, now), q \in ClaimRewardHelper(p, now) :
             \E x \in ChangedRate(q.rate_per_slot, change, t) : r = [q EXCEPT !.rate_per_slot = x]
<1>1. PICK t \in CheckedSub(p.end_time, now), q \in ClaimRewardHelper(p, now) :
        r \in {[q EXCEPT !.rate_per_slot = rate] : rate \in ChangedRate(q.rate_per_slot, change, t)}
  BY DEF UpdateRewardSupply
<1> QED BY <1>1

LEMMA SupplyKeeps ==
    ASSUME NEW p \in RawPool, NEW now \in U64, Good(p, now), NEW change \in [Kind -> Int],
           ~p.has_sub => change["sub_reward"] = 0,
           NEW r \in UpdateRewardSupply(p, change, now)
    PROVE  Kept(p, r, now) /\ r.pool_size = p.pool_size
<1>1. PICK t \in CheckedSub(p.end_time, now), q \in ClaimRewardHelper(p, now) :
        \E x \in ChangedRate(q.rate_per_slot, change, t) : r = [q EXCEPT !.rate_per_slot = x]
  BY SupplyIs
<1>2. PICK x \in ChangedRate(q.rate_per_slot, change, t) : r = [q EXCEPT !.rate_per_slot = x]
  BY <1>1
<1>3. q \in RawPool /\ Kept(p, q, now) /\ Elapsed(q, now) = 0
  BY ClaimKeeps
<1>4. q.has_sub = p.has_sub /\ q.pool_size = p.pool_size
  BY ClaimedFields
<1>5. t \in U64
  BY <1>1 DEF CheckedSub
<1>6. x \in RawRates /\ \A k \in Kind : change[k] = 0 => x[k] = q.rate_per_slot[k]
  BY <1>2, <1>3, <1>5, RateChanged, RawTypes
<1>7. /\ r.initialized = q.initialized /\ r.has_sub = q.has_sub /\ r.pool_size = q.pool_size
      /\ r.last_update = q.last_update /\ r.end_time = q.end_time /\ r.duration = q.duration
      /\ r.rate_per_slot = x /\ r.cumulative_rate = q.cumulative_rate
  BY <1>2, <1>3 DEF RawPool
<1>8. ~q.has_sub => x["sub_reward"] = q.rate_per_slot["sub_reward"]
  BY <1>4, <1>6, KindIs
<1>9. Elapsed(r, now) = 0
  BY <1>3, <1>7 DEF Elapsed
<1> QED BY <1>3, <1>4, <1>7, <1>8, <1>9 DEF Kept, Good, Sched, Idle, OneToken, Quiet

LEMMA SubKeeps ==
    ASSUME NEW p \in RawPool, NEW now \in U64, Good(p, now), NEW amount \in U64,
           p.initialized, NEW r \in AddSubReward(p, amount, now)
    PROVE  /\ Kept(p, r, now) /\ r.pool_size = p.pool_size
<1> DEFINE New(q, t) == {[q EXCEPT !.has_sub = TRUE, !.cumulative_rate["sub_reward"] = 0,
                                   !.rate_per_slot["sub_reward"] = rate] :
                         rate \in TryDivU64(FromU64(amount), t)}
<1>0. PICK t \in (IF p.has_sub THEN {} ELSE CheckedSub(p.end_time, now)) :
        r \in UNION {New(q, t) : q \in ClaimRewardHelper(p, now)}
  BY DEF AddSubReward
<1>1. PICK q \in ClaimRewardHelper(p, now) : ~p.has_sub /\ r \in New(q, t)
  BY <1>0
<1>2. PICK rate : r = [q EXCEPT !.has_sub = TRUE, !.cumulative_rate["sub_reward"] = 0,
                             !.rate_per_slot["sub_reward"] = rate]
  BY <1>1
<1>3. q \in RawPool /\ Kept(p, q, now) /\ Elapsed(q, now) = 0
  BY ClaimKeeps
<1>4. q.has_sub = p.has_sub /\ q.pool_size = p.pool_size
  BY ClaimedFields
<1>5. /\ r.initialized = q.initialized /\ r.has_sub = TRUE /\ r.pool_size = q.pool_size
      /\ r.last_update = q.last_update /\ r.end_time = q.end_time /\ r.duration = q.duration
      /\ r.cumulative_rate = [q.cumulative_rate EXCEPT !["sub_reward"] = 0]
  BY <1>2, <1>3 DEF RawPool
<1>6. q.cumulative_rate["sub_reward"] = 0
  BY <1>1, <1>3, <1>4 DEF Kept, Good, OneToken
<1>7. r.cumulative_rate = q.cumulative_rate
  <2>1. q.cumulative_rate \in RawRates
    BY <1>3, RawTypes
  <2> QED BY <1>5, <1>6, <2>1 DEF RawRates
<1>8. Elapsed(r, now) = 0
  BY <1>3, <1>5 DEF Elapsed
<1>9. Idle(r)
  BY <1>1, <1>3, <1>4, <1>5 DEF Kept, Good, Idle
<1> QED BY <1>3, <1>4, <1>5, <1>7, <1>8, <1>9 DEF Kept, Good, Sched, OneToken, Quiet

LEMMA BeforeStartKeeps ==
    ASSUME NEW p \in PoolRec, NEW now \in U64, Good(p, now), p.initialized, p.end_time = 0,
           NEW extend \in Int, NEW r \in ExtendBeforeStart(p, extend)
    PROVE  Kept(p, r, now) /\ r.pool_size = p.pool_size
<1> DEFINE Res(k, d) == UNION {RateOver(k, supply, d) : supply \in RateTimes(k, p.rate_per_slot[k], p.duration)}
           New(d) == {[p EXCEPT !.duration = d, !.rate_per_slot = rate] :
                      rate \in ForEachKind([k \in Kind |-> Res(k, d)])}
<1>1. PICK d \in (IF extend < 0 THEN {} ELSE CheckedAdd(p.duration, extend)) : r \in New(d)
  <2>1. ExtendBeforeStart(p, extend) =
          UNION {New(d) : d \in IF extend < 0 THEN {} ELSE CheckedAdd(p.duration, extend)}
    BY DEF ExtendBeforeStart
  <2> HIDE DEF New
  <2> QED BY <2>1
<1>2. extend >= 0 /\ d = p.duration + extend /\ d \in U64
  <2>1. ~(extend < 0) /\ d \in {p.duration + extend} \cap U64
    <3> HIDE DEF New
    <3> QED BY <1>1 DEF CheckedAdd
  <2> QED BY <2>1
<1>3. PICK x \in ForEachKind([k \in Kind |-> Res(k, d)]) :
        r = [p EXCEPT !.duration = d, !.rate_per_slot = x]
  BY <1>1
<1>4. x["sub_reward"] \in Res("sub_reward", d)
  <2> HIDE DEF Res
  <2> DEFINE res == [k \in Kind |-> Res(k, d)]
  <2>1. \A k \in Kind : x[k] \in res[k]
    <3> HIDE DEF res
    <3> QED BY <1>3, EachKind DEF res
  <2> QED BY <2>1, KindIs
<1>5. /\ r.initialized = p.initialized /\ r.has_sub = p.has_sub /\ r.pool_size = p.pool_size
      /\ r.last_update = p.last_update /\ r.end_time = p.end_time /\ r.duration = d
      /\ r.rate_per_slot = x /\ r.cumulative_rate = p.cumulative_rate
  BY <1>3 DEF PoolRec
<1>6. p.last_update \in Nat /\ p.duration \in Nat /\ now \in Nat
  BY Widths DEF PoolRec
<1>7. p.last_update = 0 /\ Least(now, 0) = 0 /\ Elapsed(p, now) = 0 /\ Elapsed(r, now) = 0
  BY <1>5, <1>6 DEF Good, Sched, Elapsed, Least
<1>8. Earned(p, now) = p.cumulative_rate
  BY <1>7, EarnedQuiet, PoolIsRaw DEF Quiet
<1>9. Sched(r, now)
  BY <1>2, <1>5, <1>6 DEF Good, Sched
<1>10. ASSUME ~p.has_sub PROVE x["sub_reward"] = 0
  <2>1. p.rate_per_slot["sub_reward"] = 0
    BY <1>10 DEF Good, OneToken
  <2>2. PICK supply \in RateTimes("sub_reward", 0, p.duration) :
          x["sub_reward"] \in RateOver("sub_reward", supply, d)
    BY <1>4, <2>1
  <2>3. supply = 0
    BY <1>6, <2>2, RateTimesIs
  <2>4. d > 0 /\ d \in Nat /\ x["sub_reward"] = 0 \div d
    BY <1>2, <2>2, <2>3, Widths, RateOverIs
  <2> QED BY <2>4, Quotient
<1> QED BY <1>5, <1>7, <1>8, <1>9, <1>10 DEF Kept, Good, Idle, OneToken, Quiet

(* the pool extend_duration computes before it spreads what is left over the new time *)
LEMMA ExtendedIs ==
    ASSUME NEW p \in RawPool, NEW now \in U64, Good(p, now), p.initialized, NEW extend \in Int,
           p.last_update <= p.end_time + extend
    PROVE  /\ Extended(p, extend) \in RawPool
           /\ Good(Extended(p, extend), now) /\ Quiet(Extended(p, extend), now)
           /\ Extended(p, extend).cumulative_rate = p.cumulative_rate
           /\ Earned(Extended(p, extend), now) = p.cumulative_rate
           /\ Extended(p, extend).initialized
           /\ Extended(p, extend).has_sub = p.has_sub /\ Extended(p, extend).pool_size = p.pool_size
<1> DEFINE e == Extended(p, extend)
<1>1. e = [p EXCEPT !.end_time = p.end_time + extend, !.duration = p.duration + extend,
                    !.rate_per_slot = NoReward]
  BY DEF Extended
<1>2. p.end_time \in Int /\ p.duration \in Int /\ p.last_update \in Nat /\ now \in Nat
  BY RawTypes, Widths
<1>3. p.end_time + extend \in Time /\ p.duration + extend \in Time
  BY <1>2 DEF Time
<1>4. NoReward \in RawRates /\ NoReward["sub_reward"] = 0
  BY WadAssumption, KindIs DEF NoReward, RawRates, Decimal
<1>5. e \in RawPool
  BY <1>1, <1>3, <1>4 DEF RawPool
<1>6. /\ e.initialized = p.initialized /\ e.has_sub = p.has_sub /\ e.pool_size = p.pool_size
      /\ e.last_update = p.last_update /\ e.end_time = p.end_time + extend
      /\ e.duration = p.duration + extend
      /\ e.rate_per_slot = NoReward /\ e.cumulative_rate = p.cumulative_rate
  BY <1>1 DEF RawPool
<1> HIDE DEF e
<1>7. Sched(e, now)
  BY <1>2, <1>6 DEF Good, Sched
<1>8. Good(e, now) /\ Quiet(e, now)
  BY <1>4, <1>6, <1>7 DEF Good, Idle, OneToken, Quiet
<1>9. Earned(e, now) = e.cumulative_rate
  BY <1>5, <1>8, EarnedQuiet
<1> QED BY <1>5, <1>6, <1>8, <1>9 DEF e

LEMMA RunningKeeps ==
    ASSUME NEW p \in RawPool, NEW now \in U64, Good(p, now), p.initialized, NEW extend \in Int,
           p.end_time >= now, Elapsed(p, now) = 0, NEW r \in ExtendRunning(p, extend, now)
    PROVE  Kept(p, r, now) /\ r.pool_size = p.pool_size
<1> DEFINE t == p.end_time - now
           Res(k) == UNION {TryFloorU64(wads) \cap 0..I64_MAX :
                            wads \in RateTimes(k, p.rate_per_slot[k], t)}
           res == [k \in Kind |-> Res(k)]
           e == Extended(p, extend)
<1>1. PICK left \in (IF extend < 0 /\ Abs(extend) >= t THEN {} ELSE ForEachKind(res)) :
        r \in UpdateRewardSupply(e, left, now)
  BY DEF ExtendRunning
<1>2. left \in ForEachKind(res) /\ ~(extend < 0 /\ Abs(extend) >= t)
  BY <1>1
<1>3. left = [k \in Kind |-> left[k]] /\ \A k \in Kind : left[k] \in Res(k)
  <2> HIDE DEF res
  <2>1. left = [k \in Kind |-> left[k]] /\ \A k \in Kind : left[k] \in res[k]
    BY <1>2, EachKind
  <2> HIDE DEF Res
  <2> QED BY <2>1 DEF res
<1>4. left \in [Kind -> Int]
  <2>1. \A k \in Kind : left[k] \in Int
    BY <1>3
  <2> HIDE DEF Res, res, e, t
  <2> QED BY <1>3, <2>1
<1>5. p.end_time \in Int /\ p.last_update \in Nat /\ now \in Nat
  BY RawTypes, Widths
<1>6. p.last_update = now
  BY <1>5 DEF Elapsed, Least
<1>7. p.last_update <= p.end_time + extend
  BY <1>2, <1>5, <1>6 DEF Abs
<1>8. /\ e \in RawPool /\ Good(e, now)
      /\ Earned(e, now) = p.cumulative_rate
      /\ e.initialized /\ e.has_sub = p.has_sub /\ e.pool_size = p.pool_size
  BY <1>7, ExtendedIs
<1>9. ASSUME ~p.has_sub PROVE left["sub_reward"] = 0
  <2>1. p.rate_per_slot["sub_reward"] = 0
    BY <1>9 DEF Good, OneToken
  <2>2. PICK wads \in RateTimes("sub_reward", 0, t) : left["sub_reward"] \in TryFloorU64(wads)
    BY <1>3, <2>1, KindIs
  <2>3. wads = 0
    BY <1>5, <2>2, RateTimesIs
  <2>4. left["sub_reward"] = 0 \div WAD
    BY <2>2, <2>3 DEF TryFloorU64
  <2> QED BY <2>4, Quotient, Widths
<1> HIDE DEF e, res, Res, t
<1>10. Kept(e, r, now) /\ r.pool_size = e.pool_size
  BY <1>1, <1>4, <1>8, <1>9, SupplyKeeps
<1>11. Earned(p, now) = p.cumulative_rate
  BY EarnedQuiet DEF Quiet
<1> QED BY <1>8, <1>10, <1>11 DEF Kept

LEMMA DurationKeeps ==
    ASSUME NEW p \in PoolRec, NEW now \in U64, Good(p, now), p.initialized, NEW extend \in Int,
           NEW r \in ExtendDuration(p, extend, now)
    PROVE  Kept(p, r, now) /\ r.pool_size = p.pool_size
<1>1. CASE p.end_time = 0
  BY <1>1, BeforeStartKeeps DEF ExtendDuration
<1>2. CASE p.end_time # 0
  <2> DEFINE New(q) == IF q.end_time >= now THEN ExtendRunning(q, extend, now)
                       ELSE IF extend > 0 THEN {Extended(q, extend)} ELSE {}
  <2>1. PICK q \in ClaimRewardHelper(p, now) : r \in New(q)
    <3>1. ExtendDuration(p, extend, now) = UNION {New(q) : q \in ClaimRewardHelper(p, now)}
      BY <1>2 DEF ExtendDuration
    <3> HIDE DEF New
    <3> QED BY <3>1
  <2>2. q \in RawPool /\ Kept(p, q, now) /\ Elapsed(q, now) = 0 /\ q.pool_size = p.pool_size
    BY ClaimKeeps, ClaimedFields, PoolIsRaw
  <2>3. Good(q, now) /\ q.initialized /\ q.cumulative_rate = Earned(p, now)
    BY <2>2 DEF Kept
  <2>4. CASE q.end_time >= now
    <3>1. Kept(q, r, now) /\ r.pool_size = q.pool_size
      BY <2>1, <2>2, <2>3, <2>4, RunningKeeps
    <3>2. Earned(q, now) = q.cumulative_rate
      BY <2>2, EarnedQuiet DEF Quiet
    <3> QED BY <2>2, <2>3, <3>1, <3>2 DEF Kept
  <2>5. CASE ~(q.end_time >= now)
    <3>1. extend > 0 /\ r = Extended(q, extend)
      BY <2>1, <2>5
    <3>2. q.last_update \in Nat /\ q.end_time \in Int
      BY <2>2, RawTypes
    <3>3. q.last_update <= q.end_time + extend
      BY <2>3, <3>1, <3>2 DEF Good, Sched
    <3>4. /\ Good(r, now) /\ Quiet(r, now) /\ r.cumulative_rate = q.cumulative_rate
          /\ r.initialized /\ r.pool_size = q.pool_size
      BY <2>2, <2>3, <3>1, <3>3, ExtendedIs
    <3>5. r.initialized = p.initialized
      <4>1. r.initialized \in BOOLEAN /\ p.initialized \in BOOLEAN
        BY <2>2, <2>3, <3>1, <3>3, ExtendedIs, RawTypes, PoolIsRaw
      <4> QED BY <3>4, <4>1
    <3> QED BY <2>2, <2>3, <3>4, <3>5 DEF Kept
  <2> QED BY <2>4, <2>5
<1> QED BY <1>1, <1>2

(* emission depends on these fields only *)
LEMMA SameEmission ==
    ASSUME NEW p, NEW q, NEW now,
           q.last_update = p.last_update, q.end_time = p.end_time, q.pool_size = p.pool_size,
           q.rate_per_slot = p.rate_per_slot, q.cumulative_rate = p.cumulative_rate,
           p \in RawPool, q \in RawPool, now \in U64
    PROVE  Earned(q, now) = Earned(p, now)
<1> DEFINE C(x) == UNION {AccumulateRate(x.cumulative_rate, x.rate_per_slot, elapsed, x.pool_size) :
                          elapsed \in CheckedSub(Least(now, x.end_time), x.last_update)}
<1>1. \A x : ClaimRewardHelper(x, now) =
        {[x EXCEPT !.last_update = Least(now, x.end_time), !.cumulative_rate = c] : c \in C(x)}
  BY DEF ClaimRewardHelper
<1>2. C(p) = C(q)
  OBVIOUS
<1> HIDE DEF C
<1>3. CASE C(p) = {}
  <2>1. ClaimRewardHelper(p, now) = {} /\ ClaimRewardHelper(q, now) = {}
    BY <1>1, <1>2, <1>3
  <2> QED BY <2>1 DEF Earned, CurrentOf
<1>4. ASSUME NEW c \in C(p) PROVE Earned(q, now) = Earned(p, now)
  <2> DEFINE New(x) == [x EXCEPT !.last_update = Least(now, x.end_time), !.cumulative_rate = c]
  <2>1. New(p) \in ClaimRewardHelper(p, now) /\ New(q) \in ClaimRewardHelper(q, now)
    BY <1>1, <1>2
  <2>2. New(p).cumulative_rate = c /\ New(q).cumulative_rate = c
    BY DEF RawPool
  <2> HIDE DEF New
  <2>3. Earned(p, now) = New(p).cumulative_rate
    BY <2>1, EarnedClaimed
  <2>4. Earned(q, now) = New(q).cumulative_rate
    BY <2>1, EarnedClaimed
  <2> QED BY <2>2, <2>3, <2>4
<1> QED BY <1>3, <1>4

(***************************************************************************)
(* The effect of each method of StakeAccount.                              *)
(***************************************************************************)
RawAccount == [
    initialized : BOOLEAN, start_rate : RawRates,
    deposited_amount : U64, unclaimed_reward_wads : RawRates ]

(* what the account has earned when the cumulative rate is cum *)
Due(acc, cum, k) ==
    acc.unclaimed_reward_wads[k] + (cum[k] - acc.start_rate[k]) * acc.deposited_amount

LEMMA AccountTypes ==
    ASSUME NEW acc \in AccountRec
    PROVE  /\ acc \in RawAccount
           /\ acc.deposited_amount \in U64 /\ acc.deposited_amount \in Nat
           /\ \A k \in Kind : acc.start_rate[k] \in Nat /\ acc.unclaimed_reward_wads[k] \in Nat
<1>3. [Kind -> Rate] \subseteq RawRates
  BY RateIsDecimal DEF RawRates
<1>4. acc \in RawAccount
  BY <1>3 DEF AccountRec, RawAccount
<1> QED BY <1>4, Widths DEF AccountRec

LEMMA Accrued ==
    ASSUME NEW acc \in AccountRec, NEW cum \in RawRates, NEW b \in AccrueReward(acc, cum)
    PROVE  /\ b \in RawAccount
           /\ b.initialized = acc.initialized /\ b.deposited_amount = acc.deposited_amount
           /\ b.start_rate = cum
           /\ \A k \in Kind : b.unclaimed_reward_wads[k] = Due(acc, cum, k)
<1> DEFINE E(k) == UNION {TryMulU64(diff, acc.deposited_amount) : diff \in TrySub(cum[k], acc.start_rate[k])}
           eres == [k \in Kind |-> E(k)]
<1>1. PICK earned \in CalculateReward(acc, cum) :
        b \in {[acc EXCEPT !.unclaimed_reward_wads = unclaimed, !.start_rate = cum] :
               unclaimed \in ForEachKind([k \in Kind |-> TryAdd(acc.unclaimed_reward_wads[k], earned[k])])}
  BY DEF AccrueReward
<1>2. \A k \in Kind : earned[k] \in E(k)
  <2>1. earned \in ForEachKind(eres)
    BY <1>1 DEF CalculateReward
  <2> HIDE DEF eres
  <2>2. \A k \in Kind : earned[k] \in eres[k]
    BY <2>1, EachKind
  <2> HIDE DEF E
  <2> QED BY <2>2 DEF eres
<1>3. ASSUME NEW k \in Kind PROVE earned[k] = (cum[k] - acc.start_rate[k]) * acc.deposited_amount
  <2>1. PICK diff \in TrySub(cum[k], acc.start_rate[k]) : earned[k] \in TryMulU64(diff, acc.deposited_amount)
    BY <1>2
  <2> QED BY <2>1 DEF TrySub, TryMulU64
<1> DEFINE ures == [k \in Kind |-> TryAdd(acc.unclaimed_reward_wads[k], earned[k])]
<1>4. PICK u \in ForEachKind(ures) : b = [acc EXCEPT !.unclaimed_reward_wads = u, !.start_rate = cum]
  BY <1>1
<1>5. u = [k \in Kind |-> u[k]] /\ \A k \in Kind : u[k] \in TryAdd(acc.unclaimed_reward_wads[k], earned[k])
  <2>1. \A k \in Kind : ures[k] = TryAdd(acc.unclaimed_reward_wads[k], earned[k])
    OBVIOUS
  <2> HIDE DEF ures
  <2>2. u = [k \in Kind |-> u[k]] /\ \A k \in Kind : u[k] \in ures[k]
    BY <1>4, EachKind
  <2> QED BY <2>1, <2>2
<1> HIDE DEF E, eres, ures
<1>6. u \in RawRates
  <2>1. \A k \in Kind : u[k] \in Decimal
    BY <1>5 DEF TryAdd
  <2> QED BY <1>5, <2>1 DEF RawRates
<1>7. b \in RawAccount
  BY <1>4, <1>6, AccountTypes DEF RawAccount
<1>8. /\ b.initialized = acc.initialized /\ b.deposited_amount = acc.deposited_amount
      /\ b.start_rate = cum /\ b.unclaimed_reward_wads = u
  BY <1>4 DEF AccountRec
<1>9. \A k \in Kind : u[k] = acc.unclaimed_reward_wads[k] + earned[k]
  BY <1>5 DEF TryAdd
<1> QED BY <1>3, <1>7, <1>8, <1>9 DEF Due

LEMMA AccountDeposited ==
    ASSUME NEW acc \in AccountRec, NEW cum \in RawRates, NEW amount \in U64,
           NEW b \in AccountDeposit(acc, cum, amount)
    PROVE  /\ b.initialized = acc.initialized /\ b.start_rate = cum
           /\ b.deposited_amount = acc.deposited_amount + amount
           /\ \A k \in Kind : b.unclaimed_reward_wads[k] = Due(acc, cum, k)
<1>1. PICK c \in AccrueReward(acc, cum) :
        b \in {[c EXCEPT !.deposited_amount = total] : total \in CheckedAdd(c.deposited_amount, amount)}
  BY DEF AccountDeposit
<1>2. PICK total : total = c.deposited_amount + amount /\ b = [c EXCEPT !.deposited_amount = total]
  BY <1>1 DEF CheckedAdd
<1>3. /\ c \in RawAccount
      /\ c.initialized = acc.initialized /\ c.deposited_amount = acc.deposited_amount
      /\ c.start_rate = cum
      /\ \A k \in Kind : c.unclaimed_reward_wads[k] = Due(acc, cum, k)
  BY Accrued
<1>4. /\ b.initialized = c.initialized /\ b.start_rate = c.start_rate /\ b.deposited_amount = total
      /\ b.unclaimed_reward_wads = c.unclaimed_reward_wads
  BY <1>2, <1>3 DEF RawAccount
<1> QED BY <1>2, <1>3, <1>4

LEMMA AccountWithdrawn ==
    ASSUME NEW acc \in AccountRec, NEW cum \in RawRates, NEW amount \in U64,
           NEW b \in AccountWithdraw(acc, cum, amount)
    PROVE  /\ b.initialized = acc.initialized /\ b.start_rate = cum
           /\ b.deposited_amount = acc.deposited_amount - amount
           /\ \A k \in Kind : b.unclaimed_reward_wads[k] = Due(acc, cum, k)
<1>1. PICK c \in AccrueReward(acc, cum) :
        b \in {[c EXCEPT !.deposited_amount = left] : left \in CheckedSub(c.deposited_amount, amount)}
  BY DEF AccountWithdraw
<1>2. PICK left : left = c.deposited_amount - amount /\ b = [c EXCEPT !.deposited_amount = left]
  BY <1>1 DEF CheckedSub
<1>3. /\ c \in RawAccount
      /\ c.initialized = acc.initialized /\ c.deposited_amount = acc.deposited_amount
      /\ c.start_rate = cum
      /\ \A k \in Kind : c.unclaimed_reward_wads[k] = Due(acc, cum, k)
  BY Accrued
<1>4. /\ b.initialized = c.initialized /\ b.start_rate = c.start_rate /\ b.deposited_amount = left
      /\ b.unclaimed_reward_wads = c.unclaimed_reward_wads
  BY <1>2, <1>3 DEF RawAccount
<1> QED BY <1>2, <1>3, <1>4

LEMMA AccountClaimed ==
    ASSUME NEW acc \in AccountRec, NEW cum \in RawRates, NEW c \in AccountClaim(acc, cum)
    PROVE  /\ c.account.initialized = acc.initialized /\ c.account.start_rate = cum
           /\ c.account.deposited_amount = acc.deposited_amount
           /\ \A k \in Kind : /\ Due(acc, cum, k) \in Nat
                              /\ c.paid[k] \in U64
                              /\ c.paid[k] = Due(acc, cum, k) \div WAD
                              /\ c.account.unclaimed_reward_wads[k] = Due(acc, cum, k) % WAD
<1> DEFINE New(a, paid) == [account |-> [a EXCEPT !.unclaimed_reward_wads =
                                           [k \in Kind |-> @[k] - FromU64(paid[k])]],
                            paid |-> paid]
           res(a) == [k \in Kind |-> TryFloorU64(a.unclaimed_reward_wads[k])]
<1>1. PICK a \in AccrueReward(acc, cum) : c \in {New(a, paid) : paid \in ForEachKind(res(a))}
  BY DEF AccountClaim
<1>2. PICK paid \in ForEachKind(res(a)) : c = New(a, paid)
  BY <1>1
<1>3. \A k \in Kind : paid[k] \in TryFloorU64(a.unclaimed_reward_wads[k])
  <2> DEFINE r == res(a)
  <2>1. \A k \in Kind : r[k] = TryFloorU64(a.unclaimed_reward_wads[k])
    OBVIOUS
  <2>2. paid \in ForEachKind(r)
    BY <1>2
  <2> HIDE DEF r
  <2>3. \A k \in Kind : paid[k] \in r[k]
    BY <2>2, EachKind
  <2> QED BY <2>1, <2>3
<1>4. /\ a \in RawAccount
      /\ a.initialized = acc.initialized /\ a.deposited_amount = acc.deposited_amount
      /\ a.start_rate = cum
      /\ \A k \in Kind : a.unclaimed_reward_wads[k] = Due(acc, cum, k)
  BY Accrued
<1>5. /\ c.paid = paid
      /\ c.account = [a EXCEPT !.unclaimed_reward_wads =
                        [k \in Kind |-> a.unclaimed_reward_wads[k] - FromU64(paid[k])]]
  BY <1>2
<1>6. /\ c.account.initialized = a.initialized /\ c.account.start_rate = a.start_rate
      /\ c.account.deposited_amount = a.deposited_amount
      /\ c.account.unclaimed_reward_wads = [k \in Kind |-> a.unclaimed_reward_wads[k] - FromU64(paid[k])]
  BY <1>4, <1>5 DEF RawAccount
<1>7. ASSUME NEW k \in Kind
      PROVE  /\ Due(acc, cum, k) \in Nat /\ paid[k] \in U64 /\ paid[k] = Due(acc, cum, k) \div WAD
             /\ Due(acc, cum, k) - FromU64(paid[k]) = Due(acc, cum, k) % WAD
  <2> DEFINE u == Due(acc, cum, k)
  <2>1. u \in Nat
    <3>1. a.unclaimed_reward_wads[k] \in Decimal
      BY <1>4 DEF RawAccount, RawRates
    <3> QED BY <1>4, <3>1, Widths
  <2>2. paid[k] \in U64 /\ paid[k] = u \div WAD
    BY <1>3, <1>4 DEF TryFloorU64
  <2> HIDE DEF u
  <2>3. u - (u \div WAD) * WAD = u % WAD
    BY <2>1, Widths
  <2> QED BY <2>1, <2>2, <2>3 DEF u, FromU64
<1> QED BY <1>4, <1>5, <1>6, <1>7

-----------------------------------------------------------------------------
(***************************************************************************)
(* The inductive invariant: the types, tokens are neither made nor lost,   *)
(* the schedule and the rates of the pool are sound, no account is ahead.  *)
(***************************************************************************)
Conserved == \A k \in Kind : rewardPool[k] + funds[k] = Funds

StakingInv == TypeOK /\ Conserved /\ Good(pool, slot) /\ StartRateReached

(***************************************************************************)
(* What the instructions have in common.  One that concerns the pool       *)
(* leaves the accounts and all earnings as they are; one of account a      *)
(* brings the pool up to date, credits the account and moves the stake.    *)
(***************************************************************************)
PoolMoved ==
    /\ slot' = slot /\ account' = account
    /\ pool' \in PoolRec
    /\ Good(pool', slot)
    /\ pool'.pool_size = pool.pool_size
    /\ pool.initialized => pool'.initialized
    /\ Earned(pool', slot) = Earned(pool, slot)
    /\ \A k \in Kind : pool.cumulative_rate[k] <= pool'.cumulative_rate[k]

AccountMoved(a, amount) ==
    /\ slot' = slot
    /\ account' \in [Accounts -> AccountRec]
    /\ \A b \in Accounts \ {a} : account'[b] = account[b]
    /\ pool'.initialized /\ account'[a].initialized
    /\ account'[a].start_rate = pool'.cumulative_rate
    /\ account'[a].deposited_amount = account[a].deposited_amount + amount
    /\ pool' \in PoolRec
    /\ Good(pool', slot)
    /\ pool'.pool_size = pool.pool_size + amount
    /\ Earned(pool, slot) = pool'.cumulative_rate
    /\ Earned(pool', slot) = pool'.cumulative_rate
    /\ \A k \in Kind : pool.cumulative_rate[k] <= pool'.cumulative_rate[k]

LEMMA KeptMoved ==
    ASSUME NEW p \in PoolRec, NEW q \in PoolRec, NEW now \in U64, Kept(p, q, now)
    PROVE  /\ Good(q, now)
           /\ Earned(p, now) = q.cumulative_rate
           /\ Earned(q, now) = q.cumulative_rate
           /\ \A k \in Kind : p.cumulative_rate[k] <= q.cumulative_rate[k]
<1>1. p \in RawPool /\ q \in RawPool
  BY PoolIsRaw
<1>2. Good(q, now) /\ Quiet(q, now) /\ Earned(p, now) = q.cumulative_rate
  BY DEF Kept
<1>3. Earned(q, now) = q.cumulative_rate
  BY <1>1, <1>2, EarnedQuiet
<1>4. ASSUME NEW k \in Kind PROVE p.cumulative_rate[k] <= q.cumulative_rate[k]
  <2>1. Earned(p, now)[k] >= p.cumulative_rate[k]
    BY <1>1, EarnedReached
  <2>2. p.cumulative_rate[k] \in Nat /\ q.cumulative_rate[k] \in Nat
    BY <1>1, RawTypes
  <2> QED BY <1>2, <2>1, <2>2
<1> QED BY <1>2, <1>3, <1>4

LEMMA PairIs ==
    ASSUME NEW x \in Int, NEW y \in Int
    PROVE  /\ Pair(x, y) \in [Kind -> Int]
           /\ Pair(x, y)["reward"] = x /\ Pair(x, y)["sub_reward"] = y
BY DEF Pair, Kind

LEMMA RewardsMoved ==
    ASSUME TypeOK, Conserved, NEW amounts \in [Kind -> Int], MoveRewards(amounts)
    PROVE  /\ rewardPool' \in [Kind -> U64] /\ funds' \in [Kind -> U64]
           /\ Conserved'
           /\ \A k \in Kind : rewardPool'[k] = rewardPool[k] + amounts[k]
<1>1. ASSUME NEW k \in Kind
      PROVE  /\ rewardPool'[k] = rewardPool[k] + amounts[k] /\ funds'[k] = funds[k] - amounts[k]
             /\ rewardPool'[k] \in U64 /\ funds'[k] \in U64
             /\ rewardPool'[k] + funds'[k] = Funds
  <2>1. rewardPool'[k] = rewardPool[k] + amounts[k] /\ funds'[k] = funds[k] - amounts[k]
    BY DEF MoveRewards
  <2>2. rewardPool[k] \in Nat /\ funds[k] \in Nat /\ amounts[k] \in Int /\ Funds \in Nat /\ Funds <= U64_MAX
    BY StakingAssumption, WadAssumption DEF TypeOK, U64
  <2>3. amounts[k] <= funds[k] /\ -amounts[k] <= rewardPool[k] /\ rewardPool[k] + funds[k] = Funds
    BY DEF MoveRewards, Conserved
  <2> QED BY <2>1, <2>2, <2>3, WadAssumption DEF U64
<1>2. rewardPool' = [k \in Kind |-> rewardPool'[k]] /\ funds' = [k \in Kind |-> funds'[k]]
  BY DEF MoveRewards
<1> QED BY <1>1, <1>2 DEF Conserved

LEMMA PoolSaved ==
    ASSUME NEW p, SavePool(p)
    PROVE  pool' = p /\ p \in PoolRec
BY DEF SavePool, PackPool

LEMMA AccountSaved ==
    ASSUME NEW a \in Accounts, NEW acc, account \in [Accounts -> AccountRec], SaveAccount(a, acc)
    PROVE  /\ acc \in AccountRec
           /\ account' \in [Accounts -> AccountRec]
           /\ account'[a] = acc
           /\ \A b \in Accounts \ {a} : account'[b] = account[b]
<1>1. acc \in AccountRec /\ account' = [account EXCEPT ![a] = acc]
  BY DEF SaveAccount, PackAccount
<1> QED BY <1>1

(* what happens to the other variables *)
HistoryOK == restarted \in BOOLEAN /\ excess \in [Kind -> 0..WAD]

Tokens ==
    /\ rewardPool' \in [Kind -> U64] /\ funds' \in [Kind -> U64] /\ HistoryOK'
    /\ Conserved'

(* The inductive invariant follows from either. *)
LEMMA InvFromPool ==
    ASSUME StakingInv, PoolMoved, Tokens
    PROVE  StakingInv'
<1>1. TypeOK'
  BY DEF StakingInv, TypeOK, PoolMoved, Tokens, HistoryOK
<1>2. Good(pool', slot')
  BY DEF PoolMoved
<1>3. StartRateReached'
  <2> SUFFICES ASSUME NEW a \in Accounts, NEW k \in Kind
               PROVE  account'[a].start_rate[k] <= pool'.cumulative_rate[k]
    BY DEF StartRateReached
  <2>1. account[a] \in AccountRec /\ pool \in PoolRec /\ pool' \in PoolRec
    BY DEF StakingInv, TypeOK, PoolMoved
  <2>2. account[a].start_rate[k] \in Nat /\ pool.cumulative_rate[k] \in Nat /\ pool'.cumulative_rate[k] \in Nat
    BY <2>1, AccountTypes, RawTypes, PoolIsRaw
  <2>3. account'[a] = account[a] /\ account[a].start_rate[k] <= pool.cumulative_rate[k]
        /\ pool.cumulative_rate[k] <= pool'.cumulative_rate[k]
    BY DEF StakingInv, StartRateReached, PoolMoved
  <2> QED BY <2>2, <2>3
<1> QED BY <1>1, <1>2, <1>3 DEF StakingInv, Tokens

LEMMA InvFromAccount ==
    ASSUME StakingInv, NEW a \in Accounts, NEW amount \in Int, AccountMoved(a, amount),
           Tokens
    PROVE  StakingInv'
<1>1. TypeOK'
  BY DEF StakingInv, TypeOK, AccountMoved, Tokens, HistoryOK
<1>2. Good(pool', slot')
  BY DEF AccountMoved
<1>3. StartRateReached'
  <2> SUFFICES ASSUME NEW b \in Accounts, NEW k \in Kind
               PROVE  account'[b].start_rate[k] <= pool'.cumulative_rate[k]
    BY DEF StartRateReached
  <2>1. account[b] \in AccountRec /\ pool \in PoolRec /\ pool' \in PoolRec
    BY DEF StakingInv, TypeOK, AccountMoved
  <2>2. account[b].start_rate[k] \in Nat /\ pool.cumulative_rate[k] \in Nat /\ pool'.cumulative_rate[k] \in Nat
    BY <2>1, AccountTypes, RawTypes, PoolIsRaw
  <2>3. CASE b = a
    BY <2>2, <2>3 DEF AccountMoved
  <2>4. CASE b # a
    <3>1. account'[b] = account[b] /\ account[b].start_rate[k] <= pool.cumulative_rate[k]
          /\ pool.cumulative_rate[k] <= pool'.cumulative_rate[k]
      BY <2>4 DEF StakingInv, StartRateReached, AccountMoved
    <3> QED BY <2>2, <3>1
  <2> QED BY <2>3, <2>4
<1> QED BY <1>1, <1>2, <1>3 DEF StakingInv, Tokens

LEMMA HistoryStill ==
    ASSUME StakingInv, UNCHANGED <<restarted, excess>>
    PROVE  HistoryOK'
BY DEF StakingInv, TypeOK, HistoryOK

LEMMA TokensStill ==
    ASSUME StakingInv, UNCHANGED <<rewardPool, funds>>, HistoryOK'
    PROVE  Tokens
BY DEF StakingInv, TypeOK, Conserved, Tokens

LEMMA TokensMoved ==
    ASSUME StakingInv, NEW amounts \in [Kind -> Int], MoveRewards(amounts), HistoryOK'
    PROVE  Tokens
<1>1. TypeOK /\ Conserved
  BY DEF StakingInv
<1>2. rewardPool' \in [Kind -> U64] /\ funds' \in [Kind -> U64] /\ Conserved'
  BY <1>1, RewardsMoved
<1> QED BY <1>2 DEF Tokens

(***************************************************************************)
(* One lemma per instruction.                                              *)
(***************************************************************************)
LEMMA InitStep ==
    ASSUME StakingInv, NEW supply \in Supplies, NEW sub_supply \in SubSupplies,
           NEW duration \in Durations, NEW time \in ClaimTimes, NEW owner \in Keys, NEW admin \in Keys,
           ProcessInitStakingPool(supply, sub_supply, duration, time, owner, admin)
    PROVE  PoolMoved /\ Tokens
<1>1. PICK rate \in RateOf(Pair(supply, sub_supply), duration) :
        SavePool([pool EXCEPT !.initialized = TRUE, !.duration = duration,
                               !.rate_per_slot = rate, !.earliest_reward_claim_time = time,
                               !.has_sub = sub_supply # 0,
                               !.owner_authority = owner, !.admin_authority = admin])
  BY DEF ProcessInitStakingPool
<1> DEFINE q == [pool EXCEPT !.initialized = TRUE, !.duration = duration,
                               !.rate_per_slot = rate, !.earliest_reward_claim_time = time,
                               !.has_sub = sub_supply # 0,
                               !.owner_authority = owner, !.admin_authority = admin]
<1>2. pool' = q /\ q \in PoolRec
  BY <1>1, PoolSaved
<1>3. pool \in PoolRec /\ slot \in U64 /\ Good(pool, slot) /\ ~pool.initialized
  BY DEF StakingInv, TypeOK, ProcessInitStakingPool
<1>4. /\ q.initialized = TRUE /\ q.has_sub = (sub_supply # 0) /\ q.pool_size = pool.pool_size
      /\ q.last_update = pool.last_update /\ q.end_time = pool.end_time /\ q.duration = duration
      /\ q.rate_per_slot = rate /\ q.cumulative_rate = pool.cumulative_rate
  BY <1>3 DEF PoolRec
<1> HIDE DEF q
<1>5. pool.end_time = 0 /\ pool.duration = 0 /\ ~pool.has_sub
  BY <1>3 DEF Good, Idle
<1>6. pool.last_update \in Nat /\ slot \in Nat /\ duration \in Nat /\ supply \in Int /\ sub_supply \in Int
  <2>1. pool.last_update \in U64
    BY <1>3 DEF PoolRec
  <2>2. duration \in U64 /\ supply \in U64 /\ sub_supply \in U64
    BY StakingAssumption
  <2>3. U64 \subseteq Nat
    BY Widths
  <2>4. /\ pool.last_update \in Nat /\ slot \in Nat /\ duration \in Nat
        /\ supply \in Nat /\ sub_supply \in Nat
    BY <1>3, <2>1, <2>2, <2>3
  <2> QED BY <2>4
<1>7. Sched(q, slot) /\ Elapsed(q, slot) = 0 /\ Elapsed(pool, slot) = 0
  BY <1>3, <1>4, <1>5, <1>6 DEF Good, Sched, Elapsed, Least
<1>8. OneToken(q)
  <2> SUFFICES ASSUME sub_supply = 0
               PROVE  rate["sub_reward"] = 0 /\ pool.cumulative_rate["sub_reward"] = 0
    BY <1>4 DEF OneToken
  <2>1. pool.cumulative_rate["sub_reward"] = 0
    BY <1>3, <1>5 DEF Good, OneToken
  <2>2. rate["sub_reward"] \in TryDivU64(FromU64(0), duration)
    <3> DEFINE P == Pair(supply, sub_supply)
               res == [k \in Kind |-> TryDivU64(FromU64(P[k]), duration)]
    <3>1. rate \in ForEachKind(res)
      BY <1>1 DEF RateOf
    <3>2. P["sub_reward"] = 0
      BY <1>6, PairIs
    <3>3. res["sub_reward"] = TryDivU64(FromU64(0), duration)
      BY <3>2, KindIs
    <3> HIDE DEF res
    <3>4. rate["sub_reward"] \in res["sub_reward"]
      BY <3>1, EachKind, KindIs
    <3> QED BY <3>3, <3>4
  <2>3. duration > 0 /\ rate["sub_reward"] = FromU64(0) \div duration
    BY <2>2 DEF TryDivU64
  <2>4. FromU64(0) = 0
    BY Widths DEF FromU64
  <2> QED BY <1>6, <2>1, <2>3, <2>4, Quotient
<1>9. Earned(pool, slot) = pool.cumulative_rate
  BY <1>3, <1>7, EarnedQuiet, PoolIsRaw DEF Quiet
<1>10. Earned(q, slot) = q.cumulative_rate
  BY <1>2, <1>3, <1>7, EarnedQuiet, PoolIsRaw DEF Quiet
<1>11. \A k \in Kind : pool.cumulative_rate[k] <= q.cumulative_rate[k]
  BY <1>3, <1>4, RawTypes, PoolIsRaw
<1>12. Good(q, slot)
  BY <1>4, <1>7, <1>8 DEF Good, Idle
<1>13. slot' = slot /\ account' = account /\ HistoryOK'
  BY HistoryStill DEF ProcessInitStakingPool
<1>14. PoolMoved
  BY <1>2, <1>4, <1>9, <1>10, <1>11, <1>12, <1>13 DEF PoolMoved
<1>15. Tokens
  <2>1. Pair(supply, sub_supply) \in [Kind -> Int] /\ MoveRewards(Pair(supply, sub_supply))
    BY <1>6, PairIs DEF ProcessInitStakingPool
  <2> QED BY <1>13, <2>1, TokensMoved
<1> QED BY <1>14, <1>15

(* instructions that neither touch emission nor the accounts *)
LEMMA AdminStep ==
    ASSUME StakingInv, NEW q, SavePool(q), UNCHANGED <<slot, account, rewardPool, funds, restarted, excess>>,
           q.initialized = pool.initialized, q.has_sub = pool.has_sub, q.pool_size = pool.pool_size,
           q.last_update = pool.last_update, q.end_time = pool.end_time, q.duration = pool.duration,
           q.rate_per_slot = pool.rate_per_slot, q.cumulative_rate = pool.cumulative_rate
    PROVE  PoolMoved /\ Tokens
<1>1. pool' = q /\ q \in PoolRec
  BY PoolSaved
<1>2. pool \in PoolRec /\ slot \in U64 /\ Good(pool, slot)
  BY DEF StakingInv, TypeOK
<1>3. Good(q, slot)
  BY <1>2 DEF Good, Sched, Idle, OneToken
<1>4. Earned(q, slot) = Earned(pool, slot)
  BY <1>1, <1>2, PoolIsRaw, SameEmission
<1>5. \A k \in Kind : pool.cumulative_rate[k] <= q.cumulative_rate[k]
  BY <1>2, RawTypes, PoolIsRaw
<1>6. Tokens
  BY HistoryStill, TokensStill
<1> QED BY <1>1, <1>3, <1>4, <1>5, <1>6 DEF PoolMoved

LEMMA KeptStep ==
    ASSUME StakingInv, NEW q, SavePool(q), Kept(pool, q, slot), q.pool_size = pool.pool_size,
           slot' = slot, account' = account
    PROVE  PoolMoved
<1>1. pool' = q /\ q \in PoolRec
  BY PoolSaved
<1>2. pool \in PoolRec /\ slot \in U64
  BY DEF StakingInv, TypeOK
<1>3. /\ Good(q, slot)
      /\ Earned(pool, slot) = q.cumulative_rate
      /\ Earned(q, slot) = q.cumulative_rate
      /\ \A k \in Kind : pool.cumulative_rate[k] <= q.cumulative_rate[k]
  BY <1>1, <1>2, KeptMoved
<1>4. q.initialized = pool.initialized
  BY DEF Kept
<1> QED BY <1>1, <1>3, <1>4 DEF PoolMoved

(* what update_reward_supply divides by is the time that is left *)
LEMMA TimeLeft ==
    ASSUME NEW p, NEW change, NEW now, NEW r \in UpdateRewardSupply(p, change, now)
    PROVE  p.end_time - now \in U64 /\ p.end_time - now > 0
<1>1. PICK t \in CheckedSub(p.end_time, now), q \in ClaimRewardHelper(p, now) :
        \E x \in ChangedRate(q.rate_per_slot, change, t) : r = [q EXCEPT !.rate_per_slot = x]
  BY SupplyIs
<1>2. PICK x : x \in ChangedRate(q.rate_per_slot, change, t)
  BY <1>1
<1> DEFINE Res(k) == UNION {IF change[k] > 0 THEN TryAdd(q.rate_per_slot[k], delta)
                            ELSE TrySub(q.rate_per_slot[k], delta) :
                            delta \in TryDivU64(FromU64(Abs(change[k])), t)}
           res == [k \in Kind |-> Res(k)]
<1>3. x \in ForEachKind(res)
  BY <1>2 DEF ChangedRate
<1>4. x["reward"] \in Res("reward")
  <2> HIDE DEF Res
  <2>1. res["reward"] = Res("reward")
    BY KindIs
  <2> HIDE DEF res
  <2> QED BY <1>3, <2>1, EachKind, KindIs
<1>5. TryDivU64(FromU64(Abs(change["reward"])), t) # {}
  BY <1>4
<1> QED BY <1>1, <1>5 DEF TryDivU64, CheckedSub

(* what a reduction by c loses in the division by t *)
Lost(c, t) == IF c < 0 THEN FromU64(-c) % t ELSE 0

LEMMA ExcessAfterIs ==
    ASSUME NEW e \in 0..WAD, NEW c \in Int, NEW t \in Nat, t > 0
    PROVE  /\ ExcessAfter(e, c, t) \in 0..WAD
           /\ Lost(c, t) \in Nat
           /\ ExcessAfter(e, c, t) < WAD => ExcessAfter(e, c, t) = e + Lost(c, t)
<1>1. CASE c < 0
  <2> DEFINE w == FromU64(-c)
  <2>1. w \in Nat
    BY <1>1, Widths DEF FromU64
  <2> HIDE DEF w
  <2>2. w % t \in Nat
    BY <2>1
  <2>3. ExcessAfter(e, c, t) = Least(WAD, e + (w % t))
    BY <1>1 DEF ExcessAfter, w
  <2> DEFINE m == w % t
  <2> HIDE DEF m
  <2>4. Least(WAD, e + m) \in 0..WAD /\ (Least(WAD, e + m) < WAD => Least(WAD, e + m) = e + m)
    BY <2>2, Widths DEF Least, m
  <2> QED BY <1>1, <2>2, <2>3, <2>4 DEF w, m, Lost
<1>2. CASE ~(c < 0)
  BY <1>2, Widths DEF ExcessAfter, Lost
<1> QED BY <1>1, <1>2

LEMMA ExcessMoved ==
    ASSUME StakingInv, NEW amount \in Changes, NEW sub_amount \in SubChanges, NEW signer,
           ProcessChangeRewardSupply(amount, sub_amount, signer)
    PROVE  /\ HistoryOK'
           /\ restarted' = restarted
           /\ pool.end_time - slot \in Nat /\ pool.end_time - slot > 0
           /\ \A k \in Kind : excess'[k] = ExcessAfter(excess[k], Pair(amount, sub_amount)[k],
                                                       pool.end_time - slot)
<1>1. Pair(amount, sub_amount) \in [Kind -> Int]
  <2>1. amount \in Int /\ sub_amount \in Int
    BY StakingAssumption
  <2> QED BY <2>1, PairIs
<1>2. pool.end_time - slot \in Nat /\ pool.end_time - slot > 0
  <2>1. PICK q \in UpdateRewardSupply(pool, Pair(amount, sub_amount), slot) : TRUE
    BY DEF ProcessChangeRewardSupply
  <2> QED BY <2>1, TimeLeft, Widths
<1>3. excess' = [k \in Kind |-> ExcessAfter(excess[k], Pair(amount, sub_amount)[k], pool.end_time - slot)]
      /\ restarted' = restarted
  BY DEF ProcessChangeRewardSupply
<1>4. restarted \in BOOLEAN /\ excess \in [Kind -> 0..WAD]
  BY DEF StakingInv, TypeOK
<1>5. \A k \in Kind : ExcessAfter(excess[k], Pair(amount, sub_amount)[k], pool.end_time - slot) \in 0..WAD
  <2> SUFFICES ASSUME NEW k \in Kind
               PROVE  ExcessAfter(excess[k], Pair(amount, sub_amount)[k], pool.end_time - slot) \in 0..WAD
    OBVIOUS
  <2>1. excess[k] \in 0..WAD /\ Pair(amount, sub_amount)[k] \in Int
    BY <1>1, <1>4
  <2> QED BY <1>2, <2>1, ExcessAfterIs
<1> QED BY <1>2, <1>3, <1>4, <1>5 DEF HistoryOK

LEMMA SupplyStep ==
    ASSUME StakingInv, NEW amount \in Changes, NEW sub_amount \in SubChanges, NEW signer,
           ProcessChangeRewardSupply(amount, sub_amount, signer)
    PROVE  PoolMoved /\ Tokens
<1>1. amount \in Int /\ sub_amount \in Int
  BY StakingAssumption
<1>2. PICK q \in UpdateRewardSupply(pool, Pair(amount, sub_amount), slot) : SavePool(q)
  BY DEF ProcessChangeRewardSupply
<1>3. pool \in RawPool /\ slot \in U64 /\ Good(pool, slot)
  BY PoolIsRaw DEF StakingInv, TypeOK
<1>4. /\ Pair(amount, sub_amount) \in [Kind -> Int]
      /\ ~pool.has_sub => Pair(amount, sub_amount)["sub_reward"] = 0
  BY <1>1, PairIs DEF ProcessChangeRewardSupply
<1>5. Kept(pool, q, slot) /\ q.pool_size = pool.pool_size
  BY <1>2, <1>3, <1>4, SupplyKeeps
<1>6. slot' = slot /\ account' = account /\ MoveRewards(Pair(amount, sub_amount))
  BY DEF ProcessChangeRewardSupply
<1>7. HistoryOK'
  BY ExcessMoved
<1> QED BY <1>2, <1>4, <1>5, <1>6, <1>7, KeptStep, TokensMoved

LEMMA DurationStep ==
    ASSUME StakingInv, NEW extend \in Extensions, NEW signer, ProcessChangeDuration(extend, signer)
    PROVE  PoolMoved /\ Tokens
<1>1. extend \in Int
  BY StakingAssumption
<1>2. PICK q \in ExtendDuration(pool, extend, slot) : SavePool(q)
  BY DEF ProcessChangeDuration
<1>3. pool \in PoolRec /\ slot \in U64 /\ Good(pool, slot) /\ pool.initialized
  BY DEF StakingInv, TypeOK, ProcessChangeDuration
<1>4. Kept(pool, q, slot) /\ q.pool_size = pool.pool_size
  BY <1>1, <1>2, <1>3, DurationKeeps
<1>5. UNCHANGED <<slot, account, rewardPool, funds, restarted, excess>>
  BY DEF ProcessChangeDuration
<1>6. PoolMoved
  BY <1>2, <1>4, <1>5, KeptStep
<1>7. Tokens
  BY <1>5, HistoryStill, TokensStill
<1> QED BY <1>6, <1>7

LEMMA SubStep ==
    ASSUME StakingInv, NEW amount \in SubSupplies, NEW signer, ProcessAddSubRewardPool(amount, signer)
    PROVE  PoolMoved /\ Tokens
<1>1. amount \in U64 /\ amount \in Int
  <2>1. amount \in U64
    BY StakingAssumption
  <2> QED BY <2>1, Widths
<1>2. PICK q \in AddSubReward(pool, amount, slot) : SavePool(q)
  BY DEF ProcessAddSubRewardPool
<1>3. pool \in RawPool /\ slot \in U64 /\ Good(pool, slot) /\ pool.initialized
  BY PoolIsRaw DEF StakingInv, TypeOK, ProcessAddSubRewardPool
<1>4. Kept(pool, q, slot) /\ q.pool_size = pool.pool_size
  BY <1>1, <1>2, <1>3, SubKeeps
<1>5. /\ slot' = slot /\ account' = account /\ HistoryOK'
      /\ MoveRewards(Pair(0, amount)) /\ Pair(0, amount) \in [Kind -> Int]
  BY <1>1, PairIs, HistoryStill DEF ProcessAddSubRewardPool
<1> QED BY <1>2, <1>4, <1>5, KeptStep, TokensMoved

LEMMA PoolSteps ==
    ASSUME StakingInv, NEW signer \in Keys, PoolStep(signer)
    PROVE  PoolMoved /\ Tokens
<1>0. pool \in PoolRec
  BY DEF StakingInv, TypeOK
<1>1. ASSUME NEW time \in ClaimTimes, ProcessUpdateEarliestRewardClaimTime(time, signer)
      PROVE  PoolMoved /\ Tokens
  <2> DEFINE q == [pool EXCEPT !.earliest_reward_claim_time = time]
  <2>1. SavePool(q) /\ UNCHANGED <<slot, account, rewardPool, funds, restarted, excess>>
    BY <1>1 DEF ProcessUpdateEarliestRewardClaimTime
  <2>2. /\ q.initialized = pool.initialized /\ q.has_sub = pool.has_sub /\ q.pool_size = pool.pool_size
        /\ q.last_update = pool.last_update /\ q.end_time = pool.end_time /\ q.duration = pool.duration
        /\ q.rate_per_slot = pool.rate_per_slot /\ q.cumulative_rate = pool.cumulative_rate
    BY <1>0 DEF PoolRec
  <2> HIDE DEF q
  <2> QED BY <2>1, <2>2, AdminStep
<1>2. ASSUME NEW key \in Keys, ProcessChangeOwner(signer, key)
      PROVE  PoolMoved /\ Tokens
  <2> DEFINE q == [pool EXCEPT !.owner_authority = key]
  <2>1. SavePool(q) /\ UNCHANGED <<slot, account, rewardPool, funds, restarted, excess>>
    BY <1>2 DEF ProcessChangeOwner
  <2>2. /\ q.initialized = pool.initialized /\ q.has_sub = pool.has_sub /\ q.pool_size = pool.pool_size
        /\ q.last_update = pool.last_update /\ q.end_time = pool.end_time /\ q.duration = pool.duration
        /\ q.rate_per_slot = pool.rate_per_slot /\ q.cumulative_rate = pool.cumulative_rate
    BY <1>0 DEF PoolRec
  <2> HIDE DEF q
  <2> QED BY <2>1, <2>2, AdminStep
<1>3. ASSUME NEW key \in Keys, ProcessChangeAdmin(signer, key)
      PROVE  PoolMoved /\ Tokens
  <2> DEFINE q == [pool EXCEPT !.admin_authority = key]
  <2>1. SavePool(q) /\ UNCHANGED <<slot, account, rewardPool, funds, restarted, excess>>
    BY <1>3 DEF ProcessChangeAdmin
  <2>2. /\ q.initialized = pool.initialized /\ q.has_sub = pool.has_sub /\ q.pool_size = pool.pool_size
        /\ q.last_update = pool.last_update /\ q.end_time = pool.end_time /\ q.duration = pool.duration
        /\ q.rate_per_slot = pool.rate_per_slot /\ q.cumulative_rate = pool.cumulative_rate
    BY <1>0 DEF PoolRec
  <2> HIDE DEF q
  <2> QED BY <2>1, <2>2, AdminStep
<1> QED BY <1>1, <1>2, <1>3, SupplyStep, DurationStep, SubStep DEF PoolStep

LEMMA CreateStep ==
    ASSUME StakingInv, NEW a \in Accounts, ProcessCreateStakeAccount(a)
    PROVE  /\ StakingInv'
           /\ slot' = slot /\ pool' = pool
           /\ \A b \in Accounts :
                /\ account'[b].start_rate = account[b].start_rate
                /\ account'[b].deposited_amount = account[b].deposited_amount
                /\ account'[b].unclaimed_reward_wads = account[b].unclaimed_reward_wads
                /\ account[b].initialized => account'[b].initialized
<1> DEFINE acc == [account[a] EXCEPT !.initialized = TRUE]
<1>1. /\ slot' = slot /\ pool' = pool /\ UNCHANGED <<rewardPool, funds, restarted, excess>>
      /\ SaveAccount(a, acc)
  BY DEF ProcessCreateStakeAccount
<1>2. account \in [Accounts -> AccountRec]
  BY DEF StakingInv, TypeOK
<1>3. /\ acc.initialized = TRUE
      /\ acc.start_rate = account[a].start_rate /\ acc.deposited_amount = account[a].deposited_amount
      /\ acc.unclaimed_reward_wads = account[a].unclaimed_reward_wads
  BY <1>2 DEF AccountRec
<1> HIDE DEF acc
<1>4. /\ account' \in [Accounts -> AccountRec]
      /\ account'[a] = acc
      /\ \A b \in Accounts \ {a} : account'[b] = account[b]
  BY <1>1, <1>2, AccountSaved
<1>5. \A b \in Accounts :
                /\ account'[b].start_rate = account[b].start_rate
                /\ account'[b].deposited_amount = account[b].deposited_amount
                /\ account'[b].unclaimed_reward_wads = account[b].unclaimed_reward_wads
                /\ account[b].initialized => account'[b].initialized
  BY <1>3, <1>4
<1>6. StakingInv'
  BY <1>1, <1>4, <1>5 DEF StakingInv, TypeOK, Conserved, StartRateReached
<1> QED BY <1>1, <1>5, <1>6

LEMMA StakeMoved ==
    ASSUME StakingInv, NEW a \in Accounts, NEW amount \in Int, NEW q, SavePool(q),
           pool.initialized, Kept(pool, q, slot), q.pool_size = pool.pool_size + amount,
           NEW acc, SaveAccount(a, acc), acc.initialized, acc.start_rate = q.cumulative_rate,
           acc.deposited_amount = account[a].deposited_amount + amount, slot' = slot
    PROVE  AccountMoved(a, amount) /\ account'[a] = acc
<1>1. pool' = q /\ q \in PoolRec
  BY PoolSaved
<1>2. pool \in PoolRec /\ slot \in U64 /\ account \in [Accounts -> AccountRec]
  BY DEF StakingInv, TypeOK
<1>3. /\ Good(q, slot)
      /\ Earned(pool, slot) = q.cumulative_rate
      /\ Earned(q, slot) = q.cumulative_rate
      /\ \A k \in Kind : pool.cumulative_rate[k] <= q.cumulative_rate[k]
  BY <1>1, <1>2, KeptMoved
<1>4. /\ account' \in [Accounts -> AccountRec]
      /\ account'[a] = acc
      /\ \A b \in Accounts \ {a} : account'[b] = account[b]
  BY <1>2, AccountSaved
<1>5. q.initialized
  BY DEF Kept
<1> QED BY <1>1, <1>3, <1>4, <1>5 DEF AccountMoved

LEMMA RawCumulative ==
    ASSUME NEW q, SavePool(q)
    PROVE  q.cumulative_rate \in RawRates
<1>1. q \in RawPool
  BY PoolSaved, PoolIsRaw
<1> QED BY <1>1, RawTypes

LEMMA DepositStep ==
    ASSUME StakingInv, NEW a \in Accounts, NEW amount \in Amounts, NEW signer,
           ProcessDeposit(a, amount, signer)
    PROVE  /\ AccountMoved(a, amount) /\ Tokens
           /\ \A k \in Kind : account'[a].unclaimed_reward_wads[k] = Due(account[a], Earned(pool, slot), k)
<1>1. amount \in U64 /\ amount \in Int
  <2>1. amount \in U64
    BY StakingAssumption
  <2> QED BY <2>1, Widths
<1>2. PICK q \in PoolDeposit(pool, slot, amount) :
        /\ \E acc \in AccountDeposit(account[a], q.cumulative_rate, amount) : SaveAccount(a, acc)
        /\ SavePool(q)
  BY DEF ProcessDeposit
<1>3. PICK acc \in AccountDeposit(account[a], q.cumulative_rate, amount) : SaveAccount(a, acc)
  BY <1>2
<1>4. /\ pool \in PoolRec /\ slot \in U64 /\ Good(pool, slot) /\ pool.initialized
      /\ account[a] \in AccountRec
  BY DEF StakingInv, TypeOK, ProcessDeposit
<1>5. Kept(pool, q, slot) /\ q.pool_size = pool.pool_size + amount
  BY <1>1, <1>2, <1>4, DepositKeeps
<1>6. /\ acc.initialized /\ acc.start_rate = q.cumulative_rate
      /\ acc.deposited_amount = account[a].deposited_amount + amount
      /\ \A k \in Kind : acc.unclaimed_reward_wads[k] = Due(account[a], q.cumulative_rate, k)
  <2>1. /\ acc.initialized = account[a].initialized /\ acc.start_rate = q.cumulative_rate
        /\ acc.deposited_amount = account[a].deposited_amount + amount
        /\ \A k \in Kind : acc.unclaimed_reward_wads[k] = Due(account[a], q.cumulative_rate, k)
    BY <1>1, <1>2, <1>3, <1>4, RawCumulative, AccountDeposited
  <2>2. account[a].initialized
    BY DEF ProcessDeposit
  <2> QED BY <2>1, <2>2
<1>7. UNCHANGED <<slot, rewardPool, funds>> /\ HistoryOK'
  BY DEF ProcessDeposit, StakingInv, TypeOK, HistoryOK
<1>8. AccountMoved(a, amount) /\ account'[a] = acc
  BY <1>1, <1>2, <1>3, <1>4, <1>5, <1>6, <1>7, StakeMoved
<1>9. Tokens
  BY <1>7, TokensStill
<1>10. q.cumulative_rate = Earned(pool, slot)
  BY <1>5 DEF Kept
<1> QED BY <1>6, <1>8, <1>9, <1>10

LEMMA WithdrawStep ==
    ASSUME StakingInv, NEW a \in Accounts, NEW amount \in Amounts, NEW signer,
           ProcessWithdraw(a, amount, signer)
    PROVE  /\ AccountMoved(a, -amount) /\ Tokens
           /\ \A k \in Kind : account'[a].unclaimed_reward_wads[k] = Due(account[a], Earned(pool, slot), k)
<1>1. amount \in U64 /\ amount \in Int
  <2>1. amount \in U64
    BY StakingAssumption
  <2> QED BY <2>1, Widths
<1>2. PICK q \in PoolWithdraw(pool, slot, amount) :
        /\ \E acc \in AccountWithdraw(account[a], q.cumulative_rate, amount) : SaveAccount(a, acc)
        /\ SavePool(q)
  BY DEF ProcessWithdraw
<1>3. PICK acc \in AccountWithdraw(account[a], q.cumulative_rate, amount) : SaveAccount(a, acc)
  BY <1>2
<1>4. /\ pool \in PoolRec /\ slot \in U64 /\ Good(pool, slot) /\ pool.initialized
      /\ account[a] \in AccountRec
  BY DEF StakingInv, TypeOK, ProcessWithdraw
<1>5. Kept(pool, q, slot) /\ q.pool_size = pool.pool_size - amount
  BY <1>1, <1>2, <1>4, WithdrawKeeps
<1>6. /\ acc.initialized /\ acc.start_rate = q.cumulative_rate
      /\ acc.deposited_amount = account[a].deposited_amount - amount
      /\ \A k \in Kind : acc.unclaimed_reward_wads[k] = Due(account[a], q.cumulative_rate, k)
  <2>1. /\ acc.initialized = account[a].initialized /\ acc.start_rate = q.cumulative_rate
        /\ acc.deposited_amount = account[a].deposited_amount - amount
        /\ \A k \in Kind : acc.unclaimed_reward_wads[k] = Due(account[a], q.cumulative_rate, k)
    BY <1>1, <1>2, <1>3, <1>4, RawCumulative, AccountWithdrawn
  <2>2. account[a].initialized
    BY DEF ProcessWithdraw
  <2> QED BY <2>1, <2>2
<1>7. UNCHANGED <<slot, rewardPool, funds, restarted, excess>>
  BY DEF ProcessWithdraw
<1>8. AccountMoved(a, -amount) /\ account'[a] = acc
  <2>1. /\ q.pool_size = pool.pool_size + (-amount) /\ -amount \in Int
        /\ acc.deposited_amount = account[a].deposited_amount + (-amount)
    <3>1. pool.pool_size \in Nat /\ account[a].deposited_amount \in Nat
      BY <1>4, RawTypes, PoolIsRaw, AccountTypes
    <3> QED BY <1>1, <1>5, <1>6, <3>1
  <2> QED BY <1>2, <1>3, <1>4, <1>5, <1>6, <1>7, <2>1, StakeMoved
<1>9. Tokens
  BY <1>7, HistoryStill, TokensStill
<1>10. q.cumulative_rate = Earned(pool, slot)
  BY <1>5 DEF Kept
<1> QED BY <1>6, <1>8, <1>9, <1>10

LEMMA ClaimStep ==
    ASSUME StakingInv, NEW a \in Accounts, ProcessClaimReward(a)
    PROVE  /\ AccountMoved(a, 0) /\ Tokens
           /\ \A k \in Kind :
                LET due == Due(account[a], Earned(pool, slot), k) IN
                /\ due \in Nat
                /\ account'[a].unclaimed_reward_wads[k] = due % WAD
                /\ rewardPool[k] - rewardPool'[k] = due \div WAD
<1>1. PICK q \in ClaimRewardHelper(pool, slot) :
        /\ \E c \in AccountClaim(account[a], q.cumulative_rate) :
              /\ SaveAccount(a, c.account)
              /\ MoveRewards([k \in Kind |-> -c.paid[k]])
        /\ SavePool(q)
  BY DEF ProcessClaimReward
<1>2. PICK c \in AccountClaim(account[a], q.cumulative_rate) :
              /\ SaveAccount(a, c.account)
              /\ MoveRewards([k \in Kind |-> -c.paid[k]])
  BY <1>1
<1>3. /\ pool \in RawPool /\ slot \in U64 /\ Good(pool, slot)
      /\ account[a] \in AccountRec /\ TypeOK /\ Conserved
      /\ pool.initialized
  BY PoolIsRaw DEF StakingInv, TypeOK, ProcessClaimReward
<1>4. Kept(pool, q, slot) /\ q.pool_size = pool.pool_size
  BY <1>1, <1>3, ClaimKeeps, ClaimedFields
<1>5. /\ c.account.initialized = account[a].initialized /\ c.account.start_rate = q.cumulative_rate
      /\ c.account.deposited_amount = account[a].deposited_amount
      /\ \A k \in Kind : /\ Due(account[a], q.cumulative_rate, k) \in Nat
                         /\ c.paid[k] \in U64
                         /\ c.paid[k] = Due(account[a], q.cumulative_rate, k) \div WAD
                         /\ c.account.unclaimed_reward_wads[k] = Due(account[a], q.cumulative_rate, k) % WAD
  BY <1>1, <1>2, <1>3, RawCumulative, AccountClaimed
<1>6. slot' = slot /\ HistoryOK'
  BY HistoryStill DEF ProcessClaimReward
<1>7. q.cumulative_rate = Earned(pool, slot)
  BY <1>4 DEF Kept
<1>8. AccountMoved(a, 0) /\ account'[a] = c.account
  <2>1. /\ q.pool_size = pool.pool_size + 0
        /\ c.account.deposited_amount = account[a].deposited_amount + 0
    <3>1. pool.pool_size \in Nat /\ account[a].deposited_amount \in Nat
      BY <1>3, RawTypes, AccountTypes
    <3> QED BY <1>4, <1>5, <3>1
  <2>2. c.account.initialized
    <3>1. account[a].initialized
      BY DEF ProcessClaimReward
    <3> QED BY <1>5, <3>1
  <2> QED BY <1>1, <1>2, <1>3, <1>4, <1>5, <1>6, <2>1, <2>2, StakeMoved
<1> DEFINE amounts == [k \in Kind |-> -c.paid[k]]
<1>9. amounts \in [Kind -> Int] /\ MoveRewards(amounts) /\ \A k \in Kind : amounts[k] = -c.paid[k]
  <2>1. \A k \in Kind : c.paid[k] \in Nat
    BY <1>5, Widths
  <2> QED BY <1>2, <2>1
<1> HIDE DEF amounts
<1>10. Tokens
  BY <1>6, <1>9, TokensMoved
<1>11. \A k \in Kind : rewardPool'[k] = rewardPool[k] + amounts[k]
  BY <1>3, <1>9, RewardsMoved
<1>12. ASSUME NEW k \in Kind PROVE rewardPool[k] - rewardPool'[k] = c.paid[k]
  <2>1. rewardPool[k] \in Nat /\ c.paid[k] \in Nat
    BY <1>3, <1>5, Widths DEF TypeOK
  <2> QED BY <1>9, <1>11, <2>1
<1> QED BY <1>5, <1>7, <1>8, <1>10, <1>12

-----------------------------------------------------------------------------
LEMMA InitInv == Init => StakingInv
<1> SUFFICES ASSUME Init PROVE StakingInv
  OBVIOUS
<1>1. \A k \in Kind : NoReward[k] = 0
  BY DEF NoReward
<1>2. NoReward \in [Kind -> Rate] /\ NoReward \in [Kind -> U64]
  BY Widths DEF NoReward
<1>3. UninitializedPool \in PoolRec
  BY <1>2, Widths, StakingAssumption DEF UninitializedPool, PoolRec
<1>4. UninitializedAccount \in AccountRec
  BY <1>2, Widths DEF UninitializedAccount, AccountRec
<1>5. TypeOK
  <2>1. NoReward \in [Kind -> 0..WAD]
    BY Widths DEF NoReward
  <2> QED BY <1>2, <1>3, <1>4, <2>1, Widths, StakingAssumption DEF Init, TypeOK
<1>6. Conserved
  <2>1. Funds \in Nat
    BY StakingAssumption, Widths
  <2> QED BY <1>1, <2>1 DEF Init, Conserved
<1>7. Good(pool, slot)
  BY <1>1, KindIs DEF Init, UninitializedPool, Good, Sched, Idle, OneToken
<1>8. StartRateReached
  BY <1>1 DEF Init, UninitializedPool, UninitializedAccount, StartRateReached
<1> QED BY <1>5, <1>6, <1>7, <1>8 DEF StakingInv

LEMMA TickInv ==
    ASSUME StakingInv, Tick
    PROVE  StakingInv'
<1>1. /\ slot \in Nat /\ MaxSlot \in Nat /\ MaxSlot <= U64_MAX /\ slot < MaxSlot /\ slot' = slot + 1
  <2>1. slot \in U64 /\ MaxSlot \in U64
    BY StakingAssumption DEF StakingInv, TypeOK
  <2> QED BY <2>1, WadAssumption DEF U64, Tick
<1>2. slot' \in U64
  BY <1>1, WadAssumption DEF U64
<1>3. UNCHANGED <<pool, account, rewardPool, funds, restarted, excess>>
  BY DEF Tick
<1>4. pool.last_update \in Nat /\ pool.end_time \in Int /\ pool.duration \in Int
  BY RawTypes, PoolIsRaw DEF StakingInv, TypeOK
<1>5. Good(pool', slot')
  BY <1>1, <1>3, <1>4 DEF StakingInv, Good, Sched, Idle, OneToken
<1> QED BY <1>2, <1>3, <1>5 DEF StakingInv, TypeOK, Conserved, StartRateReached

LEMMA StepInv == StakingInv /\ [Next]_vars => StakingInv'
<1> SUFFICES ASSUME StakingInv, [Next]_vars PROVE StakingInv'
  OBVIOUS
<1>1. CASE Tick
  BY <1>1, TickInv
<1>2. ASSUME NEW supply \in Supplies, NEW sub_supply \in SubSupplies, NEW duration \in Durations,
             NEW time \in ClaimTimes, NEW owner \in Keys, NEW admin \in Keys,
             ProcessInitStakingPool(supply, sub_supply, duration, time, owner, admin)
      PROVE  StakingInv'
  BY <1>2, InitStep, InvFromPool
<1>3. ASSUME NEW a \in Accounts, AccountStep(a)
      PROVE  StakingInv'
  <2>1. CASE ProcessCreateStakeAccount(a)
    BY <2>1, CreateStep
  <2>2. CASE ProcessClaimReward(a)
    BY <2>2, ClaimStep, InvFromAccount
  <2>3. ASSUME NEW amount \in Amounts, NEW signer \in Keys, ProcessDeposit(a, amount, signer)
        PROVE  StakingInv'
    <3>1. amount \in Int
      BY StakingAssumption, Widths
    <3>2. AccountMoved(a, amount) /\ Tokens
      BY <2>3, DepositStep
    <3> QED BY <3>1, <3>2, InvFromAccount
  <2>4. ASSUME NEW amount \in Amounts, NEW signer \in Keys, ProcessWithdraw(a, amount, signer)
        PROVE  StakingInv'
    <3>1. -amount \in Int
      BY StakingAssumption, Widths
    <3>2. AccountMoved(a, -amount) /\ Tokens
      BY <2>4, WithdrawStep
    <3> QED BY <3>1, <3>2, InvFromAccount
  <2> QED BY <1>3, <2>1, <2>2, <2>3, <2>4 DEF AccountStep
<1>4. ASSUME NEW signer \in Keys, PoolStep(signer)
      PROVE  StakingInv'
  BY <1>4, PoolSteps, InvFromPool
<1>5. CASE UNCHANGED vars
  BY <1>5 DEF vars, StakingInv, TypeOK, Conserved, StartRateReached
<1> QED BY <1>1, <1>2, <1>3, <1>4, <1>5 DEF Next

LEMMA StakingInvariant == Spec => []StakingInv
BY InitInv, StepInv, PTL DEF Spec

(* Every account field and balance keeps its width: no transfer of reward  *)
(* tokens, in or out, and no packed pool or stake account ever leaves it.  *)
THEOREM StakingTypeCorrect == Spec => []TypeOK
<1>1. StakingInv => TypeOK
  BY DEF StakingInv
<1> QED BY <1>1, StakingInvariant, PTL

(* Emission never has to run backwards, whatever extensions, reductions    *)
(* and restarts the schedule went through: claim_reward_helper, which all  *)
(* instructions begin with, meets no time before the last update, and what *)
(* is left of a period is never longer than the duration.                  *)
THEOREM ScheduleIsSound == Spec => []ScheduleSound
<1>1. StakingInv => ScheduleSound
  BY DEF StakingInv, Good, Sched, ScheduleSound
<1> QED BY <1>1, StakingInvariant, PTL

(* No stake account starts from a rate the pool has not reached, although  *)
(* adding a second token resets that token's rate: calculate_reward always *)
(* finds a difference that is not negative.                                *)
THEOREM StartRateIsReached == Spec => []StartRateReached
<1>1. StakingInv => StartRateReached
  BY DEF StakingInv
<1> QED BY <1>1, StakingInvariant, PTL

-----------------------------------------------------------------------------
(***************************************************************************)
(* What a staker has earned.                                               *)
(***************************************************************************)
LEMMA OwedIs ==
    ASSUME NEW a \in Accounts, NEW k \in Kind
    PROVE  /\ Owed(a, k) = Due(account[a], Earned(pool, slot), k)
           /\ Owed(a, k)' = Due(account'[a], Earned(pool', slot'), k)
BY DEF Owed, Current, Due, Earned, CurrentOf

EarningsStep ==
    \A a \in Accounts, k \in Kind :
       \/ Owed(a, k)' = Owed(a, k)
       \/ /\ Owed(a, k)' = Owed(a, k) % WAD
          /\ rewardPool[k] - rewardPool'[k] = Owed(a, k) \div WAD

LEMMA EarningsFromPool ==
    ASSUME PoolMoved
    PROVE  EarningsStep
<1> SUFFICES ASSUME NEW a \in Accounts, NEW k \in Kind PROVE Owed(a, k)' = Owed(a, k)
  BY DEF EarningsStep
<1>1. account'[a] = account[a] /\ Earned(pool', slot') = Earned(pool, slot)
  BY DEF PoolMoved
<1> QED BY <1>1, OwedIs

(* A step of account a leaves what the others have earned; what a has      *)
(* earned is then all unclaimed, because its start rate is the current one.*)
LEMMA EarningsFromAccount ==
    ASSUME StakingInv, NEW a \in Accounts, NEW amount \in Int, AccountMoved(a, amount)
    PROVE  /\ \A b \in Accounts \ {a}, k \in Kind : Owed(b, k)' = Owed(b, k)
           /\ \A k \in Kind : Owed(a, k)' = account'[a].unclaimed_reward_wads[k]
<1>1. /\ Earned(pool', slot') = Earned(pool, slot)
      /\ account'[a].start_rate = Earned(pool', slot')
      /\ account'[a] \in AccountRec
  BY DEF AccountMoved
<1>2. ASSUME NEW b \in Accounts \ {a}, NEW k \in Kind PROVE Owed(b, k)' = Owed(b, k)
  <2>1. account'[b] = account[b]
    BY DEF AccountMoved
  <2> QED BY <1>1, <2>1, OwedIs
<1>3. ASSUME NEW k \in Kind PROVE Owed(a, k)' = account'[a].unclaimed_reward_wads[k]
  <2> DEFINE u == account'[a].unclaimed_reward_wads[k]
             s == account'[a].start_rate[k]
             d == account'[a].deposited_amount
  <2>1. u \in Nat /\ s \in Nat /\ d \in Nat
    BY <1>1, AccountTypes
  <2>2. Owed(a, k)' = u + (s - s) * d
    BY <1>1, OwedIs DEF Due
  <2> HIDE DEF u, s, d
  <2>3. u + (s - s) * d = u
    BY <2>1
  <2> QED BY <2>2, <2>3 DEF u
<1> QED BY <1>2, <1>3

(* the account moved its stake and was credited what it had earned *)
LEMMA EarningsCredited ==
    ASSUME StakingInv, NEW a \in Accounts, NEW amount \in Int, AccountMoved(a, amount),
           \A k \in Kind : account'[a].unclaimed_reward_wads[k] = Due(account[a], Earned(pool, slot), k)
    PROVE  EarningsStep
<1> SUFFICES ASSUME NEW b \in Accounts, NEW k \in Kind PROVE Owed(b, k)' = Owed(b, k)
  BY DEF EarningsStep
<1>1. CASE b = a
  BY <1>1, EarningsFromAccount, OwedIs
<1>2. CASE b # a
  <2>1. b \in Accounts \ {a}
    BY <1>2
  <2> QED BY <2>1, EarningsFromAccount
<1> QED BY <1>1, <1>2

LEMMA EarningsNext ==
    ASSUME StakingInv, Next, slot' = slot
    PROVE  EarningsStep
<1>1. CASE Tick
  <2>1. slot \in Nat /\ slot' = slot + 1
    BY <1>1, Widths DEF Tick, StakingInv, TypeOK
  <2> QED BY <2>1
<1>2. ASSUME NEW supply \in Supplies, NEW sub_supply \in SubSupplies, NEW duration \in Durations,
             NEW time \in ClaimTimes, NEW owner \in Keys, NEW admin \in Keys,
             ProcessInitStakingPool(supply, sub_supply, duration, time, owner, admin)
      PROVE  EarningsStep
  BY <1>2, InitStep, EarningsFromPool
<1>3. ASSUME NEW a \in Accounts, AccountStep(a)
      PROVE  EarningsStep
  <2>1. CASE ProcessCreateStakeAccount(a)
    <3> SUFFICES ASSUME NEW b \in Accounts, NEW k \in Kind PROVE Owed(b, k)' = Owed(b, k)
      BY DEF EarningsStep
    <3>1. /\ slot' = slot /\ pool' = pool
          /\ account'[b].start_rate = account[b].start_rate
          /\ account'[b].deposited_amount = account[b].deposited_amount
          /\ account'[b].unclaimed_reward_wads = account[b].unclaimed_reward_wads
      BY <2>1, CreateStep
    <3> QED BY <3>1, OwedIs DEF Due
  <2>2. CASE ProcessClaimReward(a)
    <3>1. /\ AccountMoved(a, 0)
          /\ \A k \in Kind :
                LET due == Due(account[a], Earned(pool, slot), k) IN
                /\ due \in Nat
                /\ account'[a].unclaimed_reward_wads[k] = due % WAD
                /\ rewardPool[k] - rewardPool'[k] = due \div WAD
      BY <2>2, ClaimStep
    <3>2. ASSUME NEW k \in Kind
          PROVE  /\ Owed(a, k)' = Owed(a, k) % WAD
                 /\ rewardPool[k] - rewardPool'[k] = Owed(a, k) \div WAD
      BY <3>1, EarningsFromAccount, OwedIs
    <3>3. \A b \in Accounts \ {a}, k \in Kind : Owed(b, k)' = Owed(b, k)
      BY <3>1, EarningsFromAccount
    <3> QED BY <3>2, <3>3 DEF EarningsStep
  <2>3. ASSUME NEW amount \in Amounts, NEW signer \in Keys, ProcessDeposit(a, amount, signer)
        PROVE  EarningsStep
    <3>1. amount \in Int
      BY StakingAssumption, Widths
    <3> QED BY <2>3, <3>1, DepositStep, EarningsCredited
  <2>4. ASSUME NEW amount \in Amounts, NEW signer \in Keys, ProcessWithdraw(a, amount, signer)
        PROVE  EarningsStep
    <3>1. -amount \in Int
      BY StakingAssumption, Widths
    <3> QED BY <2>4, <3>1, WithdrawStep, EarningsCredited
  <2> QED BY <1>3, <2>1, <2>2, <2>3, <2>4 DEF AccountStep
<1>4. ASSUME NEW signer \in Keys, PoolStep(signer)
      PROVE  EarningsStep
  BY <1>4, PoolSteps, EarningsFromPool
<1> QED BY <1>1, <1>2, <1>3, <1>4 DEF Next

(* Within a slot no instruction changes what any staker has earned, except *)
(* that a claim takes its whole tokens out of the reward pool: deposits,   *)
(* withdrawals, changes of supply and duration, and a second token are     *)
(* never retroactive.                                                      *)
THEOREM EarningsAreKept == Spec => EarningsKept
<1>1. StakingInv /\ [Next]_vars => [slot' = slot => EarningsStep]_vars
  BY EarningsNext
<1> QED BY <1>1, StakingInvariant, PTL DEF Spec, EarningsKept, EarningsStep

-----------------------------------------------------------------------------
(***************************************************************************)
(* The size of the pool.                                                   *)
(***************************************************************************)
Stakes == [a \in Accounts |-> account[a].deposited_amount]

LEMMA StakesType ==
    ASSUME TypeOK
    PROVE  Stakes \in [Accounts -> Nat]
<1>1. \A a \in Accounts : account[a].deposited_amount \in Nat
  BY AccountTypes DEF TypeOK
<1> QED BY <1>1 DEF Stakes

LEMMA SizeFromAccount ==
    ASSUME StakingInv, PoolSizeIsSum, NEW a \in Accounts, NEW amount \in Int, AccountMoved(a, amount)
    PROVE  PoolSizeIsSum'
<1>1. IsFiniteSet(Accounts)
  BY StakingAssumption
<1>2. Stakes \in [Accounts -> Nat]
  BY StakesType DEF StakingInv
<1> DEFINE new == [b \in Accounts |-> account'[b].deposited_amount]
<1>3. new \in [Accounts -> Nat]
  <2>1. \A b \in Accounts : account'[b].deposited_amount \in Nat
    BY AccountTypes DEF AccountMoved
  <2> QED BY <2>1
<1>4. /\ \A b \in Accounts \ {a} : new[b] = Stakes[b]
      /\ new[a] = Stakes[a] + amount
  BY DEF AccountMoved, Stakes
<1>5. pool.pool_size = SumFunction(Stakes)
  BY DEF PoolSizeIsSum, Stakes
<1>6. pool'.pool_size = pool.pool_size + amount
  BY DEF AccountMoved
<1> HIDE DEF new
<1>7. SumFunction(Stakes) \in Int /\ SumFunction(new) = SumFunction(Stakes) - Stakes[a] + new[a]
  BY <1>1, <1>2, <1>3, <1>4, SumChanged
<1>8. SumFunction(new) = SumFunction(Stakes) + amount
  BY <1>2, <1>4, <1>7
<1> QED BY <1>5, <1>6, <1>8 DEF PoolSizeIsSum, new

LEMMA SizeStart == Init => PoolSizeIsSum
<1> SUFFICES ASSUME Init PROVE PoolSizeIsSum
  OBVIOUS
<1>1. IsFiniteSet(Accounts)
  BY StakingAssumption
<1>2. Stakes \in [Accounts -> {0}] /\ pool.pool_size = 0
  BY DEF Init, UninitializedPool, UninitializedAccount, Stakes
<1>3. SumFunction(Stakes) = 0
  BY <1>1, <1>2, SumOfZeros
<1> QED BY <1>2, <1>3 DEF PoolSizeIsSum, Stakes

LEMMA SizeStep == StakingInv /\ PoolSizeIsSum /\ [Next]_vars => PoolSizeIsSum'
<1> SUFFICES ASSUME StakingInv, PoolSizeIsSum, [Next]_vars PROVE PoolSizeIsSum'
  OBVIOUS
<1>1. ASSUME PoolMoved PROVE PoolSizeIsSum'
  BY <1>1 DEF PoolMoved, PoolSizeIsSum
<1>2. CASE Tick
  BY <1>2 DEF Tick, PoolSizeIsSum
<1>3. ASSUME NEW supply \in Supplies, NEW sub_supply \in SubSupplies, NEW duration \in Durations,
             NEW time \in ClaimTimes, NEW owner \in Keys, NEW admin \in Keys,
             ProcessInitStakingPool(supply, sub_supply, duration, time, owner, admin)
      PROVE  PoolSizeIsSum'
  BY <1>1, <1>3, InitStep
<1>4. ASSUME NEW a \in Accounts, AccountStep(a)
      PROVE  PoolSizeIsSum'
  <2>1. CASE ProcessCreateStakeAccount(a)
    <3>1. /\ pool' = pool
          /\ \A b \in Accounts : account'[b].deposited_amount = account[b].deposited_amount
      BY <2>1, CreateStep
    <3>2. [b \in Accounts |-> account'[b].deposited_amount] = [b \in Accounts |-> account[b].deposited_amount]
      BY <3>1
    <3> QED BY <3>1, <3>2 DEF PoolSizeIsSum
  <2>2. CASE ProcessClaimReward(a)
    BY <2>2, ClaimStep, SizeFromAccount
  <2>3. ASSUME NEW amount \in Amounts, NEW signer \in Keys, ProcessDeposit(a, amount, signer)
        PROVE  PoolSizeIsSum'
    <3>1. amount \in Int
      BY StakingAssumption, Widths
    <3> QED BY <2>3, <3>1, DepositStep, SizeFromAccount
  <2>4. ASSUME NEW amount \in Amounts, NEW signer \in Keys, ProcessWithdraw(a, amount, signer)
        PROVE  PoolSizeIsSum'
    <3>1. -amount \in Int
      BY StakingAssumption, Widths
    <3> QED BY <2>4, <3>1, WithdrawStep, SizeFromAccount
  <2> QED BY <1>4, <2>1, <2>2, <2>3, <2>4 DEF AccountStep
<1>5. ASSUME NEW signer \in Keys, PoolStep(signer)
      PROVE  PoolSizeIsSum'
  BY <1>1, <1>5, PoolSteps
<1>6. CASE UNCHANGED vars
  BY <1>6 DEF vars, PoolSizeIsSum
<1> QED BY <1>2, <1>3, <1>4, <1>5, <1>6 DEF Next

(* The size of the pool, which emission is divided by, is the sum of the   *)
(* stakes, for any number of stake accounts.                               *)
THEOREM PoolSizeIsTheSum == Spec => []PoolSizeIsSum
BY SizeStart, SizeStep, StakingInvariant, PTL DEF Spec

-----------------------------------------------------------------------------
(***************************************************************************)
(* Withdrawals.                                                            *)
(***************************************************************************)

(* The numbers a withdrawal computes before it moves any token fit: what   *)
(* was emitted since the last update (of the second token, scaled once     *)
(* more by WAD, as RateTimes and RateOver do), the new cumulative rates,   *)
(* and what the account has earned.                                        *)
EmissionFits(k, emitted) ==
    emitted \in Decimal /\ (k = "sub_reward" => emitted * WAD \in Decimal)

RewardsFit(a) ==
    \A k \in Kind :
      LET emitted == pool.rate_per_slot[k] * Elapsed(pool, slot)
          cum     == pool.cumulative_rate[k] + emitted \div pool.pool_size
          due     == account[a].unclaimed_reward_wads[k]
                       + (cum - account[a].start_rate[k]) * account[a].deposited_amount
      IN  EmissionFits(k, emitted) /\ cum \in Rate /\ due \in Rate

(* Whatever part of her deposit an owner asks for can be paid back. *)
DepositsReleasableWhenFit ==
    \A a \in Accounts : \A amount \in 1..account[a].deposited_amount :
       RewardsFit(a) => Releasable(a, amount)

(* What holds a deposit has been initialized, and so has the pool. *)
InUse == \A a \in Accounts : account[a].deposited_amount > 0 => pool.initialized /\ account[a].initialized

LEMMA InUseStep == StakingInv /\ InUse /\ [Next]_vars => InUse'
<1> SUFFICES ASSUME StakingInv, InUse, [Next]_vars PROVE InUse'
  OBVIOUS
<1>1. ASSUME PoolMoved PROVE InUse'
  BY <1>1 DEF PoolMoved, InUse
<1>2. ASSUME NEW a \in Accounts, NEW amount, AccountMoved(a, amount) PROVE InUse'
  <2>1. /\ \A b \in Accounts \ {a} : account'[b] = account[b]
        /\ pool'.initialized /\ account'[a].initialized
    BY <1>2 DEF AccountMoved
  <2> QED BY <2>1 DEF InUse
<1>3. CASE Tick \/ UNCHANGED vars
  BY <1>3 DEF Tick, vars, InUse
<1>4. ASSUME NEW a \in Accounts, AccountStep(a) PROVE InUse'
  <2>1. CASE ProcessCreateStakeAccount(a)
    BY <2>1, CreateStep DEF InUse
  <2>2. CASE ProcessClaimReward(a)
    BY <1>2, <2>2, ClaimStep
  <2>3. ASSUME NEW amount \in Amounts, NEW signer \in Keys,
               ProcessDeposit(a, amount, signer) \/ ProcessWithdraw(a, amount, signer)
        PROVE  InUse'
    BY <1>2, <2>3, DepositStep, WithdrawStep
  <2> QED BY <1>4, <2>1, <2>2, <2>3 DEF AccountStep
<1> QED BY <1>1, <1>3, <1>4, InitStep, PoolSteps DEF Next

LEMMA InUseInvariant == Spec => []InUse
<1>1. Init => InUse
  BY DEF Init, InUse, UninitializedAccount
<1> QED BY <1>1, InUseStep, StakingInvariant, PTL DEF Spec

LEMMA EachKindSome ==
    ASSUME NEW res, \A k \in Kind : res[k] # {}
    PROVE  ForEachKind(res) # {}
BY DEF ForEachKind

LEMMA EmissionPossible ==
    ASSUME StakingInv, pool.pool_size > 0,
           \A k \in Kind :
              LET emitted == pool.rate_per_slot[k] * Elapsed(pool, slot)
              IN  EmissionFits(k, emitted) /\ pool.cumulative_rate[k] + emitted \div pool.pool_size \in Rate
    PROVE  \E q \in ClaimRewardHelper(pool, slot) : q \in PoolRec
<1> DEFINE e == Elapsed(pool, slot)
           n == pool.pool_size
<1>1. pool \in PoolRec /\ pool \in RawPool /\ slot \in U64 /\ Sched(pool, slot)
  BY PoolIsRaw DEF StakingInv, TypeOK, Good
<1>2. pool.last_update \in Nat /\ pool.end_time \in U64 /\ pool.end_time \in Nat /\ slot \in Nat
  BY <1>1, RawTypes, Widths DEF PoolRec
<1>3. e \in U64
  BY <1>1, <1>2, WadAssumption DEF Sched, Elapsed, Least, U64
<1>4. CheckedSub(Least(slot, pool.end_time), pool.last_update) = {e}
  BY <1>3 DEF CheckedSub, Elapsed
<1> DEFINE Res(k) == UNION {UNION {TryAdd(pool.cumulative_rate[k], per_token) : per_token \in RateOver(k, total, n)} :
                            total \in RateTimes(k, pool.rate_per_slot[k], e)}
<1>5. ASSUME NEW k \in Kind PROVE Res(k) # {}
  <2> DEFINE total == pool.rate_per_slot[k] * e
             per == total \div n
             sum == pool.cumulative_rate[k] + per
  <2>1. total \in Decimal /\ (k = "reward" \/ total * WAD \in Decimal)
    BY DEF EmissionFits, Kind
  <2>2. e \in Nat /\ pool.rate_per_slot[k] \in Nat
    BY <1>1, <1>3, RawTypes, Widths
  <2>3. total \in RateTimes(k, pool.rate_per_slot[k], e)
    BY <2>1, <2>2, RateTimesIs
  <2>4. total \in Nat /\ n \in Nat /\ n > 0 /\ pool.cumulative_rate[k] \in Nat
    BY <1>1, <2>1, RawTypes, Widths
  <2>5. sum \in Rate
    OBVIOUS
  <2>6. per \in Nat
    BY <2>4, Quotient
  <2>7. sum \in Decimal /\ per \in Decimal
    <3>1. Rate \subseteq Decimal
      BY RateIsDecimal
    <3>2. sum \in Decimal
      BY <2>5, <3>1
    <3> HIDE DEF per, total
    <3> QED BY <2>4, <2>6, <3>2, WadAssumption DEF Decimal
  <2>8. per \in RateOver(k, total, n)
    <3> HIDE DEF total
    <3> QED BY <2>4, <2>7, <2>1, RateOverIs
  <2> HIDE DEF total, per
  <2>9. sum \in TryAdd(pool.cumulative_rate[k], per)
    BY <2>7 DEF TryAdd
  <2> HIDE DEF sum
  <2> QED BY <2>3, <2>8, <2>9
<1> HIDE DEF Res
<1>6. AccumulateRate(pool.cumulative_rate, pool.rate_per_slot, e, n) # {}
  <2> DEFINE res == [k \in Kind |-> Res(k)]
  <2>1. \A k \in Kind : res[k] # {}
    BY <1>5
  <2>2. AccumulateRate(pool.cumulative_rate, pool.rate_per_slot, e, n) = ForEachKind(res)
    BY DEF AccumulateRate, Res
  <2> HIDE DEF res
  <2> QED BY <2>1, <2>2, EachKindSome
<1>7. PICK q : q \in ClaimRewardHelper(pool, slot)
  <2>1. PICK c : c \in AccumulateRate(pool.cumulative_rate, pool.rate_per_slot, e, n)
    BY <1>6
  <2> DEFINE q == [pool EXCEPT !.last_update = Least(slot, pool.end_time), !.cumulative_rate = c]
  <2>2. q \in ClaimRewardHelper(pool, slot)
    BY <1>4, <2>1 DEF ClaimRewardHelper
  <2> QED BY <2>2
<1>8. /\ q = [pool EXCEPT !.last_update = Least(slot, pool.end_time), !.cumulative_rate = q.cumulative_rate]
      /\ q.cumulative_rate \in RawRates
      /\ \A k \in Kind : q.cumulative_rate[k] = pool.cumulative_rate[k]
                                + (pool.rate_per_slot[k] * Elapsed(pool, slot)) \div pool.pool_size
  BY <1>1, <1>7, Claimed
<1>9. q.cumulative_rate \in [Kind -> Rate]
  BY <1>8 DEF RawRates
<1>10. Least(slot, pool.end_time) \in U64
  BY <1>1, <1>2 DEF Least
<1>11. q \in PoolRec
  BY <1>1, <1>8, <1>9, <1>10 DEF PoolRec
<1> QED BY <1>7, <1>11

LEMMA AccrualPossible ==
    ASSUME NEW acc \in AccountRec, NEW cum \in [Kind -> Rate],
           \A k \in Kind : /\ acc.start_rate[k] <= cum[k]
                           /\ Due(acc, cum, k) \in Rate
    PROVE  AccrueReward(acc, cum) # {}
<1> DEFINE E(k) == UNION {TryMulU64(diff, acc.deposited_amount) : diff \in TrySub(cum[k], acc.start_rate[k])}
           x(k) == (cum[k] - acc.start_rate[k]) * acc.deposited_amount
<1>1. ASSUME NEW k \in Kind
      PROVE  /\ E(k) = {x(k)}
             /\ acc.unclaimed_reward_wads[k] + x(k) \in Decimal
  <2> DEFINE d == cum[k] - acc.start_rate[k]
             n == acc.deposited_amount
             u == acc.unclaimed_reward_wads[k]
  <2>1. cum[k] \in Rate /\ acc.start_rate[k] \in Rate /\ u \in Rate /\ n \in U64
    BY DEF AccountRec
  <2>2. /\ cum[k] \in Nat /\ acc.start_rate[k] \in Nat /\ u \in Nat /\ n \in Nat
        /\ acc.start_rate[k] <= cum[k] /\ d <= cum[k]
    <3>1. cum[k] \in Nat /\ acc.start_rate[k] \in Nat /\ u \in Nat /\ n \in Nat
      BY <2>1, Widths
    <3> QED BY <3>1
  <2>3. d \in Nat
    BY <2>2
  <2>4. d \in Rate
    BY <2>1, <2>2, <2>3, WadAssumption DEF Rate
  <2>5. u + d * n \in Rate
    BY DEF Due
  <2>6. d * n \in Nat
    BY <2>2, <2>3
  <2>7. d * n \in Rate
    <3> DEFINE m == d * n
    <3> HIDE DEF m, d
    <3>1. m \in Nat /\ u + m \in Rate
      BY <2>5, <2>6 DEF m
    <3> QED BY <2>2, <3>1, WadAssumption DEF Rate, m
  <2>8. d \in Decimal /\ d * n \in Decimal /\ u + d * n \in Decimal
    BY <2>4, <2>5, <2>7, RateIsDecimal
  <2>9. TrySub(cum[k], acc.start_rate[k]) = {d}
    BY <2>8 DEF TrySub
  <2>10. TryMulU64(d, n) = {d * n}
    BY <2>8 DEF TryMulU64
  <2> QED BY <2>8, <2>9, <2>10
<1> DEFINE eres == [k \in Kind |-> E(k)]
           earned == [k \in Kind |-> x(k)]
<1>2. \A k \in Kind : eres[k] = {x(k)}
  BY <1>1
<1> HIDE DEF E
<1>3. CalculateReward(acc, cum) = ForEachKind(eres)
  BY DEF CalculateReward, E
<1>4. PICK e : e \in CalculateReward(acc, cum)
  <2> HIDE DEF eres
  <2> QED BY <1>2, <1>3, EachKindSome
<1>5. \A k \in Kind : e[k] = x(k)
  <2>1. e \in ForEachKind(eres)
    BY <1>3, <1>4
  <2>2. \A k \in Kind : e[k] \in eres[k]
    <3> HIDE DEF eres
    <3> QED BY <2>1, EachKind
  <2> HIDE DEF eres, x
  <2> QED BY <1>2, <2>2
<1> DEFINE tot == [k \in Kind |-> TryAdd(acc.unclaimed_reward_wads[k], e[k])]
<1>6. \A k \in Kind : tot[k] # {}
  BY <1>1, <1>5 DEF TryAdd
<1>7. PICK u : u \in ForEachKind(tot)
  <2> HIDE DEF tot
  <2> QED BY <1>6, EachKindSome
<1> DEFINE New(v) == {[acc EXCEPT !.unclaimed_reward_wads = unclaimed, !.start_rate = cum] :
                      unclaimed \in ForEachKind([k \in Kind |-> TryAdd(acc.unclaimed_reward_wads[k], v[k])])}
<1>8. [acc EXCEPT !.unclaimed_reward_wads = u, !.start_rate = cum] \in New(e)
  BY <1>7
<1>9. AccrueReward(acc, cum) = UNION {New(v) : v \in CalculateReward(acc, cum)}
  BY DEF AccrueReward
<1> HIDE DEF New
<1> QED BY <1>4, <1>8, <1>9

(* Nothing but an overflow of the reward arithmetic can lock a deposit, of  *)
(* a pool with one reward token or two. DepositsReleasable, which the runs  *)
(* check, is not a theorem as it stands: cumulative rates only grow, and a  *)
(* pool that is emptied and refilled often enough exceeds the u128 in which *)
(* they are saved; and what the second token emits between two updates is   *)
(* scaled once more before it is divided, so it must leave room for that.   *)
THEOREM OnlyOverflowLocksDeposits == Spec => []DepositsReleasableWhenFit
<1>1. StakingInv /\ PoolSizeIsSum /\ InUse => DepositsReleasableWhenFit
  <2> SUFFICES ASSUME StakingInv, PoolSizeIsSum, InUse,
                      NEW a \in Accounts, NEW amount \in 1..account[a].deposited_amount, RewardsFit(a)
               PROVE  Releasable(a, amount)
    BY DEF DepositsReleasableWhenFit
  <2> DEFINE acc == account[a]
             n == pool.pool_size
  <2>1. acc \in AccountRec /\ pool \in PoolRec /\ n \in U64 /\ acc.deposited_amount \in U64
    BY DEF StakingInv, TypeOK, AccountRec, PoolRec
  <2>2. n \in Nat /\ acc.deposited_amount \in Nat /\ amount \in Nat /\ amount > 0
        /\ amount <= acc.deposited_amount
    <3>1. n \in Nat /\ acc.deposited_amount \in Nat
      BY <2>1, Widths
    <3> QED BY <3>1
  <2>3. acc.deposited_amount <= n
    <3> DEFINE f == [b \in Accounts |-> account[b].deposited_amount]
    <3>1. f \in [Accounts -> Nat]
      BY Widths DEF StakingInv, TypeOK, AccountRec
    <3>2. f[a] <= SumFunction(f)
      <4> HIDE DEF f
      <4> QED BY <3>1, StakingAssumption, SumAtLeast
    <3> QED BY <3>2 DEF PoolSizeIsSum
  <2>4. PICK q \in ClaimRewardHelper(pool, slot) : q \in PoolRec
    BY <2>2, <2>3, EmissionPossible DEF RewardsFit
  <2>5. /\ q.pool_size = n
        /\ \A k \in Kind : q.cumulative_rate[k] = pool.cumulative_rate[k]
                                + (pool.rate_per_slot[k] * Elapsed(pool, slot)) \div n
    <3>1. pool \in RawPool /\ slot \in U64
      BY <2>1, PoolIsRaw DEF StakingInv, TypeOK
    <3>2. /\ q = [pool EXCEPT !.last_update = Least(slot, pool.end_time), !.cumulative_rate = q.cumulative_rate]
          /\ \A k \in Kind : q.cumulative_rate[k] = pool.cumulative_rate[k]
                                + (pool.rate_per_slot[k] * Elapsed(pool, slot)) \div n
      BY <2>4, <3>1, Claimed
    <3>3. q.pool_size = n
      BY <2>1, <3>2 DEF PoolRec
    <3> QED BY <3>2, <3>3
  <2> DEFINE r == [q EXCEPT !.pool_size = n - amount]
  <2>6. n - amount \in U64
    BY <2>1, <2>2, <2>3, WadAssumption DEF U64
  <2>7. r \in PoolRec /\ r.cumulative_rate = q.cumulative_rate
    BY <2>4, <2>6 DEF PoolRec
  <2>8. r \in PoolWithdraw(pool, slot, amount)
    <3>1. n - amount \in CheckedSub(q.pool_size, amount)
      BY <2>5, <2>6 DEF CheckedSub
    <3>2. amount # 0
      BY <2>2
    <3> DEFINE New(p) == {[p EXCEPT !.pool_size = size] : size \in CheckedSub(p.pool_size, amount)}
    <3>3. PoolWithdraw(pool, slot, amount) = UNION {New(p) : p \in ClaimRewardHelper(pool, slot)}
      BY <3>2 DEF PoolWithdraw
    <3>4. r \in New(q)
      BY <3>1
    <3> HIDE DEF New, r
    <3> QED BY <2>4, <3>3, <3>4
  <2> DEFINE cum == q.cumulative_rate
  <2>9. cum \in [Kind -> Rate]
    BY <2>4 DEF PoolRec
  <2>10. ASSUME NEW k \in Kind
         PROVE  acc.start_rate[k] <= cum[k] /\ Due(acc, cum, k) \in Rate
    <3>1. Due(acc, cum, k) \in Rate
      BY <2>5 DEF Due, RewardsFit
    <3>2. acc.start_rate[k] <= pool.cumulative_rate[k]
      BY DEF StakingInv, StartRateReached
    <3>3. pool.cumulative_rate[k] <= cum[k]
      <4> DEFINE total == pool.rate_per_slot[k] * Elapsed(pool, slot)
      <4>1. total \in Nat
        BY Widths DEF RewardsFit, EmissionFits
      <4>2. pool.cumulative_rate[k] \in Nat
        BY <2>1, Widths DEF PoolRec
      <4>3. total \div n \in Nat
        <5> HIDE DEF total
        <5> QED BY <2>2, <2>3, <4>1, Quotient
      <4>4. cum[k] = pool.cumulative_rate[k] + total \div n
        BY <2>5
      <4> HIDE DEF total, cum
      <4> QED BY <4>2, <4>3, <4>4
    <3>4. acc.start_rate[k] \in Nat /\ pool.cumulative_rate[k] \in Nat /\ cum[k] \in Nat
      BY <2>1, <2>9, Widths DEF AccountRec, PoolRec
    <3> QED BY <3>1, <3>2, <3>3, <3>4
  <2>11. PICK c : c \in AccrueReward(acc, cum)
    <3> HIDE DEF acc, cum
    <3> QED BY <2>1, <2>9, <2>10, AccrualPossible
  <2>12. cum \in RawRates
    BY <2>9, RateIsDecimal DEF RawRates
  <2>13. /\ c \in RawAccount
         /\ c.initialized = acc.initialized /\ c.deposited_amount = acc.deposited_amount
         /\ c.start_rate = cum
         /\ \A k \in Kind : c.unclaimed_reward_wads[k] = Due(acc, cum, k)
    <3> HIDE DEF acc, cum
    <3> QED BY <2>1, <2>11, <2>12, Accrued
  <2> DEFINE left == acc.deposited_amount - amount
             d == [c EXCEPT !.deposited_amount = left]
  <2>14. left \in U64
    BY <2>1, <2>2, WadAssumption DEF U64
  <2>15. d \in AccountWithdraw(acc, cum, amount)
    <3>1. left \in CheckedSub(c.deposited_amount, amount)
      BY <2>13, <2>14 DEF CheckedSub
    <3> HIDE DEF left, acc, cum
    <3> QED BY <2>11, <3>1 DEF AccountWithdraw
  <2>16. d \in AccountRec
    <3>1. c.unclaimed_reward_wads \in [Kind -> Rate]
      <4>1. c.unclaimed_reward_wads = [k \in Kind |-> c.unclaimed_reward_wads[k]]
        BY <2>13 DEF RawAccount, RawRates
      <4>2. \A k \in Kind : c.unclaimed_reward_wads[k] \in Rate
        <5> HIDE DEF acc, cum
        <5> QED BY <2>10, <2>13
      <4> QED BY <4>1, <4>2
    <3>2. acc.initialized \in BOOLEAN
      BY <2>1 DEF AccountRec
    <3> HIDE DEF left, acc, cum
    <3> QED BY <2>9, <2>13, <2>14, <3>1, <3>2 DEF AccountRec, RawAccount
  <2> HIDE DEF r, d
  <2>17. pool.initialized /\ account[a].initialized
    BY <2>2 DEF InUse
  <2> QED BY <2>7, <2>8, <2>15, <2>16, <2>17 DEF Releasable, PackPool, PackAccount
<1> QED BY <1>1, StakingInvariant, PoolSizeIsTheSum, InUseInvariant, PTL

-----------------------------------------------------------------------------
(***************************************************************************)
(* The reward tokens cover what was earned.  A method may raise what is    *)
(* still to be emitted, together with what it adds to the debts of the     *)
(* stakers, by no more than the tokens it adds to the supply and what the  *)
(* division of a reduction loses.                                          *)
(***************************************************************************)

(* slots of emission the pool still has to pay for *)
Left(p) == IF p.end_time = 0 THEN p.duration ELSE p.end_time - p.last_update

(* a pool has a duration, and nothing is staked before its period is set *)
Live(p) == (p.initialized => p.duration > 0) /\ (p.end_time = 0 => p.pool_size = 0)

Within(p, q, extra) ==
    /\ Live(q)
    /\ \A k \in Kind :
         q.rate_per_slot[k] * Left(q) + (q.cumulative_rate[k] - p.cumulative_rate[k]) * p.pool_size
           <= p.rate_per_slot[k] * Left(p) + extra[k]

LEMMA Distribute ==
    /\ \A r, a, b \in Int : r * (a + b) = r * a + r * b
    /\ \A r, a, b \in Int : (a + b) * r = a * r + b * r
OBVIOUS

LEMMA Divided ==
    ASSUME NEW w \in Nat, NEW t \in Nat, t > 0
    PROVE  /\ w \div t \in Nat /\ w % t \in Nat
           /\ (w \div t) * t \in Nat /\ (w \div t) * t <= w
           /\ w - (w \div t) * t = w % t
OBVIOUS

LEMMA LeftType ==
    ASSUME NEW p \in RawPool
    PROVE  Left(p) \in Int
BY RawTypes DEF Left

LEMMA ClaimWithin ==
    ASSUME NEW p \in RawPool, NEW now \in U64, Live(p), NEW q \in ClaimRewardHelper(p, now)
    PROVE  Within(p, q, NoReward) /\ p.end_time # 0
<1>1. /\ q \in RawPool
      /\ q.initialized = p.initialized
      /\ q.last_update = Least(now, p.end_time)
      /\ q.end_time = p.end_time /\ q.duration = p.duration
      /\ q.rate_per_slot = p.rate_per_slot /\ q.pool_size = p.pool_size
  BY ClaimedFields
<1>2. /\ p.pool_size > 0 /\ Elapsed(p, now) \in Nat
      /\ \A k \in Kind : q.cumulative_rate[k] = p.cumulative_rate[k]
                          + (p.rate_per_slot[k] * Elapsed(p, now)) \div p.pool_size
  BY Claimed, Widths
<1>3. p.end_time # 0
  BY <1>2, RawTypes DEF Live
<1>4. Live(q)
  BY <1>1 DEF Live
<1>5. ASSUME NEW k \in Kind
      PROVE  q.rate_per_slot[k] * Left(q) + (q.cumulative_rate[k] - p.cumulative_rate[k]) * p.pool_size
               <= p.rate_per_slot[k] * Left(p) + NoReward[k]
  <2> DEFINE r == p.rate_per_slot[k]
             c == p.cumulative_rate[k]
             e == Elapsed(p, now)
             l == Left(q)
             n == p.pool_size
             d == (r * e) \div n
  <2>1. r \in Nat /\ c \in Nat /\ e \in Nat /\ n \in Nat /\ n > 0 /\ l \in Int
    BY <1>1, <1>2, RawTypes, LeftType
  <2>2. Left(p) = l + e
    BY <1>1, <1>3, RawTypes DEF Left, Elapsed
  <2>3. q.rate_per_slot[k] = r /\ q.cumulative_rate[k] = c + d
    BY <1>1, <1>2
  <2>4. NoReward[k] = 0
    BY DEF NoReward
  <2> HIDE DEF r, c, e, l, n
  <2>5. r * e \in Nat
    BY <2>1
  <2>6. d \in Nat /\ d * n <= r * e
    BY <2>1, <2>5, Divided
  <2> HIDE DEF d
  <2>7. r * (l + e) = r * l + r * e
    BY <2>1, Distribute
  <2>8. (c + d) - c = d
    BY <2>1, <2>6
  <2>9. r * l \in Int /\ d * n \in Int
    BY <2>1, <2>6
  <2>10. r * l + ((c + d) - c) * n <= r * (l + e) + 0
    BY <2>5, <2>6, <2>7, <2>8, <2>9
  <2> QED BY <2>2, <2>3, <2>4, <2>10 DEF r, c, l, n
<1> QED BY <1>3, <1>4, <1>5 DEF Within

LEMMA RateSpread ==
    ASSUME NEW rate \in RawRates, NEW change \in [Kind -> Int], NEW t \in U64,
           NEW x \in ChangedRate(rate, change, t), NEW k \in Kind
    PROVE  t > 0 /\ x[k] \in Nat /\ x[k] * t <= rate[k] * t + (WAD * change[k] + Lost(change[k], t))
<1> DEFINE Res(l) == UNION {IF change[l] > 0 THEN TryAdd(rate[l], delta) ELSE TrySub(rate[l], delta) :
                            delta \in TryDivU64(FromU64(Abs(change[l])), t)}
           res == [l \in Kind |-> Res(l)]
<1>1. x[k] \in Res(k)
  <2>1. x \in ForEachKind(res)
    BY DEF ChangedRate
  <2>2. x[k] \in res[k]
    BY <2>1, EachKind
  <2> QED BY <2>2
<1>2. PICK delta \in TryDivU64(FromU64(Abs(change[k])), t) :
          x[k] \in IF change[k] > 0 THEN TryAdd(rate[k], delta) ELSE TrySub(rate[k], delta)
  BY <1>1
<1> HIDE DEF res, Res
<1> DEFINE c == change[k]
           w == FromU64(Abs(c))
           r == rate[k]
           y == x[k]
<1>3. c \in Int /\ r \in Nat /\ t \in Nat
  BY Widths DEF RawRates
<1>4. w \in Nat /\ w = IF c < 0 THEN -(WAD * c) ELSE WAD * c
  BY <1>3, Widths DEF FromU64, Abs
<1>5. t > 0 /\ delta = w \div t
  BY <1>2 DEF TryDivU64
<1>6. y \in Nat /\ y = IF c > 0 THEN r + delta ELSE r - delta
  BY <1>2, Widths DEF TryAdd, TrySub
<1>7. Lost(c, t) = IF c < 0 THEN w % t ELSE 0
  BY <1>3 DEF Lost, Abs
<1> DEFINE g == WAD * c
<1>8. g \in Int
  BY <1>3, Widths
<1> HIDE DEF c, w, r, y, g
<1>9. delta \in Nat /\ delta * t <= w /\ w - delta * t = w % t /\ w % t \in Nat /\ delta * t \in Nat
  BY <1>3, <1>4, <1>5, Divided
<1>10. (r + delta) * t = r * t + delta * t /\ (r - delta) * t = r * t - delta * t /\ r * t \in Nat
  <2>1. (r + delta) * t = r * t + delta * t
    BY <1>3, <1>9, Distribute
  <2>2. (r + (-delta)) * t = r * t + (-delta) * t
    BY <1>3, <1>9, Distribute
  <2>3. r + (-delta) = r - delta /\ (-delta) * t = -(delta * t)
    BY <1>3, <1>9
  <2>4. r * t \in Nat
    BY <1>3
  <2> QED BY <1>9, <2>1, <2>2, <2>3, <2>4
<1>11. y * t <= r * t + (g + Lost(c, t))
  <2> DEFINE rt == r * t
             dt == delta * t
             m == w % t
             yt == y * t
  <2>1. yt = IF c > 0 THEN rt + dt ELSE rt - dt
    BY <1>6, <1>10
  <2>2. w = IF c < 0 THEN -g ELSE g
    BY <1>4 DEF g
  <2>3. c = 0 => g = 0
    BY Widths DEF g
  <2>4. Lost(c, t) = IF c < 0 THEN m ELSE 0
    BY <1>7
  <2>5. m \in Nat /\ dt \in Nat /\ rt \in Nat /\ dt <= w /\ w - dt = m
    BY <1>9, <1>10
  <2> HIDE DEF rt, dt, m, yt
  <2>6. yt <= rt + (g + Lost(c, t))
    BY <1>3, <1>4, <1>8, <2>1, <2>2, <2>3, <2>4, <2>5
  <2> QED BY <2>6 DEF yt, rt
<1> QED BY <1>5, <1>6, <1>11 DEF c, r, y, g

LEMMA SupplyWithin ==
    ASSUME NEW p \in RawPool, NEW now \in U64, Good(p, now), Live(p), NEW change \in [Kind -> Int],
           NEW r \in UpdateRewardSupply(p, change, now), NEW extra,
           \A k \in Kind : extra[k] = WAD * change[k] + Lost(change[k], p.end_time - now)
    PROVE  Within(p, r, extra)
<1>1. PICK t \in CheckedSub(p.end_time, now), q \in ClaimRewardHelper(p, now) :
        \E x \in ChangedRate(q.rate_per_slot, change, t) : r = [q EXCEPT !.rate_per_slot = x]
  BY SupplyIs
<1>2. PICK x \in ChangedRate(q.rate_per_slot, change, t) : r = [q EXCEPT !.rate_per_slot = x]
  BY <1>1
<1>3. q \in RawPool /\ q.end_time = p.end_time /\ q.last_update = Least(now, p.end_time)
  BY ClaimedFields
<1>4. t \in U64 /\ t = p.end_time - now
  BY <1>1 DEF CheckedSub
<1>5. /\ r.initialized = q.initialized /\ r.pool_size = q.pool_size
      /\ r.last_update = q.last_update /\ r.end_time = q.end_time /\ r.duration = q.duration
      /\ r.rate_per_slot = x /\ r.cumulative_rate = q.cumulative_rate
  BY <1>2, <1>3 DEF RawPool
<1>6. Within(p, q, NoReward) /\ p.end_time # 0
  BY ClaimWithin
<1>7. Left(q) = t /\ Left(r) = t
  <2>1. p.end_time \in Int /\ now \in Nat /\ p.end_time - now \in Nat
    BY <1>4, RawTypes, Widths
  <2>2. Least(now, p.end_time) = now
    BY <2>1 DEF Least
  <2> QED BY <1>3, <1>4, <1>5, <1>6, <2>2 DEF Left
<1>8. Live(r)
  BY <1>5, <1>6 DEF Within, Live
<1>9. ASSUME NEW k \in Kind
      PROVE  r.rate_per_slot[k] * Left(r) + (r.cumulative_rate[k] - p.cumulative_rate[k]) * p.pool_size
               <= p.rate_per_slot[k] * Left(p) + extra[k]
  <2> DEFINE xt == x[k] * t
             qt == q.rate_per_slot[k] * t
             grown == (q.cumulative_rate[k] - p.cumulative_rate[k]) * p.pool_size
             had == p.rate_per_slot[k] * Left(p)
             g == WAD * change[k] + Lost(change[k], t)
  <2>1. t > 0 /\ xt <= qt + g /\ x[k] \in Nat
    BY <1>2, <1>3, <1>4, RawTypes, RateSpread
  <2>2. qt + grown <= had + NoReward[k]
    BY <1>6, <1>7 DEF Within
  <2>3. NoReward[k] = 0
    BY DEF NoReward
  <2>4. xt \in Int /\ qt \in Int /\ grown \in Int /\ had \in Int /\ g \in Int
    <3>1. t \in Nat /\ Left(p) \in Int /\ p.rate_per_slot[k] \in Nat /\ q.rate_per_slot[k] \in Nat
          /\ p.cumulative_rate[k] \in Nat /\ q.cumulative_rate[k] \in Nat /\ p.pool_size \in Nat
      BY <1>3, <1>4, LeftType, RawTypes, Widths
    <3>2. xt \in Int /\ qt \in Int /\ had \in Int
      BY <2>1, <3>1
    <3>3. grown \in Int
      BY <3>1
    <3>4. g \in Int
      <4>1. change[k] \in Int /\ 0 \in 0..WAD /\ WAD \in Nat
        BY Widths
      <4>2. Lost(change[k], t) \in Nat
        BY <2>1, <3>1, <4>1, ExcessAfterIs
      <4>3. WAD * change[k] \in Int
        BY <4>1
      <4> QED BY <4>2, <4>3
    <3> QED BY <3>2, <3>3, <3>4
  <2>5. extra[k] = g
    BY <1>4
  <2> HIDE DEF xt, qt, grown, had, g
  <2>6. xt + grown <= had + g
    BY <2>1, <2>2, <2>3, <2>4
  <2> QED BY <1>5, <1>7, <2>5, <2>6 DEF xt, grown, had
<1> QED BY <1>8, <1>9 DEF Within

LEMMA SubWithin ==
    ASSUME NEW p \in RawPool, NEW now \in U64, Good(p, now), Live(p), NEW amount \in U64,
           NEW r \in AddSubReward(p, amount, now), NEW extra,
           extra["reward"] = 0, extra["sub_reward"] = WAD * amount
    PROVE  Within(p, r, extra)
<1> DEFINE New(q, t) == {[q EXCEPT !.has_sub = TRUE, !.cumulative_rate["sub_reward"] = 0,
                                   !.rate_per_slot["sub_reward"] = rate] :
                         rate \in TryDivU64(FromU64(amount), t)}
<1>0. PICK t \in (IF p.has_sub THEN {} ELSE CheckedSub(p.end_time, now)) :
        r \in UNION {New(q, t) : q \in ClaimRewardHelper(p, now)}
  BY DEF AddSubReward
<1>1. PICK q \in ClaimRewardHelper(p, now) : ~p.has_sub /\ r \in New(q, t)
  BY <1>0
<1>2. PICK rate \in TryDivU64(FromU64(amount), t) :
        r = [q EXCEPT !.has_sub = TRUE, !.cumulative_rate["sub_reward"] = 0,
                      !.rate_per_slot["sub_reward"] = rate]
  BY <1>1
<1>3. /\ q \in RawPool /\ q.end_time = p.end_time /\ q.last_update = Least(now, p.end_time)
      /\ q.has_sub = p.has_sub
  BY ClaimedFields
<1>4. t \in U64 /\ t = p.end_time - now
  BY <1>0 DEF CheckedSub
<1>5. /\ r.initialized = q.initialized /\ r.pool_size = q.pool_size
      /\ r.last_update = q.last_update /\ r.end_time = q.end_time /\ r.duration = q.duration
      /\ r.rate_per_slot = [q.rate_per_slot EXCEPT !["sub_reward"] = rate]
      /\ r.cumulative_rate = [q.cumulative_rate EXCEPT !["sub_reward"] = 0]
  BY <1>2, <1>3 DEF RawPool
<1>6. Within(p, q, NoReward) /\ p.end_time # 0
  BY ClaimWithin
<1>7. Left(q) = t /\ Left(r) = t
  <2>1. p.end_time \in Int /\ now \in Nat /\ p.end_time - now \in Nat
    BY <1>4, RawTypes, Widths
  <2>2. Least(now, p.end_time) = now
    BY <2>1 DEF Least
  <2> QED BY <1>3, <1>4, <1>5, <1>6, <2>2 DEF Left
<1>8. Live(r)
  BY <1>5, <1>6 DEF Within, Live
<1>9. q.rate_per_slot \in RawRates /\ q.cumulative_rate \in RawRates
  BY <1>3, RawTypes
<1>10. r.rate_per_slot["reward"] * Left(r) + (r.cumulative_rate["reward"] - p.cumulative_rate["reward"]) * p.pool_size
         <= p.rate_per_slot["reward"] * Left(p) + extra["reward"]
  <2>1. r.rate_per_slot["reward"] = q.rate_per_slot["reward"]
        /\ r.cumulative_rate["reward"] = q.cumulative_rate["reward"]
    BY <1>5, <1>9, KindIs DEF RawRates
  <2>2. NoReward["reward"] = 0
    BY KindIs DEF NoReward
  <2> QED BY <1>6, <1>7, <2>1, <2>2, KindIs DEF Within
<1>11. r.rate_per_slot["sub_reward"] * Left(r)
           + (r.cumulative_rate["sub_reward"] - p.cumulative_rate["sub_reward"]) * p.pool_size
         <= p.rate_per_slot["sub_reward"] * Left(p) + extra["sub_reward"]
  <2>1. r.rate_per_slot["sub_reward"] = rate /\ r.cumulative_rate["sub_reward"] = 0
    BY <1>5, <1>9, KindIs DEF RawRates
  <2>2. p.rate_per_slot["sub_reward"] = 0 /\ p.cumulative_rate["sub_reward"] = 0
    BY <1>1 DEF Good, OneToken
  <2>3. t > 0 /\ rate = FromU64(amount) \div t
    BY <1>2 DEF TryDivU64
  <2> DEFINE w == FromU64(amount)
  <2>4. w \in Nat /\ t \in Nat /\ p.pool_size \in Nat /\ Left(p) \in Int
    BY <1>4, Widths, LeftType, RawTypes DEF FromU64
  <2>5. extra["sub_reward"] = w
    BY Widths DEF FromU64
  <2> HIDE DEF w
  <2>6. (w \div t) * t <= w /\ (w \div t) * t \in Nat
    BY <2>3, <2>4, Divided
  <2>7. (0 - 0) * p.pool_size = 0 /\ 0 * Left(p) = 0
    BY <2>4
  <2>8. (w \div t) * t + 0 <= 0 + w
    BY <2>4, <2>6
  <2> QED BY <1>7, <2>1, <2>2, <2>3, <2>5, <2>7, <2>8 DEF w
<1> QED BY <1>8, <1>10, <1>11 DEF Within, Kind

(* setting the size touches none of it *)
LEMMA SizeWithin ==
    ASSUME NEW p, NEW q \in RawPool, NEW extra, Within(p, q, extra), q.end_time # 0,
           NEW n, NEW r, r = [q EXCEPT !.pool_size = n]
    PROVE  Within(p, r, extra)
<1>1. /\ r.initialized = q.initialized /\ r.duration = q.duration
      /\ r.last_update = q.last_update /\ r.end_time = q.end_time
      /\ r.rate_per_slot = q.rate_per_slot /\ r.cumulative_rate = q.cumulative_rate
  BY DEF RawPool
<1> QED BY <1>1 DEF Within, Live, Left

(* The first deposit starts the period that is paid for, any later one     *)
(* into an empty pool a period that is not.                                *)
LEMMA DepositWithin ==
    ASSUME NEW p \in PoolRec, NEW now \in U64, Good(p, now), Live(p), p.initialized,
           NEW amount \in U64, NEW r \in PoolDeposit(p, now, amount)
    PROVE  Live(r) /\ (~(p.pool_size = 0 /\ p.end_time # 0) => Within(p, r, NoReward))
<1>1. PICK q : /\ q \in (IF amount = 0 THEN {} ELSE IF p.pool_size = 0 THEN StartEmission(p, now)
                         ELSE ClaimRewardHelper(p, now))
               /\ r \in {[q EXCEPT !.pool_size = size] : size \in CheckedAdd(q.pool_size, amount)}
  BY DEF PoolDeposit
<1>2. PICK size : r = [q EXCEPT !.pool_size = size]
  BY <1>1
<1>3. p \in RawPool
  BY PoolIsRaw
<1>4. CASE p.pool_size = 0
  <2>1. q \in StartEmission(p, now)
    BY <1>1, <1>4
  <2>2. PICK end \in U64 : end = now + p.duration /\ q = [p EXCEPT !.end_time = end, !.last_update = now]
    BY <2>1 DEF StartEmission, CheckedAdd
  <2>3. q \in RawPool
    BY <1>4, <2>1, StartKeeps
  <2>4. /\ q.initialized = p.initialized /\ q.last_update = now /\ q.end_time = end
        /\ q.duration = p.duration /\ q.rate_per_slot = p.rate_per_slot
        /\ q.cumulative_rate = p.cumulative_rate
    BY <2>2 DEF PoolRec
  <2>5. p.duration \in Int /\ p.duration > 0 /\ now \in Nat
    BY <1>3, RawTypes, Widths DEF Live
  <2>6. end # 0 /\ end - now = p.duration
    BY <2>2, <2>5
  <2>7. Live(q)
    BY <2>4, <2>5, <2>6 DEF Live
  <2>8. Live(r)
    BY <1>2, <2>3, <2>4, <2>6, <2>7 DEF Live, RawPool
  <2>9. ASSUME p.end_time = 0 PROVE Within(p, r, NoReward)
    <3>1. Left(p) = p.duration /\ Left(q) = p.duration
      BY <2>4, <2>6, <2>9 DEF Left
    <3>2. ASSUME NEW k \in Kind
          PROVE  q.rate_per_slot[k] * Left(q) + (q.cumulative_rate[k] - p.cumulative_rate[k]) * p.pool_size
                   <= p.rate_per_slot[k] * Left(p) + NoReward[k]
      <4>1. p.rate_per_slot[k] \in Nat /\ p.cumulative_rate[k] \in Nat /\ NoReward[k] = 0
        BY <1>3, RawTypes DEF NoReward
      <4>2. p.rate_per_slot[k] * p.duration \in Int
        BY <2>5, <4>1
      <4>3. (p.cumulative_rate[k] - p.cumulative_rate[k]) * 0 = 0
        BY <4>1
      <4> QED BY <1>4, <2>4, <3>1, <4>1, <4>2, <4>3
    <3>3. Within(p, q, NoReward)
      BY <2>7, <3>2 DEF Within
    <3> QED BY <1>2, <2>3, <2>4, <2>6, <3>3, SizeWithin
  <2> QED BY <1>4, <2>8, <2>9
<1>5. CASE p.pool_size # 0
  <2>1. q \in ClaimRewardHelper(p, now)
    BY <1>1, <1>5
  <2>2. Within(p, q, NoReward) /\ p.end_time # 0
    BY <1>3, <2>1, ClaimWithin
  <2>3. q \in RawPool /\ q.end_time = p.end_time
    BY <1>3, <2>1, ClaimedFields
  <2>4. Within(p, r, NoReward)
    BY <1>2, <2>2, <2>3, SizeWithin
  <2> QED BY <2>4 DEF Within
<1> QED BY <1>4, <1>5

LEMMA WithdrawWithin ==
    ASSUME NEW p \in PoolRec, NEW now \in U64, Good(p, now), Live(p), NEW amount \in U64,
           NEW r \in PoolWithdraw(p, now, amount)
    PROVE  Within(p, r, NoReward)
<1>1. PICK q : /\ q \in ClaimRewardHelper(p, now)
               /\ r \in {[q EXCEPT !.pool_size = size] : size \in CheckedSub(q.pool_size, amount)}
  BY DEF PoolWithdraw
<1>2. PICK size : r = [q EXCEPT !.pool_size = size]
  BY <1>1
<1>3. p \in RawPool
  BY PoolIsRaw
<1>4. Within(p, q, NoReward) /\ p.end_time # 0
  BY <1>1, <1>3, ClaimWithin
<1>5. q \in RawPool /\ q.end_time = p.end_time
  BY <1>1, <1>3, ClaimedFields
<1> QED BY <1>2, <1>4, <1>5, SizeWithin

LEMMA BeforeStartWithin ==
    ASSUME NEW p \in PoolRec, NEW now \in U64, Good(p, now), Live(p), p.initialized, p.end_time = 0,
           NEW extend \in Int, NEW r \in ExtendBeforeStart(p, extend)
    PROVE  Within(p, r, NoReward)
<1> DEFINE Res(k, d) == UNION {RateOver(k, supply, d) : supply \in RateTimes(k, p.rate_per_slot[k], p.duration)}
           New(d) == {[p EXCEPT !.duration = d, !.rate_per_slot = rate] :
                      rate \in ForEachKind([k \in Kind |-> Res(k, d)])}
<1>1. PICK d \in (IF extend < 0 THEN {} ELSE CheckedAdd(p.duration, extend)) : r \in New(d)
  <2>1. ExtendBeforeStart(p, extend) =
          UNION {New(d) : d \in IF extend < 0 THEN {} ELSE CheckedAdd(p.duration, extend)}
    BY DEF ExtendBeforeStart
  <2> HIDE DEF New
  <2> QED BY <2>1
<1>2. d \in Nat
  <2>1. d \in U64
    <3> HIDE DEF New
    <3> QED BY <1>1 DEF CheckedAdd
  <2> QED BY <2>1, Widths
<1>3. PICK x \in ForEachKind([k \in Kind |-> Res(k, d)]) :
        r = [p EXCEPT !.duration = d, !.rate_per_slot = x]
  BY <1>1
<1>4. \A k \in Kind : x[k] \in Res(k, d)
  <2> HIDE DEF Res
  <2> DEFINE res == [k \in Kind |-> Res(k, d)]
  <2>1. \A k \in Kind : x[k] \in res[k]
    <3> HIDE DEF res
    <3> QED BY <1>3, EachKind DEF res
  <2> QED BY <2>1
<1>5. /\ r.pool_size = p.pool_size /\ r.end_time = p.end_time /\ r.duration = d
      /\ r.rate_per_slot = x /\ r.cumulative_rate = p.cumulative_rate
  BY <1>3 DEF PoolRec
<1>6. p \in RawPool /\ p.pool_size = 0 /\ p.duration \in Nat
  BY PoolIsRaw, Widths DEF Live, PoolRec
<1>7. Left(p) = p.duration /\ Left(r) = d
  BY <1>5 DEF Left
<1> HIDE DEF New
<1>8. ASSUME NEW k \in Kind
      PROVE  /\ d > 0
             /\ r.rate_per_slot[k] * Left(r) + (r.cumulative_rate[k] - p.cumulative_rate[k]) * p.pool_size
                  <= p.rate_per_slot[k] * Left(p) + NoReward[k]
  <2>1. PICK supply \in RateTimes(k, p.rate_per_slot[k], p.duration) : x[k] \in RateOver(k, supply, d)
    BY <1>4
  <2>2. p.rate_per_slot[k] \in Nat /\ p.cumulative_rate[k] \in Nat /\ NoReward[k] = 0
    BY <1>6, RawTypes DEF NoReward
  <2>3. supply = p.rate_per_slot[k] * p.duration
    BY <1>6, <2>1, <2>2, RateTimesIs
  <2>4. supply \in Nat
    BY <1>6, <2>3, <2>2
  <2>5. d > 0 /\ x[k] = supply \div d
    BY <1>2, <2>1, <2>4, RateOverIs
  <2>6. (supply \div d) * d \in Nat /\ (supply \div d) * d <= supply
    BY <1>2, <2>5, <2>4, Divided
  <2>7. (p.cumulative_rate[k] - p.cumulative_rate[k]) * 0 = 0
    BY <2>2
  <2>8. (supply \div d) * d + 0 <= supply + 0
    BY <2>4, <2>6
  <2> QED BY <1>5, <1>6, <1>7, <2>3, <2>5, <2>2, <2>7, <2>8
<1>9. d > 0
  BY <1>8, KindIs
<1>10. Live(r)
  BY <1>5, <1>6, <1>9 DEF Live
<1> QED BY <1>8, <1>10 DEF Within

LEMMA ExtendedLive ==
    ASSUME NEW p \in RawPool, NEW now \in U64, Good(p, now), Live(p), p.initialized,
           p.end_time # 0, NEW extend \in Int,
           extend >= 0 \/ -extend < p.end_time - now
    PROVE  /\ Live(Extended(p, extend))
           /\ Extended(p, extend).end_time = p.end_time + extend
           /\ p.last_update <= Extended(p, extend).end_time
           /\ Extended(p, extend).cumulative_rate = p.cumulative_rate
           /\ Extended(p, extend).pool_size = p.pool_size
           /\ Extended(p, extend).rate_per_slot = NoReward
<1> DEFINE e == Extended(p, extend)
<1>1. /\ e.initialized = p.initialized /\ e.pool_size = p.pool_size
      /\ e.end_time = p.end_time + extend /\ e.duration = p.duration + extend
      /\ e.cumulative_rate = p.cumulative_rate /\ e.rate_per_slot = NoReward
  BY DEF Extended, RawPool
<1>2. /\ p.end_time \in Int /\ p.duration \in Int /\ p.last_update \in Nat /\ now \in Nat
      /\ p.duration > 0 /\ p.last_update <= now /\ p.last_update <= p.end_time
      /\ p.end_time - now <= p.duration
  BY RawTypes, Widths DEF Live, Good, Sched
<1> HIDE DEF e
<1>3. e.end_time # 0 /\ e.duration > 0 /\ p.last_update <= e.end_time
  BY <1>1, <1>2
<1>4. Live(e)
  BY <1>3 DEF Live
<1> QED BY <1>1, <1>3, <1>4 DEF e

LEMMA RunningWithin ==
    ASSUME NEW p \in RawPool, NEW now \in U64, Good(p, now), Live(p), p.initialized, p.end_time # 0,
           NEW extend \in Int, p.end_time >= now, Elapsed(p, now) = 0,
           NEW r \in ExtendRunning(p, extend, now)
    PROVE  Within(p, r, NoReward)
<1> DEFINE t == p.end_time - now
           Res(k) == UNION {TryFloorU64(wads) \cap 0..I64_MAX :
                            wads \in RateTimes(k, p.rate_per_slot[k], t)}
           res == [k \in Kind |-> Res(k)]
           e == Extended(p, extend)
<1>1. PICK left \in (IF extend < 0 /\ Abs(extend) >= t THEN {} ELSE ForEachKind(res)) :
        r \in UpdateRewardSupply(e, left, now)
  BY DEF ExtendRunning
<1>2. left \in ForEachKind(res) /\ ~(extend < 0 /\ Abs(extend) >= t)
  BY <1>1
<1>3. left = [k \in Kind |-> left[k]] /\ \A k \in Kind : left[k] \in Res(k)
  <2> HIDE DEF res
  <2>1. left = [k \in Kind |-> left[k]] /\ \A k \in Kind : left[k] \in res[k]
    BY <1>2, EachKind
  <2> HIDE DEF Res
  <2> QED BY <2>1 DEF res
<1>4. p.end_time \in Int /\ p.last_update \in Nat /\ now \in Nat /\ t \in Nat
  BY RawTypes, Widths
<1>5. p.last_update = now /\ Left(p) = t
  BY <1>4 DEF Elapsed, Least, Left
<1>6. ASSUME NEW k \in Kind
      PROVE  left[k] \in Nat /\ WAD * left[k] \in Nat /\ WAD * left[k] <= p.rate_per_slot[k] * Left(p)
  <2>1. PICK wads \in RateTimes(k, p.rate_per_slot[k], t) : left[k] \in TryFloorU64(wads) \cap 0..I64_MAX
    BY <1>3
  <2>2. p.rate_per_slot[k] \in Nat
    BY RawTypes
  <2>3. wads = p.rate_per_slot[k] * t
    BY <1>4, <2>1, <2>2, RateTimesIs
  <2>4. left[k] = wads \div WAD
    BY <2>1 DEF TryFloorU64
  <2>5. wads \in Nat
    <3> HIDE DEF t
    <3> QED BY <1>4, <2>3, <2>2
  <2>6. /\ wads \div WAD \in Nat
        /\ (wads \div WAD) * WAD \in Nat /\ (wads \div WAD) * WAD <= wads
    BY <2>5, Widths, Divided
  <2>7. WAD * (wads \div WAD) = (wads \div WAD) * WAD
    BY <2>6, Widths
  <2> QED BY <1>5, <2>3, <2>4, <2>6, <2>7
<1>7. left \in [Kind -> Int]
  <2>1. \A k \in Kind : left[k] \in Int
    BY <1>6
  <2> HIDE DEF Res, res, e, t
  <2> QED BY <1>3, <2>1
<1>8. extend >= 0 \/ -extend < p.end_time - now
  BY <1>2, <1>4 DEF Abs
<1>9. /\ Live(e)
      /\ e.end_time = p.end_time + extend /\ p.last_update <= p.end_time + extend
      /\ e.cumulative_rate = p.cumulative_rate /\ e.pool_size = p.pool_size
      /\ e.rate_per_slot = NoReward
  BY <1>8, ExtendedLive
<1>10. e \in RawPool /\ Good(e, now)
  BY <1>9, ExtendedIs
<1> HIDE DEF e, res, Res, t
<1> DEFINE extra == [k \in Kind |-> WAD * left[k] + Lost(left[k], e.end_time - now)]
<1>11. \A k \in Kind : extra[k] = WAD * left[k] + Lost(left[k], e.end_time - now)
  OBVIOUS
<1>12. \A k \in Kind : extra[k] = WAD * left[k]
  <2> SUFFICES ASSUME NEW k \in Kind PROVE extra[k] = WAD * left[k]
    OBVIOUS
  <2>1. Lost(left[k], e.end_time - now) = 0
    BY <1>6 DEF Lost
  <2> HIDE DEF extra
  <2> QED BY <1>6, <1>11, <2>1
<1> HIDE DEF extra
<1>13. Within(e, r, extra)
  BY <1>1, <1>7, <1>9, <1>10, <1>11, SupplyWithin
<1>14. ASSUME NEW k \in Kind
       PROVE  r.rate_per_slot[k] * Left(r) + (r.cumulative_rate[k] - p.cumulative_rate[k]) * p.pool_size
                <= p.rate_per_slot[k] * Left(p) + NoReward[k]
  <2> DEFINE new == r.rate_per_slot[k] * Left(r) + (r.cumulative_rate[k] - p.cumulative_rate[k]) * p.pool_size
             had == p.rate_per_slot[k] * Left(p)
  <2>1. NoReward[k] = 0
    BY DEF NoReward
  <2>2. Left(e) \in Int /\ 0 * Left(e) = 0
    BY <1>10, LeftType
  <2>3. new <= 0 * Left(e) + extra[k]
    BY <1>9, <1>13, <2>1 DEF Within
  <2>4. had \in Int
    BY LeftType, RawTypes
  <2>5. r \in RawPool => new \in Int
    <3> SUFFICES ASSUME r \in RawPool PROVE new \in Int
      OBVIOUS
    <3>1. /\ r.rate_per_slot[k] \in Nat /\ Left(r) \in Int /\ r.cumulative_rate[k] \in Nat
          /\ p.cumulative_rate[k] \in Nat /\ p.pool_size \in Nat
      BY LeftType, RawTypes
    <3> QED BY <3>1
  <2>6. r \in RawPool
    <3>1. PICK tt \in CheckedSub(e.end_time, now), q \in ClaimRewardHelper(e, now) :
            \E x \in ChangedRate(q.rate_per_slot, left, tt) : r = [q EXCEPT !.rate_per_slot = x]
      BY <1>1, SupplyIs
    <3>2. PICK x \in ChangedRate(q.rate_per_slot, left, tt) : r = [q EXCEPT !.rate_per_slot = x]
      BY <3>1
    <3>3. q \in RawPool /\ q.rate_per_slot \in RawRates /\ tt \in U64
      BY <1>10, ClaimedFields, RawTypes DEF CheckedSub
    <3>4. x \in RawRates
      BY <1>7, <3>2, <3>3, RateChanged
    <3> QED BY <3>2, <3>3, <3>4 DEF RawPool
  <2> HIDE DEF new, had
  <2>7. new <= had + 0
    BY <1>6, <1>12, <2>2, <2>3, <2>4, <2>5, <2>6 DEF had
  <2> QED BY <2>1, <2>7 DEF new, had
<1> QED BY <1>13, <1>14 DEF Within

LEMMA WithinTwice ==
    ASSUME NEW p \in RawPool, NEW q \in RawPool, NEW r \in RawPool, q.pool_size = p.pool_size,
           Within(p, q, NoReward), Within(q, r, NoReward)
    PROVE  Within(p, r, NoReward)
<1>1. ASSUME NEW k \in Kind
      PROVE  r.rate_per_slot[k] * Left(r) + (r.cumulative_rate[k] - p.cumulative_rate[k]) * p.pool_size
               <= p.rate_per_slot[k] * Left(p) + NoReward[k]
  <2> DEFINE rr == r.rate_per_slot[k] * Left(r)
             qr == q.rate_per_slot[k] * Left(q)
             pr == p.rate_per_slot[k] * Left(p)
             rc == r.cumulative_rate[k]
             qc == q.cumulative_rate[k]
             pc == p.cumulative_rate[k]
             n == p.pool_size
  <2>1. rc \in Nat /\ qc \in Nat /\ pc \in Nat /\ n \in Nat
    BY RawTypes
  <2>2. rr \in Int /\ qr \in Int /\ pr \in Int
    <3>1. /\ r.rate_per_slot[k] \in Nat /\ q.rate_per_slot[k] \in Nat /\ p.rate_per_slot[k] \in Nat
          /\ Left(r) \in Int /\ Left(q) \in Int /\ Left(p) \in Int
      BY LeftType, RawTypes
    <3> QED BY <3>1
  <2>3. NoReward[k] = 0
    BY DEF NoReward
  <2>4. rr + (rc - qc) * n <= qr + NoReward[k]
    BY DEF Within
  <2>5. qr + (qc - pc) * n <= pr + NoReward[k]
    BY DEF Within
  <2> HIDE DEF rr, qr, pr, rc, qc, pc, n
  <2>6. ((rc - qc) + (qc - pc)) * n = (rc - qc) * n + (qc - pc) * n
    BY <2>1, Distribute
  <2>7. (rc - qc) + (qc - pc) = rc - pc
    BY <2>1
  <2>8. (rc - qc) * n \in Int /\ (qc - pc) * n \in Int
    BY <2>1
  <2>9. rr + (rc - pc) * n <= pr + 0
    BY <2>2, <2>3, <2>4, <2>5, <2>6, <2>7, <2>8
  <2> QED BY <2>3, <2>9 DEF rr, pr, rc, pc, n
<1> QED BY <1>1 DEF Within

(* after the end of emission an extension pays nothing *)
LEMMA EndedWithin ==
    ASSUME NEW q \in RawPool, NEW now \in U64, Good(q, now), Live(q), q.initialized, q.end_time # 0,
           NEW extend \in Int, extend > 0
    PROVE  Within(q, Extended(q, extend), NoReward)
<1> DEFINE r == Extended(q, extend)
<1>1. /\ Live(r)
      /\ q.last_update <= q.end_time + extend
      /\ r.cumulative_rate = q.cumulative_rate /\ r.rate_per_slot = NoReward
  BY ExtendedLive
<1>2. r \in RawPool
  BY <1>1, ExtendedIs
<1>3. Left(q) \in Nat /\ Left(r) \in Int
  BY <1>2, LeftType, RawTypes DEF Left, Good, Sched
<1> HIDE DEF r
<1>4. ASSUME NEW k \in Kind
      PROVE  r.rate_per_slot[k] * Left(r) + (r.cumulative_rate[k] - q.cumulative_rate[k]) * q.pool_size
               <= q.rate_per_slot[k] * Left(q) + NoReward[k]
  <2>1. q.rate_per_slot[k] \in Nat /\ q.cumulative_rate[k] \in Nat /\ q.pool_size \in Nat /\ NoReward[k] = 0
    BY RawTypes DEF NoReward
  <2>2. 0 * Left(r) = 0 /\ (q.cumulative_rate[k] - q.cumulative_rate[k]) * q.pool_size = 0
    BY <1>3, <2>1
  <2>3. q.rate_per_slot[k] * Left(q) \in Nat
    BY <1>3, <2>1
  <2> QED BY <1>1, <2>1, <2>2, <2>3
<1> QED BY <1>1, <1>4 DEF Within, r

LEMMA DurationWithin ==
    ASSUME NEW p \in PoolRec, NEW now \in U64, Good(p, now), Live(p), p.initialized, NEW extend \in Int,
           NEW r \in PoolRec, r \in ExtendDuration(p, extend, now)
    PROVE  Within(p, r, NoReward)
<1>1. CASE p.end_time = 0
  BY <1>1, BeforeStartWithin DEF ExtendDuration
<1>2. CASE p.end_time # 0
  <2> DEFINE New(q) == IF q.end_time >= now THEN ExtendRunning(q, extend, now)
                       ELSE IF extend > 0 THEN {Extended(q, extend)} ELSE {}
  <2>1. PICK q \in ClaimRewardHelper(p, now) : r \in New(q)
    <3>1. ExtendDuration(p, extend, now) = UNION {New(q) : q \in ClaimRewardHelper(p, now)}
      BY <1>2 DEF ExtendDuration
    <3> HIDE DEF New
    <3> QED BY <3>1
  <2>2. p \in RawPool /\ r \in RawPool
    BY PoolIsRaw
  <2>3. /\ q \in RawPool /\ Kept(p, q, now) /\ Elapsed(q, now) = 0
        /\ q.pool_size = p.pool_size /\ q.end_time = p.end_time
    BY <2>2, ClaimKeeps, ClaimedFields
  <2>4. Good(q, now) /\ q.initialized
    BY <2>3 DEF Kept
  <2>5. Within(p, q, NoReward) /\ Live(q)
    BY <2>2, ClaimWithin DEF Within
  <2>6. Within(q, r, NoReward)
    <3>1. CASE q.end_time >= now
      BY <1>2, <2>1, <2>3, <2>4, <2>5, <3>1, RunningWithin
    <3>2. CASE ~(q.end_time >= now)
      <4>1. extend > 0 /\ r = Extended(q, extend)
        BY <2>1, <3>2
      <4> QED BY <1>2, <2>3, <2>4, <2>5, <4>1, EndedWithin
    <3> QED BY <3>1, <3>2
  <2> QED BY <2>2, <2>3, <2>5, <2>6, WithinTwice
<1> QED BY <1>1, <1>2

(***************************************************************************)
(* The inductive invariant of payability: what the stakers are due at the  *)
(* pool's recorded rate and what is still to be emitted are covered by the *)
(* reward tokens, up to what reductions lost in their division.            *)
(***************************************************************************)
Debts(k) == [a \in Accounts |-> Due(account[a], pool.cumulative_rate, k)]

Funded ==
    ~restarted => \A k \in Kind : excess[k] < WAD =>
       SumFunction(Debts(k)) + pool.rate_per_slot[k] * Left(pool) <= WAD * rewardPool[k] + excess[k]

PayInv == StakingInv /\ PoolSizeIsSum /\ Live(pool) /\ Funded

LEMMA DueType ==
    ASSUME NEW acc \in AccountRec, NEW cum \in RawRates, NEW k \in Kind
    PROVE  Due(acc, cum, k) \in Int
<1>1. cum[k] \in Nat
  BY Widths DEF RawRates
<1>2. acc.unclaimed_reward_wads[k] \in Nat /\ acc.start_rate[k] \in Nat /\ acc.deposited_amount \in Nat
  BY AccountTypes
<1>3. (cum[k] - acc.start_rate[k]) * acc.deposited_amount \in Int
  BY <1>1, <1>2
<1> QED BY <1>2, <1>3 DEF Due

(* Emission adds to the debts as much as the rate grew by for every token staked. *)
LEMMA DebtsAt ==
    ASSUME StakingInv, PoolSizeIsSum, NEW cum \in RawRates, NEW k \in Kind
    PROVE  /\ [a \in Accounts |-> Due(account[a], cum, k)] \in [Accounts -> Int]
           /\ SumFunction(Debts(k)) \in Int
           /\ SumFunction([a \in Accounts |-> Due(account[a], cum, k)])
                = SumFunction(Debts(k)) + (cum[k] - pool.cumulative_rate[k]) * pool.pool_size
<1> DEFINE at == [a \in Accounts |-> Due(account[a], cum, k)]
           c == cum[k] - pool.cumulative_rate[k]
<1>1. pool.cumulative_rate \in RawRates /\ pool.cumulative_rate[k] \in Nat /\ cum[k] \in Nat
  BY PoolIsRaw, RawTypes, Widths DEF StakingInv, TypeOK, RawRates
<1>2. \A a \in Accounts : account[a] \in AccountRec
  BY DEF StakingInv, TypeOK
<1>3. at \in [Accounts -> Int] /\ Debts(k) \in [Accounts -> Int]
  BY <1>1, <1>2, DueType DEF Debts
<1>4. Stakes \in [Accounts -> Int]
  BY StakesType DEF StakingInv
<1>5. ASSUME NEW a \in Accounts PROVE at[a] = Debts(k)[a] + c * Stakes[a]
  <2> DEFINE u == account[a].unclaimed_reward_wads[k]
             s == account[a].start_rate[k]
             d == account[a].deposited_amount
             x == cum[k]
             y == pool.cumulative_rate[k]
  <2>1. u \in Int /\ s \in Int /\ d \in Int /\ x \in Int /\ y \in Int
    BY <1>1, <1>2, AccountTypes
  <2>2. at[a] = u + (x - s) * d /\ Debts(k)[a] = u + (y - s) * d /\ Stakes[a] = d /\ c = x - y
    BY DEF Due, Debts, Stakes
  <2> HIDE DEF u, s, d, x, y, at, c
  <2>3. ((y - s) + (x - y)) * d = (y - s) * d + (x - y) * d
    BY <2>1, Distribute
  <2>4. (y - s) + (x - y) = x - s /\ (y - s) * d \in Int /\ (x - y) * d \in Int
    BY <2>1
  <2> QED BY <2>1, <2>2, <2>3, <2>4
<1>6. c \in Int /\ IsFiniteSet(Accounts)
  BY <1>1, StakingAssumption
<1>7. pool.pool_size = SumFunction(Stakes)
  BY DEF PoolSizeIsSum, Stakes
<1> HIDE DEF at, c
<1>8. /\ SumFunction(Debts(k)) \in Int
      /\ SumFunction(at) = SumFunction(Debts(k)) + c * SumFunction(Stakes)
  BY <1>3, <1>4, <1>5, <1>6, SumLinear
<1> QED BY <1>3, <1>7, <1>8 DEF at, c

LEMMA Balances ==
    ASSUME StakingInv, NEW k \in Kind
    PROVE  rewardPool[k] \in Nat /\ excess[k] \in Nat /\ WAD \in Nat
<1>1. rewardPool[k] \in U64 /\ excess[k] \in 0..WAD
  BY DEF StakingInv, TypeOK
<1>2. WAD \in Nat /\ U64 \subseteq Nat
  BY Widths
<1>3. rewardPool[k] \in Nat
  BY <1>1, <1>2
<1>4. excess[k] \in Nat
  BY <1>1, <1>2
<1> QED BY <1>2, <1>3, <1>4

LEMMA BalanceTypes ==
    ASSUME StakingInv, Tokens, NEW k \in Kind
    PROVE  /\ rewardPool[k] \in Nat /\ rewardPool'[k] \in Nat
           /\ excess[k] \in Int /\ excess'[k] \in Int /\ WAD \in Nat
<1>1. rewardPool[k] \in U64 /\ excess[k] \in 0..WAD
  BY DEF StakingInv, TypeOK
<1>2. rewardPool'[k] \in U64 /\ excess'[k] \in 0..WAD
  BY DEF Tokens, HistoryOK
<1>3. WAD \in Nat /\ U64 \subseteq Nat
  BY Widths
<1>4. rewardPool[k] \in Nat /\ rewardPool'[k] \in Nat
  BY <1>1, <1>2, <1>3
<1>5. excess[k] \in Int /\ excess'[k] \in Int
  BY <1>1, <1>2, <1>3
<1> QED BY <1>3, <1>4, <1>5

(* an account that was credited all it is due, and was paid nothing *)
LEMMA Credited ==
    ASSUME StakingInv, NEW a \in Accounts, rewardPool' = rewardPool,
           account' \in [Accounts -> AccountRec],
           \A k \in Kind : account'[a].unclaimed_reward_wads[k] = Due(account[a], Earned(pool, slot), k)
    PROVE  \A k \in Kind : account'[a].unclaimed_reward_wads[k] + WAD * (rewardPool[k] - rewardPool'[k])
                             = Due(account[a], Earned(pool, slot), k)
<1> SUFFICES ASSUME NEW k \in Kind
             PROVE  account'[a].unclaimed_reward_wads[k] + WAD * (rewardPool[k] - rewardPool'[k])
                      = Due(account[a], Earned(pool, slot), k)
  OBVIOUS
<1>1. rewardPool[k] \in Nat /\ WAD \in Nat
  BY Widths DEF StakingInv, TypeOK
<1>2. account'[a].unclaimed_reward_wads[k] \in Nat
  BY AccountTypes
<1>3. WAD * (rewardPool[k] - rewardPool[k]) = 0
  BY <1>1
<1> QED BY <1>2, <1>3

(* the tokens an instruction moves into the reward pool, in wads *)
LEMMA Paid ==
    ASSUME StakingInv, Tokens, NEW k \in Kind, NEW n \in Int, NEW x, x = WAD * n,
           rewardPool'[k] = rewardPool[k] + n, excess' = excess
    PROVE  (WAD * rewardPool[k] + excess[k]) + x <= WAD * rewardPool'[k] + excess'[k]
<1>1. rewardPool[k] \in Nat /\ excess[k] \in Int /\ WAD \in Nat
  BY BalanceTypes
<1>2. WAD * (rewardPool[k] + n) = WAD * rewardPool[k] + WAD * n
  BY <1>1, Distribute
<1> DEFINE b == WAD * rewardPool[k]
           e == excess[k]
<1>3. b \in Int /\ x \in Int /\ e \in Int
  BY <1>1
<1>4. WAD * rewardPool'[k] + excess'[k] = (b + x) + e
  BY <1>2
<1> HIDE DEF b, e
<1>5. (b + e) + x <= (b + x) + e
  BY <1>3
<1> QED BY <1>4, <1>5 DEF b, e

(* An instruction of the pool pays for what it lets emission grow by. *)
LEMMA FundedFromPool ==
    ASSUME PayInv, PoolMoved, Tokens, NEW extra \in [Kind -> Int], Within(pool, pool', extra),
           restarted' = restarted,
           \A k \in Kind : excess'[k] < WAD =>
              /\ excess[k] < WAD
              /\ (WAD * rewardPool[k] + excess[k]) + extra[k] <= WAD * rewardPool'[k] + excess'[k]
    PROVE  Live(pool') /\ Funded'
<1>1. ASSUME ~restarted', NEW k \in Kind, excess'[k] < WAD
      PROVE  SumFunction([a \in Accounts |-> Due(account'[a], pool'.cumulative_rate, k)])
                + pool'.rate_per_slot[k] * Left(pool')
               <= WAD * rewardPool'[k] + excess'[k]
  <2> DEFINE at == [a \in Accounts |-> Due(account[a], pool'.cumulative_rate, k)]
             old == SumFunction(Debts(k))
             grown == (pool'.cumulative_rate[k] - pool.cumulative_rate[k]) * pool.pool_size
             had == pool.rate_per_slot[k] * Left(pool)
             has == pool'.rate_per_slot[k] * Left(pool')
             res == WAD * rewardPool[k] + excess[k]
             new == WAD * rewardPool'[k] + excess'[k]
  <2>1. pool \in RawPool /\ pool' \in RawPool
    BY PoolIsRaw DEF PayInv, StakingInv, TypeOK, PoolMoved
  <2>2. old \in Int /\ SumFunction(at) = old + grown
    <3>1. StakingInv /\ PoolSizeIsSum /\ pool'.cumulative_rate \in RawRates
      BY <2>1, RawTypes DEF PayInv
    <3> QED BY <3>1, DebtsAt
  <2>3. [a \in Accounts |-> Due(account'[a], pool'.cumulative_rate, k)] = at
    BY DEF PoolMoved
  <2>4. old + had <= res
    BY <1>1 DEF PayInv, Funded
  <2>5. has + grown <= had + extra[k]
    BY DEF Within
  <2>6. res + extra[k] <= new
    BY <1>1
  <2>7. grown \in Int /\ had \in Int /\ has \in Int
    <3>1. /\ pool.rate_per_slot[k] \in Nat /\ pool'.rate_per_slot[k] \in Nat
          /\ pool.cumulative_rate[k] \in Nat /\ pool'.cumulative_rate[k] \in Nat
          /\ pool.pool_size \in Nat /\ Left(pool) \in Int /\ Left(pool') \in Int
      BY <2>1, RawTypes, LeftType
    <3> QED BY <3>1
  <2>8. res \in Int /\ new \in Int
    <3>1. /\ rewardPool[k] \in Nat /\ rewardPool'[k] \in Nat
          /\ excess[k] \in Int /\ excess'[k] \in Int /\ WAD \in Nat
      BY BalanceTypes DEF PayInv
    <3> QED BY <3>1
  <2> HIDE DEF at, old, grown, had, has, res, new
  <2>9. SumFunction(at) + has <= new
    BY <2>2, <2>4, <2>5, <2>6, <2>7, <2>8
  <2> QED BY <2>3, <2>9 DEF has, new
<1>2. Funded'
  BY <1>1 DEF Funded, Debts
<1> QED BY <1>2 DEF Within

LEMMA FundedUnpaid ==
    ASSUME PayInv, PoolMoved, Tokens, Within(pool, pool', NoReward),
           UNCHANGED <<rewardPool, restarted, excess>>
    PROVE  Live(pool') /\ Funded'
<1>1. NoReward \in [Kind -> Int] /\ \A k \in Kind : NoReward[k] = 0
  BY DEF NoReward
<1>2. ASSUME NEW k \in Kind
      PROVE  (WAD * rewardPool[k] + excess[k]) + NoReward[k] <= WAD * rewardPool'[k] + excess'[k]
  <2>1. rewardPool[k] \in Nat /\ excess[k] \in Int /\ WAD \in Nat /\ StakingInv
    BY BalanceTypes DEF PayInv
  <2>2. 0 = WAD * 0 /\ rewardPool[k] = rewardPool[k] + 0
    BY <2>1
  <2> QED BY <1>1, <2>1, <2>2, Paid
<1> QED BY <1>1, <1>2, FundedFromPool

(* An instruction of account a credits what it has earned or pays it out. *)
LEMMA FundedFromAccount ==
    ASSUME PayInv, NEW a \in Accounts, NEW amount \in Int, AccountMoved(a, amount), Tokens,
           excess' = excess,
           ~restarted' => ~restarted /\ Within(pool, pool', NoReward),
           \A k \in Kind : account'[a].unclaimed_reward_wads[k] + WAD * (rewardPool[k] - rewardPool'[k])
                             = Due(account[a], Earned(pool, slot), k)
    PROVE  Funded'
<1>1. ASSUME ~restarted', NEW k \in Kind, excess'[k] < WAD
      PROVE  SumFunction([b \in Accounts |-> Due(account'[b], pool'.cumulative_rate, k)])
                + pool'.rate_per_slot[k] * Left(pool')
               <= WAD * rewardPool'[k] + excess'[k]
  <2> DEFINE at == [b \in Accounts |-> Due(account[b], pool'.cumulative_rate, k)]
             now == [b \in Accounts |-> Due(account'[b], pool'.cumulative_rate, k)]
             old == SumFunction(Debts(k))
             grown == (pool'.cumulative_rate[k] - pool.cumulative_rate[k]) * pool.pool_size
             had == pool.rate_per_slot[k] * Left(pool)
             has == pool'.rate_per_slot[k] * Left(pool')
             held == WAD * rewardPool[k]
             holds == WAD * rewardPool'[k]
             u == account'[a].unclaimed_reward_wads[k]
  <2>1. pool \in RawPool /\ pool' \in RawPool /\ account'[a] \in AccountRec
    BY PoolIsRaw DEF PayInv, StakingInv, TypeOK, AccountMoved
  <2>2. pool'.cumulative_rate \in RawRates
    BY <2>1, RawTypes
  <2>3. at \in [Accounts -> Int] /\ old \in Int /\ SumFunction(at) = old + grown
    <3>1. StakingInv /\ PoolSizeIsSum
      BY DEF PayInv
    <3> QED BY <2>2, <3>1, DebtsAt
  <2>4. now \in [Accounts -> Int]
    <3>1. \A b \in Accounts : account'[b] \in AccountRec
      BY DEF AccountMoved
    <3> QED BY <2>2, <3>1, DueType
  <2>5. \A b \in Accounts \ {a} : now[b] = at[b]
    BY DEF AccountMoved
  <2>6. now[a] = u /\ u \in Nat
    <3> DEFINE d == account'[a].deposited_amount
               c == pool'.cumulative_rate[k]
    <3>1. u \in Nat /\ d \in Nat /\ c \in Nat
      BY <2>1, AccountTypes, RawTypes
    <3>2. now[a] = u + (c - c) * d
      BY DEF AccountMoved, Due
    <3> HIDE DEF u, d, c
    <3>3. u + (c - c) * d = u
      BY <3>1
    <3> QED BY <3>1, <3>2, <3>3
  <2>7. held \in Int /\ holds \in Int /\ excess[k] \in Int
        /\ WAD * (rewardPool[k] - rewardPool'[k]) = held - holds
    <3>1. /\ rewardPool[k] \in Nat /\ rewardPool'[k] \in Nat
          /\ excess[k] \in Int /\ WAD \in Nat
      BY BalanceTypes DEF PayInv
    <3> QED BY <3>1
  <2>8. u + (held - holds) = at[a]
    <3>1. Earned(pool, slot) = pool'.cumulative_rate
      BY DEF AccountMoved
    <3> QED BY <2>7, <3>1
  <2>9. SumFunction(now) = SumFunction(at) - at[a] + now[a] /\ SumFunction(at) \in Int
    <3>1. IsFiniteSet(Accounts)
      BY StakingAssumption
    <3> HIDE DEF now, at
    <3> QED BY <2>3, <2>4, <2>5, <3>1, SumChanged
  <2>10. old + had <= held + excess[k]
    BY <1>1 DEF PayInv, Funded
  <2>11. has + grown <= had + NoReward[k] /\ NoReward[k] = 0
    BY <1>1 DEF Within, NoReward
  <2>12. grown \in Int /\ had \in Int /\ has \in Int
    <3>1. /\ pool.rate_per_slot[k] \in Nat /\ pool'.rate_per_slot[k] \in Nat
          /\ pool.cumulative_rate[k] \in Nat /\ pool'.cumulative_rate[k] \in Nat
          /\ pool.pool_size \in Nat /\ Left(pool) \in Int /\ Left(pool') \in Int
      BY <2>1, RawTypes, LeftType
    <3> QED BY <3>1
  <2>13. at[a] \in Int
    BY <2>3
  <2> HIDE DEF at, now, old, grown, had, has, held, holds, u
  <2>14. SumFunction(now) = (old + grown) - (held - holds)
    BY <2>3, <2>6, <2>7, <2>8, <2>9, <2>12, <2>13
  <2>15. SumFunction(now) + has <= holds + excess[k]
    BY <2>3, <2>7, <2>10, <2>11, <2>12, <2>14
  <2> QED BY <2>15 DEF now, has, holds
<1> QED BY <1>1 DEF Funded, Debts

(***************************************************************************)
(* One lemma per instruction.                                              *)
(***************************************************************************)
LEMMA InitPays ==
    ASSUME PayInv, NEW supply \in Supplies, NEW sub_supply \in SubSupplies,
           NEW duration \in Durations, NEW time \in ClaimTimes, NEW owner \in Keys, NEW admin \in Keys,
           ProcessInitStakingPool(supply, sub_supply, duration, time, owner, admin)
    PROVE  Live(pool') /\ Funded'
<1> DEFINE P == Pair(supply, sub_supply)
<1>1. PICK rate \in RateOf(P, duration) :
        SavePool([pool EXCEPT !.initialized = TRUE, !.duration = duration,
                               !.rate_per_slot = rate, !.earliest_reward_claim_time = time,
                               !.has_sub = sub_supply # 0,
                               !.owner_authority = owner, !.admin_authority = admin])
  BY DEF ProcessInitStakingPool
<1> DEFINE q == [pool EXCEPT !.initialized = TRUE, !.duration = duration,
                               !.rate_per_slot = rate, !.earliest_reward_claim_time = time,
                               !.has_sub = sub_supply # 0,
                               !.owner_authority = owner, !.admin_authority = admin]
<1>2. pool' = q /\ q \in PoolRec
  BY <1>1, PoolSaved
<1>3. /\ StakingInv /\ Live(pool) /\ pool \in PoolRec /\ pool \in RawPool
      /\ Good(pool, slot) /\ ~pool.initialized
  BY PoolIsRaw DEF PayInv, StakingInv, TypeOK, ProcessInitStakingPool
<1>4. /\ q.pool_size = pool.pool_size /\ q.end_time = pool.end_time /\ q.duration = duration
      /\ q.rate_per_slot = rate /\ q.cumulative_rate = pool.cumulative_rate
  BY <1>3 DEF PoolRec
<1> HIDE DEF q
<1>5. pool.end_time = 0 /\ pool.duration = 0 /\ pool.pool_size = 0
  BY <1>3 DEF Good, Idle, Live
<1>6. duration \in Nat /\ duration > 0 /\ supply \in Nat /\ sub_supply \in Nat
  BY StakingAssumption, Widths DEF ProcessInitStakingPool
<1>7. P \in [Kind -> Int] /\ \A k \in Kind : P[k] \in Nat
  BY <1>6, PairIs DEF Pair
<1> HIDE DEF P
<1>8. \A k \in Kind : rate[k] \in TryDivU64(FromU64(P[k]), duration)
  <2> DEFINE res == [k \in Kind |-> TryDivU64(FromU64(P[k]), duration)]
  <2>1. rate \in ForEachKind(res)
    BY <1>1 DEF RateOf
  <2>2. \A k \in Kind : res[k] = TryDivU64(FromU64(P[k]), duration)
    OBVIOUS
  <2> HIDE DEF res
  <2> QED BY <2>1, <2>2, EachKind
<1>9. Left(q) = duration /\ Left(pool) = 0
  BY <1>4, <1>5 DEF Left
<1> DEFINE extra == [k \in Kind |-> WAD * P[k]]
<1>10. extra \in [Kind -> Int] /\ \A k \in Kind : extra[k] = WAD * P[k]
  BY <1>7, Widths
<1> HIDE DEF extra
<1>11. Within(pool, q, extra)
  <2>1. Live(q)
    BY <1>4, <1>5, <1>6 DEF Live
  <2>2. ASSUME NEW k \in Kind
        PROVE  q.rate_per_slot[k] * Left(q) + (q.cumulative_rate[k] - pool.cumulative_rate[k]) * pool.pool_size
                 <= pool.rate_per_slot[k] * Left(pool) + extra[k]
    <3> DEFINE w == FromU64(P[k])
    <3>1. w \in Nat /\ w = extra[k]
      BY <1>7, <1>10, Widths DEF FromU64
    <3>2. rate[k] = w \div duration
      BY <1>6, <1>8 DEF TryDivU64
    <3> HIDE DEF w
    <3>3. (w \div duration) * duration \in Nat /\ (w \div duration) * duration <= w
      BY <1>6, <3>1, Divided
    <3>4. pool.rate_per_slot[k] \in Nat /\ pool.cumulative_rate[k] \in Nat
      BY <1>3, RawTypes
    <3>5. pool.rate_per_slot[k] * 0 = 0 /\ (pool.cumulative_rate[k] - pool.cumulative_rate[k]) * 0 = 0
      BY <3>4
    <3>6. (w \div duration) * duration + 0 <= 0 + w
      BY <3>1, <3>3
    <3> QED BY <1>4, <1>5, <1>9, <3>1, <3>2, <3>5, <3>6
  <2> QED BY <2>1, <2>2 DEF Within
<1>12. PoolMoved /\ Tokens
  BY <1>3, InitStep
<1>13. restarted' = restarted /\ excess' = excess
  BY DEF ProcessInitStakingPool
<1>14. \A k \in Kind : rewardPool'[k] = rewardPool[k] + P[k]
  <2>1. MoveRewards(P) /\ TypeOK /\ Conserved
    BY <1>3 DEF ProcessInitStakingPool, P, StakingInv
  <2> QED BY <1>7, <2>1, RewardsMoved
<1>15. ASSUME NEW k \in Kind
       PROVE  (WAD * rewardPool[k] + excess[k]) + extra[k] <= WAD * rewardPool'[k] + excess'[k]
  BY <1>3, <1>7, <1>10, <1>12, <1>13, <1>14, Paid
<1> QED BY <1>2, <1>10, <1>11, <1>12, <1>13, <1>15, FundedFromPool

LEMMA SupplyPays ==
    ASSUME PayInv, NEW amount \in Changes, NEW sub_amount \in SubChanges, NEW signer,
           ProcessChangeRewardSupply(amount, sub_amount, signer)
    PROVE  Live(pool') /\ Funded'
<1> DEFINE P == Pair(amount, sub_amount)
           t == pool.end_time - slot
<1>1. P \in [Kind -> Int]
  <2>1. amount \in Int /\ sub_amount \in Int
    BY StakingAssumption
  <2> QED BY <2>1, PairIs
<1>2. PICK q \in UpdateRewardSupply(pool, P, slot) : SavePool(q)
  BY DEF ProcessChangeRewardSupply
<1>3. StakingInv /\ Live(pool) /\ pool \in RawPool /\ slot \in U64 /\ Good(pool, slot)
  BY PoolIsRaw DEF PayInv, StakingInv, TypeOK
<1>4. /\ restarted' = restarted
      /\ t \in Nat /\ t > 0
      /\ \A k \in Kind : excess'[k] = ExcessAfter(excess[k], P[k], t)
  BY <1>3, ExcessMoved
<1>5. PoolMoved /\ Tokens
  BY <1>3, SupplyStep
<1>6. \A k \in Kind : rewardPool'[k] = rewardPool[k] + P[k]
  <2>1. MoveRewards(P) /\ TypeOK /\ Conserved
    BY <1>3 DEF ProcessChangeRewardSupply, StakingInv
  <2> QED BY <1>1, <2>1, RewardsMoved
<1> DEFINE extra == [k \in Kind |-> WAD * P[k] + Lost(P[k], t)]
<1>7. \A k \in Kind : extra[k] = WAD * P[k] + Lost(P[k], t)
  OBVIOUS
<1> HIDE DEF P
<1>8. ASSUME NEW k \in Kind
      PROVE  /\ P[k] \in Int /\ excess[k] \in 0..WAD /\ Lost(P[k], t) \in Nat
             /\ WAD * P[k] + Lost(P[k], t) \in Int
             /\ excess'[k] < WAD => excess'[k] = excess[k] + Lost(P[k], t)
  <2>1. P[k] \in Int /\ excess[k] \in 0..WAD
    BY <1>1, <1>3 DEF StakingInv, TypeOK
  <2> HIDE DEF t
  <2>2. /\ Lost(P[k], t) \in Nat
        /\ excess'[k] < WAD => excess'[k] = excess[k] + Lost(P[k], t)
    BY <1>4, <2>1, ExcessAfterIs
  <2>3. WAD * P[k] \in Int
    BY <2>1, Widths
  <2> QED BY <2>1, <2>2, <2>3
<1>9. extra \in [Kind -> Int]
  BY <1>8
<1>10. Within(pool, pool', extra)
  <2>1. pool' = q
    BY <1>2, PoolSaved
  <2> HIDE DEF extra
  <2>2. Within(pool, q, extra)
    BY <1>1, <1>2, <1>3, <1>7, SupplyWithin
  <2> QED BY <2>1, <2>2
<1> HIDE DEF extra
<1>11. ASSUME NEW k \in Kind, excess'[k] < WAD
       PROVE  /\ excess[k] < WAD
              /\ (WAD * rewardPool[k] + excess[k]) + extra[k] <= WAD * rewardPool'[k] + excess'[k]
  <2> DEFINE l == Lost(P[k], t)
             e == excess[k]
  <2>1. l \in Nat /\ e \in Nat /\ excess'[k] = e + l /\ P[k] \in Int
    BY <1>8, <1>11
  <2>2. extra[k] = WAD * P[k] + l
    BY <1>7
  <2>3. rewardPool[k] \in Nat /\ WAD \in Nat
    BY <1>3, <1>5, BalanceTypes
  <2>4. WAD * (rewardPool[k] + P[k]) = WAD * rewardPool[k] + WAD * P[k]
    BY <2>1, <2>3, Distribute
  <2>5. WAD * rewardPool[k] \in Int /\ WAD * P[k] \in Int
    BY <2>1, <2>3
  <2> HIDE DEF l, e
  <2>6. (WAD * rewardPool[k] + e) + (WAD * P[k] + l) = (WAD * rewardPool[k] + WAD * P[k]) + (e + l)
    BY <2>1, <2>5
  <2>7. e < WAD
    BY <1>11, <2>1, <2>3
  <2>8. (WAD * rewardPool[k] + WAD * P[k]) + (e + l) \in Int
    BY <2>1, <2>5
  <2>9. WAD * rewardPool'[k] + excess'[k] = (WAD * rewardPool[k] + WAD * P[k]) + (e + l)
    BY <1>6, <2>1, <2>4
  <2> QED BY <2>2, <2>6, <2>7, <2>8, <2>9 DEF e
<1> QED BY <1>4, <1>5, <1>9, <1>10, <1>11, FundedFromPool

LEMMA DurationPays ==
    ASSUME PayInv, NEW extend \in Extensions, NEW signer, ProcessChangeDuration(extend, signer)
    PROVE  Live(pool') /\ Funded'
<1>1. extend \in Int
  BY StakingAssumption
<1>2. PICK q \in ExtendDuration(pool, extend, slot) : SavePool(q)
  BY DEF ProcessChangeDuration
<1>3. /\ StakingInv /\ Live(pool) /\ pool \in PoolRec /\ slot \in U64 /\ Good(pool, slot)
      /\ pool.initialized
  BY DEF PayInv, StakingInv, TypeOK, ProcessChangeDuration
<1>4. Within(pool, pool', NoReward)
  <2>1. pool' = q /\ q \in PoolRec
    BY <1>2, PoolSaved
  <2>2. Within(pool, q, NoReward)
    BY <1>1, <1>2, <1>3, <2>1, DurationWithin
  <2> QED BY <2>1, <2>2
<1>5. PoolMoved /\ Tokens
  BY <1>3, DurationStep
<1>6. rewardPool' = rewardPool /\ restarted' = restarted /\ excess' = excess
  BY DEF ProcessChangeDuration
<1> QED BY <1>4, <1>5, <1>6, FundedUnpaid

LEMMA SubPays ==
    ASSUME PayInv, NEW amount \in SubSupplies, NEW signer, ProcessAddSubRewardPool(amount, signer)
    PROVE  Live(pool') /\ Funded'
<1>1. amount \in U64 /\ amount \in Int
  <2>1. amount \in U64
    BY StakingAssumption
  <2> QED BY <2>1, Widths
<1>2. PICK q \in AddSubReward(pool, amount, slot) : SavePool(q)
  BY DEF ProcessAddSubRewardPool
<1>3. StakingInv /\ Live(pool) /\ pool \in RawPool /\ slot \in U64 /\ Good(pool, slot)
  BY PoolIsRaw DEF PayInv, StakingInv, TypeOK
<1> DEFINE P == Pair(0, amount)
           extra == [k \in Kind |-> WAD * P[k]]
<1>4. /\ P \in [Kind -> Int] /\ P["reward"] = 0 /\ P["sub_reward"] = amount
  BY <1>1, PairIs
<1> HIDE DEF P
<1>5. /\ extra \in [Kind -> Int] /\ \A k \in Kind : extra[k] = WAD * P[k]
  BY <1>4, Widths
<1>6. extra["reward"] = 0 /\ extra["sub_reward"] = WAD * amount
  BY <1>4, KindIs, Widths
<1> HIDE DEF extra
<1>7. Within(pool, pool', extra)
  <2>1. pool' = q
    BY <1>2, PoolSaved
  <2>2. Within(pool, q, extra)
    BY <1>1, <1>2, <1>3, <1>6, SubWithin
  <2> QED BY <2>1, <2>2
<1>8. PoolMoved /\ Tokens
  BY <1>3, SubStep
<1>9. restarted' = restarted /\ excess' = excess
  BY DEF ProcessAddSubRewardPool
<1>10. \A k \in Kind : rewardPool'[k] = rewardPool[k] + P[k]
  <2>1. MoveRewards(P) /\ TypeOK /\ Conserved
    BY <1>3 DEF ProcessAddSubRewardPool, P, StakingInv
  <2> QED BY <1>4, <2>1, RewardsMoved
<1>11. ASSUME NEW k \in Kind
       PROVE  (WAD * rewardPool[k] + excess[k]) + extra[k] <= WAD * rewardPool'[k] + excess'[k]
  BY <1>3, <1>4, <1>5, <1>8, <1>9, <1>10, Paid
<1> QED BY <1>5, <1>7, <1>8, <1>9, <1>11, FundedFromPool

(* instructions that leave emission and tokens alone *)
LEMMA AdminPays ==
    ASSUME PayInv, PoolMoved, Tokens, UNCHANGED <<rewardPool, restarted, excess>>,
           pool'.initialized = pool.initialized, pool'.duration = pool.duration,
           pool'.end_time = pool.end_time, pool'.last_update = pool.last_update,
           pool'.rate_per_slot = pool.rate_per_slot, pool'.cumulative_rate = pool.cumulative_rate
    PROVE  Live(pool') /\ Funded'
<1>1. Live(pool') /\ Left(pool') = Left(pool)
  BY DEF PayInv, Live, Left, PoolMoved
<1>2. pool \in RawPool
  BY PoolIsRaw DEF PayInv, StakingInv, TypeOK
<1>3. ASSUME NEW k \in Kind
      PROVE  pool'.rate_per_slot[k] * Left(pool')
               + (pool'.cumulative_rate[k] - pool.cumulative_rate[k]) * pool.pool_size
               <= pool.rate_per_slot[k] * Left(pool) + NoReward[k]
  <2>1. /\ pool.rate_per_slot[k] \in Nat /\ pool.cumulative_rate[k] \in Nat /\ pool.pool_size \in Nat
        /\ Left(pool) \in Int /\ NoReward[k] = 0
    BY <1>2, RawTypes, LeftType DEF NoReward
  <2>2. pool.rate_per_slot[k] * Left(pool) \in Int
    BY <2>1
  <2>3. (pool.cumulative_rate[k] - pool.cumulative_rate[k]) * pool.pool_size = 0
    BY <2>1
  <2> QED BY <1>1, <2>1, <2>2, <2>3
<1>4. Within(pool, pool', NoReward)
  BY <1>1, <1>3 DEF Within
<1> QED BY <1>4, FundedUnpaid

LEMMA PoolPays ==
    ASSUME PayInv, NEW signer \in Keys, PoolStep(signer)
    PROVE  Live(pool') /\ Funded'
<1>0. pool \in PoolRec /\ PoolMoved /\ Tokens
  BY PoolSteps DEF PayInv, StakingInv, TypeOK
<1>1. ASSUME NEW q, pool' = q, UNCHANGED <<rewardPool, restarted, excess>>,
             \/ \E time : q = [pool EXCEPT !.earliest_reward_claim_time = time]
             \/ \E key : q = [pool EXCEPT !.owner_authority = key]
             \/ \E key : q = [pool EXCEPT !.admin_authority = key]
      PROVE  Live(pool') /\ Funded'
  <2>1. /\ q.initialized = pool.initialized /\ q.duration = pool.duration
        /\ q.end_time = pool.end_time /\ q.last_update = pool.last_update
        /\ q.rate_per_slot = pool.rate_per_slot /\ q.cumulative_rate = pool.cumulative_rate
    BY <1>0, <1>1 DEF PoolRec
  <2> QED BY <1>0, <1>1, <2>1, AdminPays
<1>2. ASSUME NEW time \in ClaimTimes, ProcessUpdateEarliestRewardClaimTime(time, signer)
      PROVE  Live(pool') /\ Funded'
  BY <1>1, <1>2, PoolSaved DEF ProcessUpdateEarliestRewardClaimTime
<1>3. ASSUME NEW key \in Keys, ProcessChangeOwner(signer, key)
      PROVE  Live(pool') /\ Funded'
  BY <1>1, <1>3, PoolSaved DEF ProcessChangeOwner
<1>4. ASSUME NEW key \in Keys, ProcessChangeAdmin(signer, key)
      PROVE  Live(pool') /\ Funded'
  BY <1>1, <1>4, PoolSaved DEF ProcessChangeAdmin
<1> QED BY <1>2, <1>3, <1>4, SupplyPays, DurationPays, SubPays DEF PoolStep
LEMMA DepositPays ==
    ASSUME PayInv, NEW a \in Accounts, NEW amount \in Amounts, NEW signer,
           ProcessDeposit(a, amount, signer)
    PROVE  Live(pool') /\ Funded'
<1>1. amount \in U64 /\ amount \in Int
  <2>1. amount \in U64
    BY StakingAssumption
  <2> QED BY <2>1, Widths
<1>2. PICK q \in PoolDeposit(pool, slot, amount) : SavePool(q)
  BY DEF ProcessDeposit
<1>3. /\ StakingInv /\ Live(pool) /\ pool \in PoolRec /\ slot \in U64 /\ Good(pool, slot)
      /\ pool.initialized
  BY DEF PayInv, StakingInv, TypeOK, ProcessDeposit
<1>4. pool' = q
  BY <1>2, PoolSaved
<1>5. Live(q) /\ (~(pool.pool_size = 0 /\ pool.end_time # 0) => Within(pool, q, NoReward))
  BY <1>1, <1>2, <1>3, DepositWithin
<1>6. excess' = excess /\ rewardPool' = rewardPool
      /\ (~restarted' => ~restarted /\ ~(pool.pool_size = 0 /\ pool.end_time # 0))
  BY DEF ProcessDeposit
<1>7. AccountMoved(a, amount) /\ Tokens
      /\ \A k \in Kind : account'[a].unclaimed_reward_wads[k] = Due(account[a], Earned(pool, slot), k)
  BY <1>3, DepositStep
<1>8. \A k \in Kind : account'[a].unclaimed_reward_wads[k] + WAD * (rewardPool[k] - rewardPool'[k])
                             = Due(account[a], Earned(pool, slot), k)
  BY <1>3, <1>6, <1>7, Credited DEF AccountMoved
<1>9. Funded'
  BY <1>1, <1>4, <1>5, <1>6, <1>7, <1>8, FundedFromAccount
<1> QED BY <1>4, <1>5, <1>9

LEMMA WithdrawPays ==
    ASSUME PayInv, NEW a \in Accounts, NEW amount \in Amounts, NEW signer,
           ProcessWithdraw(a, amount, signer)
    PROVE  Live(pool') /\ Funded'
<1>1. amount \in U64 /\ -amount \in Int
  <2>1. amount \in U64
    BY StakingAssumption
  <2> QED BY <2>1, Widths
<1>2. PICK q \in PoolWithdraw(pool, slot, amount) : SavePool(q)
  BY DEF ProcessWithdraw
<1>3. StakingInv /\ Live(pool) /\ pool \in PoolRec /\ slot \in U64 /\ Good(pool, slot)
  BY DEF PayInv, StakingInv, TypeOK
<1>4. pool' = q
  BY <1>2, PoolSaved
<1>5. Within(pool, q, NoReward)
  BY <1>1, <1>2, <1>3, WithdrawWithin
<1>6. excess' = excess /\ rewardPool' = rewardPool /\ restarted' = restarted
  BY DEF ProcessWithdraw
<1>7. AccountMoved(a, -amount) /\ Tokens
      /\ \A k \in Kind : account'[a].unclaimed_reward_wads[k] = Due(account[a], Earned(pool, slot), k)
  BY <1>3, WithdrawStep
<1>8. \A k \in Kind : account'[a].unclaimed_reward_wads[k] + WAD * (rewardPool[k] - rewardPool'[k])
                             = Due(account[a], Earned(pool, slot), k)
  BY <1>3, <1>6, <1>7, Credited DEF AccountMoved
<1>9. Funded'
  BY <1>1, <1>4, <1>5, <1>6, <1>7, <1>8, FundedFromAccount
<1> QED BY <1>4, <1>5, <1>9 DEF Within

LEMMA ClaimPays ==
    ASSUME PayInv, NEW a \in Accounts, ProcessClaimReward(a)
    PROVE  Live(pool') /\ Funded'
<1>1. PICK q \in ClaimRewardHelper(pool, slot) : SavePool(q)
  BY DEF ProcessClaimReward
<1>2. StakingInv /\ Live(pool) /\ pool \in RawPool /\ slot \in U64
  BY PoolIsRaw DEF PayInv, StakingInv, TypeOK
<1>3. pool' = q
  BY <1>1, PoolSaved
<1>4. Within(pool, q, NoReward)
  BY <1>1, <1>2, ClaimWithin
<1>5. excess' = excess /\ restarted' = restarted
  BY DEF ProcessClaimReward
<1>6. AccountMoved(a, 0) /\ Tokens
  BY <1>2, ClaimStep
<1>7. ASSUME NEW k \in Kind
      PROVE  account'[a].unclaimed_reward_wads[k] + WAD * (rewardPool[k] - rewardPool'[k])
               = Due(account[a], Earned(pool, slot), k)
  <2> DEFINE due == Due(account[a], Earned(pool, slot), k)
  <2>1. /\ due \in Nat /\ account'[a].unclaimed_reward_wads[k] = due % WAD
        /\ rewardPool[k] - rewardPool'[k] = due \div WAD
    BY <1>2, ClaimStep
  <2> HIDE DEF due
  <2>2. (due % WAD) + WAD * (due \div WAD) = due
    BY <2>1, Widths
  <2> QED BY <2>1, <2>2 DEF due
<1>8. Funded'
  BY <1>3, <1>4, <1>5, <1>6, <1>7, FundedFromAccount
<1> QED BY <1>3, <1>4, <1>8 DEF Within

LEMMA CreatePays ==
    ASSUME PayInv, NEW a \in Accounts, ProcessCreateStakeAccount(a)
    PROVE  Live(pool') /\ Funded'
<1>1. StakingInv
  BY DEF PayInv
<1>2. UNCHANGED <<pool, rewardPool, restarted, excess>>
  BY DEF ProcessCreateStakeAccount
<1>3. \A b \in Accounts :
                /\ account'[b].start_rate = account[b].start_rate
                /\ account'[b].deposited_amount = account[b].deposited_amount
                /\ account'[b].unclaimed_reward_wads = account[b].unclaimed_reward_wads
  BY <1>1, CreateStep
<1>4. \A k \in Kind : [b \in Accounts |-> Due(account'[b], pool'.cumulative_rate, k)]
                        = [b \in Accounts |-> Due(account[b], pool.cumulative_rate, k)]
  BY <1>2, <1>3 DEF Due
<1> QED BY <1>2, <1>4 DEF PayInv, Funded, Debts

LEMMA InitPayInv == Init => Live(pool) /\ Funded
<1> SUFFICES ASSUME Init PROVE Live(pool) /\ Funded
  OBVIOUS
<1>1. /\ ~pool.initialized /\ pool.pool_size = 0 /\ pool.duration = 0 /\ pool.end_time = 0
      /\ pool.rate_per_slot = NoReward /\ pool.cumulative_rate = NoReward
      /\ rewardPool = NoReward /\ excess = NoReward
  BY DEF Init, UninitializedPool
<1>2. \A a \in Accounts : /\ account[a].start_rate = NoReward /\ account[a].deposited_amount = 0
                          /\ account[a].unclaimed_reward_wads = NoReward
  BY DEF Init, UninitializedAccount
<1>3. Live(pool) /\ Left(pool) = 0
  BY <1>1 DEF Live, Left
<1>4. ASSUME NEW k \in Kind
      PROVE  SumFunction(Debts(k)) + pool.rate_per_slot[k] * Left(pool) <= WAD * rewardPool[k] + excess[k]
  <2>1. NoReward[k] = 0
    BY DEF NoReward
  <2>2. Debts(k) \in [Accounts -> {0}]
    BY <1>1, <1>2, <2>1 DEF Debts, Due
  <2>3. SumFunction(Debts(k)) = 0
    BY <2>2, StakingAssumption, SumOfZeros
  <2>4. 0 + 0 * 0 <= WAD * 0 + 0
    BY Widths
  <2> QED BY <1>1, <1>3, <2>1, <2>3, <2>4
<1> QED BY <1>3, <1>4 DEF Funded

LEMMA StepPays == PayInv /\ [Next]_vars => Live(pool') /\ Funded'
<1> SUFFICES ASSUME PayInv, [Next]_vars PROVE Live(pool') /\ Funded'
  OBVIOUS
<1>1. ASSUME UNCHANGED <<pool, account, rewardPool, restarted, excess>>
      PROVE  Live(pool') /\ Funded'
  BY <1>1 DEF PayInv, Funded, Debts
<1>2. CASE Tick
  BY <1>1, <1>2 DEF Tick
<1>3. ASSUME NEW supply \in Supplies, NEW sub_supply \in SubSupplies, NEW duration \in Durations,
             NEW time \in ClaimTimes, NEW owner \in Keys, NEW admin \in Keys,
             ProcessInitStakingPool(supply, sub_supply, duration, time, owner, admin)
      PROVE  Live(pool') /\ Funded'
  BY <1>3, InitPays
<1>4. ASSUME NEW a \in Accounts, AccountStep(a)
      PROVE  Live(pool') /\ Funded'
  BY <1>4, CreatePays, ClaimPays, DepositPays, WithdrawPays DEF AccountStep
<1>5. ASSUME NEW signer \in Keys, PoolStep(signer)
      PROVE  Live(pool') /\ Funded'
  BY <1>5, PoolPays
<1>6. CASE UNCHANGED vars
  BY <1>1, <1>6 DEF vars
<1> QED BY <1>2, <1>3, <1>4, <1>5, <1>6 DEF Next

(***************************************************************************)
(* What the stakers have earned by now was covered when emission was last  *)
(* brought up to date, and emission since then was set aside.              *)
(***************************************************************************)
LEMMA EarnedCovered ==
    ASSUME PayInv, ~restarted, NEW k \in Kind, excess[k] < WAD
    PROVE  /\ [a \in Accounts |-> Owed(a, k)] \in [Accounts -> Nat]
           /\ SumFunction([a \in Accounts |-> Owed(a, k)]) \in Int
           /\ SumFunction([a \in Accounts |-> Owed(a, k)]) <= WAD * rewardPool[k] + excess[k]
<1> DEFINE cum == Earned(pool, slot)
           owed == [a \in Accounts |-> Owed(a, k)]
           old == SumFunction(Debts(k))
           had == pool.rate_per_slot[k] * Left(pool)
           grown == (cum[k] - pool.cumulative_rate[k]) * pool.pool_size
           res == WAD * rewardPool[k] + excess[k]
<1>1. /\ StakingInv /\ PoolSizeIsSum /\ Live(pool) /\ pool \in RawPool /\ slot \in U64
      /\ Good(pool, slot)
  BY PoolIsRaw DEF PayInv, StakingInv, TypeOK
<1>2. owed = [a \in Accounts |-> Due(account[a], cum, k)]
  BY OwedIs
<1>3. /\ pool.rate_per_slot[k] \in Nat /\ pool.cumulative_rate[k] \in Nat /\ pool.pool_size \in Nat
      /\ pool.cumulative_rate \in RawRates
  BY <1>1, RawTypes
<1>4. Left(pool) \in Nat
  <2>1. pool.duration \in Nat
    BY Widths DEF PayInv, StakingInv, TypeOK, PoolRec
  <2>2. pool.end_time \in Int /\ pool.last_update \in Nat /\ pool.last_update <= pool.end_time
    BY <1>1, RawTypes DEF Good, Sched
  <2> QED BY <2>1, <2>2 DEF Left
<1>5. had \in Nat
  BY <1>3, <1>4
<1>6. cum \in RawRates /\ grown \in Int /\ grown <= had
  <2>1. CASE ClaimRewardHelper(pool, slot) = {}
    <3>1. cum = pool.cumulative_rate
      BY <2>1 DEF Earned, CurrentOf
    <3>2. (pool.cumulative_rate[k] - pool.cumulative_rate[k]) * pool.pool_size = 0
      BY <1>3
    <3> HIDE DEF cum, had
    <3> QED BY <1>3, <1>5, <3>1, <3>2
  <2>2. ASSUME NEW q \in ClaimRewardHelper(pool, slot)
        PROVE  cum \in RawRates /\ grown \in Int /\ grown <= had
    <3>1. cum = q.cumulative_rate
      BY <1>1, EarnedClaimed
    <3>2. /\ q \in RawPool /\ q.last_update = Least(slot, pool.end_time)
          /\ q.end_time = pool.end_time
      BY <1>1, ClaimedFields
    <3>3. Within(pool, q, NoReward) /\ pool.end_time # 0
      BY <1>1, ClaimWithin
    <3>4. q.rate_per_slot[k] \in Nat /\ q.cumulative_rate[k] \in Nat /\ q.cumulative_rate \in RawRates
      BY <3>2, RawTypes
    <3>5. Left(q) \in Nat
      <4>1. pool.end_time \in Int /\ slot \in Int
        BY <1>1, RawTypes, Widths
      <4> QED BY <3>2, <3>3, <4>1 DEF Left, Least
    <3> DEFINE rest == q.rate_per_slot[k] * Left(q)
    <3>6. rest \in Nat
      BY <3>4, <3>5
    <3>7. grown \in Int
      <4> HIDE DEF cum
      <4> QED BY <1>3, <3>1, <3>4
    <3>8. rest + grown <= had + 0
      <4>1. NoReward[k] = 0
        BY DEF NoReward
      <4> QED BY <3>1, <3>3, <4>1 DEF Within
    <3> HIDE DEF cum, had, grown, rest
    <3> QED BY <1>5, <3>1, <3>4, <3>6, <3>7, <3>8
  <2> QED BY <2>1, <2>2
<1>7. old \in Int /\ SumFunction(owed) = old + grown
  <2> HIDE DEF cum
  <2> QED BY <1>1, <1>2, <1>6, DebtsAt
<1>8. owed \in [Accounts -> Nat]
  <2> SUFFICES ASSUME NEW a \in Accounts PROVE Due(account[a], cum, k) \in Nat
    BY <1>2
  <2>1. account[a] \in AccountRec
    BY <1>1 DEF StakingInv, TypeOK
  <2> DEFINE u == account[a].unclaimed_reward_wads[k]
             s == account[a].start_rate[k]
             d == account[a].deposited_amount
             c == cum[k]
  <2>2. u \in Nat /\ s \in Nat /\ d \in Nat
    BY <2>1, AccountTypes
  <2>3. c \in Nat /\ c >= s
    <3>1. s <= pool.cumulative_rate[k]
      BY <1>1 DEF StakingInv, StartRateReached
    <3>2. c >= pool.cumulative_rate[k]
      BY <1>1, EarnedReached
    <3>3. c \in Nat
      BY <1>6, Widths DEF RawRates
    <3> HIDE DEF c, s
    <3> QED BY <1>3, <2>2, <3>1, <3>2, <3>3
  <2>4. Due(account[a], cum, k) = u + (c - s) * d
    BY DEF Due
  <2> HIDE DEF u, s, d, c, cum
  <2>5. (c - s) * d \in Nat
    BY <2>2, <2>3
  <2> QED BY <2>2, <2>4, <2>5
<1>9. old + had <= res
  BY DEF PayInv, Funded
<1>10. res \in Int
  <2>1. rewardPool[k] \in Nat /\ excess[k] \in Nat /\ WAD \in Nat
    BY <1>1, Balances
  <2> QED BY <2>1
<1> HIDE DEF cum, owed, old, had, grown, res
<1>11. SumFunction(owed) \in Int /\ SumFunction(owed) <= res
  BY <1>5, <1>6, <1>7, <1>9, <1>10
<1> QED BY <1>8, <1>11 DEF owed, res

LEMMA FundedPays == PayInv => PayableUnlessRestarted
<1> SUFFICES ASSUME PayInv, ~restarted, NEW k \in Kind, excess[k] < WAD PROVE Payable(k)
  BY DEF PayableUnlessRestarted
<1> DEFINE owed == [a \in Accounts |-> Owed(a, k)]
           paid == [a \in Accounts |-> owed[a] \div WAD]
           e == excess[k]
           n == rewardPool[k]
<1>1. /\ owed \in [Accounts -> Nat] /\ SumFunction(owed) \in Int
      /\ SumFunction(owed) <= WAD * n + e
  BY EarnedCovered
<1>2. n \in Nat /\ e \in Nat /\ e < WAD
  BY Balances DEF PayInv
<1>3. paid = [a \in Accounts |-> Owed(a, k) \div WAD]
  OBVIOUS
<1> HIDE DEF owed, e, n
<1>4. SumFunction(paid) \in Nat /\ WAD * SumFunction(paid) <= SumFunction(owed)
  BY <1>1, StakingAssumption, Widths, SumRounded
<1> HIDE DEF paid
<1>5. SumFunction(paid) <= n
  <2> DEFINE s == SumFunction(paid)
             w == SumFunction(owed)
  <2>1. s \in Nat /\ w \in Int /\ WAD * s <= w /\ w <= WAD * n + e /\ WAD \in Nat /\ WAD > 0
    BY <1>1, <1>4, Widths
  <2> HIDE DEF s, w
  <2>2. SUFFICES ASSUME s > n PROVE FALSE
    <3>1. s <= n
      BY <1>2, <2>1, <2>2
    <3> QED BY <3>1 DEF s
  <2>3. PICK m \in Nat : s = n + 1 + m
    <3>1. s - n - 1 \in Nat /\ s = n + 1 + (s - n - 1)
      BY <1>2, <2>1, <2>2
    <3> QED BY <3>1
  <2>4. WAD * s = WAD * n + WAD * (1 + m)
    <3>1. s = n + (1 + m) /\ 1 + m \in Int
      BY <1>2, <2>3
    <3>2. WAD * (n + (1 + m)) = WAD * n + WAD * (1 + m)
      BY <1>2, <2>1, <3>1, Distribute
    <3> QED BY <3>1, <3>2
  <2>5. WAD * (1 + m) = WAD * 1 + WAD * m
    BY <2>1, <2>3, Distribute
  <2>6. WAD * m \in Nat /\ WAD * n \in Nat /\ WAD * 1 = WAD
    BY <1>2, <2>1, <2>3
  <2>7. WAD * n + (WAD + WAD * m) <= WAD * n + e
    BY <1>2, <2>1, <2>4, <2>5, <2>6
  <2> QED BY <1>2, <2>1, <2>6, <2>7
<1> QED BY <1>3, <1>5 DEF Payable, n

(* As long as the pool was never emptied and refilled and reductions of    *)
(* the supply have not rounded away a whole token, the reward tokens cover *)
(* what all stakers have earned, however many they are and whatever the    *)
(* admin did to supply, duration and second token: no claim fails for lack *)
(* of tokens.                                                              *)
THEOREM EarningsAreCovered == Spec => []PayableUnlessRestarted
<1>1. Init => Live(pool) /\ Funded
  BY InitPayInv
<1>2. StakingInv /\ PoolSizeIsSum /\ Live(pool) /\ Funded /\ [Next]_vars => (Live(pool) /\ Funded)'
  BY StepPays DEF PayInv, Live
<1>3. StakingInv /\ PoolSizeIsSum /\ Live(pool) /\ Funded => PayableUnlessRestarted
  BY FundedPays DEF PayInv
<1> QED BY <1>1, <1>2, <1>3, StakingInvariant, PoolSizeIsTheSum, PTL DEF Spec
==============================================================================

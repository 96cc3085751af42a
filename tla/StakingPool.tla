----------------------------- MODULE StakingPool ------------------------------
(***************************************************************************)
(* staking/program/src/state: the methods of StakingPool and StakeAccount, *)
(* as operators from the records to the set of their results.  The staking *)
(* program has the fixed-point arithmetic of the lending program.          *)
(*                                                                         *)
(* A pool pays one or two tokens.  What the code keeps as a pair of a      *)
(* Decimal and an Option<Decimal> is a function of the kind of token; the  *)
(* None of an absent second token is 0, which is how every method treats   *)
(* it, and has_sub tells whether there is one (sub_reward_token_pool).     *)
(***************************************************************************)
EXTENDS WadMath

CONSTANTS
    Accounts,   \* stake accounts of the pool, each with its owner
    Keys        \* public keys that may sign as owner or admin of the pool

Kind == {"reward", "sub_reward"}
I64_MAX == U64_MAX \div 2
Abs(i) == IF i < 0 THEN -i ELSE i

PoolRec == [
    initialized : BOOLEAN, last_update : U64, end_time : U64, duration : U64,
    earliest_reward_claim_time : U64, rate_per_slot : [Kind -> Rate],
    cumulative_rate : [Kind -> Rate], pool_size : U64, has_sub : BOOLEAN,
    owner_authority : Keys, admin_authority : Keys ]

AccountRec == [
    initialized : BOOLEAN, start_rate : [Kind -> Rate],
    deposited_amount : U64, unclaimed_reward_wads : [Kind -> Rate] ]

PackPool(pool) == {pool} \cap PoolRec
PackAccount(acc) == {acc} \cap AccountRec

NoReward == [k \in Kind |-> 0]

(* A computation for both tokens succeeds when it does for each. *)
ForEachKind(result) ==
    IF \E k \in Kind : result[k] = {} THEN {}
    ELSE {[k \in Kind |-> CHOOSE x \in result[k] : TRUE]}

(***************************************************************************)
(* RatePerSlot::init, ::clear and CumulativeRate::accumulate_rate.         *)
(***************************************************************************)
RateOf(supply, duration) ==
    ForEachKind([k \in Kind |-> TryDivU64(FromU64(supply[k]), duration)])

(***************************************************************************)
(* TryMul<u64> and TryDiv<u64> for RatePerSlot.  The second token's rate   *)
(* is multiplied and divided by Decimal::from(n): the result is the same,  *)
(* but a product scaled once more by WAD must fit a Decimal.               *)
(***************************************************************************)
RateTimes(k, rate, n) ==
    IF k = "reward" THEN TryMulU64(rate, n) ELSE TryMul(rate, FromU64(n))

RateOver(k, rate, n) ==
    IF k = "reward" THEN TryDivU64(rate, n) ELSE TryDiv(rate, FromU64(n))

AccumulateRate(cumulative, rate, time_elapsed, pool_size) ==
    ForEachKind([k \in Kind |->
       UNION {UNION {TryAdd(cumulative[k], per_token) : per_token \in RateOver(k, total, pool_size)} :
              total \in RateTimes(k, rate[k], time_elapsed)}])

(***************************************************************************)
(* claim_reward_helper: emission stops at end_time, and is an error when   *)
(* nothing is staked.                                                      *)
(***************************************************************************)
(* Faulty variant, to show what PayableUnlessRestarted detects: emission has no end.  *)
ClaimWithoutEnd(pool, now) ==
    {[pool EXCEPT !.last_update = now, !.cumulative_rate = cumulative] :
     cumulative \in UNION {AccumulateRate(pool.cumulative_rate, pool.rate_per_slot,
                                          elapsed, pool.pool_size) :
                           elapsed \in CheckedSub(now, pool.last_update)}}

(* Faulty variant, to show what ScheduleSound detects: the time of the call is recorded.  *)
ClaimStampedNow(pool, now) ==
    {[pool EXCEPT !.last_update = now, !.cumulative_rate = cumulative] :
     cumulative \in UNION {AccumulateRate(pool.cumulative_rate, pool.rate_per_slot,
                                          elapsed, pool.pool_size) :
                           elapsed \in CheckedSub(Least(now, pool.end_time), pool.last_update)}}

(* Faulty variant, to show what EarningsPaid detects: the end of emission closes the pool.  *)
ClaimRefusedAfterEnd(pool, now) ==
    {[pool EXCEPT !.last_update = now, !.cumulative_rate = cumulative] :
     cumulative \in UNION {AccumulateRate(pool.cumulative_rate, pool.rate_per_slot,
                                          elapsed, pool.pool_size) :
                           elapsed \in IF now <= pool.end_time
                                       THEN CheckedSub(now, pool.last_update) ELSE {}}}

ClaimRewardHelper(pool, now) ==
    LET mark_time == Least(now, pool.end_time) IN
    {[pool EXCEPT !.last_update = mark_time, !.cumulative_rate = cumulative] :
     cumulative \in UNION {AccumulateRate(pool.cumulative_rate, pool.rate_per_slot,
                                          elapsed, pool.pool_size) :
                           elapsed \in CheckedSub(mark_time, pool.last_update)}}

(***************************************************************************)
(* StakingPool::deposit and ::withdraw.  The first deposit into an empty   *)
(* pool starts an emission period of the full duration at the pool's rate. *)
(***************************************************************************)
StartEmission(pool, now) ==
    {[pool EXCEPT !.end_time = end, !.last_update = now] : end \in CheckedAdd(now, pool.duration)}

(* Faulty variant, to show what EarningsKept detects: no accrual before the stake grows.  *)
DepositWithoutAccrual(pool, now, amount) ==
    UNION {{[p EXCEPT !.pool_size = size] : size \in CheckedAdd(p.pool_size, amount)} :
           p \in IF amount = 0 THEN {}
                 ELSE IF pool.pool_size = 0 THEN StartEmission(pool, now) ELSE {pool}}

PoolDeposit(pool, now, amount) ==
    UNION {{[p EXCEPT !.pool_size = size] : size \in CheckedAdd(p.pool_size, amount)} :
           p \in IF amount = 0 THEN {}
                 ELSE IF pool.pool_size = 0 THEN StartEmission(pool, now)
                 ELSE ClaimRewardHelper(pool, now)}

(* Faulty variant, to show what PoolSizeIsSum detects: the pool keeps its size.  *)
WithdrawKeepingSize(pool, now, amount) ==
    IF amount = 0 THEN {} ELSE ClaimRewardHelper(pool, now)

(* Faulty variant, to show what DepositsReleasable detects: the pool must not become empty.  *)
WithdrawExceptLast(pool, now, amount) ==
    UNION {{[p EXCEPT !.pool_size = size] : size \in CheckedSub(p.pool_size, amount) \ {0}} :
           p \in IF amount = 0 THEN {} ELSE ClaimRewardHelper(pool, now)}

PoolWithdraw(pool, now, amount) ==
    UNION {{[p EXCEPT !.pool_size = size] : size \in CheckedSub(p.pool_size, amount)} :
           p \in IF amount = 0 THEN {} ELSE ClaimRewardHelper(pool, now)}

(***************************************************************************)
(* update_reward_supply: spread the change over the time that is left.     *)
(***************************************************************************)
(* Faulty variant, to show what PayableUnlessRestarted detects: a reduction keeps the rate.  *)
RateNeverReduced(rate, change, time_to_end) ==
    ForEachKind([k \in Kind |->
       UNION {IF change[k] > 0 THEN TryAdd(rate[k], delta) ELSE {rate[k]} :
              delta \in TryDivU64(FromU64(Abs(change[k])), time_to_end)}])

ChangedRate(rate, change, time_to_end) ==
    ForEachKind([k \in Kind |->
       UNION {IF change[k] > 0 THEN TryAdd(rate[k], delta) ELSE TrySub(rate[k], delta) :
              delta \in TryDivU64(FromU64(Abs(change[k])), time_to_end)}])

(* Faulty variant, to show what EarningsKept detects: no accrual before the rate changes.  *)
UpdateWithoutAccrual(pool, change, now) ==
    UNION {{[pool EXCEPT !.rate_per_slot = rate] :
            rate \in ChangedRate(pool.rate_per_slot, change, time_to_end)} :
           time_to_end \in CheckedSub(pool.end_time, now)}

UpdateRewardSupply(pool, change, now) ==
    UNION {UNION {{[p EXCEPT !.rate_per_slot = rate] :
                   rate \in ChangedRate(p.rate_per_slot, change, time_to_end)} :
                  p \in ClaimRewardHelper(pool, now)} :
           time_to_end \in CheckedSub(pool.end_time, now)}

(* Faulty variant, to show what StartRateReached detects: both cumulative rates are reset.  *)
AddSubResettingBoth(pool, amount, now) ==
    UNION {UNION {{[p EXCEPT !.has_sub = TRUE, !.cumulative_rate = NoReward,
                             !.rate_per_slot["sub_reward"] = rate] :
                   rate \in TryDivU64(FromU64(amount), time_to_end)} :
                  p \in ClaimRewardHelper(pool, now)} :
           time_to_end \in IF pool.has_sub THEN {} ELSE CheckedSub(pool.end_time, now)}

AddSubReward(pool, amount, now) ==
    UNION {UNION {{[p EXCEPT !.has_sub = TRUE, !.cumulative_rate["sub_reward"] = 0,
                             !.rate_per_slot["sub_reward"] = rate] :
                   rate \in TryDivU64(FromU64(amount), time_to_end)} :
                  p \in ClaimRewardHelper(pool, now)} :
           time_to_end \in IF pool.has_sub THEN {} ELSE CheckedSub(pool.end_time, now)}

(***************************************************************************)
(* extend_duration: before the first deposit the supply is spread over the *)
(* new duration; while emission runs what is left of it is, in whole       *)
(* tokens; once it has ended the new time pays nothing.                    *)
(***************************************************************************)
ExtendBeforeStart(pool, extend) ==
    UNION {{[pool EXCEPT !.duration = d, !.rate_per_slot = rate] :
            rate \in ForEachKind([k \in Kind |->
                        UNION {RateOver(k, supply, d) :
                               supply \in RateTimes(k, pool.rate_per_slot[k], pool.duration)}])} :
           d \in IF extend < 0 THEN {} ELSE CheckedAdd(pool.duration, extend)}

Extended(pool, extend) ==
    [pool EXCEPT !.end_time = @ + extend, !.duration = @ + extend, !.rate_per_slot = NoReward]

ExtendRunning(pool, extend, now) ==
    LET time_to_end == pool.end_time - now IN
    UNION {UpdateRewardSupply(Extended(pool, extend), left, now) :
           left \in IF extend < 0 /\ Abs(extend) >= time_to_end THEN {}
                    ELSE ForEachKind([k \in Kind |->
                           UNION {TryFloorU64(wads) \cap 0..I64_MAX :
                                  wads \in RateTimes(k, pool.rate_per_slot[k], time_to_end)}])}

ExtendDuration(pool, extend, now) ==
    IF pool.end_time = 0 THEN ExtendBeforeStart(pool, extend)
    ELSE UNION {IF p.end_time >= now THEN ExtendRunning(p, extend, now)
                ELSE IF extend > 0 THEN {Extended(p, extend)} ELSE {} :
                p \in ClaimRewardHelper(pool, now)}

(***************************************************************************)
(* StakeAccount: every operation first credits what the deposit earned     *)
(* since the last one.                                                     *)
(***************************************************************************)
CalculateReward(acc, cumulative) ==
    ForEachKind([k \in Kind |->
       UNION {TryMulU64(diff, acc.deposited_amount) :
              diff \in TrySub(cumulative[k], acc.start_rate[k])}])

AccrueReward(acc, cumulative) ==
    UNION {{[acc EXCEPT !.unclaimed_reward_wads = unclaimed, !.start_rate = cumulative] :
            unclaimed \in ForEachKind([k \in Kind |-> TryAdd(acc.unclaimed_reward_wads[k], earned[k])])} :
           earned \in CalculateReward(acc, cumulative)}

AccountDeposit(acc, cumulative, amount) ==
    UNION {{[a EXCEPT !.deposited_amount = total] : total \in CheckedAdd(a.deposited_amount, amount)} :
           a \in AccrueReward(acc, cumulative)}

AccountWithdraw(acc, cumulative, amount) ==
    UNION {{[a EXCEPT !.deposited_amount = left] : left \in CheckedSub(a.deposited_amount, amount)} :
           a \in AccrueReward(acc, cumulative)}

(* the account and the whole tokens to pay; the fraction stays unclaimed *)
AccountClaim(acc, cumulative) ==
    UNION {{[account |-> [a EXCEPT !.unclaimed_reward_wads =
                             [k \in Kind |-> @[k] - FromU64(paid[k])]],
             paid |-> paid] :
            paid \in ForEachKind([k \in Kind |-> TryFloorU64(a.unclaimed_reward_wads[k])])} :
           a \in AccrueReward(acc, cumulative)}
==============================================================================

------------------------------- MODULE Staking --------------------------------
(***************************************************************************)
(* The staking program (staking/program/src/processor.rs) on one pool.  An *)
(* action is an instruction that succeeds; one that fails changes nothing. *)
(* The accounts an instruction is given belong together (the handlers      *)
(* refuse others); who signs is a parameter where the pool's owner or      *)
(* admin must.                                                             *)
(***************************************************************************)
EXTENDS StakingPool, Functions, FiniteSets

CONSTANTS
    Amounts,      \* amounts deposited and withdrawn
    Supplies,     \* amounts of reward tokens a pool starts with
    SubSupplies,  \* amounts of the second token supplied, 0 for None
    Changes,      \* signed changes of the reward supply
    SubChanges,   \* signed changes of the supply of the second token, 0 for None
    Extensions,   \* signed changes of the duration
    Durations,    \* durations a pool is initialised with
    ClaimTimes,   \* values of earliest_reward_claim_time
    Funds,        \* tokens of each kind in existence
    MaxStake,     \* bound: tokens staked in the pool
    MaxDuration,  \* bound: longest duration an extension leads to
    MaxSlot       \* bound: last slot explored

ASSUME StakingAssumption ==
    /\ Amounts \subseteq U64
    /\ Supplies \subseteq U64
    /\ SubSupplies \subseteq U64
    /\ Changes \subseteq -I64_MAX..I64_MAX
    /\ SubChanges \subseteq -I64_MAX..I64_MAX
    /\ Extensions \subseteq -I64_MAX..I64_MAX
    /\ Durations \subseteq U64 \ {0}
    /\ ClaimTimes \subseteq U64
    /\ Funds \in U64
    /\ MaxStake \in U64
    /\ MaxDuration \in U64
    /\ MaxSlot \in U64
    /\ Keys # {}
    /\ IsFiniteSet(Accounts)

VARIABLES
    slot,        \* Clock::slot
    pool,        \* the StakingPool account
    account,     \* the StakeAccounts
    rewardPool,  \* balances of reward_token_pool and sub_reward_token_pool
    funds,       \* tokens of either kind held by anyone else
    restarted,   \* history: emission was started anew in an emptied pool
    excess       \* history: wads by which reductions left the rates too high, up to a token

vars == <<slot, pool, account, rewardPool, funds, restarted, excess>>

TypeOK ==
    /\ slot \in U64
    /\ pool \in PoolRec
    /\ account \in [Accounts -> AccountRec]
    /\ rewardPool \in [Kind -> U64]
    /\ funds \in [Kind -> U64]
    /\ restarted \in BOOLEAN
    /\ excess \in [Kind -> 0..WAD]

UninitializedPool == [
    initialized |-> FALSE, last_update |-> 0, end_time |-> 0, duration |-> 0,
    earliest_reward_claim_time |-> 0, rate_per_slot |-> NoReward,
    cumulative_rate |-> NoReward, pool_size |-> 0, has_sub |-> FALSE,
    owner_authority |-> CHOOSE k \in Keys : TRUE, admin_authority |-> CHOOSE k \in Keys : TRUE ]

UninitializedAccount == [
    initialized |-> FALSE, start_rate |-> NoReward,
    deposited_amount |-> 0, unclaimed_reward_wads |-> NoReward ]

Init ==
    /\ slot = 0
    /\ pool = UninitializedPool
    /\ account = [a \in Accounts |-> UninitializedAccount]
    /\ rewardPool = NoReward
    /\ funds = [k \in Kind |-> Funds]
    /\ restarted = FALSE
    /\ excess = NoReward

(* Faulty variant, to show what TypeOK detects: the funds are not checked.  *)
MoveUnchecked(amounts) ==
    /\ rewardPool' = [k \in Kind |-> rewardPool[k] + amounts[k]]
    /\ funds' = [k \in Kind |-> funds[k] - amounts[k]]

(* SPL token transfers (external), of both kinds, into the reward pools; *)
(* a negative amount is paid out of them                                 *)
MoveRewards(amounts) ==
    /\ \A k \in Kind : amounts[k] <= funds[k] /\ -amounts[k] <= rewardPool[k]
    /\ rewardPool' = [k \in Kind |-> rewardPool[k] + amounts[k]]
    /\ funds' = [k \in Kind |-> funds[k] - amounts[k]]

SavePool(p) == \E packed \in PackPool(p) : pool' = packed
SaveAccount(a, acc) ==
    \E packed \in PackAccount(acc) : account' = [account EXCEPT ![a] = packed]

(* the clock sysvar (external) *)
Tick ==
    /\ slot < MaxSlot
    /\ slot' = slot + 1
    /\ UNCHANGED <<pool, account, rewardPool, funds, restarted, excess>>

Pair(reward, sub_reward) ==
    [k \in Kind |-> IF k = "reward" THEN reward ELSE sub_reward]

(* process_init_staking_pool; sub_supply 0 stands for None *)
ProcessInitStakingPool(supply, sub_supply, duration, time, owner, admin) ==
    /\ ~pool.initialized
    /\ supply # 0
    /\ duration # 0
    /\ \E rate \in RateOf(Pair(supply, sub_supply), duration) :
         SavePool([pool EXCEPT !.initialized = TRUE, !.duration = duration,
                               !.rate_per_slot = rate, !.earliest_reward_claim_time = time,
                               !.has_sub = sub_supply # 0,
                               !.owner_authority = owner, !.admin_authority = admin])
    /\ MoveRewards(Pair(supply, sub_supply))
    /\ UNCHANGED <<slot, account, restarted, excess>>

ProcessCreateStakeAccount(a) ==
    /\ ~account[a].initialized
    /\ SaveAccount(a, [account[a] EXCEPT !.initialized = TRUE])
    /\ UNCHANGED <<slot, pool, rewardPool, funds, restarted, excess>>

(* Faulty variant, to show what StakesFollowCollateral detects: the authority is not compared.  *)
AnyoneMaySign(signer) == signer \in Keys

MaySign(signer) == signer \in {pool.owner_authority, pool.admin_authority}

ProcessDeposit(a, amount, signer) ==
    /\ pool.initialized /\ account[a].initialized
    /\ MaySign(signer)
    /\ pool.pool_size + amount <= MaxStake
    /\ \E p \in PoolDeposit(pool, slot, amount) :
         /\ \E acc \in AccountDeposit(account[a], p.cumulative_rate, amount) : SaveAccount(a, acc)
         /\ SavePool(p)
    /\ restarted' = (restarted \/ (pool.pool_size = 0 /\ pool.end_time # 0))
    /\ UNCHANGED <<slot, rewardPool, funds, excess>>

ProcessWithdraw(a, amount, signer) ==
    /\ pool.initialized /\ account[a].initialized
    /\ MaySign(signer)
    /\ \E p \in PoolWithdraw(pool, slot, amount) :
         /\ \E acc \in AccountWithdraw(account[a], p.cumulative_rate, amount) : SaveAccount(a, acc)
         /\ SavePool(p)
    /\ UNCHANGED <<slot, rewardPool, funds, restarted, excess>>

(* process_claim_reward; before the earliest time it succeeds and does nothing *)
ProcessClaimReward(a) ==
    /\ pool.initialized /\ account[a].initialized
    /\ slot >= pool.earliest_reward_claim_time
    /\ \E p \in ClaimRewardHelper(pool, slot) :
         /\ \E c \in AccountClaim(account[a], p.cumulative_rate) :
              /\ SaveAccount(a, c.account)
              /\ MoveRewards([k \in Kind |-> -c.paid[k]])
         /\ SavePool(p)
    /\ UNCHANGED <<slot, restarted, excess>>

ProcessUpdateEarliestRewardClaimTime(time, signer) ==
    /\ pool.initialized
    /\ signer = pool.admin_authority
    /\ SavePool([pool EXCEPT !.earliest_reward_claim_time = time])
    /\ UNCHANGED <<slot, account, rewardPool, funds, restarted, excess>>

(* update_reward_supply divides a reduction by the time that is left and   *)
(* rounds down; what the division loses is emitted without being there.    *)
ExcessAfter(sofar, change, time_to_end) ==
    IF change < 0 THEN Least(WAD, sofar + (FromU64(-change) % time_to_end)) ELSE sofar

(***************************************************************************)
(* process_change_reward_supply.  The direction of both transfers follows  *)
(* the sign of the first amount, so that a second amount of the other sign *)
(* becomes a transfer of about 2^64 tokens, which fails.                   *)
(***************************************************************************)
ProcessChangeRewardSupply(amount, sub_amount, signer) ==
    /\ pool.initialized
    /\ amount # 0
    /\ amount < 0 => signer = pool.admin_authority
    /\ sub_amount # 0 => pool.has_sub /\ (amount > 0 <=> sub_amount > 0)
    /\ \E p \in UpdateRewardSupply(pool, Pair(amount, sub_amount), slot) : SavePool(p)
    /\ MoveRewards(Pair(amount, sub_amount))
    /\ excess' = [k \in Kind |-> ExcessAfter(excess[k], Pair(amount, sub_amount)[k],
                                             pool.end_time - slot)]
    /\ UNCHANGED <<slot, account, restarted>>

ProcessChangeDuration(extend, signer) ==
    /\ pool.initialized
    /\ signer = pool.admin_authority
    /\ pool.duration + extend <= MaxDuration
    /\ \E p \in ExtendDuration(pool, extend, slot) : SavePool(p)
    /\ UNCHANGED <<slot, account, rewardPool, funds, restarted, excess>>

ProcessAddSubRewardPool(amount, signer) ==
    /\ pool.initialized
    /\ signer = pool.admin_authority
    /\ \E p \in AddSubReward(pool, amount, slot) : SavePool(p)
    /\ MoveRewards(Pair(0, amount))
    /\ UNCHANGED <<slot, account, restarted, excess>>

ProcessChangeOwner(signer, new_owner) ==
    /\ pool.initialized
    /\ signer = pool.owner_authority
    /\ SavePool([pool EXCEPT !.owner_authority = new_owner])
    /\ UNCHANGED <<slot, account, rewardPool, funds, restarted, excess>>

ProcessChangeAdmin(signer, new_admin) ==
    /\ pool.initialized
    /\ signer = pool.admin_authority
    /\ SavePool([pool EXCEPT !.admin_authority = new_admin])
    /\ UNCHANGED <<slot, account, rewardPool, funds, restarted, excess>>

AccountStep(a) ==
    \/ ProcessCreateStakeAccount(a)
    \/ ProcessClaimReward(a)
    \/ \E amount \in Amounts, signer \in Keys :
          ProcessDeposit(a, amount, signer) \/ ProcessWithdraw(a, amount, signer)

PoolStep(signer) ==
    \/ \E time \in ClaimTimes : ProcessUpdateEarliestRewardClaimTime(time, signer)
    \/ \E amount \in Changes, sub_amount \in SubChanges : ProcessChangeRewardSupply(amount, sub_amount, signer)
    \/ \E extend \in Extensions : ProcessChangeDuration(extend, signer)
    \/ \E amount \in SubSupplies : ProcessAddSubRewardPool(amount, signer)
    \/ \E key \in Keys : ProcessChangeOwner(signer, key) \/ ProcessChangeAdmin(signer, key)

Next ==
    \/ Tick
    \/ \E supply \in Supplies, sub_supply \in SubSupplies, duration \in Durations,
          time \in ClaimTimes, owner, admin \in Keys :
          ProcessInitStakingPool(supply, sub_supply, duration, time, owner, admin)
    \/ \E a \in Accounts : AccountStep(a)
    \/ \E signer \in Keys : PoolStep(signer)

Spec == Init /\ [][Next]_vars

(***************************************************************************)
(* Fairness, for the liveness property only: slots pass, and an owner who  *)
(* can claim keeps submitting her claim, which takes nobody else's         *)
(* signature.  Nothing is assumed of the pool's owner and admin.           *)
(***************************************************************************)
Fairness == WF_vars(Tick) /\ \A a \in Accounts : WF_vars(ProcessClaimReward(a))

FairSpec == Spec /\ Fairness

-----------------------------------------------------------------------------
(***************************************************************************)
(* Safety.                                                                 *)
(***************************************************************************)

(* The pool's size, which emission is divided by, is the sum of the stakes.*)
PoolSizeIsSum ==
    pool.pool_size = SumFunction([a \in Accounts |-> account[a].deposited_amount])

(* Emission never has to run backwards: the last update lies neither in    *)
(* the future nor past the end of the period, so claim_reward_helper never *)
(* fails with InvalidCurrentTimeError, whatever extensions and reductions  *)
(* of the duration came before; and what is left of a period is never      *)
(* longer than the duration, so the unchecked duration -= of               *)
(* extend_duration cannot wrap.                                            *)
ScheduleSound ==
    /\ pool.last_update <= slot
    /\ pool.last_update <= pool.end_time
    /\ pool.end_time - slot <= pool.duration

(* A stake account never starts from a rate the pool has not reached, so   *)
(* InvalidCurrentRateError can lock no deposit.                            *)
StartRateReached ==
    \A a \in Accounts, k \in Kind :
       account[a].start_rate[k] <= pool.cumulative_rate[k]

(* the pool with emission brought up to the current slot *)
Current == IF ClaimRewardHelper(pool, slot) = {} THEN pool
           ELSE CHOOSE p \in ClaimRewardHelper(pool, slot) : TRUE

(* what an account has earned and not been paid, in wads *)
Owed(a, k) ==
    account[a].unclaimed_reward_wads[k]
      + (Current.cumulative_rate[k] - account[a].start_rate[k]) * account[a].deposited_amount

(* Within a slot no instruction changes what any staker has earned so far: *)
(* other stakers' deposits and withdrawals, changes of supply, duration or *)
(* second token are never retroactive.  Only a claim lowers it, by the     *)
(* whole tokens it takes out of the reward pool.                           *)
EarningsKept ==
    [][slot' = slot =>
       \A a \in Accounts, k \in Kind :
          \/ Owed(a, k)' = Owed(a, k)
          \/ /\ Owed(a, k)' = Owed(a, k) % WAD
             /\ rewardPool[k] - rewardPool'[k] = Owed(a, k) \div WAD]_vars

(* the reward tokens in the pool cover what all stakers earned, in whole tokens *)
Payable(k) ==
    SumFunction([a \in Accounts |-> Owed(a, k) \div WAD]) <= rewardPool[k]

(* As long as the pool was never emptied and refilled, the reward tokens   *)
(* in the pool cover what all stakers have earned, so no claim can fail    *)
(* for lack of them, except that each reduction of the supply may leave    *)
(* the rate too high by a rounding, which a great many of them can add up  *)
(* to a whole token.                                                       *)
PayableUnlessRestarted ==
    ~restarted => \A k \in Kind : excess[k] < WAD => Payable(k)

(* Signed by the pool's owner or admin, a withdrawal of this amount from    *)
(* this account goes through now.                                          *)
Releasable(a, amount) ==
    /\ pool.initialized /\ account[a].initialized
    /\ \E p \in PoolWithdraw(pool, slot, amount) :
         /\ PackPool(p) # {}
         /\ \E acc \in AccountWithdraw(account[a], p.cumulative_rate, amount) : PackAccount(acc) # {}

(* Whatever the admin did to supply and duration of the first reward       *)
(* token, before, during or after emission, a deposit can be withdrawn at  *)
(* any time, whole or in part: no division by an empty pool, no time or    *)
(* rate that runs backwards, no pool smaller than one of its stakes is in  *)
(* the way.                                                                *)
DepositsReleasable ==
    \A a \in Accounts : \A amount \in 1..account[a].deposited_amount : Releasable(a, amount)

(***************************************************************************)
(* Liveness.                                                               *)
(***************************************************************************)

(* If the admin leaves the claim open from some time on, whoever has       *)
(* earned a whole reward token is paid in the end, of both kinds at once:  *)
(* however often claims were postponed before, what was earned meanwhile   *)
(* is not lost, nor is it when emission ends.  An admin who goes on        *)
(* postponing keeps everybody from being paid, which the code allows.  The *)
(* other obstacles are an empty pool, in which a claim divides by zero,    *)
(* and one that was restarted or reduced so often that it can owe more     *)
(* than it holds.                                                          *)
EarningsPaid ==
    \A a \in Accounts :
       <>[](slot >= pool.earliest_reward_claim_time) =>
         ((\E k \in Kind : Owed(a, k) >= WAD) ~>
            \/ \A k \in Kind : Owed(a, k) < WAD
            \/ pool.pool_size = 0
            \/ restarted \/ \E k \in Kind : excess[k] = WAD)

-----------------------------------------------------------------------------
(* "rate per slot = supply / duration": the supply pays for all emission,  *)
(* so the earned rewards can always be paid.                               *)
AlwaysPayable == \A k \in Kind : Payable(k)
==============================================================================

---------------------------- MODULE StakedLending -----------------------------
(***************************************************************************)
(* The lending and the staking program together.  In Lending the stake of  *)
(* an obligation's owner is a number; here it is what stands in her stake  *)
(* accounts in a real pool, moved by the cross-program calls of the        *)
(* lending program, signed by the lending market's authority, and by the   *)
(* pool's own owner and admin directly.  There is one staking pool; a      *)
(* reserve is tied to it or to none.                                       *)
(***************************************************************************)
EXTENDS Lending

CONSTANTS
    Accounts,     \* stake accounts
    OwnerOf,      \* the obligation whose owner a stake account belongs to
    Keys,         \* keys that may be owner or admin of the staking pool
    Authority,    \* the lending market's authority, a key only Lending signs with
    StakeAmounts, \* amounts the pool's owner or admin moves directly
    Supplies, SubSupplies, Changes, SubChanges, Extensions, Durations, ClaimTimes,
    Funds, MaxStake, MaxDuration    \* see Staking

ASSUME StakedLendingAssumption ==
    /\ OwnerOf \in [Accounts -> Obligations]
    /\ Authority \in Keys
    /\ IsFiniteSet(Accounts)
    /\ StakeAmounts \subseteq U64
    /\ Supplies \subseteq U64
    /\ SubSupplies \subseteq U64
    /\ \A change \in Changes \cup SubChanges \cup Extensions :
          change \in -(U64_MAX \div 2)..(U64_MAX \div 2)
    /\ Durations \subseteq U64 \ {0}
    /\ ClaimTimes \subseteq U64
    /\ {Funds, MaxStake, MaxDuration, MaxSlot} \subseteq U64
    /\ \E p \in StakingPools : StakingPools = {p}

VARIABLES
    pool, account, rewardPool, funds, restarted, excess,  \* see Staking
    apart   \* history: something besides the calls of Lending moved the stakes
            \* or the collateral they stand for

SP == INSTANCE Staking WITH Amounts <- StakeAmounts

lendingVars == <<reserve, obligation, liquiditySupply, feeReceiver, collateralSupply,
                 userLiquidity, userCollateral, surplus>>
stakingVars == <<pool, account, rewardPool, funds, restarted, excess>>
allVars == <<vars, stakingVars, apart>>

StakedInit == Init /\ SP!Init /\ apart = FALSE

AccountsOf(o) == {a \in Accounts : OwnerOf[a] = o}

(* what Lending takes for the stake of each owner in each pool *)
StakeImage ==
    [o \in Obligations |-> [p \in StakingPools |->
       SumFunction([a \in AccountsOf(o) |-> account[a].deposited_amount])]]

(***************************************************************************)
(* deposit_to_staking_program and withdraw_from_staking_program, for the   *)
(* amount by which the instruction changes the owner's stake: the caller   *)
(* names one of her stake accounts, the market's authority signs.          *)
(***************************************************************************)
StakingCall(o, p) ==
    \E a \in AccountsOf(o) :
       \/ /\ stake'[o][p] > stake[o][p]
          /\ SP!ProcessDeposit(a, stake'[o][p] - stake[o][p], Authority)
       \/ /\ stake'[o][p] < stake[o][p]
          /\ SP!ProcessWithdraw(a, stake[o][p] - stake'[o][p], Authority)

(* The market owner ties a reserve to another pool, or to none, although   *)
(* there is collateral of it in an obligation.                             *)
PoolSwitched ==
    \E r \in Reserves :
       /\ reserve'[r].config.deposit_staking_pool # reserve[r].config.deposit_staking_pool
       /\ \E o \in Obligations : obligation[o].deposits[r].deposited_amount > 0

LendingStep ==
    /\ Next
    /\ IF stake' = stake THEN UNCHANGED stakingVars
       ELSE \E o \in Obligations, p \in StakingPools : StakingCall(o, p)
    /\ apart' = (apart \/ PoolSwitched)

(***************************************************************************)
(* Instructions sent to the staking program directly.  The authority is an *)
(* address without a private key: it signs nothing but the calls above.    *)
(***************************************************************************)
DirectStep(signer) ==
    /\ signer # Authority
    /\ \/ SP!PoolStep(signer) /\ UNCHANGED apart
       \/ \E a \in Accounts, amount \in StakeAmounts :
            /\ SP!ProcessDeposit(a, amount, signer) \/ SP!ProcessWithdraw(a, amount, signer)
            /\ apart' = (apart \/ signer \in {pool.owner_authority, pool.admin_authority})

StakingStep ==
    /\ \/ \E signer \in Keys : DirectStep(signer)
       \/ /\ \/ \E a \in Accounts : SP!ProcessCreateStakeAccount(a) \/ SP!ProcessClaimReward(a)
             \/ \E supply \in Supplies, sub_supply \in SubSupplies, duration \in Durations,
                   time \in ClaimTimes, owner, admin \in Keys :
                   SP!ProcessInitStakingPool(supply, sub_supply, duration, time, owner, admin)
          /\ UNCHANGED apart
    /\ stake' = StakeImage'
    /\ UNCHANGED lendingVars

StakedNext == LendingStep \/ StakingStep

StakedSpec == StakedInit /\ [][StakedNext]_allVars

-----------------------------------------------------------------------------
(***************************************************************************)
(* Safety.                                                                 *)
(***************************************************************************)

(* As long as the pool's owner and admin leave the stakes alone and the    *)
(* reserve keeps its pool, what stands in an owner's stake accounts, all   *)
(* of them together and however she spreads it, is exactly her collateral: *)
(* nobody else can move it, and every deposit, withdrawal and liquidation  *)
(* moves both by the same amount.                                          *)
StakesFollowCollateral == ~apart => stake = StakeImage /\ StakeMatchesCollateral

(* withdraw_from_staking_program, naming this stake account, goes through now *)
Returned(a, amount) == SP!MaySign(Authority) /\ SP!Releasable(a, amount)

(* Under the same conditions a withdrawal or a liquidation that names one  *)
(* of the owner's stake accounts is refused by the staking program if and  *)
(* only if that account holds less than the collateral to be moved: the    *)
(* authority has kept the right to sign, and neither the end of emission,  *)
(* nor changes of supply, duration or admin, nor claims stand in the way.  *)
(* The call takes one account, so an owner who spreads her stake makes any *)
(* larger amount impossible to move at once, also for a liquidation whose  *)
(* amount is fixed; but while there is collateral some account holds a     *)
(* part of it, which the staking program lets go of.                       *)
CollateralReleasable ==
    ~apart =>
      \A r \in Reserves, o \in Obligations :
        (/\ reserve[r].config.deposit_staking_pool # NoPool
         /\ obligation[o].deposits[r].deposited_amount > 0) =>
           /\ \E a \in AccountsOf(o) : account[a].deposited_amount > 0
           /\ \A a \in AccountsOf(o) : \A amount \in 1..obligation[o].deposits[r].deposited_amount :
                 Returned(a, amount) <=> amount <= account[a].deposited_amount
==============================================================================

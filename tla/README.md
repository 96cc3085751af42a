# Port Finance lending and staking: TLA+ specifications

This directory specifies the two on-chain programs of the repository, the
variable-rate lending program (`token-lending/program`) and the staking program
(`staking/program`) that rewards depositors, checks them with TLC on small
instances and proves with TLAPS, for every instance, all but four of the
properties (section 4 says which four, and why).

## 1. The system

| Part | State | Operations | Interacts with |
|---|---|---|---|
| fixed-point arithmetic (`math/`) | none | `Decimal` (U192), `Rate` (U128), scale `WAD`; every operation fails on overflow | used everywhere |
| reserve (`state/reserve.rs`) | available liquidity, total debt in wads, cumulative borrow rate, price, supply of collateral tokens, configuration, last update | deposit, redeem, borrow, repay, accrue interest, compute fees and amounts | obligations read its rate and price |
| obligation (`state/obligation.rs`) | collateral and debt per reserve with the values of the last refresh, last update | refresh, deposit, withdraw, borrow, repay, be liquidated | reserves, a stake account |
| last update (`state/last_update.rs`) | slot, stale flag | update, mark stale, is stale | gates every use of reserves and obligations |
| lending market | owner, quote currency, key material | init, change owner | owner of reserves |
| lending processor | the token accounts of the reserves | 17 instructions | SPL token program, oracles, staking program, flash loan receivers |
| staking pool (`staking_pool.rs`) | rate per slot, cumulative rate, end and duration of emission, size, owner and admin | deposit, withdraw, claim, change supply, duration, second token | stake accounts |
| stake account (`stake_account.rs`) | deposit, start rate, unclaimed rewards | deposit, withdraw, claim | its pool |
| staking processor | reward token accounts | 11 instructions | SPL token program; called by the lending program |
| instruction codecs, errors, CLIs, SDK | none on chain | encode, decode, submit | |

What makes it hard: anybody submits instructions in any order, so every
sequence interleaves users, slots and oracle prices; an obligation caches values
of several reserves and a marker decides whether they may still be used; the
same quantity is kept in two places (token balance and `available_amount`, mint
supply and `mint_total_supply`, reserve debt and the sum of debts, `pool_size`
and the stakes, collateral and stake); all arithmetic rounds; `u64::MAX` has a
meaning of its own; a flash loan runs foreign code in the middle of an
instruction. What does not exist here: a failed instruction changes nothing,
instructions on the same account do not overlap, and a program cannot be
re-entered. There are no crashes, messages or retries to model. The one
unreliable party is the price oracle, which may halt, fall silent or publish a
price that is already some slots old.

## 2. Modules

| Module | Models |
|---|---|
| `WadMath` | `Decimal`, `Rate`, `Rate::try_pow`. A `Result` is a set: `{v}` is `Ok(v)`, `{}` is `Err`. |
| `Reserve` | `Reserve`, `ReserveLiquidity`, `ReserveCollateral`, `CollateralExchangeRate`, `LastUpdate`, `validate_reserve_config` |
| `Obligation` | `Obligation`, its entries, and the computation of `process_refresh_obligation` |
| `Calculations` | `calculate_fees`, `calculate_borrow`, `calculate_repay`, `calculate_liquidation`, the limits of a withdrawal |
| `Lending` | the instructions of the lending program on one market, the token balances, the stake of each owner; the properties |
| `Vault`, `LendingVault` | what a reserve promises the holders of its collateral tokens, and that `Lending` implements it |
| `Market` | `Lending` with the owner of the lending market and the Pyth price accounts |
| `Compounding` | `Rate::try_pow` against reference definitions |
| `LendingProofs`, `ObligationProofs` | theorems about `Lending` and that it implements `Vault` |
| `PowerProofs`, `CompoundingProofs` | theorems about `Rate::try_pow` |
| `MarketProofs`, `StakingProofs`, `StakedProofs` | theorems about `Market`, `Staking`, `StakedLending` |
| `FiniteSums` | lemmas on sums over finite sets |
| `StakingPool` | the methods of `StakingPool` and `StakeAccount` |
| `Staking` | the instructions of the staking program on one pool; the properties |
| `StakedLending` | `Lending` and `Staking` together |
| `MCLending`, `MCMarket`, `MCCompounding`, `MCStaking`, `MCStakedLending` | constants for TLC |

```
WadMath <- Reserve <- Obligation <- Calculations <- Lending <- Market
   ^                                                   ^  ^---- LendingVault -> Vault
   |- Compounding                                      |------- StakedLending
   |- StakingPool <- Staking <---- (INSTANCE) ---------------------'

PowerProofs <- LendingProofs <- ObligationProofs <- MarketProofs
     ^               FiniteSums <-'       ^-------- StakedProofs
     '-- CompoundingProofs   ^--- StakingProofs <-- (INSTANCE) --'
```

An action is one instruction that succeeds. `process_x` is `ProcessX`; the guard
is the conjunction of the early returns, a chain of `?` is a chain of bounded
existential quantifiers over result sets, and an instruction that would fail has
no successor. Inputs (amount, price, configuration, signer of the pool) are
quantified over constants. `Tick` advances the slot.

Abstractions, and why they lose nothing the properties speak of:

- Account identity and ownership checks are left out of `Lending`: a parameter
  names accounts that belong together, and obligation owners sign for what is
  theirs. The owner of the market (in `Market`) and the owner and admin of a pool
  (in `Staking`) are modelled, as they can change.
- Every obligation has an owner of its own. A user with several obligations in
  one market would share her stake accounts between them.
- Users' token accounts are one balance per reserve: the handlers only require
  funds, so more distribution would disable steps and enable none.
- The deposits and borrows vectors are functions of the reserve. The code keeps
  them unique by reserve, and uses their order only to match account lists.
- Packing is modelled by the values it can store (`Pack`, `PackObligation`,
  `PackPool`, `PackAccount`): `pack_decimal` stores a `u128`.
- `mint_decimals` appears as `10^mint_decimals` (`mint_unit`).
- A pair of a `Decimal` and an `Option<Decimal>` of the staking program is a
  function of the kind of token, with `None` as 0 and `has_sub` beside it.
- In `Lending` a price may be any member of `PricesFor[r]`, and a failing oracle is
  a refresh that does not happen; `Market` replaces this by `get_pyth_price` on a
  price account. `get_switchboard_price` always returns an error
  (`processor.rs:2381`), where `MIGRATION.md:44` speaks of a stub that "returns
  last known price": a Switchboard-priced reserve is one that is never refreshed.
- `surplus` (what flash loan receivers returned beyond the fee), `restarted`
  (emission began anew in an emptied pool), `excess` (what the divisions of
  supply reductions have lost, in wads, up to a token), `pricedAt` and `valuedAt` (the age of
  the price behind a reserve and an obligation) and `apart` (stakes were moved
  without the lending program, or a reserve with deposits changed its pool) are
  history variables; no guard reads them.

### The two programs together

In `Lending` the stake of an owner is a number that the cross-program calls
change. `StakedLending` instantiates `Staking` and takes every step of `Lending`
that changes this number together with `ProcessDeposit` or `ProcessWithdraw` of
that amount on one of the owner's stake accounts, signed by the market's
authority: if the staking program refuses, the whole instruction fails. The other
steps are instructions sent to the staking program directly. The authority is a
program address, so it signs nothing but those calls. The clock is shared.

### The abstract specification

`Vault` knows cash, debt and claims per reserve and six moves: enter, leave,
lend, settle, write off, accrue. It states the price conditions of each (claims
are issued at their value or above it, and redeemed at a price that is the exact
one but for an exchange rate rounded down to a wad; a loan is recorded in full, at most what is paid is settled, a write-off stays below
`LIQUIDATION_CLOSE_AMOUNT`) and that a step moves one vault only. `LendingVault`
maps `available_amount`, `borrowed_amount_wads` and `mint_total_supply` to them;
obligations, token accounts, fees, stakes and the clock are hidden. A flash loan
is a stuttering step: it has to leave the reserve as it was.

## 3. Runs

The small instances keep the shape of the arithmetic: `WAD = 10` (100 in
`lending_mixed`, where the precision of a fraction matters, and 4 in
`staking_schedule`, where rates are halved and divided by three) with
`HUNDRED = 10`, so a percentage is a tenth; `U64_MAX = 99` doubles as "everything" as in the
code; a year is one slot, so a slot's interest is visible at once. The bounds
are `MaxSlot`, `MaxSlots`, `MaxOverpay`, `MaxStake`, `MaxDuration` and the sets of
amounts, prices and keys.

| Run | Instance | Properties |
|---|---|---|
| `lending_pair` | two reserves, one collateral, one borrowed with a price that doubles; account room for 2 entries; 2 slots | `TypeOK`, `InterestSettled`, `RateNeverAhead`, `ObligationFits` |
| `lending_mixed` | two collateral reserves with loan-to-value 50% and 20%; amounts 2, 3 and all; one slot | `ExitLeavesCovered` |
| `lending_books` | two obligations, one reserve, interest over 3 slots | `DebtBooksAgree`, `CollateralBacked`, `TokenValueKept`, `ImplementsVault` |
| `market` | one reserve priced by an oracle with a price of 1 or 10, a price valid for 2 of 3 slots, trading or halted; two keys as owner; borrow and flash loan fees with and without host share, deposit limit, `UpdateReserve`, `WithdrawFee`, overpaid flash loans | `LiquidityBacked`, `MintMatches`, `ValuationRecent` |
| `staked_lending` | one obligation, two stake accounts of its owner, one reserve with or without the pool, two keys as owner and admin of the pool, supply and duration changes by -1, amounts 1 and 2 so that a stake can be spread, interest that makes a debt unhealthy | `StakesFollowCollateral`, `CollateralReleasable` |
| `compounding` | growth factors from 1 to 4 in steps of 0.01, up to 32 slots | `GrowthBracketed`, `FailsOnlyBeyondSquare`, `WaitingNeverHelps` |
| `staking_stakers` | two stake accounts, one or two reward tokens, a period of 2 slots and one slot after it, claims open from slot 2 on or postponed beyond the last slot, as often as the admin likes | `TypeOK`, `PoolSizeIsSum`, `PayableUnlessRestarted`, `EarningsKept`, `EarningsPaid` |
| `staking_schedule` | extensions and supply changes by +1 and -1, before, during and after emission | `ScheduleSound`, `PayableUnlessRestarted`, `DepositsReleasable`, `EarningsKept` |
| `staking_second` | second token from the start or added later, changes of either supply, two keys as owner and admin | `StartRateReached`, `PayableUnlessRestarted` |

Why the bounds are enough: interest has compounded twice in `lending_books`, so
an error in recording the charged rate shows; a debt becomes unhealthy by price
in `lending_pair` and by interest in `staked_lending`, so liquidation takes
place; the account is full with two entries in `lending_pair`; a price can be
taken fresh, one slot old, and too old in `market`; `try_pow` overflows within
the bounds of `compounding`; in the staking runs a pool passes through not
started, running, ended and emptied. `staked_lending` does not look beyond a state
in which `apart` holds, as its properties claim nothing there. Each
property is known to fail for a faulty variant of a definition it depends on;
these variants stand next to the definition they vary.

In words:

- `InterestSettled`: the staleness marker does its work. An obligation that passes
  `is_stale` has been charged at the current rate of every reserve it owes to.
- `RateNeverAhead`: no debt can be locked by `NegativeInterestRate` or a division
  by a zero rate.
- `ExitLeavesCovered`: an obligation whose recorded values are accurate is still
  covered after its owner borrows or withdraws. The code computes with fractions of
  a wad, and the statement says what that may cost: a wad of the value of the
  deposits, the value of a wad of liquidity, and three units of a value in wads
  (less than 10^-17 of the value of the deposits and of a token). It does not speak of values that
  are fresh by their marker but outdated: `process_update_reserve` and a second
  refresh with another price in the same slot make none stale.
- `DebtBooksAgree`: the clamp in `ReserveLiquidity::repay` hides rounding only.
- `TokenValueKept`: rounding never works against depositors, except that a
  redemption is paid at an exchange rate that was rounded down by less than one in
  `WAD`; only liquidations write off a loss.
- `ImplementsVault`: `Lending` refines `Vault`.
- `ObligationFits`: the checks count entries, the account is measured in bytes, and
  a debt takes more of them than a collateral; yet `pack` never panics.
- `ValuationRecent`: the age check of a price, made at a refresh of the reserve,
  still holds for whatever is done with the price afterwards.
- `LiquidityBacked`, `MintMatches`, `CollateralBacked`, `PoolSizeIsSum`: a quantity
  kept in two places is the same in both.
- `StakesFollowCollateral`, `CollateralReleasable`: so are collateral and stake,
  across two programs. A withdrawal or a liquidation names one stake account
  (`processor.rs:1911-1935`), and the staking program refuses it exactly when that
  account holds less than the collateral to be moved. So an owner who has spread
  her stake has to withdraw in parts, and a liquidation that wants more than any one
  account holds is refused; one that can take less (any but the close-out of a debt
  below `LIQUIDATION_CLOSE_AMOUNT`, whose amount is fixed) is not held up. Both
  properties hold until the pool's owner or admin moves
  stakes directly, or the reserve's pool is changed while collateral is deposited:
  after that the code gives no such guarantee.
- `GrowthBracketed`: rounding keeps compound interest between simple interest and
  the exact power. `FailsOnlyBeyondSquare`, `WaitingNeverHelps`: the superfluous
  last square of `try_pow` costs half of the time a reserve may go without a
  refresh, and a reserve that has overflowed stays so until the owner changes its
  rates.
- `DepositsReleasable`: a stake can be withdrawn at any time, whole or in part,
  whatever was done to supply and duration. The run has one reward token; the
  theorem `OnlyOverflowLocksDeposits` covers both.
- `ScheduleSound`, `StartRateReached`: no sequence of administrative changes makes
  the staking program's time or rate arithmetic fail or wrap.
- `EarningsKept`: nothing is retroactive.
- `PayableUnlessRestarted`: reward tokens cover what was earned, as long as the
  pool was not restarted and the roundings of reductions (`excess`) have not added
  up to a token. `update_reward_supply` subtracts `amount / time_to_end` rounded
  down from the rate (`staking_pool.rs:191-204`), so a reduction that pays tokens
  out may leave the rate up to `time_to_end - 1` wads per remaining period too
  high; every other rounding favours the pool. The condition is needed: with
  `WAD = 10` and a dozen reductions of one token with three slots to go, TLC finds a
  pool that owes a token more than it holds. At the real scale it takes some
  10^18 / `time_to_end` reductions.

Three runs end in a violation, each of a statement of the source:

- `borrow_limit`: `borrow_limit` is "Maximum borrow limit of liquidity in native
  units" (`state/reserve.rs:625`), but the amount `u64::MAX` skips the check
  (`processor.rs:1502`).
- `close_out`: the settled amount "includes the amount of loan that was defaulted
  if collateral is depleted" (`state/reserve.rs:343`), but a debt below
  `LIQUIDATION_CLOSE_AMOUNT` is settled whole for whatever the liquidator pays,
  with collateral left over (`state/reserve.rs:238-261`).
- `staking_restart`: "rate per slot = supply / duration" (`instruction.rs:30` of the
  staking program), but a pool that was emptied and is filled again emits the
  rate for another full duration (`staking_pool.rs:299`); the rewards earned then
  exceed the tokens.

Liveness is stated for the one promise that needs no other user. `EarningsPaid`:
if the claim stays open from some time on, whoever has earned a whole reward token
is paid in the end, what she earned while it was closed included. It assumes
(`Fairness`) that slots pass, which the cluster guarantees, and that a staker who
can claim keeps submitting the claim, which takes no signature but hers. Nothing
is assumed of the pool's owner and admin, who may deposit, withdraw and move the
earliest time of a claim back and forth, beyond the last slot too. An admin who
goes on postponing it (`processor.rs:899` of the staking program takes any slot)
keeps everybody from being paid, hence the premise. Three more exceptions are part
of the statement because the code has them: in an empty pool a claim divides by zero,
and a pool that was restarted, or whose reductions have rounded away a whole
token, can owe more than it holds. No other instruction is obliged
to be submitted by anybody; what would make progress impossible is stated as
safety instead (`RateNeverAhead`, `ScheduleSound`, `StartRateReached`,
`ObligationFits`, `DepositsReleasable`, `CollateralReleasable`).
Every run checks for deadlock only trivially: a refresh or a configuration
change is always possible.

## 4. Proofs

The theorems hold for every set of reserves, obligations, stake accounts and keys,
every set of amounts, prices and configurations, every scale and all integer
widths that satisfy the assumptions named in the modules: `WadAssumption`,
`ReserveAssumption`, `ConfigsAssumption`, `LendingAssumption` and the assumptions of
`Obligation`, `Market`, `Compounding` and `StakedLending`, `StakingAssumption`. They say that a
`u64` scaled by `WAD` fits a `u128` and that a `Decimal` is at least as wide, that
inputs have the width of their field, that an obligation has room for an entry, a
price is valid for at least a slot, and that there are finitely many accounts.

| Theorem | Module | States |
|---|---|---|
| `TypeCorrect`, `LiquidityIsBacked`, `MintIsMatched` | `LendingProofs` | `Spec => []` of `TypeOK`, `LiquidityBacked`, `MintMatches` |
| `LendingImplementsVault`, `TokenValueIsKept` | `LendingProofs` | the refinement `ImplementsVault` and the action property `TokenValueKept` |
| `InterestIsSettled` | `ObligationProofs` | `InterestSettled` |
| `ExitsLeaveCovered` | `ObligationProofs` | the action property `ExitLeavesCovered` |
| `CollateralIsBacked`, `ObligationAlwaysFits`, `RateIsNeverAhead` | `ObligationProofs` | `CollateralBacked`, `ObligationFits`, `RateNeverAhead` |
| `PowerAtLeastSimple` | `PowerProofs` | every result of `TryPow` is at least one plus simple interest |
| `GrowthIsBracketed`, `FailsOnlyBeyondTheSquare`, `WaitingDoesNotHelp` | `CompoundingProofs` | `GrowthBracketed`, `FailsOnlyBeyondSquare`, `WaitingNeverHelps` |
| `MarketKeepsBooks` | `MarketProofs` | the invariants of `Lending` above except `TypeOK`, with oracle and changing owners |
| `MarketImplementsVault`, `MarketExitsLeaveCovered` | `MarketProofs` | `ImplementsVault`, `TokenValueKept` and `ExitLeavesCovered`, with oracle and changing owners |
| `ValuationIsRecent` | `MarketProofs` | `ValuationRecent` |
| `StakingTypeCorrect`, `ScheduleIsSound`, `StartRateIsReached`, `PoolSizeIsTheSum`, `EarningsAreCovered` | `StakingProofs` | `TypeOK`, `ScheduleSound`, `StartRateReached`, `PoolSizeIsSum`, `PayableUnlessRestarted` |
| `EarningsAreKept` | `StakingProofs` | the action property `EarningsKept` |
| `OnlyOverflowLocksDeposits` | `StakingProofs` | `DepositsReleasable` as far as the numbers fit |
| `StakesDoFollowCollateral`, `AuthorityIsKept` | `StakedProofs` | `StakesFollowCollateral`; the market may sign for the pool where there is collateral |
| `OnlyOverflowHoldsCollateral` | `StakedProofs` | `CollateralReleasable` as far as the numbers fit |
| `StakedImplementsStaking`, `StakedKeepsRewards` | `StakedProofs` | the composition refines `Staking`; `ScheduleSound`, `StartRateReached`, `PayableUnlessRestarted`, `EarningsKept` hold in it |
| `StakedKeepsBooks`, `StakedImplementsVault` | `StakedProofs` | the invariants of `Lending` above except `TypeOK`, and `ImplementsVault`, in the composition |

### The lending program

`BooksInv` carries the first three. That a balance stays a `u64` is not
inductive: a credit could overflow. It cannot because the tokens of
a mint are conserved (`Conserved`: supply account, fee receiver and users add up
to `LiquidityTokens`), and a withdrawal of liquidity succeeds only within
`available_amount`, which is backed (`LiquidityBacked`); collateral tokens are
bounded by `mint_total_supply`, a `u64`, which matches them (`MintMatches`);
`Untouched` gives an uninitialised reserve its zeros, which `ProcessInitReserve`
relies on. One lemma per reserve method (`DepositEffect`, `RedeemEffect`,
`BorrowEffect`, `RepayEffect`) says what it does to the amounts; lemmas on the
calculations bound them (`WholeTokens`, `FeesTyped`, `BorrowAmounts`, ...); then
there is one step per instruction.

`InterestIsSettled` needs `SettledInv`: no account was updated in the future
(`NotAhead`), a reserve that is owed to is initialised (`OwedInitialized`), and a
fresh obligation's debts are settled at the reserve's rate while the reserve's
own last update is the current slot (`SettledNow`). The last part is the reason
the property holds: a reserve accrues at most once per slot, so once an
obligation has been refreshed in a slot nothing can move the rate before the
next slot makes the obligation stale.

`ObligationProofs` says for each method of an obligation which entries it
changes. `CollateralIsBacked` needs `Blank` beside it: initialising an obligation
overwrites its record, so there must have been nothing in it. `ObligationAlwaysFits`
follows from `EntriesInv`: the code bounds the number of entries when one is added,
and withdrawals, repayments and liquidations only remove them; a debt needs
collateral, so not all entries can be debts. `RateIsNeverAhead` needs `RateInv`:
a reserve in use has a positive rate, and a debt a positive rate not beyond it,
while an absent entry has none to start from. A step keeps it because no accrual
lowers a reserve's rate, which is `PowerAtLeastSimple`: whatever `try_pow` returns
for a factor of at least one is at least one, rounding of its squarings included.

`LendingImplementsVault` has one lemma for each move of `Vault` and one step for each
instruction, and needs `BooksInv` and that a reserve that is not initialised has lent
nothing (`NothingLent`). `Lend`, `Settle`, `WriteOff` and `Accrue` follow from what the
methods of a reserve do to the two amounts: a borrow is rounded towards more debt
and a repayment towards less settled, and an accrual multiplies the debt by a
factor of at least one. `Enter` and `Leave` go through the exchange rate, a quotient
rounded down, and a second rounded quotient or product; the bound of `Leave` is
exactly what the first rounding can cost. `TokenValueIsKept` is read off the same
moves: only `WriteOff` lowers the backing of a claim, and only a liquidation is one.

`ExitsLeaveCovered` compares two states. The three values of a refreshed obligation
are sums over the reserves (`Valuation`), so an exit changes one summand of each. A
withdrawal lowers what one collateral allows by at most what was left to borrow:
`max_withdraw_value` divides this room by the ratio of the collateral that leaves,
and the withdrawn fraction of it is computed to a wad. A borrow raises one debt by
at most the room; when the obligation has collateral in the reserve that lends too,
the borrow must not lower its value (`RateFalls`: collateral tokens per token never
become more). The rest is the bookkeeping that lets one compare the values before
and after: debts are settled (`SettledInv`), so revaluing charges no interest that
the recorded value lacks; rates are sound (`RateInv`); ratios are at most one hundred
percent (`ConfigsValid`); an absent debt owes nothing (`TidyInv`). `ExitSteps` shows
that only a borrow and a withdrawal are exits.

`MarketProofs` reuses all of it: the lending theorems are proved for `OpenNext`,
`Next` with any price that fits a `Rate` in place of `PricesFor`, and every step of
`Market` is such a step or leaves `Lending` alone (`MarketStepIsOpen`).
`ValuationIsRecent` needs `RecentInv`, the argument of `SettledInv` for prices: a
fresh account was updated in the current slot, from a price that passed the age
check in this slot.

### Compound interest

`PowLoop` is a recursive function. `PowerProofs` shows that a function with its
equation exists and, by the least number for which a fact could fail (`Smallest`),
that no result is below simple interest. `CompoundingProofs` compares the loop with the
exact power. `GrowthIsBracketed`: the loop's base and product are at most the exact
powers they stand for, as every rounding is downwards. `FailsOnlyBeyondTheSquare`:
every number of the loop is then at most the exact power of twice the time, so
that none overflows if that fits. `WaitingDoesNotHelp`: one more slot changes the
binary digits of the exponent up to the first zero, so that a product of several
rounded squares is replaced by the next square; the proof compares the two loops
digit by digit up to the end of the carry, after which they run alike from a
product that is no smaller.

### The staking program

`StakingInv` is `TypeOK`, conservation of the reward tokens, `Good(pool, slot)` and
`StartRateReached`. `Good` says that the last update lies neither after the slot
nor after the end, that what is left of a period is not longer than the duration
(without it a reduction of the duration could move the end before the last
update), that an uninitialised pool has neither schedule nor second token, and that the second token has
no rate before it is added, so that resetting its cumulative rate moves no account
ahead. Every method of the pool is shown to keep `Good` and to leave what has been
earned by now (`Earned`) as it was; the invariant and `EarningsAreKept` both follow
from this one fact.

`EarningsAreCovered` needs `PayInv`. That earnings are covered is not inductive, as
it says nothing of emission to come. `Funded` does: the debts of all stakers at
the pool's recorded rate and the rate times the slots of emission that are left
(`Left`) are at most `WAD` times the reward tokens, plus `excess`. One lemma per
method (`ClaimWithin`, `SupplyWithin`, `DurationWithin`, ...) bounds the growth of
this total by the tokens it moves; accrual turns emission to come into debts,
because it divides by the pool's size, which is the sum of the stakes
(`PoolSizeIsSum`). `Live` excludes a pool that has stakes and no schedule.

`OnlyOverflowLocksDeposits` states `DepositsReleasable` under the condition that the
accrued rate and rewards fit their fields (`RewardsFit`); everything else that
could make a withdrawal fail is excluded. `EmissionFits` is the part on the emission
since the last update: rates of the first token are multiplied and divided by a
`u64`, those of the second by a `Decimal` (`staking_pool.rs:80, 95`; `RateTimes` and
`RateOver` in `StakingPool`), so the second token's emission must fit a U192 after
one more multiplication by `WAD`. `InUse` (what holds a deposit is initialised) is
the other fact a withdrawal needs.

### Both programs

`StakedInv` has the types of the staking program and, until `apart`, `BooksInv` and
`CollateralInv` of the lending program, that the stake accounts agree with the
stakes `Lending` keeps and these with the collateral, and that the market's
authority may sign wherever there is a stake. The last part is needed for a step
that changes owner or admin.

The rest says that the programs compose, and needs no condition on who moves the
stakes. `StakedImplementsStaking`: with `ST`, an instance of `StakingProofs` in which any
`u64` may be staked, every step of `StakedLending` is a step of `ST` or a stutter. The
argument is about the amounts of the calls: they are differences of stakes
as `Lending` keeps them, which must fit a `u64`. They do because an owner's stake
is a part of the pool's size (`PartFits`), so `BothInv` has the books of the lending
program and `StakingInv` and `PoolSizeIsSum` of the staking program together. The
theorems of `StakingProofs` then apply, their assumptions on the constants being
discharged by `StakingConstants`; with `AuthorityIsKept`, `PostedIsStaked` (some account
holds a part of the collateral) and `ReturnedIsHeld` (no account returns more than it
holds) they give `OnlyOverflowHoldsCollateral`. In the other direction a step of `StakedLending` is one of
`Lending` or changes stakes only (`LendingOrStakes`), and `LendingInv`, the invariants of
the lending proofs, does not mention them.

### Induction over data

The provers take no operator as a parameter, so the induction theorems of the
library cannot be used. `FiniteSums` states induction for a set of subsets instead
(`SubsetInduction`), and derives from it that the fold behind `SumFunction` does not
depend on the order and what a changed, rounded or scaled summand does to it.
`PowerProofs` describes the results of the recursion as the least closed set of
pairs, and both modules on `try_pow` argue with the least number of a set that would
be empty. Products of three variables are beyond the solver; lemmas on quotients
(`QuotientMonotone`, `TwiceRounded`, ...) take them one at a time. The inductive invariants were checked with TLC on the instances of the runs
before they were proved.

### Only model-checked

- `DepositsReleasable`, `CollateralReleasable` without the condition that numbers fit:
  after enough restarts the cumulative rate does overflow, so they hold on bounded
  instances only. What is true of all is `OnlyOverflowLocksDeposits` and
  `OnlyOverflowHoldsCollateral`.
- `DebtBooksAgree`: each refresh of an obligation may round by a wad, and the
  tolerance of one token holds for a bounded number of them.
- `EarningsPaid`: liveness, which is out of the prover's reach, as is `ENABLED`.

## 5. Not modelled

- The byte layout of accounts and instructions. Packing and unpacking are inverse
  functions of one value without any state; what the bytes limit (u128 decimals,
  the size of an obligation) is modelled. (The lending program ignores bytes after
  an instruction, the staking program refuses them.)
- Checks that the accounts of an instruction belong together, are owned by the
  right program and are rent exempt: each is one comparison and an error.
- Error codes: an error is an instruction that is not enabled.
- The command line tools and the SDK, which build and submit transactions.

## 6. Plan

1. Done: arithmetic, reserve, obligation, calculations, lending program, staking
   program, market and oracle, both programs together, the vault they implement,
   `try_pow` against its references, liveness of claims.
2. Done: theorems for every property that holds for all values of the constants
   and is not a liveness property: the invariants, the action properties
   `EarningsKept`, `TokenValueKept` and `ExitLeavesCovered`, the refinement of `Vault` and
   the three statements on `try_pow`.
3. Done: the composition refines the staking program, and the lending program but
   for stakes that are moved directly, so that the theorems about one program hold
   for both together.
4. Left: a bound on the distance of the two books of debt that grows with the
   number of refreshes, from which `DebtBooksAgree` would follow for as long as these
   are few.

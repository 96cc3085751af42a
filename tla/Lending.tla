------------------------------- MODULE Lending -------------------------------
(***************************************************************************)
(* The token-lending program of Port Finance                               *)
(* (token-lending/program/src/processor.rs) on one lending market.         *)
(*                                                                         *)
(* An action is one instruction: the Solana runtime executes it atomically *)
(* and undoes it when it fails, so an instruction is enabled exactly when  *)
(* it succeeds.  Instructions of all users interleave and the slot advances*)
(* between any two.  Accounts that do not belong together are refused by   *)
(* the handlers; the parameters of an action name accounts that do.        *)
(*                                                                         *)
(* Token accounts (SPL token program, external) are balances per reserve:  *)
(* the reserve's own liquidity supply, fee receiver and collateral supply, *)
(* and what users hold, taken together.  A user's stake account in a       *)
(* staking pool (the staking program, module Staking) is here only the     *)
(* amount the lending program keeps deposited in it.                       *)
(***************************************************************************)
EXTENDS Calculations

CONSTANTS
    N,              \* obligations are numbered 1..N, each with its own owner
    Amounts,        \* amounts instructions are given; U64_MAX means "all"
    PricesFor,      \* for each reserve, the prices it may be given, in wads
    ConfigsFor,     \* for each reserve, the configurations its owner may submit
    OracleReserves, \* reserves priced by an oracle, the others have a fixed price
    LiquidityTokens,\* liquidity tokens of each reserve's mint in existence
    MaxOverpay,     \* bound: how much more than required a flash loan returns
    MaxSlot         \* bound: last slot explored

Obligations == 1..N

ASSUME LendingAssumption ==
    /\ N \in Nat
    /\ Amounts \subseteq U64 \ {0}
    /\ PricesFor \in [Reserves -> SUBSET Rate]
    /\ ConfigsFor \in [Reserves -> SUBSET Configs]
    /\ OracleReserves \subseteq Reserves
    /\ LiquidityTokens \in U64
    /\ MaxOverpay \in U64
    /\ MaxSlot \in Nat
    /\ Configs # {}
    /\ MintUnits # {}

VARIABLES
    slot,             \* Clock::slot
    reserve,          \* reserve accounts
    obligation,       \* obligation accounts
    liquiditySupply,  \* balance of reserve.liquidity.supply_pubkey
    feeReceiver,      \* balance of reserve.liquidity.fee_receiver
    collateralSupply, \* balance of reserve.collateral.supply_pubkey
    userLiquidity,    \* liquidity tokens held by users
    userCollateral,   \* collateral tokens held by users
    stake,            \* StakeAccount.deposited_amount of each owner in each pool
    surplus           \* history: tokens flash loans returned beyond their fee

vars == <<slot, reserve, obligation, liquiditySupply, feeReceiver,
          collateralSupply, userLiquidity, userCollateral, stake, surplus>>

Balances == [Reserves -> U64]

TypeOK ==
    /\ slot \in Nat
    /\ reserve \in [Reserves -> ReserveRec]
    /\ obligation \in [Obligations -> ObligationRec]
    /\ liquiditySupply \in Balances
    /\ feeReceiver \in Balances
    /\ collateralSupply \in Balances
    /\ userLiquidity \in Balances
    /\ userCollateral \in Balances
    /\ stake \in [Obligations -> [StakingPools -> U64]]
    /\ surplus \in [Reserves -> Nat]

(***************************************************************************)
(* Accounts before they are initialised.                                   *)
(***************************************************************************)
UninitializedReserve == [
    initialized |-> FALSE, slot |-> 0, stale |-> FALSE, available_amount |-> 0,
    borrowed_amount_wads |-> 0, cumulative_borrow_rate_wads |-> 0,
    market_price |-> 0, mint_unit |-> CHOOSE u \in MintUnits : TRUE,
    mint_total_supply |-> 0, config |-> CHOOSE c \in Configs : TRUE ]

Init ==
    /\ slot = 0
    /\ reserve = [r \in Reserves |-> UninitializedReserve]
    /\ obligation = [o \in Obligations |-> EmptyObligation(FALSE, 0)]
    /\ liquiditySupply = [r \in Reserves |-> 0]
    /\ feeReceiver = [r \in Reserves |-> 0]
    /\ collateralSupply = [r \in Reserves |-> 0]
    /\ userLiquidity = [r \in Reserves |-> LiquidityTokens]
    /\ userCollateral = [r \in Reserves |-> 0]
    /\ stake = [o \in Obligations |-> [p \in StakingPools |-> 0]]
    /\ surplus = [r \in Reserves |-> 0]

(***************************************************************************)
(* SPL token transfer (external): refused without the funds.  The tokens   *)
(* of a mint never exceed a u64, so the credit cannot overflow.            *)
(***************************************************************************)
Credit(balance, r, amount) == [balance EXCEPT ![r] = @ + amount]
Debit(balance, r, amount)  == [balance EXCEPT ![r] = @ - amount]

(* Faulty variant, to show what TypeOK detects: the funds are not checked.  *)
TransferUnchecked(from, to, r, amount) ==
    /\ from' = Debit(from, r, amount)
    /\ to' = Credit(to, r, amount)

Transfer(from, to, r, amount) ==
    /\ from[r] >= amount
    /\ from' = Debit(from, r, amount)
    /\ to' = Credit(to, r, amount)

ReserveFresh(r) == reserve[r].initialized /\ Fresh(reserve[r], slot)
ObligationFresh(o) == obligation[o].initialized /\ Fresh(obligation[o], slot)

(* save one account: Reserve::pack, Obligation::pack *)
SaveReserve(r, res) ==
    \E packed \in Pack(res) : reserve' = [reserve EXCEPT ![r] = packed]
SaveObligation(o, ob) ==
    \E packed \in PackObligation(ob) : obligation' = [obligation EXCEPT ![o] = packed]

(***************************************************************************)
(* The cross-program calls deposit_to_staking_program and                  *)
(* withdraw_from_staking_program (external here): the staking program      *)
(* refuses a zero amount, an overflow, and more than was deposited.        *)
(***************************************************************************)
StakeDeposit(o, pool, amount) ==
    IF pool = NoPool THEN stake' = stake
    ELSE /\ amount > 0
         /\ \E total \in CheckedAdd(stake[o][pool], amount) :
               stake' = [stake EXCEPT ![o][pool] = total]

(* Faulty variant, to show what StakesFollowCollateral detects: the stake stays.  *)
StakeLeft(o, pool, amount) == stake' = stake

StakeWithdraw(o, pool, amount) ==
    IF pool = NoPool THEN stake' = stake
    ELSE /\ amount > 0
         /\ \E left \in CheckedSub(stake[o][pool], amount) :
               stake' = [stake EXCEPT ![o][pool] = left]

(***************************************************************************)
(* The clock sysvar (external).                                            *)
(***************************************************************************)
Tick ==
    /\ slot < MaxSlot
    /\ slot' = slot + 1
    /\ UNCHANGED <<reserve, obligation, liquiditySupply, feeReceiver, collateralSupply,
                   userLiquidity, userCollateral, stake, surplus>>

(***************************************************************************)
(* process_init_reserve: the market owner supplies the first liquidity.    *)
(* The new reserve is stale until its first refresh.                       *)
(***************************************************************************)
NewReserve(price, unit, c) == [
    initialized |-> TRUE, slot |-> slot, stale |-> TRUE, available_amount |-> 0,
    borrowed_amount_wads |-> 0, cumulative_borrow_rate_wads |-> WAD,
    market_price |-> price, mint_unit |-> unit, mint_total_supply |-> 0, config |-> c ]

ProcessInitReserve(r, amount, price, unit, c) ==
    /\ ~reserve[r].initialized
    /\ ValidConfig(c)
    /\ \E d \in DepositLiquidity(NewReserve(price, unit, c), amount) :
         /\ SaveReserve(r, d.reserve)
         /\ userCollateral' = Credit(userCollateral, r, d.collateral_amount)
    /\ Transfer(userLiquidity, liquiditySupply, r, amount)
    /\ UNCHANGED <<slot, obligation, feeReceiver, collateralSupply, stake, surplus>>

(***************************************************************************)
(* process_refresh_reserve: take the oracle's price, accrue interest for   *)
(* the slots elapsed, become fresh.                                        *)
(***************************************************************************)
Priced(r, price) ==
    IF r \in OracleReserves THEN [reserve[r] EXCEPT !.market_price = price] ELSE reserve[r]

ProcessRefreshReserve(r, price) ==
    /\ reserve[r].initialized
    /\ \E accrued \in AccrueInterest(Priced(r, price), slot) :
         SaveReserve(r, UpdateSlot(accrued, slot))
    /\ UNCHANGED <<slot, obligation, liquiditySupply, feeReceiver, collateralSupply,
                   userLiquidity, userCollateral, stake, surplus>>

(***************************************************************************)
(* process_deposit_reserve_liquidity and process_redeem_reserve_collateral.*)
(***************************************************************************)
WithinDepositLimit(res, amount) ==
    \E total \in TotalSupply(res) :
      \E sum \in TryAdd(FromU64(amount), total) :
        \E whole \in TryFloorU64(sum) : whole <= res.config.deposit_limit

ProcessDepositReserveLiquidity(r, amount) ==
    /\ ReserveFresh(r)
    /\ WithinDepositLimit(reserve[r], amount)
    /\ \E d \in DepositLiquidity(reserve[r], amount) :
         /\ SaveReserve(r, MarkStale(d.reserve))
         /\ userCollateral' = Credit(userCollateral, r, d.collateral_amount)
    /\ Transfer(userLiquidity, liquiditySupply, r, amount)
    /\ UNCHANGED <<slot, obligation, feeReceiver, collateralSupply, stake, surplus>>

ProcessRedeemReserveCollateral(r, amount) ==
    /\ ReserveFresh(r)
    /\ userCollateral[r] >= amount
    /\ \E d \in RedeemCollateral(reserve[r], amount) :
         /\ SaveReserve(r, MarkStale(d.reserve))
         /\ Transfer(liquiditySupply, userLiquidity, r, d.liquidity_amount)
    /\ userCollateral' = Debit(userCollateral, r, amount)
    /\ UNCHANGED <<slot, obligation, feeReceiver, collateralSupply, stake, surplus>>

(***************************************************************************)
(* process_init_obligation and process_refresh_obligation.                 *)
(***************************************************************************)
ProcessInitObligation(o) ==
    /\ ~obligation[o].initialized
    /\ SaveObligation(o, EmptyObligation(TRUE, slot))
    /\ UNCHANGED <<slot, reserve, liquiditySupply, feeReceiver, collateralSupply,
                   userLiquidity, userCollateral, stake, surplus>>

ProcessRefreshObligation(o) ==
    /\ obligation[o].initialized
    /\ \E ob \in RefreshObligation(obligation[o], reserve, slot) :
         obligation' = [obligation EXCEPT ![o] = ob]
    /\ UNCHANGED <<slot, reserve, liquiditySupply, feeReceiver, collateralSupply,
                   userLiquidity, userCollateral, stake, surplus>>

(***************************************************************************)
(* process_deposit_obligation_collateral, with the deposit of the same     *)
(* amount into the staking pool of the reserve when it has one.            *)
(***************************************************************************)
DepositObligationCollateral(o, r, res, amount) ==
    /\ obligation[o].initialized
    /\ Fresh(res, slot)
    /\ res.config.loan_to_value_ratio # 0
    /\ \E ob \in AddCollateral(obligation[o], r, amount) : SaveObligation(o, MarkStale(ob))
    /\ StakeDeposit(o, res.config.deposit_staking_pool, amount)

ProcessDepositObligationCollateral(o, r, amount) ==
    /\ reserve[r].initialized
    /\ DepositObligationCollateral(o, r, reserve[r], amount)
    /\ Transfer(userCollateral, collateralSupply, r, amount)
    /\ UNCHANGED <<slot, reserve, liquiditySupply, feeReceiver, userLiquidity, surplus>>

(***************************************************************************)
(* process_deposit_reserve_liquidity_and_obligation_collateral: the        *)
(* collateral minted goes straight to the obligation, and the reserve the  *)
(* deposit made stale is declared fresh in between.                        *)
(***************************************************************************)
ProcessDepositReserveLiquidityAndObligationCollateral(o, r, amount) ==
    /\ ReserveFresh(r)
    /\ WithinDepositLimit(reserve[r], amount)
    /\ \E d \in DepositLiquidity(reserve[r], amount) :
         LET res == UpdateSlot(MarkStale(d.reserve), slot) IN
         /\ SaveReserve(r, res)
         /\ DepositObligationCollateral(o, r, res, d.collateral_amount)
         /\ collateralSupply' = Credit(collateralSupply, r, d.collateral_amount)
    /\ Transfer(userLiquidity, liquiditySupply, r, amount)
    /\ UNCHANGED <<slot, feeReceiver, userCollateral, surplus>>

(***************************************************************************)
(* process_withdraw_obligation_collateral.                                 *)
(***************************************************************************)
ProcessWithdrawObligationCollateral(o, r, amount) ==
    /\ ReserveFresh(r)
    /\ ObligationFresh(o)
    /\ obligation[o].deposits[r].present
    /\ obligation[o].deposits[r].deposited_amount # 0
    /\ \E w \in WithdrawAmount(obligation[o], r, reserve[r].config.loan_to_value_ratio, amount) :
         /\ \E ob \in WithdrawCollateral(obligation[o], r, w) : SaveObligation(o, MarkStale(ob))
         /\ Transfer(collateralSupply, userCollateral, r, w)
         /\ StakeWithdraw(o, reserve[r].config.deposit_staking_pool, w)
    /\ UNCHANGED <<slot, reserve, liquiditySupply, feeReceiver, userLiquidity, surplus>>

(***************************************************************************)
(* process_borrow_obligation_liquidity.  The borrow limit is not consulted *)
(* for the amount U64_MAX.                                                 *)
(***************************************************************************)
WithinBorrowLimit(res, amount) ==
    amount # U64_MAX =>
       \E sum \in TryAdd(FromU64(amount), res.borrowed_amount_wads) :
         \E whole \in TryFloorU64(sum) : whole <= res.config.borrow_limit

ProcessBorrowObligationLiquidity(o, r, amount) ==
    LET res == reserve[r]
        ob  == obligation[o]
    IN
    /\ ReserveFresh(r)
    /\ WithinBorrowLimit(res, amount)
    /\ ObligationFresh(o)
    /\ DepositReserves(ob) # {}
    /\ ob.deposited_value # 0
    /\ \E remaining \in RemainingBorrowValue(ob) \ {0} :
       \E b \in CalculateBorrow(res, amount, remaining) :
         /\ b.receive # 0
         /\ \E lent \in BorrowLiquidity(res, b.borrow_wads) : SaveReserve(r, MarkStale(lent))
         /\ \E owing \in AddLiquidity(ob, r, res.cumulative_borrow_rate_wads, b.borrow_wads) :
               SaveObligation(o, MarkStale(owing))
         /\ liquiditySupply[r] >= b.fee + b.receive
         /\ liquiditySupply' = Debit(liquiditySupply, r, b.fee + b.receive)
         /\ feeReceiver' = Credit(feeReceiver, r, b.fee)
         /\ userLiquidity' = Credit(userLiquidity, r, b.receive)
    /\ UNCHANGED <<slot, collateralSupply, userCollateral, stake, surplus>>

(***************************************************************************)
(* process_repay_obligation_liquidity.                                     *)
(***************************************************************************)
ProcessRepayObligationLiquidity(o, r, amount) ==
    /\ ReserveFresh(r)
    /\ ObligationFresh(o)
    /\ obligation[o].borrows[r].present
    /\ obligation[o].borrows[r].borrowed_amount_wads # 0
    /\ \E p \in CalculateRepay(amount, obligation[o].borrows[r].borrowed_amount_wads) :
         /\ p.repay # 0
         /\ \E res \in RepayLiquidity(reserve[r], p.repay, p.settle) : SaveReserve(r, MarkStale(res))
         /\ \E ob \in RepayDebt(obligation[o], r, p.settle) : SaveObligation(o, MarkStale(ob))
         /\ Transfer(userLiquidity, liquiditySupply, r, p.repay)
    /\ UNCHANGED <<slot, feeReceiver, collateralSupply, userCollateral, stake, surplus>>

(***************************************************************************)
(* process_liquidate_obligation: a liquidator repays a debt in reserve r   *)
(* and takes collateral of reserve w, also out of the owner's stake.  The  *)
(* withdraw reserve is read and not written.                               *)
(***************************************************************************)
Liquidatable(ob, r, w) ==
    /\ ob.deposited_value # 0
    /\ ob.borrowed_value # 0
    /\ ob.borrowed_value >= ob.unhealthy_borrow_value
    /\ ob.borrows[r].present  /\ ob.borrows[r].market_value # 0
    /\ ob.deposits[w].present /\ ob.deposits[w].market_value # 0

ProcessLiquidateObligation(o, r, w, amount) ==
    LET ob == obligation[o] IN
    /\ ReserveFresh(r)
    /\ ReserveFresh(w)
    /\ ObligationFresh(o)
    /\ Liquidatable(ob, r, w)
    /\ \E q \in CalculateLiquidation(reserve[w].config, amount, ob, ob.borrows[r], ob.deposits[w]) :
         /\ q.repay # 0
         /\ q.withdraw # 0
         /\ \E res \in RepayLiquidity(reserve[r], q.repay, q.settle) : SaveReserve(r, MarkStale(res))
         /\ \E repaid \in RepayDebt(ob, r, q.settle) :
              \E seized \in WithdrawCollateral(repaid, w, q.withdraw) : SaveObligation(o, MarkStale(seized))
         /\ Transfer(userLiquidity, liquiditySupply, r, q.repay)
         /\ Transfer(collateralSupply, userCollateral, w, q.withdraw)
         /\ StakeWithdraw(o, reserve[w].config.deposit_staking_pool, q.withdraw)
    /\ UNCHANGED <<slot, feeReceiver, surplus>>

(***************************************************************************)
(* process_flash_loan: lend, call the receiver program, take back.  The    *)
(* receiver is foreign code that cannot call back into this program, so it *)
(* is a choice of how much it returns beyond the loan: at least the fee.   *)
(* Neither the reserve's freshness nor its limits are consulted.           *)
(***************************************************************************)
FlashLoanAmount(res, amount) == IF amount = U64_MAX THEN res.available_amount ELSE amount

ProcessFlashLoan(r, amount, overpaid) ==
    LET res  == reserve[r]
        loan == FlashLoanAmount(res, amount)
    IN
    /\ res.initialized
    /\ \E fees \in CalculateFees(res.config, FromU64(loan), res.config.flash_loan_fee_wad, FALSE) :
         /\ fees.host_fee <= fees.fee
         /\ liquiditySupply[r] + fees.fee \in U64 /\ loan + fees.fee \in U64
         /\ liquiditySupply[r] >= loan
         /\ \E lent \in BorrowLiquidity(res, FromU64(loan)) :
              \E packed \in Pack(lent) :
                \E returned \in RepayLiquidity(packed, loan, FromU64(loan)) : SaveReserve(r, returned)
         /\ userLiquidity[r] >= fees.fee + overpaid
         /\ liquiditySupply' = Credit(liquiditySupply, r, overpaid)
         /\ userLiquidity' = [userLiquidity EXCEPT ![r] = @ - (fees.fee - fees.host_fee) - overpaid]
         /\ feeReceiver' = Credit(feeReceiver, r, fees.fee - fees.host_fee)
    /\ surplus' = Credit(surplus, r, overpaid)
    /\ UNCHANGED <<slot, obligation, collateralSupply, userCollateral, stake>>

(***************************************************************************)
(* process_update_reserve: a new configuration; the reserve and the        *)
(* obligations valued with the old one stay as fresh as they were.         *)
(***************************************************************************)
ProcessUpdateReserve(r, c) ==
    /\ reserve[r].initialized
    /\ ValidConfig(c)
    /\ SaveReserve(r, [reserve[r] EXCEPT !.config = c])
    /\ UNCHANGED <<slot, obligation, liquiditySupply, feeReceiver, collateralSupply,
                   userLiquidity, userCollateral, stake, surplus>>

(* process_withdraw_fee: the whole balance of the fee receiver *)
ProcessWithdrawFee(r) ==
    /\ reserve[r].initialized
    /\ Transfer(feeReceiver, userLiquidity, r, feeReceiver[r])
    /\ UNCHANGED <<slot, reserve, obligation, liquiditySupply, collateralSupply,
                   userCollateral, stake, surplus>>

ReserveStep(r) ==
    \/ \E amount \in Amounts, price \in PricesFor[r], unit \in MintUnits, c \in ConfigsFor[r] :
          ProcessInitReserve(r, amount, price, unit, c)
    \/ \E price \in PricesFor[r] : ProcessRefreshReserve(r, price)
    \/ \E amount \in Amounts : ProcessDepositReserveLiquidity(r, amount)
    \/ \E amount \in Amounts : ProcessRedeemReserveCollateral(r, amount)
    \/ \E amount \in Amounts, overpaid \in 0..MaxOverpay : ProcessFlashLoan(r, amount, overpaid)
    \/ \E c \in ConfigsFor[r] : ProcessUpdateReserve(r, c)
    \/ ProcessWithdrawFee(r)

ObligationStep(o) ==
    \/ ProcessInitObligation(o)
    \/ ProcessRefreshObligation(o)
    \/ \E r \in Reserves, amount \in Amounts :
          \/ ProcessDepositObligationCollateral(o, r, amount)
          \/ ProcessDepositReserveLiquidityAndObligationCollateral(o, r, amount)
          \/ ProcessWithdrawObligationCollateral(o, r, amount)
          \/ ProcessBorrowObligationLiquidity(o, r, amount)
          \/ ProcessRepayObligationLiquidity(o, r, amount)
    \/ \E r, w \in Reserves, amount \in Amounts : ProcessLiquidateObligation(o, r, w, amount)

Next == Tick \/ (\E r \in Reserves : ReserveStep(r)) \/ (\E o \in Obligations : ObligationStep(o))

Spec == Init /\ [][Next]_vars

-----------------------------------------------------------------------------
(***************************************************************************)
(* Safety.                                                                 *)
(***************************************************************************)

(* The tokens in a reserve's liquidity supply account are exactly the      *)
(* available amount the program reckons with, plus what flash loan         *)
(* receivers returned in excess: fees, rounding and write-offs of borrow,  *)
(* repay, liquidation and flash loan never let the two books part.         *)
LiquidityBacked ==
    \A r \in Reserves : liquiditySupply[r] = reserve[r].available_amount + surplus[r]

(* The collateral supply account of a reserve holds exactly the collateral *)
(* recorded in the obligations, all of them together.                      *)
CollateralBacked ==
    \A r \in Reserves :
       collateralSupply[r] =
          SumFunction([o \in Obligations |-> obligation[o].deposits[r].deposited_amount])

(* mint_total_supply, which the exchange rate is computed from, is the     *)
(* number of collateral tokens in existence.                               *)
MintMatches ==
    \A r \in Reserves : reserve[r].mint_total_supply = userCollateral[r] + collateralSupply[r]

(* An obligation that passes the staleness check has been charged all the  *)
(* interest its reserves have accrued: borrow, withdraw, repay and         *)
(* liquidate never work on a debt that is behind.                          *)
InterestSettled ==
    \A o \in Obligations, r \in Reserves :
       (ObligationFresh(o) /\ obligation[o].borrows[r].present) =>
          obligation[o].borrows[r].cumulative_borrow_rate_wads
             = reserve[r].cumulative_borrow_rate_wads

(* The rate a debt was last charged at is positive and never ahead of the  *)
(* reserve's, so that accrue_interest can always be carried out: neither   *)
(* NegativeInterestRate nor a division by zero locks the obligation.       *)
RateNeverAhead ==
    \A o \in Obligations, r \in Reserves :
       obligation[o].borrows[r].present =>
          /\ obligation[o].borrows[r].cumulative_borrow_rate_wads > 0
          /\ obligation[o].borrows[r].cumulative_borrow_rate_wads
                <= reserve[r].cumulative_borrow_rate_wads

(* What a refresh in this very state would make of the obligation. *)
Revalued(o) ==
    RefreshObligation(obligation[o], [r \in Reserves |-> UpdateSlot(reserve[r], slot)], slot)

(* The obligation is fresh and a second refresh would change nothing. *)
Accurate(o) == ObligationFresh(o) /\ Revalued(o) = {obligation[o]}

(* The owner borrows from r or withdraws collateral of r; a liquidation    *)
(* also lowers a debt and is not meant.                                    *)
TakesOut(o, r) ==
    LET old == obligation[o]
        new == obligation'[o]
    IN  /\ new.stale
        /\ \/ new.borrows[r].borrowed_amount_wads > old.borrows[r].borrowed_amount_wads
           \/ /\ new.borrows = old.borrows
              /\ new.deposits[r].deposited_amount < old.deposits[r].deposited_amount

(* When an obligation's recorded values are accurate, borrowing or         *)
(* withdrawing leaves it, valued anew, with debts within what its          *)
(* remaining collateral allows, also when collaterals of different         *)
(* loan-to-value ratios secure one debt.  The fraction of a deposit that   *)
(* is withdrawn and the liquidity it is worth have the precision of a wad, *)
(* which is the tolerance: a wad of the deposits' value and the value of a *)
(* wad of liquidity, each rounded, and what the two products round.        *)
ExitLeavesCovered ==
    [][\A o \in Obligations, r \in Reserves : (Accurate(o) /\ TakesOut(o, r)) =>
         \A ob \in Revalued(o)' :
            ob.borrowed_value
               <= ob.allowed_borrow_value + (obligation[o].deposited_value \div WAD)
                    + (reserve[r].market_price \div (WAD * reserve[r].mint_unit)) + 3]_vars

(* the value backing the collateral tokens, in wads *)
Backing(r) == reserve[r].available_amount * WAD + reserve[r].borrowed_amount_wads

Liquidation ==
    \E o \in Obligations, r, w \in Reserves, amount \in Amounts :
       ProcessLiquidateObligation(o, r, w, amount)

(* what the step does to the liquidity behind a collateral token of r *)
ValueKept(r) ==
    LET m  == reserve[r].mint_total_supply
        m1 == reserve'[r].mint_total_supply
        paid == Backing(r) - Backing(r)'
    IN  m > 0 =>
          IF m1 < m
          THEN paid * (m * WAD * WAD - Backing(r)) <= (m - m1) * WAD * WAD * Backing(r)
          ELSE Backing(r)' * m >= Backing(r) * m1

(* No deposit, borrow, repayment, flash loan or accrual lowers the         *)
(* liquidity behind a collateral token, whatever it rounds, and a          *)
(* redemption pays at most its share at an exchange rate that is rounded   *)
(* down by less than one in WAD; only a liquidation may write off a loss.  *)
TokenValueKept ==
    [][~Liquidation => \A r \in Reserves : ValueKept(r)]_vars

(* a debt with the interest the reserve has accrued since it was last charged *)
AccruedDebt(o, r) ==
    IF obligation[o].borrows[r].present
    THEN Unwrap(AccrueDebt(obligation[o].borrows[r],
                           reserve[r].cumulative_borrow_rate_wads)).borrowed_amount_wads
    ELSE 0

(* The reserve's total of borrowed liquidity and the debts of all          *)
(* obligations, each compounded on its own, stay within one token of each  *)
(* other: the clamp of ReserveLiquidity::repay hides rounding only.        *)
DebtBooksAgree ==
    \A r \in Reserves :
       LET drift == SumFunction([o \in Obligations |-> AccruedDebt(o, r)])
                      - reserve[r].borrowed_amount_wads
       IN  -WAD < drift /\ drift < WAD

(* While a reserve keeps its staking pool, an owner's stake is exactly the *)
(* collateral recorded in her obligation: deposit, withdrawal and          *)
(* liquidation keep the two programs in step.                              *)
StakeMatchesCollateral ==
    \A o \in Obligations, p \in StakingPools :
       stake[o][p] =
          SumFunction([r \in {r \in Reserves : reserve[r].config.deposit_staking_pool = p} |->
                         obligation[o].deposits[r].deposited_amount])

(* The entries of an obligation always fit into its account, which has     *)
(* room for one collateral and MAX_OBLIGATION_RESERVES - 1 debts.  A debt  *)
(* takes more bytes than a collateral, and the checks count entries: the   *)
(* vectors fit because the first debt needs a collateral, and no           *)
(* withdrawal or liquidation makes room for a debt in its place.  If they  *)
(* did not, pack would panic and nobody could touch the obligation again.  *)
ObligationFits ==
    \A o \in Obligations :
       OBLIGATION_COLLATERAL_LEN * Cardinality(DepositReserves(obligation[o]))
         + OBLIGATION_LIQUIDITY_LEN * Cardinality(BorrowReserves(obligation[o]))
         <= OBLIGATION_COLLATERAL_LEN
              + OBLIGATION_LIQUIDITY_LEN * (MAX_OBLIGATION_RESERVES - 1)

-----------------------------------------------------------------------------
(***************************************************************************)
(* Statements of the source that the program does not keep.                *)
(***************************************************************************)

(* "Maximum borrow limit of liquidity in native units": no borrow leaves   *)
(* the reserve's borrowed liquidity above its configured limit.            *)
BorrowLimitRespected ==
    [][\A r \in Reserves :
         (/\ reserve'[r].borrowed_amount_wads > reserve[r].borrowed_amount_wads
          /\ liquiditySupply'[r] < liquiditySupply[r]) =>
            reserve'[r].borrowed_amount_wads \div WAD <= reserve[r].config.borrow_limit]_vars

(* "settle_amount ... includes the amount of loan that was defaulted if    *)
(* collateral is depleted": a step settles more of a debt than it pays for *)
(* only by using up a collateral of the obligation.                        *)
DefaultOnlyWhenDepleted ==
    [][\A o \in Obligations, r \in Reserves :
         LET settled == obligation[o].borrows[r].borrowed_amount_wads
                          - obligation'[o].borrows[r].borrowed_amount_wads
         IN  (settled > 0 /\ settled > FromU64(liquiditySupply'[r] - liquiditySupply[r])) =>
               \E w \in DepositReserves(obligation[o]) : w \notin DepositReserves(obligation'[o])]_vars
=============================================================================

-------------------------------- MODULE Vault ---------------------------------
(***************************************************************************)
(* What a lending market promises the holders of its collateral tokens,    *)
(* without obligations, slots, fees or staleness: each reserve is a vault  *)
(* of liquidity tokens, some in cash and some lent, that backs claims.     *)
(* Tokens enter and leave at the price of a claim, loans take out at most  *)
(* what they add to the debt, repayments bring in at least what they take  *)
(* off it, interest only adds, and a loss is written off in small pieces.  *)
(***************************************************************************)
EXTENDS Integers

CONSTANTS
    Reserves,       \* the vaults
    WAD,            \* debts are kept in fractions of a token, WAD to the token
    WriteOffLimit   \* bound on the debt a single step may forgive, in wads

VARIABLES
    cash,           \* liquidity tokens in the vault
    debt,           \* liquidity lent and owed with interest, in wads
    claims          \* collateral tokens in existence

vars == <<cash, debt, claims>>

Amount == [Reserves -> Nat]

VaultTypeOK == cash \in Amount /\ debt \in Amount /\ claims \in Amount

VaultInit ==
    /\ cash = [r \in Reserves |-> 0]
    /\ debt = [r \in Reserves |-> 0]
    /\ claims = [r \in Reserves |-> 0]

(* what the claims on vault r are worth together, in wads *)
Backing(r) == cash[r] * WAD + debt[r]

(* Liquidity comes in and claims are issued, too few to dilute the others. *)
Enter(r) ==
    /\ cash'[r] > cash[r]
    /\ claims'[r] >= claims[r]
    /\ debt'[r] = debt[r]
    /\ claims[r] > 0 => Backing(r)' * claims[r] >= Backing(r) * claims'[r]

(* Claims are redeemed at their price, the claims per token rounded down   *)
(* to a fraction of one in WAD: the liquidity that leaves is at most the   *)
(* share of one who held that fraction more of every token's claims.       *)
Leave(r) ==
    LET paid  == Backing(r) - Backing(r)'
        burnt == claims[r] - claims'[r]
    IN  /\ burnt > 0
        /\ cash'[r] <= cash[r]
        /\ debt'[r] = debt[r]
        /\ paid * (claims[r] * WAD * WAD - Backing(r)) <= burnt * WAD * WAD * Backing(r)

(* Liquidity is lent, and all of it is owed. *)
Lend(r) ==
    /\ cash'[r] < cash[r]
    /\ debt'[r] - debt[r] >= (cash[r] - cash'[r]) * WAD
    /\ claims'[r] = claims[r]

(* Liquidity is repaid, and no more debt is settled than was paid for. *)
Settle(r) ==
    /\ cash'[r] > cash[r]
    /\ debt'[r] <= debt[r]
    /\ debt[r] - debt'[r] <= (cash'[r] - cash[r]) * WAD
    /\ claims'[r] = claims[r]

(* A small debt is closed for a payment that need not cover it. *)
WriteOff(r) ==
    /\ cash'[r] > cash[r]
    /\ debt'[r] <= debt[r]
    /\ debt[r] - debt'[r] < WriteOffLimit
    /\ claims'[r] = claims[r]

(* Interest. *)
Accrue(r) ==
    /\ debt'[r] >= debt[r]
    /\ cash'[r] = cash[r]
    /\ claims'[r] = claims[r]

Move(r) == Enter(r) \/ Leave(r) \/ Lend(r) \/ Settle(r) \/ WriteOff(r) \/ Accrue(r)

Untouched(r) ==
    cash'[r] = cash[r] /\ debt'[r] = debt[r] /\ claims'[r] = claims[r]

(* A step moves the liquidity of at most one vault. *)
VaultNext == \E r \in Reserves : Move(r) /\ \A q \in Reserves \ {r} : Untouched(q)

VaultSpec == VaultInit /\ [][VaultNext]_vars
==============================================================================

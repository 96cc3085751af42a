----------------------------- MODULE Compounding ------------------------------
(***************************************************************************)
(* Rate::try_pow against reference definitions, over bounded inputs.  The  *)
(* factor by which debts grow is base^exp, where base is one plus the rate *)
(* per slot and exp the number of slots since the last refresh; the state  *)
(* is the pair of the two, as it is when a reserve waits for its refresh.  *)
(***************************************************************************)
EXTENDS WadMath

CONSTANTS
    Bases,     \* bases explored, at least one whole
    MaxSlots   \* bound: longest time without a refresh

ASSUME CompoundingAssumption ==
    /\ Bases \subseteq Rate
    /\ \A b \in Bases : b >= WAD
    /\ MaxSlots \in Nat

VARIABLES
    base,      \* one plus the borrow rate per slot
    elapsed    \* slots since the last refresh

vars == <<base, elapsed>>

Init == base \in Bases /\ elapsed = 0

(* one more slot passes without a refresh (external) *)
Wait == elapsed < MaxSlots /\ elapsed' = elapsed + 1 /\ UNCHANGED base

(* accrue_interest in process_refresh_reserve: it needs the power, and the *)
(* utilisation that the next rate follows from may have changed.           *)
Refresh == /\ TryPow(base, elapsed) # {}
           /\ elapsed' = 0
           /\ base' \in Bases

(* process_update_reserve changes the rate and accrues nothing first: the  *)
(* new rate counts for the slots that have already passed.                 *)
Reconfigure == base' \in Bases /\ UNCHANGED elapsed

Next == Wait \/ Refresh \/ Reconfigure

Spec == Init /\ [][Next]_vars

-----------------------------------------------------------------------------
(* The references: interest on the principal alone, and a repeated         *)
(* product rounded up, which is never below the exact power.  The second   *)
(* saturates above U128_MAX.                                               *)
Simple(b, n) == WAD + n * (b - WAD)

Power(b, n) ==
    LET P[i \in Nat] == IF i = 0 THEN WAD
                        ELSE LET p == P[i - 1]
                             IN  IF p > U128_MAX THEN p ELSE (p * b + (WAD - 1)) \div WAD
    IN  P[n]

(* Squaring and rounding down on the way, the code's power never exceeds   *)
(* the exact one and never falls below simple interest: a debt grows by at *)
(* least its rate for every slot, however long nobody refreshed.           *)
GrowthBracketed ==
    \A factor \in TryPow(base, elapsed) :
       Simple(base, elapsed) <= factor /\ factor <= Power(base, elapsed)

(* try_pow squares its base once more than the product needs.  Still it    *)
(* cannot fail before the debt's growth over twice the time would have     *)
(* overflowed: half the horizon is what the extra square costs.            *)
FailsOnlyBeyondSquare ==
    Power(base, 2 * elapsed) * WAD <= U128_MAX => TryPow(base, elapsed) # {}

(* Once a reserve has gone without a refresh for so long that try_pow      *)
(* fails, no later refresh succeeds at that rate (only the market owner    *)
(* can then free it, with another configuration); and until then waiting   *)
(* longer never makes the growth smaller.                                  *)
WaitingNeverHelps ==
    [][Wait => \A later \in TryPow(base, elapsed') :
                 \E factor \in TryPow(base, elapsed) : factor <= later]_vars
==============================================================================

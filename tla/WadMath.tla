------------------------------- MODULE WadMath -------------------------------
(***************************************************************************)
(* The fixed-point arithmetic of token-lending/program/src/math: Decimal   *)
(* (a U192 scaled by WAD) and Rate (a U128 scaled by WAD).                 *)
(*                                                                         *)
(* A fallible operation (Result<T, ProgramError> in the code) is the set   *)
(* of its possible results: {v} for Ok(v), {} for Err.  A chain of `?` is  *)
(* then a chain of quantifiers, and an instruction that would return an    *)
(* error has no successor state, which is what the Solana runtime makes of *)
(* it: a failed instruction leaves every account as it was.                *)
(***************************************************************************)
EXTENDS Integers

CONSTANTS
    WAD,        \* the scale, 10^18 in the code
    HUNDRED,    \* one whole in percent, 100 in the code
    U64_MAX,    \* largest u64, also the "everything" amount of the instructions
    U128_MAX,   \* largest raw value of a Rate, and of a Decimal once packed
    U192_MAX    \* largest raw value of a Decimal

ASSUME WadAssumption ==
    /\ WAD \in Nat \ {0}
    /\ HUNDRED \in Nat \ {0}
    /\ \E k \in 1..WAD : WAD = k * HUNDRED
    /\ U64_MAX \in Nat \ {0}
    /\ U128_MAX \in Nat
    /\ U192_MAX \in Nat
    /\ WAD <= U128_MAX
    /\ U64_MAX * WAD <= U128_MAX
    /\ U128_MAX * WAD <= U192_MAX

U64     == 0..U64_MAX
Rate    == 0..U128_MAX
Decimal == 0..U192_MAX

PERCENT_SCALER == WAD \div HUNDRED

FromPercent(percent) == percent * PERCENT_SCALER
FromU64(val)         == val * WAD

(* u64::checked_add and u64::checked_sub *)
CheckedAdd(a, b) == {a + b} \cap U64
CheckedSub(a, b) == {a - b} \cap U64

(* Decimal: an argument that is a Rate is converted to a Decimal first. *)
TryAdd(a, b) == {a + b} \cap Decimal
TrySub(a, b) == {a - b} \cap Decimal
TryMul(a, b) == IF a * b \in Decimal THEN {(a * b) \div WAD} \cap Decimal ELSE {}
TryDiv(a, b) == IF a * WAD \in Decimal /\ b > 0
                THEN {(a * WAD) \div b} \cap Decimal ELSE {}

(* Decimal with a u64 on the right: no rescaling. *)
TryMulU64(a, n) == {a * n} \cap Decimal
TryDivU64(a, n) == IF n > 0 THEN {a \div n} \cap Decimal ELSE {}

TryFloorU64(a) == {a \div WAD} \cap U64
TryCeilU64(a)  == IF a + (WAD - 1) \in Decimal
                  THEN {(a + (WAD - 1)) \div WAD} \cap U64 ELSE {}
TryRoundU64(a) == IF a + (WAD \div 2) \in Decimal
                  THEN {(a + (WAD \div 2)) \div WAD} \cap U64 ELSE {}

(* Rate *)
RateTryFrom(decimal) == {decimal} \cap Rate
RateAdd(a, b)    == {a + b} \cap Rate
RateSub(a, b)    == {a - b} \cap Rate
(* Faulty variant, to show what WaitingNeverHelps detects: the product wraps around.  *)
RateMulWrapping(a, b) == {((a * b) % (U128_MAX + 1)) \div WAD}
RateMul(a, b)    == IF a * b \in Rate THEN {(a * b) \div WAD} \cap Rate ELSE {}
RateDiv(a, b)    == IF a * WAD \in Rate /\ b > 0
                    THEN {(a * WAD) \div b} \cap Rate ELSE {}
RateDivU64(a, n) == IF n > 0 THEN {a \div n} \cap Rate ELSE {}

(***************************************************************************)
(* Rate::try_pow, square and multiply.  The loop squares the base once     *)
(* more than the product needs, so an overflow of that last square is an   *)
(* error of the whole power.                                               *)
(***************************************************************************)
PowState == [exp : Nat, base : Rate, ret : Rate]
At(exp, base, ret) == [exp |-> exp, base |-> base, ret |-> ret]

PowLoop[s \in PowState] ==
    IF s.exp = 0 THEN {s.ret}
    ELSE LET half == s.exp \div 2 IN
         UNION {UNION {PowLoop[At(half, b, r)] :
                       r \in IF half % 2 # 0 THEN RateMul(s.ret, b) ELSE {s.ret}} :
                b \in RateMul(s.base, s.base)}

(* Faulty variant, to show what GrowthBracketed detects: an odd exponent loses a factor.  *)
TryPowFromOne(base0, exp0) == PowLoop[At(exp0, base0, WAD)]

(* Faulty variant, to show what FailsOnlyBeyondSquare detects: the loop runs two rounds more.  *)
TryPowTooLong(base0, exp0) ==
    {factor \in PowLoop[At(exp0, base0, IF exp0 % 2 # 0 THEN base0 ELSE WAD)] :
     PowLoop[At(4 * exp0, base0, WAD)] # {}}

TryPow(base0, exp0) == PowLoop[At(exp0, base0, IF exp0 % 2 # 0 THEN base0 ELSE WAD)]

Least(a, b)    == IF a <= b THEN a ELSE b
Greatest(a, b) == IF a >= b THEN a ELSE b
==============================================================================

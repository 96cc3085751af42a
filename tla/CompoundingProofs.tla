-------------------------- MODULE CompoundingProofs ---------------------------
(***************************************************************************)
(* GrowthBracketed, FailsOnlyBeyondSquare and WaitingNeverHelps of         *)
(* Compounding, for every base of at least one, any number of slots, any   *)
(* scale and any width of the numbers.                                     *)
(***************************************************************************)
EXTENDS Compounding, PowerProofs

-----------------------------------------------------------------------------
(***************************************************************************)
(* Functions defined by recursion on a natural number exist.  The step is  *)
(* a function, so that the fact can be used for any of them.               *)
(***************************************************************************)
Prefix(g, n, S, first, step) ==
    /\ g \in [0..n -> S]
    /\ g[0] = first
    /\ \A i \in 0..n : i < n => g[i + 1] = step[g[i]]

LEMMA PrefixExists ==
    ASSUME NEW S, NEW first \in S, NEW step \in [S -> S], NEW n \in Nat
    PROVE  \E g : Prefix(g, n, S, first, step)
<1> DEFINE Bad == {k \in Nat : ~\E g : Prefix(g, k, S, first, step)}
<1> SUFFICES ASSUME Bad # {} PROVE FALSE
  OBVIOUS
<1>1. PICK k \in Bad : \A m \in Bad : k <= m
  <2>1. Bad \subseteq Nat
    OBVIOUS
  <2> HIDE DEF Bad
  <2> QED BY <2>1, Smallest
<1>2. k \in Nat
  OBVIOUS
<1>3. CASE k = 0
  <2> DEFINE g == [i \in 0..0 |-> first]
  <2>1. Prefix(g, 0, S, first, step)
    BY DEF Prefix
  <2> QED BY <1>1, <1>3, <2>1
<1>4. CASE k > 0
  <2>1. k - 1 \in Nat /\ k - 1 \notin Bad
    BY <1>1, <1>2, <1>4
  <2>2. PICK g : Prefix(g, k - 1, S, first, step)
    BY <2>1
  <2> DEFINE h == [i \in 0..k |-> IF i = k THEN step[g[k - 1]] ELSE g[i]]
  <2>3. /\ g \in [0..(k - 1) -> S] /\ g[0] = first
        /\ \A i \in 0..(k - 1) : i < k - 1 => g[i + 1] = step[g[i]]
    BY <2>2 DEF Prefix
  <2>4. h \in [0..k -> S]
    BY <1>2, <1>4, <2>3
  <2>5. h[0] = first
    BY <1>2, <1>4, <2>3
  <2>6. ASSUME NEW i \in 0..k, i < k PROVE h[i + 1] = step[h[i]]
    <3>1. i \in 0..(k - 1) /\ i + 1 \in 0..k /\ h[i] = g[i]
      BY <1>2, <1>4, <2>6
    <3>2. CASE i = k - 1
      BY <1>2, <3>1, <3>2
    <3>3. CASE i < k - 1
      <4>1. h[i + 1] = g[i + 1]
        BY <1>2, <3>1, <3>3
      <4> QED BY <2>3, <3>1, <3>3, <4>1
    <3> QED BY <1>2, <3>1, <3>2, <3>3
  <2>7. Prefix(h, k, S, first, step)
    <3> HIDE DEF h
    <3> QED BY <2>4, <2>5, <2>6 DEF Prefix
  <2> QED BY <1>1, <2>7
<1> QED BY <1>2, <1>3, <1>4

LEMMA PrefixesAgree ==
    ASSUME NEW S, NEW first \in S, NEW step \in [S -> S],
           NEW n \in Nat, NEW g, NEW h, Prefix(g, n, S, first, step), Prefix(h, n + 1, S, first, step)
    PROVE  g[n] = h[n]
<1> DEFINE Bad == {i \in 0..n : g[i] # h[i]}
<1> SUFFICES ASSUME Bad # {} PROVE FALSE
  OBVIOUS
<1>1. PICK k \in Bad : \A m \in Bad : k <= m
  <2>1. Bad \subseteq Nat
    OBVIOUS
  <2> HIDE DEF Bad
  <2> QED BY <2>1, Smallest
<1>2. k \in 0..n /\ g[k] # h[k]
  OBVIOUS
<1>3. /\ g[0] = first /\ h[0] = first
      /\ \A i \in 0..n : i < n => g[i + 1] = step[g[i]]
      /\ \A i \in 0..(n + 1) : i < n + 1 => h[i + 1] = step[h[i]]
  BY DEF Prefix
<1>4. k # 0
  BY <1>2, <1>3
<1>5. k - 1 \in 0..n /\ k - 1 < n /\ k - 1 \in 0..(n + 1) /\ k - 1 < n + 1 /\ (k - 1) + 1 = k
  BY <1>2, <1>4
<1>6. g[k - 1] = h[k - 1]
  <2>1. k - 1 \notin Bad
    <3> HIDE DEF Bad
    <3> QED BY <1>1, <1>2, <1>5
  <2> QED BY <1>5, <2>1
<1>7. g[k] = step[g[k - 1]] /\ h[k] = step[h[k - 1]]
  <2>1. g[(k - 1) + 1] = step[g[k - 1]]
    BY <1>3, <1>5
  <2>2. h[(k - 1) + 1] = step[h[k - 1]]
    BY <1>3, <1>5
  <2> QED BY <1>5, <2>1, <2>2
<1> QED BY <1>2, <1>6, <1>7

Recurs(f, S, first, step) ==
    f \in [Nat -> S] /\ f[0] = first /\ \A n \in Nat : f[n + 1] = step[f[n]]

LEMMA Recursion ==
    ASSUME NEW S, NEW first \in S, NEW step \in [S -> S]
    PROVE  \E f : Recurs(f, S, first, step)
<1> DEFINE G(n) == CHOOSE g : Prefix(g, n, S, first, step)
           f == [n \in Nat |-> G(n)[n]]
<1>1. ASSUME NEW n \in Nat PROVE Prefix(G(n), n, S, first, step)
  BY PrefixExists, Zenon
<1> HIDE DEF G
<1>2. f \in [Nat -> S]
  <2>1. ASSUME NEW n \in Nat PROVE G(n)[n] \in S
    BY <1>1 DEF Prefix
  <2> QED BY <2>1
<1>3. f[0] = first
  BY <1>1 DEF Prefix
<1>4. ASSUME NEW n \in Nat PROVE f[n + 1] = step[f[n]]
  <2>1. n + 1 \in Nat /\ n \in 0..(n + 1) /\ n < n + 1
    OBVIOUS
  <2>2. Prefix(G(n), n, S, first, step) /\ Prefix(G(n + 1), n + 1, S, first, step)
    BY <1>1, <2>1
  <2>3. G(n)[n] = G(n + 1)[n]
    BY <2>2, PrefixesAgree
  <2>4. G(n + 1)[n + 1] = step[G(n + 1)[n]]
    BY <2>1, <2>2 DEF Prefix
  <2>5. f[n + 1] = G(n + 1)[n + 1] /\ f[n] = G(n)[n]
    BY <2>1
  <2> QED BY <2>3, <2>4, <2>5
<1>5. Recurs(f, S, first, step)
  <2> HIDE DEF f
  <2> QED BY <1>2, <1>3, <1>4 DEF Recurs
<1> QED BY <1>5

-----------------------------------------------------------------------------
(* The reference: what Power computes. *)
NextPower(p, b) == IF p > U128_MAX THEN p ELSE (p * b + (WAD - 1)) \div WAD

LEMMA NextPowerNat ==
    ASSUME NEW p \in Nat, NEW b \in Nat
    PROVE  NextPower(p, b) \in Nat
<1>1. WAD \in Nat /\ WAD > 0
  BY WadAssumption
<1>2. p * b + (WAD - 1) \in Nat
  <2>1. p * b \in Nat
    OBVIOUS
  <2> QED BY <1>1, <2>1
<1> QED BY <1>1, <1>2, Quotient DEF NextPower

LEMMA PowerIs ==
    ASSUME NEW b \in Nat
    PROVE  /\ Power(b, 0) = WAD
           /\ \A n \in Nat : Power(b, n) \in Nat /\ Power(b, n + 1) = NextPower(Power(b, n), b)
<1> DEFINE Eq(g) == g = [i \in Nat |-> IF i = 0 THEN WAD
                                       ELSE LET p == g[i - 1]
                                            IN  IF p > U128_MAX THEN p ELSE (p * b + (WAD - 1)) \div WAD]
<1>1. WAD \in Nat
  BY WadAssumption
<1>2. PICK once \in [Nat -> Nat] : \A p \in Nat : once[p] = NextPower(p, b)
  <2>1. [p \in Nat |-> NextPower(p, b)] \in [Nat -> Nat]
    BY NextPowerNat
  <2> QED BY <2>1
<1>3. PICK f : Recurs(f, Nat, WAD, once)
  BY <1>1, Recursion
<1>4. f \in [Nat -> Nat] /\ f[0] = WAD /\ \A n \in Nat : f[n + 1] = NextPower(f[n], b)
  BY <1>2, <1>3 DEF Recurs
<1>5. Eq(f)
  <2>1. ASSUME NEW i \in Nat, i # 0 PROVE f[i] = NextPower(f[i - 1], b)
    <3>1. i - 1 \in Nat /\ (i - 1) + 1 = i
      BY <2>1
    <3>2. f[(i - 1) + 1] = NextPower(f[i - 1], b)
      BY <1>4, <3>1
    <3> QED BY <3>1, <3>2
  <2> QED BY <1>4, <2>1 DEF NextPower
<1> DEFINE P == CHOOSE g : Eq(g)
<1>6. Eq(P)
  <2> HIDE DEF Eq
  <2> QED BY <1>5, Zenon
<1>7. ASSUME NEW n PROVE Power(b, n) = P[n]
  BY Zenon DEF Power
<1> HIDE DEF P
<1>8. P[0] = WAD /\ \A n \in Nat : P[n + 1] = NextPower(P[n], b)
  <2>1. P[0] = WAD
    BY <1>6
  <2>2. ASSUME NEW n \in Nat PROVE P[n + 1] = NextPower(P[n], b)
    <3>1. n + 1 \in Nat /\ n + 1 # 0 /\ (n + 1) - 1 = n
      OBVIOUS
    <3> QED BY <1>6, <3>1 DEF NextPower
  <2> QED BY <2>1, <2>2
<1>9. ASSUME NEW n \in Nat PROVE P[n] \in Nat
  <2> DEFINE Bad == {k \in Nat : P[k] \notin Nat}
  <2> SUFFICES ASSUME Bad # {} PROVE FALSE
    OBVIOUS
  <2>1. PICK k \in Bad : \A m \in Bad : k <= m
    <3>1. Bad \subseteq Nat
      OBVIOUS
    <3> HIDE DEF Bad
    <3> QED BY <3>1, Smallest
  <2>2. k # 0 /\ k \in Nat /\ P[k] \notin Nat
    BY <1>1, <1>8
  <2>3. k - 1 \in Nat /\ (k - 1) + 1 = k
    BY <2>2
  <2>4. P[k - 1] \in Nat
    <3>1. k - 1 \notin Bad
      <4> HIDE DEF Bad
      <4> QED BY <2>1, <2>2, <2>3
    <3> QED BY <2>3, <3>1
  <2>5. P[(k - 1) + 1] = NextPower(P[k - 1], b)
    BY <1>8, <2>3
  <2> QED BY <2>2, <2>3, <2>4, <2>5, NextPowerNat
<1> QED BY <1>7, <1>8, <1>9

-----------------------------------------------------------------------------
(***************************************************************************)
(* Exact powers, of the base and of the scale: base^n / WAD^n is what      *)
(* Power rounds up and try_pow rounds down.                                *)
(***************************************************************************)
IsPower(F, c) == F \in [Nat -> Nat] /\ F[0] = 1 /\ \A n \in Nat : F[n + 1] = F[n] * c

LEMMA PowersExist ==
    ASSUME NEW c \in Nat
    PROVE  \E F : IsPower(F, c)
<1>1. PICK once \in [Nat -> Nat] : \A p \in Nat : once[p] = p * c
  <2>1. [p \in Nat |-> p * c] \in [Nat -> Nat]
    OBVIOUS
  <2> QED BY <2>1
<1>2. PICK F : Recurs(F, Nat, 1, once)
  BY Recursion
<1>3. IsPower(F, c)
  BY <1>1, <1>2 DEF Recurs, IsPower
<1> QED BY <1>3

LEMMA PowerPositive ==
    ASSUME NEW F, NEW c \in Nat, c > 0, IsPower(F, c), NEW n \in Nat
    PROVE  F[n] \in Nat /\ F[n] > 0
<1> DEFINE Bad == {k \in Nat : ~(F[k] > 0)}
<1>1. F \in [Nat -> Nat] /\ F[0] = 1 /\ \A m \in Nat : F[m + 1] = F[m] * c
  BY DEF IsPower
<1> SUFFICES ASSUME Bad # {} PROVE FALSE
  BY <1>1
<1>2. PICK k \in Bad : \A m \in Bad : k <= m
  <2>1. Bad \subseteq Nat
    OBVIOUS
  <2> HIDE DEF Bad
  <2> QED BY <2>1, Smallest
<1>3. k \in Nat /\ k # 0 /\ ~(F[k] > 0)
  BY <1>1
<1>4. k - 1 \in Nat /\ (k - 1) + 1 = k
  BY <1>3
<1>5. F[k - 1] > 0
  <2>1. k - 1 \notin Bad
    <3> HIDE DEF Bad
    <3> QED BY <1>2, <1>3, <1>4
  <2> QED BY <1>4, <2>1
<1>6. F[k] = F[k - 1] * c
  <2>1. F[(k - 1) + 1] = F[k - 1] * c
    BY <1>1, <1>4
  <2> QED BY <1>4, <2>1
<1>7. F[k - 1] \in Nat
  BY <1>1, <1>4
<1>8. F[k - 1] * c >= F[k - 1]
  <2>1. 1 * F[k - 1] <= c * F[k - 1]
    BY <1>7, TimesMonotone
  <2> QED BY <1>7, <2>1
<1> QED BY <1>1, <1>3, <1>5, <1>6, <1>7, <1>8

LEMMA PowersAdd ==
    ASSUME NEW F, NEW c \in Nat, IsPower(F, c), NEW i \in Nat, NEW j \in Nat
    PROVE  F[i + j] = F[i] * F[j]
<1> DEFINE Bad == {k \in Nat : F[i + k] # F[i] * F[k]}
<1>1. F \in [Nat -> Nat] /\ F[0] = 1 /\ \A m \in Nat : F[m + 1] = F[m] * c
  BY DEF IsPower
<1> SUFFICES ASSUME Bad # {} PROVE FALSE
  OBVIOUS
<1>2. PICK k \in Bad : \A m \in Bad : k <= m
  <2>1. Bad \subseteq Nat
    OBVIOUS
  <2> HIDE DEF Bad
  <2> QED BY <2>1, Smallest
<1>3. k \in Nat /\ F[i + k] # F[i] * F[k]
  OBVIOUS
<1>4. k # 0
  <2>1. F[i] \in Nat /\ i + 0 = i
    BY <1>1
  <2> QED BY <1>1, <1>3, <2>1
<1>5. k - 1 \in Nat /\ (k - 1) + 1 = k /\ i + (k - 1) \in Nat /\ (i + (k - 1)) + 1 = i + k
  BY <1>3, <1>4
<1>6. F[i + (k - 1)] = F[i] * F[k - 1]
  <2>1. k - 1 \notin Bad
    <3> HIDE DEF Bad
    <3> QED BY <1>2, <1>3, <1>5
  <2> QED BY <1>5, <2>1
<1>7. F[k] = F[k - 1] * c
  <2>1. F[(k - 1) + 1] = F[k - 1] * c
    BY <1>1, <1>5
  <2> QED BY <1>5, <2>1
<1>8. F[i + k] = F[i + (k - 1)] * c
  <2>1. F[(i + (k - 1)) + 1] = F[i + (k - 1)] * c
    BY <1>1, <1>5
  <2> QED BY <1>5, <2>1
<1>9. F[i] \in Nat /\ F[k - 1] \in Nat
  BY <1>1, <1>5
<1>10. (F[i] * F[k - 1]) * c = F[i] * (F[k - 1] * c)
  BY <1>9
<1> QED BY <1>3, <1>6, <1>7, <1>8, <1>10

(* The powers of a base of at least one are above those of the scale. *)
LEMMA PowersGrow ==
    ASSUME NEW F, NEW G, NEW c \in Nat, NEW d \in Nat, c <= d, IsPower(F, c), IsPower(G, d), NEW n \in Nat
    PROVE  F[n] <= G[n]
<1> DEFINE Bad == {k \in Nat : ~(F[k] <= G[k])}
<1>1. F \in [Nat -> Nat] /\ F[0] = 1 /\ \A m \in Nat : F[m + 1] = F[m] * c
  BY DEF IsPower
<1>2. G \in [Nat -> Nat] /\ G[0] = 1 /\ \A m \in Nat : G[m + 1] = G[m] * d
  BY DEF IsPower
<1> SUFFICES ASSUME Bad # {} PROVE FALSE
  OBVIOUS
<1>3. PICK k \in Bad : \A m \in Bad : k <= m
  <2>1. Bad \subseteq Nat
    OBVIOUS
  <2> HIDE DEF Bad
  <2> QED BY <2>1, Smallest
<1>4. k \in Nat /\ k # 0 /\ ~(F[k] <= G[k])
  BY <1>1, <1>2
<1>5. k - 1 \in Nat /\ (k - 1) + 1 = k
  BY <1>4
<1>6. F[k - 1] <= G[k - 1]
  <2>1. k - 1 \notin Bad
    <3> HIDE DEF Bad
    <3> QED BY <1>3, <1>4, <1>5
  <2> QED BY <1>5, <2>1
<1>7. F[k] = F[k - 1] * c /\ G[k] = G[k - 1] * d
  <2>1. F[(k - 1) + 1] = F[k - 1] * c /\ G[(k - 1) + 1] = G[k - 1] * d
    BY <1>1, <1>2, <1>5
  <2> QED BY <1>5, <2>1
<1>8. F[k - 1] \in Nat /\ G[k - 1] \in Nat
  BY <1>1, <1>2, <1>5
<1> DEFINE x == F[k - 1]
           y == G[k - 1]
<1>9. x \in Nat /\ y \in Nat /\ x <= y
  BY <1>6, <1>8
<1> HIDE DEF x, y
<1>10. x * c <= y * c
  BY <1>9, TimesMonotone
<1>11. c * y <= d * y
  BY <1>9, TimesMonotone
<1>12. x * c \in Nat /\ y * c \in Nat /\ y * d \in Nat /\ c * y = y * c /\ d * y = y * d
  BY <1>9
<1>13. x * c <= y * d
  BY <1>10, <1>11, <1>12
<1> QED BY <1>4, <1>7, <1>13 DEF x, y

-----------------------------------------------------------------------------
(***************************************************************************)
(* From above: everything the loop computes is at most an exact power.     *)
(***************************************************************************)
Exact(B, W, b) == b \in Nat /\ IsPower(B, b) /\ IsPower(W, WAD)

(* x, scaled by WAD, is at most (b / WAD)^n *)
Below(x, n, B, W) == x * W[n] <= WAD * B[n]

LEMMA ExactIs ==
    ASSUME NEW B, NEW W, NEW b, Exact(B, W, b), NEW n \in Nat
    PROVE  B[n] \in Nat /\ W[n] \in Nat /\ W[n] > 0
<1>1. WAD \in Nat /\ WAD > 0
  BY WadAssumption
<1>2. IsPower(W, WAD) /\ B \in [Nat -> Nat]
  BY DEF Exact, IsPower
<1>3. W[n] \in Nat /\ W[n] > 0
  BY <1>1, <1>2, PowerPositive
<1> QED BY <1>2, <1>3

LEMMA RateMulIs ==
    ASSUME NEW x \in Nat, NEW y \in Nat
    PROVE  /\ x * y \in Nat
           /\ x * y <= U128_MAX => (x * y) \div WAD \in RateMul(x, y)
           /\ \A p \in RateMul(x, y) : p \in Rate /\ p \in Nat /\ p = (x * y) \div WAD /\ x * y <= U128_MAX
<1>1. WAD \in Nat /\ WAD > 0 /\ U128_MAX \in Nat
  BY WadAssumption
<1> DEFINE z == x * y
           q == z \div WAD
<1>2. z \in Nat
  OBVIOUS
<1>3. RateMul(x, y) = IF z \in Rate THEN {q} \cap Rate ELSE {}
  BY DEF RateMul
<1>4. q \in Nat /\ q * WAD <= z
  <2> HIDE DEF z
  <2> QED BY <1>1, <1>2, Quotient
<1> HIDE DEF z, q
<1>5. q <= z
  <2>1. 1 * q <= WAD * q
    BY <1>1, <1>4, TimesMonotone
  <2>2. WAD * q = q * WAD /\ q * WAD \in Nat
    BY <1>1, <1>4
  <2> QED BY <1>2, <1>4, <2>1, <2>2
<1>6. z <= U128_MAX => q \in RateMul(x, y)
  BY <1>1, <1>2, <1>3, <1>4, <1>5 DEF Rate
<1>7. ASSUME NEW p \in RateMul(x, y)
      PROVE  p \in Rate /\ p \in Nat /\ p = q /\ z <= U128_MAX
  BY <1>1, <1>2, <1>3, <1>4 DEF Rate
<1> QED BY <1>2, <1>6, <1>7 DEF z, q

LEMMA ProductBelow ==
    ASSUME NEW B, NEW W, NEW b, Exact(B, W, b),
           NEW x \in Nat, NEW y \in Nat, NEW i \in Nat, NEW j \in Nat,
           Below(x, i, B, W), Below(y, j, B, W)
    PROVE  /\ (x * y) * W[i + j] <= (WAD * WAD) * B[i + j]
           /\ Below((x * y) \div WAD, i + j, B, W)
<1>1. WAD \in Nat /\ WAD > 0
  BY WadAssumption
<1>2. /\ B[i] \in Nat /\ W[i] \in Nat /\ B[j] \in Nat /\ W[j] \in Nat
      /\ i + j \in Nat /\ B[i + j] \in Nat /\ W[i + j] \in Nat
  <2>1. i + j \in Nat
    OBVIOUS
  <2> QED BY <2>1, ExactIs
<1>3. B[i + j] = B[i] * B[j] /\ W[i + j] = W[i] * W[j]
  <2>1. b \in Nat /\ IsPower(B, b) /\ IsPower(W, WAD)
    BY DEF Exact
  <2> QED BY <1>1, <2>1, PowersAdd
<1> DEFINE p == B[i]
           q == B[j]
           u == W[i]
           v == W[j]
<1>4. p \in Nat /\ q \in Nat /\ u \in Nat /\ v \in Nat /\ x * u <= WAD * p /\ y * v <= WAD * q
  BY <1>2 DEF Below
<1>5. B[i + j] = p * q /\ W[i + j] = u * v
  BY <1>3
<1> HIDE DEF p, q, u, v
<1>6. x * u \in Nat /\ WAD * p \in Nat /\ y * v \in Nat /\ WAD * q \in Nat
  BY <1>1, <1>4
<1>7. (x * u) * (y * v) <= (WAD * p) * (WAD * q)
  <2> DEFINE a == x * u
             c == WAD * p
             d == y * v
             e == WAD * q
  <2>1. a \in Nat /\ c \in Nat /\ d \in Nat /\ e \in Nat /\ a <= c /\ d <= e
    BY <1>4, <1>6
  <2> HIDE DEF a, c, d, e
  <2>2. a * d <= c * d
    BY <2>1, TimesMonotone
  <2>3. d * c <= e * c
    BY <2>1, TimesMonotone
  <2>4. a * d \in Nat /\ c * d \in Nat /\ c * e \in Nat /\ d * c = c * d /\ e * c = c * e
    BY <2>1
  <2>5. a * d <= c * e
    BY <2>2, <2>3, <2>4
  <2> QED BY <2>5 DEF a, c, d, e
<1>8. (x * y) * (u * v) = (x * u) * (y * v)
  BY <1>4
<1>9. (WAD * WAD) * (p * q) = (WAD * p) * (WAD * q)
  BY <1>1, <1>4
<1>10. (x * y) * W[i + j] <= (WAD * WAD) * B[i + j]
  BY <1>5, <1>7, <1>8, <1>9
<1> DEFINE z == x * y
           m == W[i + j]
           e == B[i + j]
           f == z \div WAD
<1>11. z \in Nat
  OBVIOUS
<1>12. m \in Nat /\ e \in Nat /\ z * m <= (WAD * WAD) * e
  BY <1>2, <1>10
<1>13. f \in Nat /\ f * WAD <= z
  <2> HIDE DEF z
  <2> QED BY <1>1, <1>11, Quotient
<1> HIDE DEF z, m, e, f
<1>14. (f * WAD) * m <= z * m
  <2>1. f * WAD \in Nat
    BY <1>1, <1>13
  <2> QED BY <1>11, <1>12, <1>13, <2>1, TimesMonotone
<1>15. (f * m) * WAD <= (WAD * e) * WAD
  <2>1. (f * WAD) * m = (f * m) * WAD /\ (WAD * WAD) * e = (WAD * e) * WAD
    BY <1>1, <1>12, <1>13
  <2>2. (f * WAD) * m \in Nat /\ z * m \in Nat /\ (WAD * WAD) * e \in Nat
    BY <1>1, <1>11, <1>12, <1>13
  <2> QED BY <1>12, <1>14, <2>1, <2>2
<1>16. f * m <= WAD * e
  <2>1. f * m \in Int /\ WAD * e \in Int
    BY <1>1, <1>12, <1>13
  <2> QED BY <1>1, <1>15, <2>1, TimesCancels
<1> QED BY <1>10, <1>16 DEF Below, z, m, e, f

LEMMA RoundBelow ==
    ASSUME NEW B, NEW W, NEW b, Exact(B, W, b),
           NEW s \in PowState, s.exp # 0, NEW i \in Nat, NEW j \in Nat,
           Below(s.ret, i, B, W), Below(s.base, j, B, W), NEW t \in Round(s)
    PROVE  Below(t.base, j + j, B, W) /\ Below(t.ret, i + (t.exp % 2) * (j + j), B, W)
<1>1. PICK c \in RateMul(s.base, s.base) : \E r \in Rets(s, c) : t = At(s.exp \div 2, c, r)
  BY DEF Round
<1>2. PICK r \in Rets(s, c) : t = At(s.exp \div 2, c, r)
  BY <1>1
<1>3. s.exp \in Nat /\ s.base \in Nat /\ s.ret \in Nat
  BY WadAssumption DEF PowState, Rate
<1>4. c \in Nat /\ c = (s.base * s.base) \div WAD
  BY <1>3, RateMulIs
<1>5. Below(c, j + j, B, W)
  <2>1. Below((s.base * s.base) \div WAD, j + j, B, W)
    BY <1>3, ProductBelow
  <2> QED BY <1>4, <2>1
<1>6. t.exp = s.exp \div 2 /\ t.base = c /\ t.ret = r
  BY <1>2 DEF At
<1>7. t.exp \in Nat /\ j + j \in Nat
  BY <1>3, <1>6
<1>8. CASE t.exp % 2 # 0
  <2>1. r \in RateMul(s.ret, c)
    BY <1>2, <1>6, <1>8 DEF Rets
  <2>2. r = (s.ret * c) \div WAD
    BY <1>3, <1>4, <2>1, RateMulIs
  <2>3. Below((s.ret * c) \div WAD, i + (j + j), B, W)
    BY <1>3, <1>4, <1>5, <1>7, ProductBelow
  <2>4. (t.exp % 2) * (j + j) = j + j
    <3>1. t.exp % 2 = 1
      BY <1>7, <1>8
    <3> QED BY <1>7, <3>1
  <2> QED BY <1>5, <1>6, <2>2, <2>3, <2>4
<1>9. CASE t.exp % 2 = 0
  <2>1. r = s.ret
    BY <1>2, <1>6, <1>9 DEF Rets
  <2>2. i + (t.exp % 2) * (j + j) = i
    BY <1>7, <1>9
  <2> QED BY <1>5, <1>6, <2>1, <2>2
<1> QED BY <1>8, <1>9

(* the exponent of a state of the loop, split into its rounds *)
LEMMA Rounds ==
    ASSUME NEW h \in Nat, NEW i \in Nat, NEW j \in Nat
    PROVE  /\ h \div 2 \in Nat /\ h % 2 \in Nat /\ h = 2 * (h \div 2) + (h % 2)
           /\ i + (h % 2) * (j + j) \in Nat
           /\ (i + (h % 2) * (j + j)) + 2 * ((h \div 2) * (j + j)) = i + 2 * (h * j)
<1> DEFINE k == h \div 2
           o == h % 2
<1>1. k \in Nat /\ o \in Nat /\ h = 2 * k + o
  OBVIOUS
<1> HIDE DEF k, o
<1>2. i + o * (j + j) \in Nat
  BY <1>1
<1>3. h * j = 2 * (k * j) + o * j
  <2>1. (2 * k + o) * j = 2 * (k * j) + o * j
    BY <1>1
  <2> QED BY <1>1, <2>1
<1>4. o * (j + j) = 2 * (o * j) /\ k * (j + j) = 2 * (k * j)
  BY <1>1
<1>5. k * j \in Nat /\ o * j \in Nat /\ h * j \in Nat
  BY <1>1
<1>6. (i + o * (j + j)) + 2 * (k * (j + j)) = i + 2 * (h * j)
  <2> DEFINE a == o * j
             c == k * j
             d == o * (j + j)
             e == k * (j + j)
             f == h * j
  <2>1. a \in Nat /\ c \in Nat /\ d = 2 * a /\ e = 2 * c /\ f = 2 * c + a
    BY <1>3, <1>4, <1>5
  <2> HIDE DEF a, c, d, e, f
  <2>2. (i + d) + 2 * e = i + 2 * f
    BY <2>1
  <2> QED BY <2>2 DEF d, e, f
<1> QED BY <1>1, <1>2, <1>6 DEF k, o

LEMMA LoopBelow ==
    ASSUME NEW B, NEW W, NEW b, Exact(B, W, b),
           NEW s \in PowState, NEW i \in Nat, NEW j \in Nat,
           Below(s.ret, i, B, W), Below(s.base, j, B, W), NEW x \in PowLoop[s]
    PROVE  Below(x, i + 2 * ((s.exp \div 2) * j), B, W)
<1> DEFINE Fails(u, k, l) == /\ Below(u.ret, k, B, W) /\ Below(u.base, l, B, W)
                             /\ \E y \in PowLoop[u] : ~Below(y, k + 2 * ((u.exp \div 2) * l), B, W)
           Bad == {n \in Nat : \E u \in PowState, k \in Nat, l \in Nat : u.exp = n /\ Fails(u, k, l)}
<1> SUFFICES ASSUME Bad # {} PROVE FALSE
  <2>1. s.exp \in Nat
    BY DEF PowState
  <2> QED BY <2>1
<1>1. PICK n \in Bad : \A m \in Bad : n <= m
  <2>1. Bad \subseteq Nat
    OBVIOUS
  <2> HIDE DEF Bad
  <2> QED BY <2>1, Smallest
<1>2. PICK u \in PowState, k \in Nat, l \in Nat : u.exp = n /\ Fails(u, k, l)
  OBVIOUS
<1>3. PICK y \in PowLoop[u] : ~Below(y, k + 2 * ((u.exp \div 2) * l), B, W)
  BY <1>2
<1>4. u.exp \in Nat /\ Below(u.ret, k, B, W) /\ Below(u.base, l, B, W)
  BY <1>2 DEF PowState
<1>5. CASE u.exp = 0
  <2>1. y = u.ret
    BY <1>3, <1>5, PowLoopIs
  <2>2. k + 2 * ((u.exp \div 2) * l) = k
    BY <1>5
  <2> QED BY <1>3, <1>4, <2>1, <2>2
<1>6. CASE u.exp # 0
  <2>1. PICK t \in Round(u) : y \in PowLoop[t]
    BY <1>3, <1>6, PowLoopIs
  <2>2. t \in PowState /\ t.exp = u.exp \div 2
    BY <1>6, RoundState
  <2>3. Below(t.base, l + l, B, W) /\ Below(t.ret, k + (t.exp % 2) * (l + l), B, W)
    BY <1>4, <1>6, RoundBelow
  <2>4. t.exp \in Nat /\ t.exp < u.exp
    BY <1>4, <1>6, <2>2
  <2>5. t.exp \notin Bad
    <3> HIDE DEF Bad
    <3> QED BY <1>1, <1>2, <1>4, <2>4
  <2>6. /\ l + l \in Nat /\ k + (t.exp % 2) * (l + l) \in Nat
        /\ (k + (t.exp % 2) * (l + l)) + 2 * ((t.exp \div 2) * (l + l)) = k + 2 * (t.exp * l)
    <3> DEFINE h == t.exp
    <3>1. h \in Nat /\ l + l \in Nat
      BY <2>4
    <3> HIDE DEF h
    <3>2. /\ k + (h % 2) * (l + l) \in Nat
          /\ (k + (h % 2) * (l + l)) + 2 * ((h \div 2) * (l + l)) = k + 2 * (h * l)
      BY <3>1, Rounds
    <3> QED BY <3>1, <3>2 DEF h
  <2>7. ~Fails(t, k + (t.exp % 2) * (l + l), l + l)
    BY <2>2, <2>4, <2>5, <2>6
  <2>8. Below(y, (k + (t.exp % 2) * (l + l)) + 2 * ((t.exp \div 2) * (l + l)), B, W)
    BY <2>1, <2>3, <2>7
  <2> QED BY <1>3, <2>2, <2>6, <2>8
<1> QED BY <1>5, <1>6

(* The reference is at least the exact power, until it saturates.          *)
LEMMA PowerAbove ==
    ASSUME NEW B, NEW W, NEW b, Exact(B, W, b), NEW n \in Nat, Power(b, n) <= U128_MAX
    PROVE  WAD * B[n] <= Power(b, n) * W[n]
<1> DEFINE Bad == {k \in Nat : Power(b, k) <= U128_MAX /\ ~(WAD * B[k] <= Power(b, k) * W[k])}
<1> SUFFICES ASSUME Bad # {} PROVE FALSE
  OBVIOUS
<1>1. PICK k \in Bad : \A m \in Bad : k <= m
  <2>1. Bad \subseteq Nat
    OBVIOUS
  <2> HIDE DEF Bad
  <2> QED BY <2>1, Smallest
<1>2. k \in Nat /\ Power(b, k) <= U128_MAX /\ ~(WAD * B[k] <= Power(b, k) * W[k])
  OBVIOUS
<1>3. WAD \in Nat /\ WAD > 0 /\ U128_MAX \in Nat
  BY WadAssumption
<1>4. /\ b \in Nat
      /\ B \in [Nat -> Nat] /\ B[0] = 1 /\ \A m \in Nat : B[m + 1] = B[m] * b
      /\ W \in [Nat -> Nat] /\ W[0] = 1 /\ \A m \in Nat : W[m + 1] = W[m] * WAD
  BY DEF Exact, IsPower
<1>5. Power(b, 0) = WAD /\ \A m \in Nat : Power(b, m) \in Nat /\ Power(b, m + 1) = NextPower(Power(b, m), b)
  BY <1>4, PowerIs
<1>6. k # 0
  BY <1>2, <1>3, <1>4, <1>5
<1>7. k - 1 \in Nat /\ (k - 1) + 1 = k
  BY <1>2, <1>6
<1> DEFINE p == Power(b, k - 1)
           r == Power(b, k)
           e == B[k - 1]
           w == W[k - 1]
<1>8. p \in Nat /\ r \in Nat /\ e \in Nat /\ w \in Nat
  BY <1>2, <1>4, <1>5, <1>7
<1>9. B[k] = e * b /\ W[k] = w * WAD /\ r = NextPower(p, b)
  <2>1. B[(k - 1) + 1] = e * b /\ W[(k - 1) + 1] = w * WAD /\ Power(b, (k - 1) + 1) = NextPower(p, b)
    BY <1>4, <1>5, <1>7
  <2> QED BY <1>7, <2>1
<1>10. p <= U128_MAX
  <2>1. r <= U128_MAX
    BY <1>2
  <2> HIDE DEF p, r
  <2> QED BY <1>3, <1>8, <1>9, <2>1 DEF NextPower
<1>11. WAD * e <= p * w
  <2>1. k - 1 \notin Bad
    <3> HIDE DEF Bad
    <3> QED BY <1>1, <1>2, <1>7
  <2> QED BY <1>7, <1>10, <2>1
<1>12. ~(WAD * (e * b) <= r * (w * WAD))
  BY <1>2, <1>9
<1> HIDE DEF p, r, e, w
<1>13. r = (p * b + (WAD - 1)) \div WAD
  BY <1>3, <1>8, <1>9, <1>10 DEF NextPower
<1>14. p * b \in Nat /\ p * b <= r * WAD
  <2> DEFINE z == p * b
  <2>1. z \in Nat
    BY <1>4, <1>8
  <2>2. r = (z + (WAD - 1)) \div WAD
    BY <1>13
  <2> HIDE DEF z
  <2>3. z + (WAD - 1) \in Nat
    BY <1>3, <2>1
  <2>4. z + (WAD - 1) < r * WAD + WAD
    BY <1>3, <2>2, <2>3, Quotient
  <2>5. r * WAD \in Nat
    BY <1>3, <1>8
  <2>6. z <= r * WAD
    BY <1>3, <2>1, <2>4, <2>5
  <2> QED BY <2>1, <2>6 DEF z
<1>15. (WAD * e) * b <= (p * w) * b
  <2>1. WAD * e \in Nat /\ p * w \in Nat
    BY <1>3, <1>8
  <2> QED BY <1>4, <1>11, <2>1, TimesMonotone
<1>16. (p * b) * w <= (r * WAD) * w
  <2>1. r * WAD \in Nat
    BY <1>3, <1>8
  <2> QED BY <1>8, <1>14, <2>1, TimesMonotone
<1>17. (WAD * e) * b = WAD * (e * b) /\ (p * w) * b = (p * b) * w /\ (r * WAD) * w = r * (w * WAD)
  BY <1>3, <1>4, <1>8
<1>18. WAD * (e * b) \in Nat /\ (p * b) * w \in Nat /\ r * (w * WAD) \in Nat
  BY <1>3, <1>4, <1>8
<1> QED BY <1>12, <1>15, <1>16, <1>17, <1>18

LEMMA ExactExists ==
    ASSUME NEW b \in Nat
    PROVE  \E B, W : Exact(B, W, b)
<1>1. WAD \in Nat
  BY WadAssumption
<1>2. PICK B : IsPower(B, b)
  BY PowersExist
<1>3. PICK W : IsPower(W, WAD)
  BY <1>1, PowersExist
<1> QED BY <1>2, <1>3 DEF Exact

(* where the loop starts *)
Start(b, n) == At(n, b, IF n % 2 # 0 THEN b ELSE WAD)

LEMMA StartBelow ==
    ASSUME NEW B, NEW W, NEW b \in Rate, Exact(B, W, b), NEW n \in Nat
    PROVE  /\ Start(b, n) \in PowState /\ Start(b, n).exp = n /\ Start(b, n).base = b
           /\ n % 2 \in Nat
           /\ Below(Start(b, n).ret, n % 2, B, W) /\ Below(Start(b, n).base, 1, B, W)
           /\ (n % 2) + 2 * ((n \div 2) * 1) = n
<1>1. WAD \in Nat /\ b \in Nat /\ WAD \in Rate
  BY WadAssumption DEF Rate
<1>2. Start(b, n) \in PowState /\ Start(b, n).exp = n /\ Start(b, n).base = b
  BY <1>1 DEF Start, At, PowState
<1>3. /\ B \in [Nat -> Nat] /\ B[0] = 1 /\ \A m \in Nat : B[m + 1] = B[m] * b
      /\ W \in [Nat -> Nat] /\ W[0] = 1 /\ \A m \in Nat : W[m + 1] = W[m] * WAD
  BY DEF Exact, IsPower
<1>4. B[1] = b /\ W[1] = WAD
  <2>1. B[0 + 1] = 1 * b /\ W[0 + 1] = 1 * WAD
    BY <1>3
  <2> QED BY <1>1, <2>1
<1>5. Below(b, 1, B, W) /\ Below(WAD, 0, B, W)
  <2>1. b * WAD <= WAD * b /\ WAD * 1 <= WAD * 1
    BY <1>1
  <2> QED BY <1>3, <1>4, <2>1 DEF Below
<1>6. n % 2 \in Nat /\ (n % 2) + 2 * ((n \div 2) * 1) = n
  OBVIOUS
<1>7. CASE n % 2 # 0
  <2>1. n % 2 = 1 /\ Start(b, n).ret = b
    BY <1>7 DEF Start, At
  <2> QED BY <1>2, <1>5, <1>6, <2>1
<1>8. CASE n % 2 = 0
  <2>1. Start(b, n).ret = WAD
    BY <1>8 DEF Start, At
  <2> QED BY <1>2, <1>5, <1>6, <1>8, <2>1
<1> QED BY <1>7, <1>8

LEMMA FactorBelow ==
    ASSUME NEW b \in Rate, NEW n \in Nat, NEW factor \in TryPow(b, n), factor \in Rate
    PROVE  factor <= Power(b, n)
<1>1. U128_MAX \in Nat /\ b \in Nat /\ factor \in Nat /\ factor <= U128_MAX /\ WAD \in Nat
  BY WadAssumption DEF Rate
<1>2. Power(b, n) \in Nat
  BY <1>1, PowerIs
<1>3. CASE Power(b, n) > U128_MAX
  BY <1>1, <1>2, <1>3
<1>4. CASE Power(b, n) <= U128_MAX
  <2>1. PICK B, W : Exact(B, W, b)
    BY <1>1, ExactExists
  <2>2. /\ Start(b, n) \in PowState /\ Start(b, n).exp = n /\ n % 2 \in Nat
        /\ Below(Start(b, n).ret, n % 2, B, W) /\ Below(Start(b, n).base, 1, B, W)
        /\ (n % 2) + 2 * ((n \div 2) * 1) = n
    BY <2>1, StartBelow
  <2>3. factor \in PowLoop[Start(b, n)]
    BY DEF TryPow, Start
  <2>4. Below(factor, (n % 2) + 2 * ((Start(b, n).exp \div 2) * 1), B, W)
    BY <2>1, <2>2, <2>3, LoopBelow
  <2>5. factor * W[n] <= WAD * B[n]
    BY <2>2, <2>4 DEF Below
  <2>6. WAD * B[n] <= Power(b, n) * W[n]
    BY <1>4, <2>1, PowerAbove
  <2>7. B[n] \in Nat /\ W[n] \in Nat /\ W[n] > 0
    BY <2>1, ExactIs
  <2>8. factor * W[n] <= Power(b, n) * W[n]
    <3>1. factor * W[n] \in Nat /\ WAD * B[n] \in Nat /\ Power(b, n) * W[n] \in Nat
      BY <1>1, <1>2, <2>7
    <3> QED BY <2>5, <2>6, <3>1
  <2> QED BY <1>1, <1>2, <2>7, <2>8, TimesCancels
<1> QED BY <1>1, <1>2, <1>3, <1>4

-----------------------------------------------------------------------------
(* what the state of Compounding is *)
Waiting == base \in Bases /\ elapsed \in Nat

LEMMA WaitingHolds == Spec => []Waiting
<1>1. Init => Waiting
  BY DEF Init, Waiting
<1>2. Waiting /\ [Next]_vars => Waiting'
  BY DEF Waiting, Next, Wait, Refresh, Reconfigure, vars
<1> QED BY <1>1, <1>2, PTL DEF Spec

LEMMA BaseIs ==
    ASSUME Waiting
    PROVE  base \in Rate /\ base \in Nat /\ base >= WAD /\ elapsed \in Nat
  BY CompoundingAssumption, WadAssumption DEF Waiting, Rate

(* For any base of at least one and any number of slots: the factor that   *)
(* try_pow returns, and by which accrue_interest multiplies every debt of  *)
(* the reserve, lies between simple interest and the exact power.          *)
THEOREM GrowthIsBracketed == Spec => []GrowthBracketed
<1>1. Waiting => GrowthBracketed
  <2> SUFFICES ASSUME Waiting, NEW factor \in TryPow(base, elapsed)
               PROVE  Simple(base, elapsed) <= factor /\ factor <= Power(base, elapsed)
    BY DEF GrowthBracketed
  <2>1. base \in Rate /\ base \in Nat /\ base >= WAD /\ elapsed \in Nat /\ WAD \in Nat
    BY BaseIs, WadAssumption
  <2>2. factor \in Rate /\ factor >= WAD + elapsed * (base - WAD)
    BY <2>1, PowerAtLeastSimple
  <2>3. factor <= Power(base, elapsed)
    BY <2>1, <2>2, FactorBelow
  <2>4. Simple(base, elapsed) <= factor
    <3>1. factor \in Int /\ WAD + elapsed * (base - WAD) \in Int
      BY <2>1, <2>2, WadAssumption DEF Rate
    <3> QED BY <2>2, <3>1 DEF Simple
  <2> QED BY <2>3, <2>4
<1> QED BY <1>1, WaitingHolds, PTL

-----------------------------------------------------------------------------
(***************************************************************************)
(* When the loop cannot fail: a product of two factors whose exponents add *)
(* up to no more than m fits while the power of m still does.              *)
(***************************************************************************)
LEMMA Fits ==
    ASSUME NEW B, NEW W, NEW b, Exact(B, W, b), b >= WAD,
           NEW z \in Nat, NEW k \in Nat, NEW m \in Nat, k <= m,
           z * W[k] <= (WAD * WAD) * B[k], Power(b, m) * WAD <= U128_MAX
    PROVE  z <= U128_MAX
<1>1. WAD \in Nat /\ WAD > 0 /\ U128_MAX \in Nat
  BY WadAssumption
<1>2. b \in Nat /\ IsPower(B, b) /\ IsPower(W, WAD)
  BY DEF Exact
<1> DEFINE d == m - k
<1>3. d \in Nat /\ k + d = m
  OBVIOUS
<1> HIDE DEF d
<1>4. B[m] = B[k] * B[d] /\ W[m] = W[k] * W[d]
  <2>1. B[k + d] = B[k] * B[d] /\ W[k + d] = W[k] * W[d]
    BY <1>1, <1>2, <1>3, PowersAdd
  <2> QED BY <1>3, <2>1
<1>5. W[d] <= B[d]
  BY <1>1, <1>2, <1>3, PowersGrow
<1>6. /\ B[k] \in Nat /\ B[d] \in Nat /\ B[m] \in Nat
      /\ W[k] \in Nat /\ W[d] \in Nat /\ W[m] \in Nat /\ W[m] > 0
  BY <1>3, ExactIs
<1> DEFINE p == Power(b, m)
<1>7. p \in Nat /\ p * WAD <= U128_MAX
  BY <1>2, PowerIs
<1>8. p <= U128_MAX
  <2> HIDE DEF p
  <2>1. 1 * p <= WAD * p
    BY <1>1, <1>7, TimesMonotone
  <2>2. WAD * p = p * WAD /\ p * WAD \in Nat
    BY <1>1, <1>7
  <2> QED BY <1>1, <1>7, <2>1, <2>2
<1>9. WAD * B[m] <= p * W[m]
  BY <1>8, PowerAbove
<1> DEFINE bk == B[k]
           bd == B[d]
           wk == W[k]
           wd == W[d]
<1>10. /\ bk \in Nat /\ bd \in Nat /\ wk \in Nat /\ wd \in Nat /\ wd <= bd
       /\ wk * wd \in Nat /\ wk * wd > 0
       /\ z * wk <= (WAD * WAD) * bk
       /\ WAD * (bk * bd) <= p * (wk * wd)
  BY <1>4, <1>5, <1>6, <1>9
<1> HIDE DEF p, bk, bd, wk, wd
<1>11. (z * wk) * wd <= ((WAD * WAD) * bk) * wd
  <2>1. z * wk \in Nat /\ (WAD * WAD) * bk \in Nat
    BY <1>1, <1>10
  <2> QED BY <1>10, <2>1, TimesMonotone
<1>12. wd * ((WAD * WAD) * bk) <= bd * ((WAD * WAD) * bk)
  <2>1. (WAD * WAD) * bk \in Nat
    BY <1>1, <1>10
  <2> QED BY <1>10, <2>1, TimesMonotone
<1>13. (WAD * (bk * bd)) * WAD <= (p * (wk * wd)) * WAD
  <2>1. WAD * (bk * bd) \in Nat /\ p * (wk * wd) \in Nat
    BY <1>1, <1>7, <1>10
  <2> QED BY <1>1, <1>10, <2>1, TimesMonotone
<1>14. /\ (z * wk) * wd = z * (wk * wd)
       /\ ((WAD * WAD) * bk) * wd = wd * ((WAD * WAD) * bk)
       /\ bd * ((WAD * WAD) * bk) = (WAD * (bk * bd)) * WAD
       /\ (p * (wk * wd)) * WAD = (p * WAD) * (wk * wd)
  BY <1>1, <1>7, <1>10
<1>15. /\ z * (wk * wd) \in Nat /\ wd * ((WAD * WAD) * bk) \in Nat
       /\ (WAD * (bk * bd)) * WAD \in Nat /\ (p * WAD) * (wk * wd) \in Nat
  BY <1>1, <1>7, <1>10
<1>16. z * (wk * wd) <= (p * WAD) * (wk * wd)
  BY <1>11, <1>12, <1>13, <1>14, <1>15
<1>17. z <= p * WAD
  <2>1. p * WAD \in Nat
    BY <1>1, <1>7
  <2> QED BY <1>10, <1>16, <2>1, TimesCancels
<1>18. p * WAD \in Nat
  BY <1>1, <1>7
<1> QED BY <1>1, <1>7, <1>17, <1>18

(* a state of the loop whose remaining products have exponents up to m *)
Within(s, i, j, m, B, W) ==
    /\ Below(s.ret, i, B, W) /\ Below(s.base, j, B, W)
    /\ 2 * (s.exp * j) <= m
    /\ i + 2 * ((s.exp \div 2) * j) <= m

LEMMA RoundSucceeds ==
    ASSUME NEW B, NEW W, NEW b, Exact(B, W, b), b >= WAD, NEW m \in Nat, Power(b, m) * WAD <= U128_MAX,
           NEW s \in PowState, s.exp # 0, NEW i \in Nat, NEW j \in Nat, Within(s, i, j, m, B, W)
    PROVE  \E t \in Round(s) : Within(t, i + (t.exp % 2) * (j + j), j + j, m, B, W)
<1>1. s.exp \in Nat /\ s.base \in Nat /\ s.ret \in Nat /\ WAD \in Nat /\ WAD > 0
  BY WadAssumption DEF PowState, Rate
<1>2. /\ Below(s.ret, i, B, W) /\ Below(s.base, j, B, W)
      /\ 2 * (s.exp * j) <= m /\ i + 2 * ((s.exp \div 2) * j) <= m
  BY DEF Within
<1> DEFINE h == s.exp \div 2
           x == s.base * s.base
           c == x \div WAD
           y == s.ret * c
<1>3. h \in Nat /\ 2 * h <= s.exp
  BY <1>1
<1>4. j + j \in Nat /\ j + j <= m
  <2>1. 1 * j <= s.exp * j
    BY <1>1, TimesMonotone
  <2>2. s.exp * j \in Nat
    BY <1>1
  <2> QED BY <1>2, <2>1, <2>2
<1>5. x \in Nat /\ x * W[j + j] <= (WAD * WAD) * B[j + j] /\ Below(c, j + j, B, W)
  <2>1. x \in Nat
    BY <1>1, RateMulIs
  <2>2. /\ (s.base * s.base) * W[j + j] <= (WAD * WAD) * B[j + j]
        /\ Below((s.base * s.base) \div WAD, j + j, B, W)
    BY <1>1, <1>2, ProductBelow
  <2> QED BY <2>1, <2>2
<1>6. x <= U128_MAX
  <2> HIDE DEF x
  <2> QED BY <1>4, <1>5, Fits
<1>7. c \in RateMul(s.base, s.base) /\ c \in Nat
  BY <1>1, <1>6, RateMulIs
<1>8. PICK r \in Rets(s, c) : TRUE
  <2>1. CASE h % 2 # 0
    <3>1. y \in Nat /\ y * W[i + (j + j)] <= (WAD * WAD) * B[i + (j + j)]
      <4> HIDE DEF c
      <4>1. y \in Nat
        BY <1>1, <1>7, RateMulIs
      <4>2. (s.ret * c) * W[i + (j + j)] <= (WAD * WAD) * B[i + (j + j)]
        BY <1>1, <1>2, <1>4, <1>5, <1>7, ProductBelow
      <4> QED BY <4>1, <4>2
    <3>2. i + (j + j) \in Nat /\ i + (j + j) <= m
      <4>1. 1 * j <= h * j
        <5>1. h >= 1
          BY <1>3, <2>1
        <5> HIDE DEF h
        <5> QED BY <1>3, <5>1, TimesMonotone
      <4>2. i + 2 * (h * j) <= m
        BY <1>2
      <4>3. h * j \in Nat
        BY <1>3
      <4> HIDE DEF h
      <4> QED BY <4>1, <4>2, <4>3
    <3>3. y <= U128_MAX
      <4> HIDE DEF y
      <4> QED BY <3>1, <3>2, Fits
    <3>4. y \div WAD \in RateMul(s.ret, c)
      <4> HIDE DEF c
      <4> QED BY <1>1, <1>7, <3>3, RateMulIs
    <3> QED BY <2>1, <3>4 DEF Rets
  <2>2. CASE h % 2 = 0
    BY <2>2 DEF Rets
  <2> QED BY <2>1, <2>2
<1> DEFINE t == At(h, c, r)
<1>9. t \in Round(s) /\ t.exp = h
  BY <1>7, <1>8 DEF Round, At
<1>10. Below(t.base, j + j, B, W) /\ Below(t.ret, i + (t.exp % 2) * (j + j), B, W)
  <2> HIDE DEF t
  <2> QED BY <1>2, <1>9, RoundBelow
<1>11. 2 * (h * (j + j)) <= m
  <2>1. (2 * h) * j <= s.exp * j
    <3> HIDE DEF h
    <3>1. 2 * h \in Nat
      BY <1>3
    <3> QED BY <1>1, <1>3, <3>1, TimesMonotone
  <2>2. h * (j + j) = (2 * h) * j /\ (2 * h) * j \in Nat /\ s.exp * j \in Nat
    BY <1>1, <1>3
  <2> HIDE DEF h
  <2> QED BY <1>2, <2>1, <2>2
<1>12. (i + (h % 2) * (j + j)) + 2 * ((h \div 2) * (j + j)) <= m
  <2>1. i + 2 * (h * j) <= m
    BY <1>2
  <2> HIDE DEF h
  <2>2. (i + (h % 2) * (j + j)) + 2 * ((h \div 2) * (j + j)) = i + 2 * (h * j)
    BY <1>3, Rounds
  <2> QED BY <2>1, <2>2
<1>13. Within(t, i + (t.exp % 2) * (j + j), j + j, m, B, W)
  <2> HIDE DEF t, h
  <2> QED BY <1>9, <1>10, <1>11, <1>12 DEF Within
<1> QED BY <1>9, <1>13

LEMMA LoopSucceeds ==
    ASSUME NEW B, NEW W, NEW b, Exact(B, W, b), b >= WAD, NEW m \in Nat, Power(b, m) * WAD <= U128_MAX,
           NEW s \in PowState, NEW i \in Nat, NEW j \in Nat, Within(s, i, j, m, B, W)
    PROVE  PowLoop[s] # {}
<1> DEFINE Fails(u) == PowLoop[u] = {} /\ \E k \in Nat, l \in Nat : Within(u, k, l, m, B, W)
           Bad == {n \in Nat : \E u \in PowState : u.exp = n /\ Fails(u)}
<1> SUFFICES ASSUME Bad # {} PROVE FALSE
  <2>1. s.exp \in Nat
    BY DEF PowState
  <2> QED BY <2>1
<1>1. PICK n \in Bad : \A e \in Bad : n <= e
  <2>1. Bad \subseteq Nat
    OBVIOUS
  <2> HIDE DEF Bad
  <2> QED BY <2>1, Smallest
<1>2. PICK u \in PowState : u.exp = n /\ Fails(u)
  OBVIOUS
<1>3. PICK k \in Nat, l \in Nat : Within(u, k, l, m, B, W)
  BY <1>2
<1>4. u.exp \in Nat
  BY DEF PowState
<1>5. CASE u.exp = 0
  BY <1>2, <1>5, PowLoopIs
<1>6. CASE u.exp # 0
  <2>1. PICK t \in Round(u) : Within(t, k + (t.exp % 2) * (l + l), l + l, m, B, W)
    BY <1>3, <1>6, RoundSucceeds
  <2>2. t \in PowState /\ t.exp = u.exp \div 2
    BY <1>6, RoundState
  <2>3. t.exp \in Nat /\ t.exp < u.exp
    BY <1>4, <1>6, <2>2
  <2>4. t.exp \notin Bad
    <3> HIDE DEF Bad
    <3> QED BY <1>1, <1>2, <1>4, <2>3
  <2>5. l + l \in Nat /\ k + (t.exp % 2) * (l + l) \in Nat
    <3> DEFINE h == t.exp
    <3>1. h \in Nat /\ l + l \in Nat
      BY <2>3
    <3> HIDE DEF h
    <3>2. k + (h % 2) * (l + l) \in Nat
      BY <3>1, Rounds
    <3> QED BY <3>1, <3>2 DEF h
  <2>6. PowLoop[t] # {}
    BY <2>1, <2>2, <2>3, <2>4, <2>5
  <2>7. PICK x : x \in PowLoop[t]
    BY <2>6
  <2>8. x \in PowLoop[u]
    BY <1>6, <2>1, <2>7, PowLoopIs
  <2> QED BY <1>2, <2>8
<1> QED BY <1>5, <1>6

(* For any base of at least one and any number of slots: try_pow, with the *)
(* square it does not need, succeeds whenever growth over twice the time   *)
(* fits a Rate once more scaled; until then a refresh cannot fail for its  *)
(* power.                                                                  *)
THEOREM FailsOnlyBeyondTheSquare == Spec => []FailsOnlyBeyondSquare
<1>1. Waiting => FailsOnlyBeyondSquare
  <2> SUFFICES ASSUME Waiting, Power(base, 2 * elapsed) * WAD <= U128_MAX
               PROVE  TryPow(base, elapsed) # {}
    BY DEF FailsOnlyBeyondSquare
  <2> DEFINE n == elapsed
             s == Start(base, n)
  <2>1. base \in Rate /\ base \in Nat /\ base >= WAD /\ n \in Nat /\ 2 * n \in Nat
    BY BaseIs
  <2>2. PICK B, W : Exact(B, W, base)
    BY <2>1, ExactExists
  <2>3. /\ s \in PowState /\ s.exp = n /\ n % 2 \in Nat
        /\ Below(s.ret, n % 2, B, W) /\ Below(s.base, 1, B, W)
        /\ (n % 2) + 2 * ((n \div 2) * 1) = n
    BY <2>1, <2>2, StartBelow
  <2>4. Within(s, n % 2, 1, 2 * n, B, W)
    <3>1. 2 * (n * 1) <= 2 * n /\ n <= 2 * n
      BY <2>1
    <3> HIDE DEF s
    <3> QED BY <2>3, <3>1 DEF Within
  <2>5. PowLoop[s] # {}
    <3>1. Power(base, 2 * n) * WAD <= U128_MAX
      OBVIOUS
    <3> HIDE DEF s, n
    <3> QED BY <2>1, <2>2, <2>3, <2>4, <3>1, LoopSucceeds
  <2> QED BY <2>5 DEF TryPow, Start
<1> QED BY <1>1, WaitingHolds, PTL

-----------------------------------------------------------------------------
(***************************************************************************)
(* One slot more.  Two runs of the loop are compared round by round.       *)
(***************************************************************************)

(* what a round does, part by part *)
LEMMA RoundIs ==
    ASSUME NEW s \in PowState, s.exp # 0
    PROVE  /\ \A t \in Round(s) : /\ t.exp = s.exp \div 2
                                  /\ t.base \in RateMul(s.base, s.base)
                                  /\ t.ret \in Rets(s, t.base)
           /\ \A c \in RateMul(s.base, s.base) : \A r \in Rets(s, c) :
                 /\ At(s.exp \div 2, c, r) \in Round(s)
                 /\ At(s.exp \div 2, c, r).exp = s.exp \div 2
                 /\ At(s.exp \div 2, c, r).base = c
                 /\ At(s.exp \div 2, c, r).ret = r
<1>1. ASSUME NEW t \in Round(s)
      PROVE  t.exp = s.exp \div 2 /\ t.base \in RateMul(s.base, s.base) /\ t.ret \in Rets(s, t.base)
  <2>1. PICK c \in RateMul(s.base, s.base) : \E r \in Rets(s, c) : t = At(s.exp \div 2, c, r)
    BY DEF Round
  <2>2. PICK r \in Rets(s, c) : t = At(s.exp \div 2, c, r)
    BY <2>1
  <2> QED BY <2>2 DEF At
<1>2. ASSUME NEW c \in RateMul(s.base, s.base), NEW r \in Rets(s, c)
      PROVE  /\ At(s.exp \div 2, c, r) \in Round(s)
             /\ At(s.exp \div 2, c, r).exp = s.exp \div 2
             /\ At(s.exp \div 2, c, r).base = c
             /\ At(s.exp \div 2, c, r).ret = r
  BY DEF Round, At
<1> QED BY <1>1, <1>2

LEMMA RateMulMonotone ==
    ASSUME NEW x \in Nat, NEW y \in Nat, NEW c \in Nat, x <= y, y * c <= U128_MAX
    PROVE  /\ (x * c) \div WAD \in RateMul(x, c)
           /\ (x * c) \div WAD <= (y * c) \div WAD
<1>1. WAD \in Nat /\ WAD > 0 /\ U128_MAX \in Nat
  BY WadAssumption
<1>2. x * c <= y * c
  BY TimesMonotone
<1>3. x * c \in Nat /\ y * c \in Nat
  BY RateMulIs
<1>4. x * c <= U128_MAX
  <2> DEFINE a == x * c
             d == y * c
  <2>1. a \in Nat /\ d \in Nat /\ a <= d /\ d <= U128_MAX
    BY <1>2, <1>3
  <2> HIDE DEF a, d
  <2>2. a <= U128_MAX
    BY <1>1, <2>1
  <2> QED BY <2>2 DEF a
<1>5. (x * c) \div WAD \in RateMul(x, c)
  BY <1>4, RateMulIs
<1>6. (x * c) \div WAD <= (y * c) \div WAD
  BY <1>1, <1>2, <1>3, QuotientMonotone
<1> QED BY <1>5, <1>6

(* The same rounds with a smaller result so far. *)
Behind(u, v) == u.exp = v.exp /\ u.base = v.base /\ u.ret <= v.ret

LEMMA RetsBehind ==
    ASSUME NEW u \in PowState, NEW v \in PowState, u.exp \div 2 = v.exp \div 2, u.ret <= v.ret,
           NEW c \in Nat, NEW q \in Rets(v, c)
    PROVE  \E p \in Rets(u, c) : p <= q
<1>1. u.ret \in Nat /\ v.ret \in Nat
  BY WadAssumption DEF PowState, Rate
<1>2. CASE (u.exp \div 2) % 2 # 0
  <2>1. q \in RateMul(v.ret, c) /\ Rets(u, c) = RateMul(u.ret, c)
    BY <1>2 DEF Rets
  <2>2. q = (v.ret * c) \div WAD /\ v.ret * c <= U128_MAX
    BY <1>1, <2>1, RateMulIs
  <2>3. (u.ret * c) \div WAD \in RateMul(u.ret, c) /\ (u.ret * c) \div WAD <= (v.ret * c) \div WAD
    BY <1>1, <2>2, RateMulMonotone
  <2> QED BY <2>1, <2>2, <2>3
<1>3. CASE (u.exp \div 2) % 2 = 0
  <2>1. q = v.ret /\ Rets(u, c) = {u.ret}
    BY <1>3 DEF Rets
  <2> QED BY <2>1
<1> QED BY <1>2, <1>3

LEMMA RoundBehind ==
    ASSUME NEW u \in PowState, NEW v \in PowState, u.exp # 0, v.exp # 0,
           u.exp \div 2 = v.exp \div 2, u.base = v.base, u.ret <= v.ret, NEW t \in Round(v)
    PROVE  \E w \in Round(u) : Behind(w, t)
<1> DEFINE c == t.base
<1>1. t.exp = v.exp \div 2 /\ c \in RateMul(v.base, v.base) /\ t.ret \in Rets(v, c)
  BY RoundIs
<1>2. v.base \in Nat
  BY WadAssumption DEF PowState, Rate
<1>3. c \in Nat
  <2> HIDE DEF c
  <2> QED BY <1>1, <1>2, RateMulIs
<1>4. PICK p \in Rets(u, c) : p <= t.ret
  <2> HIDE DEF c
  <2> QED BY <1>1, <1>3, RetsBehind
<1> DEFINE w == At(u.exp \div 2, c, p)
<1>5. c \in RateMul(u.base, u.base)
  BY <1>1
<1>6. w \in Round(u) /\ w.exp = u.exp \div 2 /\ w.base = c /\ w.ret = p
  <2> HIDE DEF c
  <2> QED BY <1>4, <1>5, RoundIs
<1> HIDE DEF w
<1> QED BY <1>1, <1>4, <1>6 DEF Behind

LEMMA LoopMonotone ==
    ASSUME NEW u \in PowState, NEW v \in PowState, Behind(u, v), NEW y \in PowLoop[v]
    PROVE  \E x \in PowLoop[u] : x <= y
<1> DEFINE Fails(a, b) == Behind(a, b) /\ \E z \in PowLoop[b] : ~\E x \in PowLoop[a] : x <= z
           Bad == {n \in Nat : \E a \in PowState, b \in PowState : a.exp = n /\ Fails(a, b)}
<1> SUFFICES ASSUME Bad # {} PROVE FALSE
  <2>1. u.exp \in Nat
    BY DEF PowState
  <2> QED BY <2>1
<1>1. PICK n \in Bad : \A m \in Bad : n <= m
  <2>1. Bad \subseteq Nat
    OBVIOUS
  <2> HIDE DEF Bad
  <2> QED BY <2>1, Smallest
<1>2. PICK a \in PowState, b \in PowState : a.exp = n /\ Fails(a, b)
  OBVIOUS
<1>3. PICK z \in PowLoop[b] : ~\E x \in PowLoop[a] : x <= z
  BY <1>2
<1>4. a.exp \in Nat /\ a.exp = b.exp /\ a.base = b.base /\ a.ret <= b.ret
  BY <1>2 DEF PowState, Behind
<1>5. CASE a.exp = 0
  <2>1. PowLoop[a] = {a.ret} /\ PowLoop[b] = {b.ret}
    BY <1>4, <1>5, PowLoopIs
  <2> QED BY <1>3, <1>4, <2>1
<1>6. CASE a.exp # 0
  <2>1. PICK t \in Round(b) : z \in PowLoop[t]
    BY <1>3, <1>4, <1>6, PowLoopIs
  <2>2. PICK w \in Round(a) : Behind(w, t)
    BY <1>4, <1>6, RoundBehind
  <2>3. t \in PowState /\ w \in PowState /\ w.exp = a.exp \div 2
    BY <1>4, <1>6, RoundState
  <2>4. w.exp \in Nat /\ w.exp < a.exp
    BY <1>4, <1>6, <2>3
  <2>5. w.exp \notin Bad
    <3> HIDE DEF Bad
    <3> QED BY <1>1, <1>2, <1>4, <2>4
  <2>6. PICK x \in PowLoop[w] : x <= z
    BY <2>1, <2>2, <2>3, <2>4, <2>5
  <2>7. x \in PowLoop[a]
    BY <1>6, <2>2, <2>6, PowLoopIs
  <2> QED BY <1>3, <2>6, <2>7
<1> QED BY <1>5, <1>6

(***************************************************************************)
(* The exponent plus one.  Adding one flips the odd digits at the end of   *)
(* the exponent: over those rounds the longer run has only squared, and    *)
(* what the shorter one has multiplied together is at most the next        *)
(* square.  Once the carry has come to rest the two runs differ in their   *)
(* result so far alone.                                                    *)
(***************************************************************************)
Carried(u, v) ==
    /\ v.exp = u.exp + 1 /\ v.base = u.base
    /\ IF u.exp % 2 = 0 THEN u.ret <= v.ret
       ELSE v.ret = WAD /\ u.ret <= (u.base * u.base) \div WAD

(* one round while the carry still moves *)
LEMMA CarryMoves ==
    ASSUME NEW u \in PowState, NEW v \in PowState, Carried(u, v), u.exp % 2 # 0,
           NEW t \in Round(v), PowLoop[t] # {}
    PROVE  \E w \in Round(u) : Carried(w, t)
<1>1. /\ v.exp = u.exp + 1 /\ v.base = u.base
      /\ v.ret = WAD /\ u.ret <= (u.base * u.base) \div WAD
  BY DEF Carried
<1>2. u.exp \in Nat /\ u.base \in Nat /\ u.ret \in Nat /\ WAD \in Nat /\ WAD > 0 /\ WAD \in Rate
  BY WadAssumption DEF PowState, Rate
<1> DEFINE h == u.exp \div 2
           c == t.base
<1>3. u.exp # 0 /\ v.exp # 0 /\ h \in Nat /\ v.exp \div 2 = h + 1
  <2> DEFINE e == u.exp
  <2>1. e \in Nat /\ e % 2 # 0 /\ v.exp = e + 1
    BY <1>1, <1>2
  <2> HIDE DEF e
  <2>2. e # 0 /\ e + 1 # 0 /\ e \div 2 \in Nat /\ (e + 1) \div 2 = (e \div 2) + 1
    BY <2>1
  <2> QED BY <2>1, <2>2 DEF e
<1>4. t \in PowState /\ t.exp = h + 1 /\ c \in RateMul(u.base, u.base) /\ t.ret \in Rets(v, c)
  <2>1. t \in PowState
    BY <1>3, RoundState
  <2>2. t.exp = v.exp \div 2 /\ t.base \in RateMul(v.base, v.base) /\ t.ret \in Rets(v, t.base)
    BY <1>3, RoundIs
  <2> QED BY <1>1, <1>3, <2>1, <2>2
<1>5. c \in Nat /\ c = (u.base * u.base) \div WAD
  <2> HIDE DEF c
  <2> QED BY <1>2, <1>4, RateMulIs
<1>6. u.ret <= c
  BY <1>1, <1>5
<1> HIDE DEF c
<1>7. CASE h % 2 = 0
  <2>1. (h + 1) % 2 # 0
    BY <1>3, <1>7
  <2>2. t.ret \in RateMul(WAD, c)
    BY <1>1, <1>3, <1>4, <2>1 DEF Rets
  <2>3. t.ret = c
    <3>1. t.ret = (WAD * c) \div WAD
      BY <1>2, <1>5, <2>2, RateMulIs
    <3>2. (WAD * c) \div WAD = c
      BY <1>2, <1>5
    <3> QED BY <3>1, <3>2
  <2>4. u.ret \in Rets(u, c)
    BY <1>7 DEF Rets
  <2> DEFINE w == At(h, c, u.ret)
  <2>5. w \in Round(u) /\ w.exp = h /\ w.base = c /\ w.ret = u.ret
    BY <1>3, <1>4, <2>4, RoundIs
  <2> HIDE DEF w, h
  <2>6. Carried(w, t)
    BY <1>4, <1>6, <1>7, <2>3, <2>5 DEF Carried, c
  <2> QED BY <2>5, <2>6
<1>8. CASE h % 2 # 0
  <2>1. (h + 1) % 2 = 0
    BY <1>3, <1>8
  <2>2. t.ret = WAD
    BY <1>1, <1>3, <1>4, <2>1 DEF Rets
  <2>3. c * c <= U128_MAX
    <3>1. t.exp # 0
      BY <1>3, <1>4
    <3>2. PICK x : x \in PowLoop[t]
      OBVIOUS
    <3>3. PICK n \in Round(t) : x \in PowLoop[n]
      BY <1>4, <3>1, <3>2, PowLoopIs
    <3>4. n.base \in RateMul(c, c)
      BY <1>4, <3>1, <3>3, RoundIs DEF c
    <3> QED BY <1>5, <3>4, RateMulIs
  <2> DEFINE r == (u.ret * c) \div WAD
  <2>4. r \in RateMul(u.ret, c) /\ r <= (c * c) \div WAD
    BY <1>2, <1>5, <1>6, <2>3, RateMulMonotone
  <2> HIDE DEF r
  <2>5. r \in Rets(u, c)
    BY <1>8, <2>4 DEF Rets
  <2> DEFINE w == At(h, c, r)
  <2>6. w \in Round(u) /\ w.exp = h /\ w.base = c /\ w.ret = r
    BY <1>3, <1>4, <2>5, RoundIs
  <2> HIDE DEF w, h
  <2>7. Carried(w, t)
    BY <1>4, <1>8, <2>2, <2>4, <2>6 DEF Carried, c
  <2> QED BY <2>6, <2>7
<1> QED BY <1>7, <1>8

LEMMA LoopCarries ==
    ASSUME NEW u \in PowState, NEW v \in PowState, Carried(u, v), NEW y \in PowLoop[v]
    PROVE  \E x \in PowLoop[u] : x <= y
<1> DEFINE Fails(a, b) == Carried(a, b) /\ \E z \in PowLoop[b] : ~\E x \in PowLoop[a] : x <= z
           Bad == {n \in Nat : \E a \in PowState, b \in PowState : a.exp = n /\ Fails(a, b)}
<1> SUFFICES ASSUME Bad # {} PROVE FALSE
  <2>1. u.exp \in Nat
    BY DEF PowState
  <2> QED BY <2>1
<1>1. PICK n \in Bad : \A m \in Bad : n <= m
  <2>1. Bad \subseteq Nat
    OBVIOUS
  <2> HIDE DEF Bad
  <2> QED BY <2>1, Smallest
<1>2. PICK a \in PowState, b \in PowState : a.exp = n /\ Fails(a, b)
  OBVIOUS
<1>3. PICK z \in PowLoop[b] : ~\E x \in PowLoop[a] : x <= z
  BY <1>2
<1>4. a.exp \in Nat /\ b.exp = a.exp + 1 /\ a.base = b.base /\ b.exp # 0
  <2>1. a.exp \in Nat
    BY DEF PowState
  <2>2. b.exp = a.exp + 1 /\ a.base = b.base
    BY <1>2 DEF Carried
  <2> QED BY <2>1, <2>2
<1>5. PICK t \in Round(b) : z \in PowLoop[t]
  BY <1>3, <1>4, PowLoopIs
<1>6. t \in PowState /\ t.exp = b.exp \div 2
  BY <1>4, RoundState
<1>7. CASE a.exp = 0
  <2>1. a.ret <= b.ret
    BY <1>2, <1>7 DEF Carried
  <2>2. t.exp = 0
    BY <1>4, <1>6, <1>7
  <2>3. t.ret = b.ret
    <3>1. (b.exp \div 2) % 2 = 0
      BY <1>6, <2>2
    <3> QED BY <1>4, <1>5, <3>1, RoundIs DEF Rets
  <2>4. PowLoop[a] = {a.ret} /\ PowLoop[t] = {t.ret}
    BY <1>6, <1>7, <2>2, PowLoopIs
  <2> QED BY <1>3, <1>5, <2>1, <2>3, <2>4
<1>8. CASE a.exp # 0 /\ a.exp % 2 = 0
  <2>1. a.ret <= b.ret
    BY <1>2, <1>8 DEF Carried
  <2>2. a.exp \div 2 = b.exp \div 2
    BY <1>4, <1>8
  <2>3. PICK w \in Round(a) : Behind(w, t)
    BY <1>4, <1>8, <2>1, <2>2, RoundBehind
  <2>4. w \in PowState
    BY <1>8, RoundState
  <2>5. PICK x \in PowLoop[w] : x <= z
    BY <1>5, <1>6, <2>3, <2>4, LoopMonotone
  <2>6. x \in PowLoop[a]
    BY <1>8, <2>3, <2>5, PowLoopIs
  <2> QED BY <1>3, <2>5, <2>6
<1>9. CASE a.exp # 0 /\ a.exp % 2 # 0
  <2>1. PICK w \in Round(a) : Carried(w, t)
    <3>1. Carried(a, b) /\ PowLoop[t] # {}
      BY <1>2, <1>5
    <3> QED BY <1>9, <3>1, CarryMoves
  <2>2. w \in PowState /\ w.exp = a.exp \div 2
    BY <1>9, RoundState
  <2>3. w.exp \in Nat /\ w.exp < a.exp
    BY <1>4, <1>9, <2>2
  <2>4. w.exp \notin Bad
    <3> HIDE DEF Bad
    <3> QED BY <1>1, <1>2, <1>4, <2>3
  <2>5. PICK x \in PowLoop[w] : x <= z
    BY <1>5, <1>6, <2>1, <2>2, <2>3, <2>4
  <2>6. x \in PowLoop[a]
    BY <1>9, <2>1, <2>5, PowLoopIs
  <2> QED BY <1>3, <2>5, <2>6
<1> QED BY <1>7, <1>8, <1>9

LEMMA OneSlotMore ==
    ASSUME NEW b \in Rate, b >= WAD, NEW n \in Nat, NEW later \in TryPow(b, n + 1)
    PROVE  \E factor \in TryPow(b, n) : factor <= later
<1>1. WAD \in Nat /\ WAD > 0 /\ b \in Nat /\ WAD \in Rate
  BY WadAssumption DEF Rate
<1> DEFINE u == Start(b, n)
           v == Start(b, n + 1)
<1>2. /\ u \in PowState /\ u.exp = n /\ u.base = b
      /\ u.ret = IF n % 2 # 0 THEN b ELSE WAD
  BY <1>1 DEF Start, At, PowState
<1>3. /\ v \in PowState /\ v.exp = n + 1 /\ v.base = b
      /\ v.ret = IF (n + 1) % 2 # 0 THEN b ELSE WAD
  BY <1>1 DEF Start, At, PowState
<1>4. later \in PowLoop[v] /\ TryPow(b, n) = PowLoop[u]
  BY DEF TryPow, Start
<1> HIDE DEF u, v
<1>5. Carried(u, v)
  <2>1. CASE n % 2 = 0
    <3>1. (n + 1) % 2 # 0
      BY <2>1
    <3> QED BY <1>2, <1>3, <2>1, <3>1 DEF Carried
  <2>2. CASE n % 2 # 0
    <3>1. (n + 1) % 2 = 0
      BY <2>2
    <3>2. b <= (b * b) \div WAD
      <4>1. WAD * b <= b * b
        BY <1>1, TimesMonotone
      <4>2. WAD * b \in Nat /\ b * b \in Nat
        BY <1>1
      <4>3. (WAD * b) \div WAD <= (b * b) \div WAD
        BY <1>1, <4>1, <4>2, QuotientMonotone
      <4>4. (WAD * b) \div WAD = b
        BY <1>1
      <4> QED BY <4>3, <4>4
    <3> QED BY <1>2, <1>3, <2>2, <3>1, <3>2 DEF Carried
  <2> QED BY <2>1, <2>2
<1> QED BY <1>2, <1>3, <1>4, <1>5, LoopCarries

(* For any base of at least one and any number of slots: a refresh that    *)
(* would succeed one slot later succeeds now, with a factor that is no     *)
(* greater.  So once try_pow has failed for a reserve it fails in every    *)
(* later slot, until process_update_reserve changes the rate.              *)
THEOREM WaitingDoesNotHelp == Spec => WaitingNeverHelps
<1>1. Waiting => [Wait => \A later \in TryPow(base, elapsed') :
                            \E factor \in TryPow(base, elapsed) : factor <= later]_vars
  <2> SUFFICES ASSUME Waiting, Wait, NEW later \in TryPow(base, elapsed')
               PROVE  \E factor \in TryPow(base, elapsed) : factor <= later
    OBVIOUS
  <2>1. base \in Rate /\ base >= WAD /\ elapsed \in Nat
    BY BaseIs
  <2>2. elapsed' = elapsed + 1
    BY DEF Wait
  <2> QED BY <2>1, <2>2, OneSlotMore
<1> QED BY <1>1, WaitingHolds, PTL DEF WaitingNeverHelps
==============================================================================

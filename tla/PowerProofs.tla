----------------------------- MODULE PowerProofs ------------------------------
(***************************************************************************)
(* What Rate::try_pow computes, for every base, exponent, scale and width. *)
(*                                                                         *)
(* PowLoop is defined by recursion on the exponent.  That a function with  *)
(* its equation exists is shown without induction: the pairs of a state of *)
(* the loop and a result it leads to are the smallest set closed under the *)
(* steps of the loop.                                                      *)
(***************************************************************************)
EXTENDS WadMath, WellFoundedInduction, TLAPS

(* The least number principle, for sets. *)
LEMMA Smallest ==
    ASSUME NEW S, S \subseteq Nat, S # {}
    PROVE  \E m \in S : \A k \in S : m <= k
<1>1. IsWellFoundedOn(OpToRel(<, Nat), Nat)
  BY NatLessThanWellFounded
<1>2. PICK x \in S : \A y \in S : ~(<<y, x>> \in OpToRel(<, Nat))
  BY <1>1, WFMin
<1>3. \A y \in S : ~(y < x)
  BY <1>2 DEF OpToRel
<1> QED BY <1>3

(* Order and products. *)
LEMMA TimesMonotone ==
    ASSUME NEW a \in Int, NEW b \in Int, NEW c \in Nat, a <= b
    PROVE  a * c <= b * c
<1>1. PICK d \in Nat : b = a + d
  <2>1. b - a \in Nat /\ b = a + (b - a)
    OBVIOUS
  <2> QED BY <2>1
<1>2. b * c = a * c + d * c /\ d * c \in Nat
  BY <1>1
<1>3. a * c \in Int
  OBVIOUS
<1> QED BY <1>2, <1>3

LEMMA TimesCancels ==
    ASSUME NEW a \in Int, NEW b \in Int, NEW c \in Nat, c > 0, a * c <= b * c
    PROVE  a <= b
<1> SUFFICES ASSUME b < a PROVE FALSE
  OBVIOUS
<1>1. b + 1 <= a /\ b + 1 \in Int
  OBVIOUS
<1>2. (b + 1) * c <= a * c
  BY <1>1, TimesMonotone
<1>3. (b + 1) * c = b * c + c /\ b * c \in Int /\ a * c \in Int
  OBVIOUS
<1> QED BY <1>2, <1>3

(* What integer division rounds away. *)
LEMMA Quotient ==
    ASSUME NEW a \in Nat, NEW b \in Nat, b > 0
    PROVE  /\ a \div b \in Nat
           /\ (a \div b) * b <= a
           /\ a < (a \div b) * b + b
<1> DEFINE q == a \div b
           rem == a % b
<1>1. q \in Int /\ rem \in 0..(b - 1) /\ a = b * q + rem
  OBVIOUS
<1>2. q \in Nat
  OBVIOUS
<1> HIDE DEF q, rem
<1>3. q * b = b * q /\ b * q \in Int
  BY <1>1
<1>4. q * b <= a /\ a < q * b + b
  BY <1>1, <1>3
<1> QED BY <1>2, <1>4 DEF q

LEMMA QuotientMonotone ==
    ASSUME NEW x \in Nat, NEW y \in Nat, x <= y, NEW c \in Nat, c > 0
    PROVE  x \div c <= y \div c
<1> DEFINE p == x \div c
           q == y \div c
<1>1. p \in Nat /\ q \in Nat /\ p * c <= x /\ y < q * c + c
  BY Quotient
<1> HIDE DEF p, q
<1>2. p * c \in Nat /\ q * c \in Nat /\ (q + 1) * c = q * c + c
  BY <1>1
<1> SUFFICES ASSUME q < p PROVE FALSE
  BY <1>1 DEF p, q
<1>3. q + 1 \in Nat /\ q + 1 <= p
  BY <1>1
<1>4. (q + 1) * c <= p * c
  BY <1>1, <1>3, TimesMonotone
<1> QED BY <1>1, <1>2, <1>4

(* Dividing by less. *)
LEMMA QuotientAntitone ==
    ASSUME NEW x \in Nat, NEW b \in Nat, NEW c \in Nat, b > 0, b <= c
    PROVE  x \div c <= x \div b
<1> DEFINE p == x \div c
           q == x \div b
<1>1. p \in Nat /\ q \in Nat /\ p * c <= x /\ x < q * b + b
  BY Quotient
<1> HIDE DEF p, q
<1>2. p * c \in Nat /\ p * b \in Nat /\ q * b \in Nat /\ (q + 1) * b = q * b + b
  BY <1>1
<1>3. p * b <= p * c
  <2>1. b * p <= c * p
    BY <1>1, TimesMonotone
  <2>2. b * p = p * b /\ c * p = p * c
    BY <1>1
  <2> QED BY <2>1, <2>2
<1> SUFFICES ASSUME q < p PROVE FALSE
  BY <1>1 DEF p, q
<1>4. (q + 1) * b <= p * b
  <2>1. q + 1 \in Nat /\ q + 1 <= p
    BY <1>1
  <2> QED BY <1>1, <2>1, TimesMonotone
<1> QED BY <1>1, <1>2, <1>3, <1>4

(* Two divisions, each rounded down, are one. *)
LEMMA TwiceRounded ==
    ASSUME NEW x \in Nat, NEW a \in Nat, NEW b \in Nat, a > 0, b > 0
    PROVE  /\ (x \div a) \div b \in Nat
           /\ a * b \in Nat /\ a * b > 0
           /\ ((x \div a) \div b) * (a * b) <= x
           /\ x < ((x \div a) \div b) * (a * b) + a * b
<1> DEFINE y == x \div a
           q == y \div b
<1>1. y \in Nat /\ y * a <= x /\ x < y * a + a
  BY Quotient
<1> HIDE DEF y
<1>2. q \in Nat /\ q * b <= y /\ y < q * b + b
  BY <1>1, Quotient
<1> HIDE DEF q
<1>3. q * b \in Nat /\ y + 1 <= q * b + b
  BY <1>1, <1>2
<1>4. (q * b) * a <= y * a /\ (y + 1) * a <= (q * b + b) * a
  BY <1>1, <1>2, <1>3, TimesMonotone
<1>5. /\ (q * b) * a = q * (a * b) /\ (q * b + b) * a = q * (a * b) + a * b
      /\ (y + 1) * a = y * a + a /\ y * a \in Nat /\ q * (a * b) \in Nat
  BY <1>1, <1>2
<1>6. a * b \in Nat /\ a * b > 0
  <2>1. 1 * b <= a * b
    BY TimesMonotone
  <2> QED BY <2>1
<1>7. q * (a * b) <= x /\ x < q * (a * b) + a * b
  BY <1>1, <1>4, <1>5, <1>6
<1> QED BY <1>2, <1>6, <1>7 DEF q, y

-----------------------------------------------------------------------------
(* the states one round of the loop may lead to *)
Rets(s, b) == IF (s.exp \div 2) % 2 # 0 THEN RateMul(s.ret, b) ELSE {s.ret}

Round(s) == UNION {{At(s.exp \div 2, b, r) : r \in Rets(s, b)} : b \in RateMul(s.base, s.base)}

(* the equation of PowLoop *)
Unfolds(g) ==
    g = [s \in PowState |-> IF s.exp = 0 THEN {s.ret}
                            ELSE LET half == s.exp \div 2 IN
                                 UNION {UNION {g[At(half, b, r)] :
                                               r \in IF half % 2 # 0 THEN RateMul(s.ret, b) ELSE {s.ret}} :
                                        b \in RateMul(s.base, s.base)}]

LEMMA RoundState ==
    ASSUME NEW s \in PowState, s.exp # 0, NEW t \in Round(s)
    PROVE  t \in PowState /\ t.exp = s.exp \div 2
<1>1. PICK b \in RateMul(s.base, s.base) : \E r \in Rets(s, b) : t = At(s.exp \div 2, b, r)
  BY DEF Round
<1>2. PICK r \in Rets(s, b) : t = At(s.exp \div 2, b, r)
  BY <1>1
<1>3. b \in Rate
  BY <1>1 DEF RateMul
<1>4. s.ret \in Rate /\ s.exp \in Nat
  BY DEF PowState
<1>5. r \in Rate
  BY <1>2, <1>4 DEF Rets, RateMul
<1>6. s.exp \div 2 \in Nat
  BY <1>4
<1> QED BY <1>2, <1>3, <1>5, <1>6 DEF At, PowState

Pairs == PowState \X Rate

(* closed under the steps of the loop, backwards *)
Closed(C) ==
    /\ \A s \in PowState : s.exp = 0 => <<s, s.ret>> \in C
    /\ \A s \in PowState, x \in Rate :
          (s.exp # 0 /\ \E t \in Round(s) : <<t, x>> \in C) => <<s, x>> \in C

Leads == {p \in Pairs : \A C \in SUBSET Pairs : Closed(C) => p \in C}

LEMMA LeadsIs ==
    ASSUME NEW s \in PowState, NEW x \in Rate
    PROVE  <<s, x>> \in Leads <=>
             IF s.exp = 0 THEN x = s.ret ELSE \E t \in Round(s) : <<t, x>> \in Leads
<1>1. Closed(Leads)
  <2>1. ASSUME NEW u \in PowState, u.exp = 0 PROVE <<u, u.ret>> \in Leads
    <3>1. <<u, u.ret>> \in Pairs
      BY DEF Pairs, PowState
    <3> QED BY <2>1, <3>1 DEF Leads, Closed
  <2>2. ASSUME NEW u \in PowState, NEW y \in Rate, u.exp # 0,
               NEW t \in Round(u), <<t, y>> \in Leads
        PROVE  <<u, y>> \in Leads
    <3>1. <<u, y>> \in Pairs
      BY DEF Pairs
    <3>2. ASSUME NEW C \in SUBSET Pairs, Closed(C) PROVE <<u, y>> \in C
      <4>1. <<t, y>> \in C
        BY <2>2, <3>2 DEF Leads
      <4> QED BY <2>2, <3>2, <4>1 DEF Closed
    <3> QED BY <3>1, <3>2 DEF Leads
  <2> QED BY <2>1, <2>2 DEF Closed
<1> DEFINE Inverted(p) == IF p[1].exp = 0 THEN p[2] = p[1].ret
                          ELSE \E t \in Round(p[1]) : <<t, p[2]>> \in Leads
           I == {p \in Leads : Inverted(p)}
<1>2. Closed(I)
  <2>1. ASSUME NEW u \in PowState, u.exp = 0 PROVE <<u, u.ret>> \in I
    BY <1>1, <2>1 DEF Closed
  <2>2. ASSUME NEW u \in PowState, NEW y \in Rate, u.exp # 0, NEW t \in Round(u), <<t, y>> \in I
        PROVE  <<u, y>> \in I
    <3>1. <<t, y>> \in Leads
      BY <2>2
    <3>2. <<u, y>> \in Leads
      BY <1>1, <2>2, <3>1 DEF Closed
    <3> QED BY <2>2, <3>1, <3>2
  <2> HIDE DEF I
  <2> QED BY <2>1, <2>2 DEF Closed
<1>3. I \in SUBSET Pairs
  BY DEF Leads
<1>4. <<s, x>> \in Leads => <<s, x>> \in I
  <2> HIDE DEF I
  <2> QED BY <1>2, <1>3 DEF Leads
<1>5. <<s, x>> \in Leads => Inverted(<<s, x>>)
  BY <1>4
<1>6. Inverted(<<s, x>>) => <<s, x>> \in Leads
  BY <1>1 DEF Closed
<1> QED BY <1>5, <1>6

Results == [s \in PowState |-> {x \in Rate : <<s, x>> \in Leads}]

(* The results after the loop's rounds, in the form of the definition. *)
LEMMA RoundResults ==
    ASSUME NEW g, NEW s \in PowState, s.exp # 0, NEW x
    PROVE  x \in UNION {UNION {g[At(s.exp \div 2, b, r)] : r \in Rets(s, b)} : b \in RateMul(s.base, s.base)}
             <=> \E t \in Round(s) : x \in g[t]
<1>1. ASSUME NEW b \in RateMul(s.base, s.base), NEW r \in Rets(s, b), x \in g[At(s.exp \div 2, b, r)]
      PROVE  \E t \in Round(s) : x \in g[t]
  <2>1. At(s.exp \div 2, b, r) \in Round(s)
    BY DEF Round
  <2> QED BY <1>1, <2>1
<1>2. ASSUME NEW t \in Round(s), x \in g[t]
      PROVE  x \in UNION {UNION {g[At(s.exp \div 2, b, r)] : r \in Rets(s, b)} : b \in RateMul(s.base, s.base)}
  <2>1. PICK b \in RateMul(s.base, s.base) : \E r \in Rets(s, b) : t = At(s.exp \div 2, b, r)
    BY DEF Round
  <2>2. PICK r \in Rets(s, b) : t = At(s.exp \div 2, b, r)
    BY <2>1
  <2> QED BY <1>2, <2>2
<1> QED BY <1>1, <1>2

Unfolded(g, s) == IF s.exp = 0 THEN {s.ret}
                  ELSE UNION {UNION {g[At(s.exp \div 2, b, r)] : r \in Rets(s, b)} :
                              b \in RateMul(s.base, s.base)}

LEMMA UnfoldsIs ==
    ASSUME NEW g
    PROVE  Unfolds(g) <=> g = [s \in PowState |-> Unfolded(g, s)]
  BY DEF Unfolds, Unfolded, Rets

LEMMA ResultsUnfold == Unfolds(Results)
<1>1. ASSUME NEW s \in PowState PROVE Results[s] = Unfolded(Results, s)
  <2>1. Results[s] = {x \in Rate : <<s, x>> \in Leads}
    BY DEF Results
  <2>2. CASE s.exp = 0
    <3>1. s.ret \in Rate
      BY DEF PowState
    <3>2. \A x \in Rate : <<s, x>> \in Leads <=> x = s.ret
      BY <2>2, LeadsIs
    <3> QED BY <2>1, <2>2, <3>1, <3>2 DEF Unfolded
  <2>3. CASE s.exp # 0
    <3>1. \A x \in Rate : <<s, x>> \in Leads <=> \E t \in Round(s) : <<t, x>> \in Leads
      BY <2>3, LeadsIs
    <3>2. \A t \in Round(s) : Results[t] = {x \in Rate : <<t, x>> \in Leads}
      BY <2>3, RoundState DEF Results
    <3>3. \A x : x \in Results[s] <=> \E t \in Round(s) : x \in Results[t]
      BY <2>1, <3>1, <3>2
    <3>4. \A x : x \in Unfolded(Results, s) <=> \E t \in Round(s) : x \in Results[t]
      BY <2>3, RoundResults DEF Unfolded
    <3> QED BY <3>3, <3>4
  <2> QED BY <2>2, <2>3
<1>2. Results = [s \in PowState |-> Results[s]]
  BY DEF Results
<1>3. Results = [s \in PowState |-> Unfolded(Results, s)]
  <2> HIDE DEF Results
  <2> QED BY <1>1, <1>2
<1> QED BY <1>3, UnfoldsIs

(* PowLoop satisfies the equation it is defined by.                        *)
LEMMA PowLoopUnfolds == Unfolds(PowLoop)
<1>1. \E g : Unfolds(g)
  BY ResultsUnfold
<1>2. PowLoop = CHOOSE g : Unfolds(g)
  BY Zenon DEF PowLoop, Unfolds
<1> QED BY <1>1, <1>2, Zenon

LEMMA PowLoopIs ==
    ASSUME NEW s \in PowState
    PROVE  /\ s.exp = 0 => PowLoop[s] = {s.ret}
           /\ s.exp # 0 => \A x : x \in PowLoop[s] <=> \E t \in Round(s) : x \in PowLoop[t]
<1>1. PowLoop = [u \in PowState |-> Unfolded(PowLoop, u)]
  BY PowLoopUnfolds, UnfoldsIs
<1>2. PowLoop[s] = Unfolded(PowLoop, s)
  <2> DEFINE F == PowLoop
  <2>1. F = [u \in PowState |-> Unfolded(F, u)]
    BY <1>1
  <2> HIDE DEF F
  <2>2. F[s] = Unfolded(F, s)
    BY <2>1
  <2> QED BY <2>2 DEF F
<1>3. CASE s.exp = 0
  BY <1>2, <1>3 DEF Unfolded
<1>4. CASE s.exp # 0
  BY <1>2, <1>4, RoundResults DEF Unfolded
<1> QED BY <1>3, <1>4

-----------------------------------------------------------------------------
(***************************************************************************)
(* Growth.                                                                 *)
(***************************************************************************)

(* The rounded product of two factors of at least one keeps both gains.    *)
LEMMA ProductGains ==
    ASSUME NEW a \in Nat, NEW b \in Nat, a >= WAD, b >= WAD, NEW p \in RateMul(a, b)
    PROVE  p \in Rate /\ p \in Nat /\ p >= a + b - WAD
<1>1. WAD \in Nat /\ WAD > 0
  BY WadAssumption
<1>2. p = (a * b) \div WAD /\ p \in Rate
  BY DEF RateMul
<1>3. p \in Nat
  BY <1>2, WadAssumption DEF Rate
<1> DEFINE y == a - WAD
           z == b - WAD
<1>4. y \in Nat /\ z \in Nat
  BY <1>1
<1>5. a * b = WAD * (WAD + y + z) + y * z
  BY <1>1
<1>6. y * z \in Nat
  BY <1>4
<1>7. WAD * (WAD + y + z) <= a * b
  BY <1>1, <1>4, <1>5, <1>6
<1> DEFINE m == WAD + y + z
           ab == a * b
<1>8. m \in Nat /\ ab \in Nat /\ WAD * m <= ab /\ p = ab \div WAD
  BY <1>1, <1>2, <1>4, <1>7
<1> HIDE DEF m, ab
<1>9. m <= p
  BY <1>1, <1>3, <1>8
<1> QED BY <1>1, <1>2, <1>3, <1>9 DEF m

(* what a state of the loop is at least worth *)
Worth(s) == s.ret + 2 * ((s.exp \div 2) * (s.base - WAD))

LEMMA RoundGains ==
    ASSUME NEW s \in PowState, s.exp # 0, s.base >= WAD, s.ret >= WAD, NEW t \in Round(s)
    PROVE  t.base >= WAD /\ t.ret >= WAD /\ Worth(t) >= Worth(s)
<1>1. PICK b \in RateMul(s.base, s.base) : \E r \in Rets(s, b) : t = At(s.exp \div 2, b, r)
  BY DEF Round
<1>2. PICK r \in Rets(s, b) : t = At(s.exp \div 2, b, r)
  BY <1>1
<1>3. WAD \in Nat /\ WAD > 0 /\ s.exp \in Nat /\ s.base \in Nat /\ s.ret \in Nat
  BY WadAssumption DEF PowState, Rate
<1> DEFINE h == s.exp \div 2
           y == s.base - WAD
           z == b - WAD
<1>4. h \in Nat /\ y \in Nat
  BY <1>3
<1>5. b \in Nat /\ z \in Nat /\ z >= 2 * y
  <2>1. b \in Nat /\ b >= s.base + s.base - WAD
    BY <1>1, <1>3, ProductGains
  <2> QED BY <1>3, <2>1
<1>6. r \in Nat /\ r >= s.ret + (h % 2) * z
  <2>1. CASE h % 2 # 0
    <3>1. r \in RateMul(s.ret, b)
      BY <1>2, <2>1 DEF Rets
    <3>2. r \in Nat /\ r >= s.ret + b - WAD
      BY <1>3, <1>5, <3>1, ProductGains
    <3>3. h % 2 = 1
      BY <1>4, <2>1
    <3> QED BY <1>3, <1>5, <3>2, <3>3
  <2>2. CASE h % 2 = 0
    <3>1. r = s.ret
      BY <1>2, <2>2 DEF Rets
    <3> QED BY <1>3, <1>5, <2>2, <3>1
  <2> QED BY <2>1, <2>2
<1>7. t.base = b /\ t.ret = r /\ t.exp = h
  BY <1>2 DEF At
<1> DEFINE k == h \div 2
           o == h % 2
<1>8. k \in Nat /\ o \in Nat /\ h = 2 * k + o
  BY <1>4
<1>9. Worth(t) = r + 2 * (k * z) /\ Worth(s) = s.ret + 2 * (h * y)
  BY <1>7 DEF Worth
<1> HIDE DEF h, y, z, k, o
<1>10. h * z = 2 * (k * z) + o * z
  <2>1. (2 * k + o) * z = 2 * (k * z) + o * z
    BY <1>5, <1>8
  <2> QED BY <1>8, <2>1
<1>11. h * z >= 2 * (h * y)
  <2>1. PICK d \in Nat : z = 2 * y + d
    BY <1>4, <1>5
  <2>2. h * z = 2 * (h * y) + h * d
    BY <1>4, <2>1
  <2>3. h * d \in Nat
    BY <1>4, <2>1
  <2>4. h * y \in Nat
    BY <1>4
  <2> QED BY <2>2, <2>3, <2>4
<1>12. k * z \in Nat /\ o * z \in Nat /\ h * y \in Nat
  BY <1>4, <1>5, <1>8
<1>13. Worth(t) >= Worth(s)
  <2>1. r >= s.ret + o * z
    BY <1>6 DEF o
  <2> QED BY <1>3, <1>6, <1>9, <1>10, <1>11, <1>12, <2>1
<1>14. b >= WAD /\ r >= WAD
  <2>1. b >= WAD
    BY <1>3, <1>5 DEF z
  <2>2. r >= WAD
    BY <1>3, <1>6, <1>12 DEF o
  <2> QED BY <2>1, <2>2
<1> QED BY <1>7, <1>13, <1>14

LEMMA LoopGrows ==
    ASSUME NEW s \in PowState, s.base >= WAD, s.ret >= WAD, NEW x \in PowLoop[s]
    PROVE  x \in Rate /\ x >= Worth(s)
<1> DEFINE Fails(u) == /\ u.base >= WAD /\ u.ret >= WAD
                       /\ \E y \in PowLoop[u] : ~(y \in Rate /\ y >= Worth(u))
           Bad == {n \in Nat : \E u \in PowState : u.exp = n /\ Fails(u)}
<1> SUFFICES ASSUME Bad # {} PROVE FALSE
  <2>1. s.exp \in Nat
    BY DEF PowState
  <2> QED BY <2>1
<1>1. PICK n \in Bad : \A m \in Bad : n <= m
  <2>1. Bad \subseteq Nat
    OBVIOUS
  <2> HIDE DEF Bad
  <2> QED BY <2>1, Smallest
<1>2. PICK u \in PowState : u.exp = n /\ Fails(u)
  OBVIOUS
<1>3. PICK y \in PowLoop[u] : ~(y \in Rate /\ y >= Worth(u))
  BY <1>2
<1>4. u.exp \in Nat /\ u.ret \in Rate /\ u.ret \in Nat /\ u.base \in Nat /\ WAD \in Nat
  BY WadAssumption DEF PowState, Rate
<1>5. CASE u.exp = 0
  <2>1. y = u.ret
    BY <1>3, <1>5, PowLoopIs
  <2>2. Worth(u) = u.ret
    BY <1>4, <1>5 DEF Worth
  <2> QED BY <1>3, <1>4, <2>1, <2>2
<1>6. CASE u.exp # 0
  <2>1. PICK t \in Round(u) : y \in PowLoop[t]
    BY <1>3, <1>6, PowLoopIs
  <2>2. t \in PowState /\ t.exp = u.exp \div 2
    BY <1>6, RoundState
  <2>3. t.base >= WAD /\ t.ret >= WAD /\ Worth(t) >= Worth(u)
    BY <1>2, <1>6, RoundGains
  <2>4. t.exp \in Nat /\ t.exp < u.exp
    BY <1>4, <1>6, <2>2
  <2>5. t.exp \notin Bad
    <3> HIDE DEF Bad
    <3> QED BY <1>1, <1>2, <1>4, <2>4
  <2>6. y \in Rate /\ y >= Worth(t)
    BY <2>1, <2>2, <2>3, <2>4, <2>5
  <2>7. Worth(t) \in Int /\ Worth(u) \in Int /\ y \in Int
    <3>1. t.ret \in Nat /\ t.base \in Nat
      BY <2>2, WadAssumption DEF PowState, Rate
    <3>2. t.exp \div 2 \in Int /\ u.exp \div 2 \in Int
      BY <1>4, <2>4
    <3>3. y \in Int
      BY <2>6, WadAssumption DEF Rate
    <3> QED BY <1>4, <3>1, <3>2, <3>3 DEF Worth
  <2> QED BY <1>3, <2>3, <2>6, <2>7
<1> QED BY <1>5, <1>6

(* A debt grows by at least its rate per slot for every slot, however long *)
(* nobody refreshed the reserve, and although every product of try_pow is  *)
(* rounded down: the power is never less than simple interest, for any     *)
(* rate, any number of slots, and any scale and width of the numbers.      *)
THEOREM PowerAtLeastSimple ==
    \A base \in Rate, exp \in Nat : base >= WAD =>
       \A factor \in TryPow(base, exp) : factor \in Rate /\ factor >= WAD + exp * (base - WAD)
<1> SUFFICES ASSUME NEW base \in Rate, NEW exp \in Nat, base >= WAD, NEW factor \in TryPow(base, exp)
             PROVE  factor \in Rate /\ factor >= WAD + exp * (base - WAD)
  OBVIOUS
<1> DEFINE ret == IF exp % 2 # 0 THEN base ELSE WAD
           s == At(exp, base, ret)
           y == base - WAD
           h == exp \div 2
<1>1. WAD \in Nat /\ base \in Nat /\ WAD \in Rate
  BY WadAssumption DEF Rate
<1>2. s \in PowState /\ s.base = base /\ s.ret = ret /\ s.exp = exp
  BY <1>1 DEF At, PowState
<1>3. ret >= WAD /\ ret \in Nat
  BY <1>1
<1>4. factor \in PowLoop[s]
  BY DEF TryPow
<1>5. factor \in Rate /\ factor >= Worth(s)
  <2> HIDE DEF s, ret
  <2> QED BY <1>2, <1>3, <1>4, LoopGrows
<1>6. Worth(s) = ret + 2 * (h * y)
  BY <1>2 DEF Worth
<1>7. y \in Nat /\ h \in Nat
  BY <1>1
<1>8. h * y \in Nat
  BY <1>7
<1>9. ret + 2 * (h * y) = WAD + exp * y
  <2>1. CASE exp % 2 # 0
    <3>1. exp = 2 * h + 1 /\ ret = WAD + y
      BY <1>1, <2>1
    <3>2. (2 * h + 1) * y = 2 * (h * y) + y
      BY <1>7
    <3> HIDE DEF h, y, ret
    <3> QED BY <1>1, <1>7, <1>8, <3>1, <3>2
  <2>2. CASE exp % 2 = 0
    <3>1. exp = 2 * h /\ ret = WAD
      BY <1>1, <2>2
    <3>2. (2 * h) * y = 2 * (h * y)
      BY <1>7
    <3> HIDE DEF h, y, ret
    <3> QED BY <1>1, <1>7, <1>8, <3>1, <3>2
  <2> QED BY <2>1, <2>2
<1> QED BY <1>5, <1>6, <1>9
==============================================================================

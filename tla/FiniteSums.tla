------------------------------ MODULE FiniteSums ------------------------------
(***************************************************************************)
(* Sums over finite sets, the SumFunction of the community modules: what   *)
(* one changed summand does to the sum, that no summand exceeds it, that   *)
(* zeros do not count, that sums are linear, and what rounding every       *)
(* summand down does.  The books of both programs that are kept as a total *)
(* beside its parts (pool size and stakes, collateral supply and           *)
(* obligations, a stake and the collaterals behind it, reward tokens and   *)
(* earnings) rest on these.                                                *)
(*                                                                         *)
(* The provers take no operator for a parameter, so the induction is over  *)
(* a set of subsets, the property's extension, and not over a predicate.   *)
(***************************************************************************)
EXTENDS Functions, FiniteSetTheorems, TLAPS

(* Induction over the subsets of a finite set, with the property as a set. *)
LEMMA SubsetInduction ==
    ASSUME NEW S, IsFiniteSet(S), NEW P \in SUBSET (SUBSET S),
           \A T \in SUBSET S : (\A x \in T : T \ {x} \in P) => T \in P
    PROVE  P = SUBSET S
<1> DEFINE Bad == (SUBSET S) \ P
<1>1. SUFFICES ASSUME Bad # {} PROVE FALSE
  OBVIOUS
<1>2. IsWellFoundedOn(StrictSubsetOrdering(S), SUBSET S)
  BY FS_StrictSubsetOrderingWellFounded, FS_FiniteSubsetsOfFinite
<1>3. PICK T \in Bad : \A y \in Bad : ~ (<<y, T>> \in StrictSubsetOrdering(S))
  <2> HIDE DEF Bad
  <2>1. Bad \subseteq SUBSET S
    BY DEF Bad
  <2> QED BY <1>1, <1>2, <2>1, WFMin
<1>4. \A x \in T : T \ {x} \in P
  <2> SUFFICES ASSUME NEW x \in T, T \ {x} \notin P PROVE FALSE
    OBVIOUS
  <2>1. T \ {x} \in Bad
    OBVIOUS
  <2>2. <<T \ {x}, T>> \in StrictSubsetOrdering(S)
    BY DEF StrictSubsetOrdering
  <2> QED BY <2>1, <2>2, <1>3
<1> QED BY <1>4


(***************************************************************************)
(* SumFunctionOnSet is a fold, which is a recursive function on the        *)
(* subsets of the index set: IsSum says that g satisfies its equation, and *)
(* SumChoice is the function the fold chooses.  It exists for a finite set *)
(* (SumExists), because the values on smaller sets agree (SumUnique).      *)
(***************************************************************************)
Pick(s) == CHOOSE x \in s : TRUE

IsSum(f, S, g) ==
    g = [s \in SUBSET S |-> IF s = {} THEN 0 ELSE f[Pick(s)] + g[s \ {Pick(s)}]]

SumChoice(f, S) == CHOOSE g : IsSum(f, S, g)

LEMMA SumIsChoice ==
    ASSUME NEW f, NEW S
    PROVE  SumFunctionOnSet(f, S) = SumChoice(f, S)[S]
BY DEF SumFunctionOnSet, FoldFunctionOnSet, MapThenFoldSet, SumChoice, IsSum, Pick

LEMMA PickIn == \A s : s # {} => Pick(s) \in s
BY DEF Pick

LEMMA SumValue ==
    ASSUME NEW f, NEW S, NEW g, IsSum(f, S, g), NEW s \in SUBSET S
    PROVE  g[s] = IF s = {} THEN 0 ELSE f[Pick(s)] + g[s \ {Pick(s)}]
<1> DEFINE Body(t) == IF t = {} THEN 0 ELSE f[Pick(t)] + g[t \ {Pick(t)}]
<1>1. g = [t \in SUBSET S |-> Body(t)]
  BY DEF IsSum
<1> HIDE DEF Body
<1>2. g[s] = Body(s)
  BY <1>1
<1> QED BY <1>2 DEF Body

LEMMA SumUnique ==
    ASSUME NEW f, NEW T, NEW U, IsFiniteSet(T), U \subseteq T,
           NEW g, IsSum(f, T, g), NEW h, IsSum(f, U, h)
    PROVE  \A s \in SUBSET U : g[s] = h[s]
<1> DEFINE Agree == {s \in SUBSET U : g[s] = h[s]}
<1>1. IsFiniteSet(U)
  BY FS_Subset
<1>2. ASSUME NEW s \in SUBSET U, \A x \in s : s \ {x} \in Agree
      PROVE  s \in Agree
  <2>1. CASE s = {}
    <3>1. g[s] = 0 /\ h[s] = 0
      BY <2>1, SumValue
    <3> QED BY <3>1
  <2>2. CASE s # {}
    <3>1. Pick(s) \in s
      BY <2>2, PickIn
    <3>2. g[s \ {Pick(s)}] = h[s \ {Pick(s)}]
      BY <3>1, <1>2
    <3>3. g[s] = f[Pick(s)] + g[s \ {Pick(s)}]
      <4>1. s \in SUBSET T
        OBVIOUS
      <4> HIDE DEF Agree
      <4> QED BY <2>2, <4>1, SumValue
    <3>4. h[s] = f[Pick(s)] + h[s \ {Pick(s)}]
      <4> HIDE DEF Agree
      <4>1. h[s] = IF s = {} THEN 0 ELSE f[Pick(s)] + h[s \ {Pick(s)}]
        BY SumValue
      <4> QED BY <2>2, <4>1
    <3> QED BY <3>2, <3>3, <3>4
  <2> QED BY <2>1, <2>2
<1>3. Agree = SUBSET U
  <2>1. \A s \in SUBSET U : (\A x \in s : s \ {x} \in Agree) => s \in Agree
    BY <1>2
  <2>2. Agree \in SUBSET (SUBSET U)
    OBVIOUS
  <2> HIDE DEF Agree
  <2> QED BY <1>1, <2>1, <2>2, SubsetInduction
<1> QED BY <1>3

LEMMA SumRestricted ==
    ASSUME NEW f, NEW T, NEW U \in SUBSET T, NEW g, IsSum(f, T, g)
    PROVE  IsSum(f, U, SumChoice(f, U))
<1> DEFINE h == [s \in SUBSET U |-> g[s]]
<1>1. \A s \in SUBSET U : h[s] = IF s = {} THEN 0 ELSE f[Pick(s)] + h[s \ {Pick(s)}]
  <2> TAKE s \in SUBSET U
  <2>1. g[s] = IF s = {} THEN 0 ELSE f[Pick(s)] + g[s \ {Pick(s)}]
    BY SumValue
  <2>2. h[s] = g[s] /\ h[s \ {Pick(s)}] = g[s \ {Pick(s)}]
    OBVIOUS
  <2> QED BY <2>1, <2>2
<1>2. h = [s \in SUBSET U |-> h[s]]
  OBVIOUS
<1> HIDE DEF h
<1>3. IsSum(f, U, h)
  BY <1>1, <1>2 DEF IsSum
<1> QED BY <1>3 DEF SumChoice

LEMMA SumExists ==
    ASSUME NEW f, NEW S, IsFiniteSet(S)
    PROVE  IsSum(f, S, SumChoice(f, S))
<1> DEFINE Good == {T \in SUBSET S : IsSum(f, T, SumChoice(f, T))}
<1>1. ASSUME NEW T \in SUBSET S, \A x \in T : T \ {x} \in Good
      PROVE  T \in Good
  <2> DEFINE V(u) == SumChoice(f, u)[u]
             h == [s \in SUBSET T |-> IF s = {} THEN 0 ELSE f[Pick(s)] + V(s \ {Pick(s)})]
  <2>0. \A u \in SUBSET T : u # T => IsSum(f, u, SumChoice(f, u))
    <3> SUFFICES ASSUME NEW u \in SUBSET T, u # T PROVE IsSum(f, u, SumChoice(f, u))
      OBVIOUS
    <3>1. PICK x \in T : u \subseteq T \ {x}
      OBVIOUS
    <3>2. IsSum(f, T \ {x}, SumChoice(f, T \ {x}))
      BY <1>1
    <3> QED BY <3>1, <3>2, SumRestricted
  <2>1. \A u \in SUBSET T : u # T => V(u) = h[u]
    <3> SUFFICES ASSUME NEW u \in SUBSET T, u # T PROVE V(u) = h[u]
      OBVIOUS
    <3>1. V(u) = IF u = {} THEN 0 ELSE f[Pick(u)] + SumChoice(f, u)[u \ {Pick(u)}]
      BY <2>0, SumValue
    <3>2. CASE u = {}
      BY <3>1, <3>2
    <3>3. CASE u # {}
      <4>1. Pick(u) \in u
        BY <3>3, PickIn
      <4>2. IsSum(f, u \ {Pick(u)}, SumChoice(f, u \ {Pick(u)}))
        <5>1. u \ {Pick(u)} \in SUBSET T /\ u \ {Pick(u)} # T
          BY <4>1
        <5> QED BY <5>1, <2>0
      <4>3. SumChoice(f, u)[u \ {Pick(u)}] = V(u \ {Pick(u)})
        <5>1. IsFiniteSet(u)
          BY FS_Subset
        <5>2. u \ {Pick(u)} \subseteq u /\ IsSum(f, u, SumChoice(f, u))
          BY <2>0
        <5> HIDE DEF h
        <5> QED BY <4>2, <5>1, <5>2, SumUnique
      <4> QED BY <3>1, <3>3, <4>3
    <3> QED BY <3>2, <3>3
  <2>2. \A s \in SUBSET T : s # {} => V(s \ {Pick(s)}) = h[s \ {Pick(s)}]
    BY <2>1, PickIn
  <2>3. IsSum(f, T, h)
    <3>1. \A s \in SUBSET T : (IF s = {} THEN 0 ELSE f[Pick(s)] + V(s \ {Pick(s)}))
                              = (IF s = {} THEN 0 ELSE f[Pick(s)] + h[s \ {Pick(s)}])
      BY <2>2
    <3>2. h = [s \in SUBSET T |-> IF s = {} THEN 0 ELSE f[Pick(s)] + V(s \ {Pick(s)})]
      OBVIOUS
    <3> HIDE DEF h, V
    <3> QED BY <3>1, <3>2 DEF IsSum
  <2> HIDE DEF h, V
  <2> QED BY <2>3 DEF SumChoice
<1>2. Good = SUBSET S
  <2>1. \A T \in SUBSET S : (\A x \in T : T \ {x} \in Good) => T \in Good
    BY <1>1
  <2>2. Good \in SUBSET (SUBSET S)
    OBVIOUS
  <2> HIDE DEF Good
  <2> QED BY <2>1, <2>2, SubsetInduction
<1> QED BY <1>2

(***************************************************************************)
(* What the other modules use.                                             *)
(***************************************************************************)
Sum(f, S) == SumFunctionOnSet(f, S)

LEMMA SumEmpty == \A f : Sum(f, {}) = 0
<1> TAKE f
<1>1. IsSum(f, {}, SumChoice(f, {}))
  BY SumExists, FS_EmptySet
<1>2. SumChoice(f, {})[{}] = 0
  BY <1>1, SumValue
<1> QED BY <1>2, SumIsChoice DEF Sum

LEMMA SumPicked ==
    ASSUME NEW f, NEW S, IsFiniteSet(S), S # {}
    PROVE  Sum(f, S) = f[Pick(S)] + Sum(f, S \ {Pick(S)})
<1> DEFINE R == S \ {Pick(S)}
<1>1. IsSum(f, S, SumChoice(f, S)) /\ IsSum(f, R, SumChoice(f, R))
  BY SumExists, FS_Subset
<1>2. SumChoice(f, S)[S] = f[Pick(S)] + SumChoice(f, S)[R]
  BY <1>1, SumValue
<1>3. R \subseteq S
  OBVIOUS
<1> HIDE DEF R
<1>4. SumChoice(f, S)[R] = SumChoice(f, R)[R]
  BY <1>1, <1>3, SumUnique
<1> QED BY <1>2, <1>4, SumIsChoice DEF Sum, R

(* A sum of integers is an integer, one of naturals a natural. *)
LEMMA SumType ==
    ASSUME NEW f, NEW S, IsFiniteSet(S), NEW N \in {Nat, Int}, \A x \in S : f[x] \in N
    PROVE  Sum(f, S) \in N
<1> DEFINE Good == {T \in SUBSET S : Sum(f, T) \in N}
<1>1. ASSUME NEW T \in SUBSET S, \A x \in T : T \ {x} \in Good
      PROVE  T \in Good
  <2>1. CASE T = {}
    BY <2>1, SumEmpty
  <2>2. CASE T # {}
    <3>1. Pick(T) \in T
      BY <2>2, PickIn
    <3>2. Sum(f, T) = f[Pick(T)] + Sum(f, T \ {Pick(T)})
      <4>1. IsFiniteSet(T)
        BY FS_Subset
      <4> QED BY <2>2, <4>1, SumPicked
    <3>3. f[Pick(T)] \in N /\ Sum(f, T \ {Pick(T)}) \in N
      BY <1>1, <3>1
    <3> QED BY <3>2, <3>3
  <2> QED BY <2>1, <2>2
<1>2. Good = SUBSET S
  <2>1. \A T \in SUBSET S : (\A x \in T : T \ {x} \in Good) => T \in Good
    BY <1>1
  <2>2. Good \in SUBSET (SUBSET S)
    OBVIOUS
  <2> HIDE DEF Good
  <2> QED BY <2>1, <2>2, SubsetInduction
<1> QED BY <1>2

(* The order of summation does not matter. *)
LEMMA SumRemove ==
    ASSUME NEW f, NEW S, IsFiniteSet(S), \A x \in S : f[x] \in Int
    PROVE  /\ Sum(f, S) \in Int
           /\ \A x \in S : Sum(f, S) = f[x] + Sum(f, S \ {x})
<1> DEFINE Free(T) == Sum(f, T) \in Int /\ \A x \in T : Sum(f, T) = f[x] + Sum(f, T \ {x})
           Good == {T \in SUBSET S : Free(T)}
<1>1. ASSUME NEW T \in SUBSET S, \A x \in T : T \ {x} \in Good
      PROVE  T \in Good
  <2>1. CASE T = {}
    <3>1. Sum(f, T) = 0
      BY <2>1, SumEmpty
    <3> QED BY <2>1, <3>1
  <2>2. CASE T # {}
    <3> DEFINE p == Pick(T)
    <3>1. p \in T
      BY <2>2, PickIn
    <3>2. Sum(f, T) = f[p] + Sum(f, T \ {p})
      <4>1. IsFiniteSet(T)
        BY FS_Subset
      <4> QED BY <2>2, <4>1, SumPicked
    <3> HIDE DEF p
    <3>3. \A x \in T : Free(T \ {x}) /\ f[x] \in Int
      BY <1>1
    <3>4. Sum(f, T) \in Int
      BY <3>1, <3>2, <3>3
    <3>5. ASSUME NEW x \in T PROVE Sum(f, T) = f[x] + Sum(f, T \ {x})
      <4>1. CASE x = p
        BY <4>1, <3>2
      <4>2. CASE x # p
        <5>1. x \in T \ {p} /\ p \in T \ {x}
          BY <3>1, <4>2
        <5>2. (T \ {p}) \ {x} = (T \ {x}) \ {p}
          OBVIOUS
        <5>3. /\ Sum(f, T \ {p}) = f[x] + Sum(f, (T \ {p}) \ {x})
              /\ Sum(f, T \ {x}) = f[p] + Sum(f, (T \ {x}) \ {p})
          BY <3>1, <3>3, <5>1
        <5>4. Sum(f, (T \ {x}) \ {p}) \in Int
          <6>1. IsFiniteSet((T \ {x}) \ {p})
            BY FS_Subset
          <6> QED BY <6>1, SumType
        <5> DEFINE rest == Sum(f, (T \ {x}) \ {p})
        <5>5. Sum(f, T) = f[p] + (f[x] + rest) /\ Sum(f, T \ {x}) = f[p] + rest
          BY <3>2, <5>2, <5>3
        <5>6. f[p] \in Int /\ f[x] \in Int /\ rest \in Int
          BY <3>1, <3>3, <5>4
        <5> HIDE DEF rest, Good
        <5> QED BY <5>5, <5>6
      <4> QED BY <4>1, <4>2
    <3> QED BY <3>4, <3>5
  <2> QED BY <2>1, <2>2
<1>2. Good = SUBSET S
  <2>1. \A T \in SUBSET S : (\A x \in T : T \ {x} \in Good) => T \in Good
    BY <1>1
  <2>2. Good \in SUBSET (SUBSET S)
    OBVIOUS
  <2> HIDE DEF Good
  <2> QED BY <2>1, <2>2, SubsetInduction
<1> QED BY <1>2

LEMMA SumSame ==
    ASSUME NEW f, NEW g, NEW S, IsFiniteSet(S), \A x \in S : f[x] = g[x]
    PROVE  Sum(f, S) = Sum(g, S)
<1> DEFINE Good == {T \in SUBSET S : Sum(f, T) = Sum(g, T)}
<1>1. ASSUME NEW T \in SUBSET S, \A x \in T : T \ {x} \in Good
      PROVE  T \in Good
  <2>1. CASE T = {}
    <3>1. Sum(f, T) = 0 /\ Sum(g, T) = 0
      BY <2>1, SumEmpty
    <3> QED BY <3>1
  <2>2. CASE T # {}
    <3>1. Pick(T) \in T
      BY <2>2, PickIn
    <3>2. IsFiniteSet(T)
      BY FS_Subset
    <3>3. Sum(f, T) = f[Pick(T)] + Sum(f, T \ {Pick(T)})
      BY <2>2, <3>2, SumPicked
    <3>4. Sum(g, T) = g[Pick(T)] + Sum(g, T \ {Pick(T)})
      BY <2>2, <3>2, SumPicked
    <3>5. f[Pick(T)] = g[Pick(T)] /\ Sum(f, T \ {Pick(T)}) = Sum(g, T \ {Pick(T)})
      BY <1>1, <3>1
    <3> QED BY <3>3, <3>4, <3>5
  <2> QED BY <2>1, <2>2
<1>2. Good = SUBSET S
  <2>1. \A T \in SUBSET S : (\A x \in T : T \ {x} \in Good) => T \in Good
    BY <1>1
  <2>2. Good \in SUBSET (SUBSET S)
    OBVIOUS
  <2> HIDE DEF Good
  <2> QED BY <2>1, <2>2, SubsetInduction
<1> QED BY <1>2

(***************************************************************************)
(* The facts about SumFunction the other modules cite.                     *)
(***************************************************************************)

(* A sum of naturals is a natural and no smaller than any of them. *)
LEMMA SumAtLeast ==
    ASSUME NEW S, IsFiniteSet(S), NEW f \in [S -> Nat]
    PROVE  /\ SumFunction(f) \in Nat
           /\ \A a \in S : f[a] <= SumFunction(f)
<1>1. SumFunction(f) = Sum(f, S)
  BY DEF SumFunction, Sum
<1>2. Sum(f, S) \in Nat
  BY SumType
<1>3. ASSUME NEW a \in S PROVE f[a] <= Sum(f, S)
  <2>1. Sum(f, S) = f[a] + Sum(f, S \ {a})
    BY SumRemove
  <2>2. Sum(f, S \ {a}) \in Nat
    BY SumType, FS_Subset
  <2> QED BY <2>1, <2>2
<1> QED BY <1>1, <1>2, <1>3

(* A sum of integers in which one summand is replaced. *)
LEMMA SumChanged ==
    ASSUME NEW S, IsFiniteSet(S), NEW f \in [S -> Int], NEW g \in [S -> Int],
           NEW a \in S, \A x \in S \ {a} : g[x] = f[x]
    PROVE  /\ SumFunction(f) \in Int
           /\ SumFunction(g) = SumFunction(f) - f[a] + g[a]
<1>1. SumFunction(f) = Sum(f, S) /\ SumFunction(g) = Sum(g, S)
  BY DEF SumFunction, Sum
<1> DEFINE R == S \ {a}
<1>2. IsFiniteSet(R)
  BY FS_Subset
<1>3. Sum(f, S) = f[a] + Sum(f, R) /\ Sum(f, S) \in Int
  BY SumRemove
<1>4. Sum(g, S) = g[a] + Sum(g, R)
  BY SumRemove
<1>5. Sum(f, R) = Sum(g, R) /\ Sum(f, R) \in Int
  <2>1. \A x \in R : f[x] = g[x] /\ f[x] \in Int
    OBVIOUS
  <2> HIDE DEF R
  <2>2. Sum(f, R) = Sum(g, R)
    BY <1>2, <2>1, SumSame
  <2>3. Sum(f, R) \in Int
    BY <1>2, <2>1, SumType
  <2> QED BY <2>2, <2>3
<1> HIDE DEF R
<1> QED BY <1>1, <1>3, <1>4, <1>5

(* A sum of zeros. *)
LEMMA SumOfZeros ==
    ASSUME NEW S, IsFiniteSet(S), NEW f \in [S -> {0}]
    PROVE  SumFunction(f) = 0
<1> DEFINE Good == {T \in SUBSET S : Sum(f, T) = 0}
<1>1. ASSUME NEW T \in SUBSET S, \A x \in T : T \ {x} \in Good
      PROVE  T \in Good
  <2>1. CASE T = {}
    BY <2>1, SumEmpty
  <2>2. CASE T # {}
    <3>1. Pick(T) \in T
      BY <2>2, PickIn
    <3>2. Sum(f, T) = f[Pick(T)] + Sum(f, T \ {Pick(T)})
      BY <2>2, FS_Subset, SumPicked
    <3> QED BY <1>1, <3>1, <3>2
  <2> QED BY <2>1, <2>2
<1>2. Good = SUBSET S
  <2>1. \A T \in SUBSET S : (\A x \in T : T \ {x} \in Good) => T \in Good
    BY <1>1
  <2>2. Good \in SUBSET (SUBSET S)
    OBVIOUS
  <2> HIDE DEF Good
  <2> QED BY <2>1, <2>2, SubsetInduction
<1>3. SumFunction(f) = Sum(f, S)
  BY DEF SumFunction, Sum
<1> QED BY <1>2, <1>3

(* Summands that are zero can be left out. *)
LEMMA SumPadded ==
    ASSUME NEW S, IsFiniteSet(S), NEW T \in SUBSET S, NEW g \in [S -> Int],
           \A x \in S \ T : g[x] = 0
    PROVE  SumFunction([x \in T |-> g[x]]) = SumFunction(g)
<1> DEFINE Good == {U \in SUBSET S : Sum(g, U) = Sum(g, U \cap T)}
<1>1. ASSUME NEW U \in SUBSET S, \A x \in U : U \ {x} \in Good
      PROVE  U \in Good
  <2>1. CASE U = {}
    BY <2>1
  <2>2. CASE U # {}
    <3> DEFINE x == Pick(U)
    <3>1. x \in U
      BY <2>2, PickIn
    <3> HIDE DEF x
    <3>2. /\ IsFiniteSet(U) /\ IsFiniteSet(U \cap T)
          /\ \A y \in U : g[y] \in Int
      BY FS_Subset
    <3>3. Sum(g, U) = g[x] + Sum(g, U \ {x})
      BY <3>1, <3>2, SumRemove
    <3>4. Sum(g, U \ {x}) = Sum(g, (U \ {x}) \cap T)
      BY <1>1, <3>1
    <3>5. CASE x \in T
      <4>1. Sum(g, U \cap T) = g[x] + Sum(g, (U \cap T) \ {x})
        BY <3>1, <3>2, <3>5, SumRemove
      <4>2. (U \cap T) \ {x} = (U \ {x}) \cap T
        OBVIOUS
      <4> QED BY <3>3, <3>4, <4>1, <4>2
    <3>6. CASE x \notin T
      <4>1. (U \ {x}) \cap T = U \cap T /\ g[x] = 0
        BY <3>1, <3>6
      <4>2. Sum(g, U \cap T) \in Int
        BY <3>2, SumType
      <4>3. Sum(g, U) = 0 + Sum(g, U \cap T)
        BY <3>3, <3>4, <4>1
      <4>4. Sum(g, U) = Sum(g, U \cap T)
        BY <4>2, <4>3
      <4> QED BY <4>4
    <3> QED BY <3>5, <3>6
  <2> QED BY <2>1, <2>2
<1>2. Good = SUBSET S
  <2>1. \A U \in SUBSET S : (\A x \in U : U \ {x} \in Good) => U \in Good
    BY <1>1
  <2>2. Good \in SUBSET (SUBSET S)
    OBVIOUS
  <2> HIDE DEF Good
  <2> QED BY <2>1, <2>2, SubsetInduction
<1>3. Sum(g, S) = Sum(g, S \cap T) /\ S \cap T = T
  BY <1>2
<1> DEFINE h == [x \in T |-> g[x]]
<1>4. SumFunction(h) = Sum(h, T) /\ SumFunction(g) = Sum(g, S)
  BY DEF SumFunction, Sum
<1>5. Sum(h, T) = Sum(g, T)
  <2>1. IsFiniteSet(T) /\ \A x \in T : h[x] = g[x]
    BY FS_Subset
  <2> HIDE DEF h
  <2> QED BY <2>1, SumSame
<1> QED BY <1>3, <1>4, <1>5

(* Sums are linear. *)
LEMMA SumLinear ==
    ASSUME NEW S, IsFiniteSet(S), NEW f \in [S -> Int], NEW g \in [S -> Int], NEW c \in Int,
           NEW h \in [S -> Int], \A x \in S : h[x] = f[x] + c * g[x]
    PROVE  /\ SumFunction(f) \in Int /\ SumFunction(g) \in Int
           /\ SumFunction(h) = SumFunction(f) + c * SumFunction(g)
<1> DEFINE Good == {T \in SUBSET S : Sum(h, T) = Sum(f, T) + c * Sum(g, T)}
<1>1. ASSUME NEW T \in SUBSET S, \A x \in T : T \ {x} \in Good
      PROVE  T \in Good
  <2>1. CASE T = {}
    <3>1. Sum(f, T) = 0 /\ Sum(g, T) = 0 /\ Sum(h, T) = 0
      BY <2>1, SumEmpty
    <3> QED BY <3>1
  <2>2. CASE T # {}
    <3> DEFINE p == Pick(T)
               R == T \ {p}
    <3>1. p \in T /\ IsFiniteSet(T) /\ IsFiniteSet(R)
      BY <2>2, PickIn, FS_Subset
    <3>2. Sum(f, T) = f[p] + Sum(f, R)
      BY <2>2, <3>1, SumPicked
    <3>3. Sum(g, T) = g[p] + Sum(g, R)
      BY <2>2, <3>1, SumPicked
    <3>4. Sum(h, T) = h[p] + Sum(h, R)
      BY <2>2, <3>1, SumPicked
    <3>5. Sum(h, R) = Sum(f, R) + c * Sum(g, R)
      BY <1>1, <3>1
    <3>6. h[p] = f[p] + c * g[p] /\ f[p] \in Int /\ g[p] \in Int
      BY <3>1
    <3>7. Sum(f, R) \in Int
      BY <3>1, SumType
    <3>8. Sum(g, R) \in Int
      BY <3>1, SumType
    <3> HIDE DEF p, R, Good
    <3>9. \A a, b, x, y \in Int : (a + c * b) + (x + c * y) = (a + x) + c * (b + y)
      OBVIOUS
    <3>10. Sum(h, T) = Sum(f, T) + c * Sum(g, T)
      BY <3>2, <3>3, <3>4, <3>5, <3>6, <3>7, <3>8, <3>9
    <3> QED BY <3>10 DEF Good
  <2> QED BY <2>1, <2>2
<1>2. Good = SUBSET S
  <2>1. \A T \in SUBSET S : (\A x \in T : T \ {x} \in Good) => T \in Good
    BY <1>1
  <2>2. Good \in SUBSET (SUBSET S)
    OBVIOUS
  <2> HIDE DEF Good
  <2> QED BY <2>1, <2>2, SubsetInduction
<1>3. SumFunction(f) = Sum(f, S) /\ SumFunction(g) = Sum(g, S) /\ SumFunction(h) = Sum(h, S)
  BY DEF SumFunction, Sum
<1>4. Sum(f, S) \in Int
  BY SumType
<1>5. Sum(g, S) \in Int
  BY SumType
<1>6. S \in Good
  BY <1>2
<1> QED BY <1>3, <1>4, <1>5, <1>6

(* Rounding each summand down rounds the sum down. *)
LEMMA SumRounded ==
    ASSUME NEW S, IsFiniteSet(S), NEW f \in [S -> Nat], NEW n \in Nat, n > 0
    PROVE  /\ SumFunction([x \in S |-> f[x] \div n]) \in Nat
           /\ n * SumFunction([x \in S |-> f[x] \div n]) <= SumFunction(f)
<1> DEFINE d == [x \in S |-> f[x] \div n]
           r == [x \in S |-> f[x] % n]
<1>1. \A m \in Nat : m \div n \in Nat /\ m % n \in Nat /\ m = (m % n) + n * (m \div n)
  OBVIOUS
<1>2. d \in [S -> Nat] /\ r \in [S -> Nat] /\ \A x \in S : f[x] = r[x] + n * d[x]
  BY <1>1
<1> HIDE DEF d, r
<1>3. SumFunction(r) \in Nat
  BY <1>2, SumAtLeast
<1>4. SumFunction(d) \in Nat
  BY <1>2, SumAtLeast
<1>5. SumFunction(f) = SumFunction(r) + n * SumFunction(d)
  <2>1. f \in [S -> Int] /\ r \in [S -> Int] /\ d \in [S -> Int] /\ n \in Int
    BY <1>2
  <2> QED BY <1>2, <2>1, SumLinear
<1>6. \A a, b \in Nat : n * b \in Nat /\ n * b <= a + n * b
  OBVIOUS
<1> QED BY <1>3, <1>4, <1>5, <1>6 DEF d

(* A part of a sum of natural numbers is at most the whole. *)
LEMMA SumPart ==
    ASSUME NEW S, IsFiniteSet(S), NEW T \in SUBSET S, NEW f \in [S -> Nat]
    PROVE  /\ SumFunction([x \in T |-> f[x]]) \in Nat
           /\ SumFunction([x \in T |-> f[x]]) <= SumFunction(f)
<1> DEFINE g == [x \in S |-> IF x \in T THEN f[x] ELSE 0]
           h == [x \in S |-> f[x] - g[x]]
<1>1. g \in [S -> Nat] /\ h \in [S -> Nat]
  OBVIOUS
<1>2. [x \in T |-> f[x]] = [x \in T |-> g[x]]
  OBVIOUS
<1>3. \A x \in S \ T : g[x] = 0
  OBVIOUS
<1>4. \A x \in S : h[x] = f[x] + (-1) * g[x]
  BY <1>1
<1>5. f \in [S -> Int] /\ g \in [S -> Int] /\ h \in [S -> Int] /\ -1 \in Int
  BY <1>1
<1> HIDE DEF g, h
<1>6. SumFunction([x \in T |-> f[x]]) = SumFunction(g)
  BY <1>2, <1>3, <1>5, SumPadded
<1>7. SumFunction(h) = SumFunction(f) + (-1) * SumFunction(g)
  BY <1>4, <1>5, SumLinear
<1>8. SumFunction(f) \in Nat /\ SumFunction(g) \in Nat /\ SumFunction(h) \in Nat
  BY <1>1, SumAtLeast
<1> QED BY <1>6, <1>7, <1>8
==============================================================================

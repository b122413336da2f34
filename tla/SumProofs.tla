------------------------------ MODULE SumProofs ------------------------------
(***************************************************************************)
(* Sums of a function over a finite set.  SumFunctionOnSet takes its set   *)
(* apart one chosen element after the other; each lemma about it is proved *)
(* by induction over the subsets of a finite set, which have no infinite   *)
(* descending chain.  What is shown by induction is named as a set of      *)
(* subsets, not as an operator.                                            *)
(***************************************************************************)
EXTENDS Integers, FiniteSets, Functions, FiniteSetTheorems, TLAPS

(* What holds of a finite set when it holds of its strict subsets. *)
LEMMA SetInduction ==
    ASSUME NEW S, IsFiniteSet(S), NEW T,
           \A s \in SUBSET S : (\A t \in SUBSET s : t # s => t \in T) => s \in T
    PROVE  S \in T
<1>. DEFINE B == {s \in SUBSET S : s \notin T}
<1>. SUFFICES ASSUME B # {} PROVE FALSE
  OBVIOUS
<1>1. FiniteSubsetsOf(S) = SUBSET S
  BY FS_FiniteSubsetsOfFinite
<1>0. IsWellFoundedOn(StrictSubsetOrdering(S), FiniteSubsetsOf(S))
  BY FS_StrictSubsetOrderingWellFounded
<1>2. B \subseteq FiniteSubsetsOf(S)
  BY <1>1
<1>. HIDE DEF B
<1>4. PICK s \in B : \A t \in B : ~(<<t, s>> \in StrictSubsetOrdering(S))
  BY <1>0, <1>2, WFMin
<1>5. \A t \in SUBSET s : t # s => t \in T
  <2>. TAKE t \in SUBSET s
  <2>. SUFFICES ASSUME t # s, t \notin T PROVE FALSE
    OBVIOUS
  <2>1. t \in B /\ s \in SUBSET S /\ t \in SUBSET S
    BY DEF B
  <2>2. <<t, s>> \in StrictSubsetOrdering(S)
    BY <2>1 DEF StrictSubsetOrdering
  <2>. QED BY <2>1, <2>2, <1>4
<1>. QED BY <1>5 DEF B

(* The element that a fold takes first, and what it leaves to the rest. *)
Chosen(s) == CHOOSE x \in s : TRUE
SumStep(f, S, g) ==
    [s \in SUBSET S |-> IF s = {} THEN 0 ELSE f[Chosen(s)] + g[s \ {Chosen(s)}]]

(* The first element is one of the set. *)
LEMMA ChosenIn == \A s : s # {} => Chosen(s) \in s
BY DEF Chosen

(* The definition of the sum, unfolded. *)
LEMMA SumUnfolds ==
    ASSUME NEW f, NEW S
    PROVE  SumFunctionOnSet(f, S) = (CHOOSE g : g = SumStep(f, S, g))[S]
BY DEF SumFunctionOnSet, FoldFunctionOnSet, MapThenFoldSet, SumStep, Chosen

(* g sums f over the subsets of s. *)
Sums(f, s, g) == g = SumStep(f, s, g)

(* Two functions that sum f agree where both are defined. *)
LEMMA SumsAgree ==
    ASSUME NEW f, NEW S, IsFiniteSet(S), NEW U, IsFiniteSet(U), NEW g, NEW h, Sums(f, S, g), Sums(f, U, h),
           NEW V, V \subseteq S, V \subseteq U
    PROVE  g[V] = h[V]
<1>. DEFINE T == {s \in SUBSET V : g[s] = h[s]}
<1>1. ASSUME NEW s \in SUBSET V, \A t \in SUBSET s : t # s => t \in T
      PROVE  s \in T
  <2>0. s \in SUBSET S /\ s \in SUBSET U
    OBVIOUS
  <2>1. CASE s = {}
    BY <2>0, <2>1 DEF Sums, SumStep
  <2>2. CASE s # {}
    <3>1. Chosen(s) \in s
      BY <2>2, ChosenIn
    <3>2. s \ {Chosen(s)} \in T
      BY <3>1, <1>1
    <3>3. g[s] = f[Chosen(s)] + g[s \ {Chosen(s)}]
      BY <2>0, <2>2 DEF Sums, SumStep
    <3>4. h[s] = f[Chosen(s)] + h[s \ {Chosen(s)}]
      BY <2>0, <2>2 DEF Sums, SumStep
    <3>. QED BY <3>2, <3>3, <3>4
  <2>. QED BY <2>1, <2>2
<1>2. IsFiniteSet(V)
  BY FS_Subset
<1>. HIDE DEF T
<1>3. V \in T
  BY <1>1, <1>2, SetInduction
<1>. QED BY <1>3 DEF T

(* There is a function that sums f. *)
LEMMA SumsExist ==
    ASSUME NEW f, NEW S, IsFiniteSet(S)
    PROVE  \E g : Sums(f, S, g)
<1>. DEFINE T == {s \in SUBSET S : \E g : Sums(f, s, g)}
<1>1. ASSUME NEW s \in SUBSET S, \A t \in SUBSET s : t # s => t \in T
      PROVE  s \in T
  <2>1. CASE s = {}
    <3>. DEFINE g == [t \in SUBSET {} |-> 0]
    <3>1. Sums(f, {}, g)
      BY DEF Sums, SumStep
    <3>. QED BY <2>1, <3>1
  <2>2. CASE s # {}
    <3>. DEFINE of(t) == CHOOSE g : Sums(f, t, g)
                g == [t \in SUBSET s |-> IF t # s THEN of(t)[t]
                                         ELSE f[Chosen(s)] + of(s \ {Chosen(s)})[s \ {Chosen(s)}]]
    <3>0. \A t \in SUBSET s : t # s => Sums(f, t, of(t))
      BY <1>1
    <3>. HIDE DEF of
    <3>1. ASSUME NEW t \in SUBSET s, t # {}
          PROVE  g[t] = f[Chosen(t)] + g[t \ {Chosen(t)}]
      <4>1. Chosen(t) \in t /\ t \ {Chosen(t)} \in SUBSET s /\ t \ {Chosen(t)} # s
        BY <3>1, ChosenIn
      <4>2. g[t \ {Chosen(t)}] = of(t \ {Chosen(t)})[t \ {Chosen(t)}]
        BY <4>1
      <4>3. CASE t = s
        BY <4>2, <4>3
      <4>4. CASE t # s
        <5>1. g[t] = of(t)[t]
          BY <4>4
        <5>2. Sums(f, t, of(t)) /\ Sums(f, t \ {Chosen(t)}, of(t \ {Chosen(t)}))
          BY <3>0, <4>1, <4>4
        <5>3. of(t)[t] = f[Chosen(t)] + of(t)[t \ {Chosen(t)}]
          <6>1. t \in SUBSET t
            OBVIOUS
          <6>. QED BY <5>2, <6>1, <3>1 DEF Sums, SumStep
        <5>. DEFINE u == t \ {Chosen(t)}
        <5>5. IsFiniteSet(t) /\ IsFiniteSet(u) /\ u \subseteq t /\ u \subseteq u
          BY FS_Subset
        <5>6. Sums(f, t, of(t)) /\ Sums(f, u, of(u))
          BY <5>2
        <5>. DEFINE ft == of(t)
                    fu == of(u)
        <5>9. Sums(f, t, ft) /\ Sums(f, u, fu)
          BY <5>6
        <5>. HIDE DEF u, ft, fu
        <5>10. ft[u] = fu[u]
          BY <5>5, <5>9, SumsAgree
        <5>7. of(t)[u] = of(u)[u]
          BY <5>10 DEF ft, fu
        <5>8. of(t)[t \ {Chosen(t)}] = of(t \ {Chosen(t)})[t \ {Chosen(t)}]
          BY <5>7 DEF u
        <5>. QED BY <5>1, <5>3, <5>8, <4>2
      <4>. QED BY <4>3, <4>4
    <3>2. g[{}] = 0
      <4>1. {} \in SUBSET s /\ {} # s
        BY <2>2
      <4>2. Sums(f, {}, of({}))
        BY <3>0, <4>1
      <4>3. of({})[{}] = 0
        BY <4>2 DEF Sums, SumStep
      <4>. QED BY <4>1, <4>3
    <3>3. g = [t \in SUBSET s |-> g[t]]
      OBVIOUS
    <3>. HIDE DEF g
    <3>4. Sums(f, s, g)
      BY <3>1, <3>2, <3>3 DEF Sums, SumStep
    <3>. QED BY <3>4
  <2>. QED BY <2>1, <2>2
<1>. HIDE DEF T
<1>2. S \in T
  BY <1>1, SetInduction
<1>. QED BY <1>2 DEF T

(* SumFunctionOnSet is the value of such a function. *)
LEMMA SumsOf ==
    ASSUME NEW f, NEW S, IsFiniteSet(S)
    PROVE  \E g : Sums(f, S, g) /\ SumFunctionOnSet(f, S) = g[S]
<1>. DEFINE g == CHOOSE g : g = SumStep(f, S, g)
<1>1. Sums(f, S, g)
  BY SumsExist DEF Sums
<1>. QED BY <1>1, SumUnfolds

-----------------------------------------------------------------------------
(* The sum over no elements. *)
LEMMA SumOfNone == \A f : SumFunctionOnSet(f, {}) = 0
<1>. TAKE f
<1>1. PICK g : Sums(f, {}, g) /\ SumFunctionOnSet(f, {}) = g[{}]
  BY SumsOf, FS_EmptySet
<1>. QED BY <1>1 DEF Sums, SumStep

(* The sum takes the chosen element and adds the sum over the rest. *)
LEMMA SumOfChosen ==
    ASSUME NEW f, NEW S, IsFiniteSet(S), S # {}
    PROVE  SumFunctionOnSet(f, S) = f[Chosen(S)] + SumFunctionOnSet(f, S \ {Chosen(S)})
<1>. DEFINE U == S \ {Chosen(S)}
<1>0. IsFiniteSet(U) /\ U \subseteq S /\ U \subseteq U
  BY FS_Subset
<1>1. PICK g : Sums(f, S, g) /\ SumFunctionOnSet(f, S) = g[S]
  BY SumsOf
<1>3. g[S] = f[Chosen(S)] + g[U]
  <2>1. S \in SUBSET S
    OBVIOUS
  <2>. QED BY <1>1, <2>1 DEF Sums, SumStep
<1>. HIDE DEF U
<1>2. PICK h : Sums(f, U, h) /\ SumFunctionOnSet(f, U) = h[U]
  BY <1>0, SumsOf
<1>4. g[U] = h[U]
  BY <1>0, <1>1, <1>2, SumsAgree
<1>5. SumFunctionOnSet(f, S) = f[Chosen(S)] + SumFunctionOnSet(f, U)
  BY <1>1, <1>2, <1>3, <1>4
<1>. QED BY <1>5 DEF U

(* The sum of integers is one. *)
LEMMA SumIsInt ==
    ASSUME NEW f, NEW S, IsFiniteSet(S), \A x \in S : f[x] \in Int
    PROVE  SumFunctionOnSet(f, S) \in Int
<1>. DEFINE T == {s \in SUBSET S : SumFunctionOnSet(f, s) \in Int}
<1>1. ASSUME NEW s \in SUBSET S, \A t \in SUBSET s : t # s => t \in T
      PROVE  s \in T
  <2>1. CASE s = {}
    BY <2>1, SumOfNone
  <2>2. CASE s # {}
    <3>1. Chosen(s) \in s /\ IsFiniteSet(s)
      BY <2>2, ChosenIn, FS_Subset
    <3>2. s \ {Chosen(s)} \in T
      BY <3>1, <1>1
    <3>. QED BY <2>2, <3>1, <3>2, SumOfChosen
  <2>. QED BY <2>1, <2>2
<1>. HIDE DEF T
<1>2. S \in T
  BY <1>1, SetInduction
<1>. QED BY <1>2 DEF T

(* A sum does not depend on the order in which the fold chooses. *)
LEMMA SumWithout ==
    ASSUME NEW f, NEW S, IsFiniteSet(S), \A x \in S : f[x] \in Int, NEW y \in S
    PROVE  SumFunctionOnSet(f, S) = f[y] + SumFunctionOnSet(f, S \ {y})
<1>. DEFINE T == {s \in SUBSET S : \A x \in s :
                    SumFunctionOnSet(f, s) = f[x] + SumFunctionOnSet(f, s \ {x})}
<1>1. ASSUME NEW s \in SUBSET S, \A t \in SUBSET s : t # s => t \in T
      PROVE  s \in T
  <2>. SUFFICES ASSUME NEW x \in s
                PROVE  SumFunctionOnSet(f, s) = f[x] + SumFunctionOnSet(f, s \ {x})
    OBVIOUS
  <2>. DEFINE c == Chosen(s)
  <2>1. c \in s /\ IsFiniteSet(s)
    BY ChosenIn, FS_Subset
  <2>. DEFINE u == s \ {c}
              v == s \ {x}
              w == s \ {c, x}
  <2>2. SumFunctionOnSet(f, s) = f[c] + SumFunctionOnSet(f, u)
    BY <2>1, SumOfChosen
  <2>. HIDE DEF c
  <2>3. CASE x = c
    BY <2>2, <2>3
  <2>4. CASE x # c
    <3>1. u \in T /\ v \in T /\ x \in u /\ c \in v
      BY <1>1, <2>1, <2>4
    <3>2. u \ {x} = w /\ v \ {c} = w
      OBVIOUS
    <3>3. SumFunctionOnSet(f, u) = f[x] + SumFunctionOnSet(f, w)
      BY <3>1, <3>2
    <3>4. SumFunctionOnSet(f, v) = f[c] + SumFunctionOnSet(f, w)
      BY <3>1, <3>2
    <3>5. f[c] \in Int /\ f[x] \in Int
      BY <2>1
    <3>6. IsFiniteSet(w) /\ \A y1 \in w : f[y1] \in Int
      BY FS_Subset
    <3>. HIDE DEF u, v, w
    <3>7. SumFunctionOnSet(f, w) \in Int
      BY <3>6, SumIsInt
    <3>8. SumFunctionOnSet(f, s) = f[x] + SumFunctionOnSet(f, v)
      BY <2>2, <3>3, <3>4, <3>5, <3>7
    <3>. QED BY <3>8 DEF v
  <2>. QED BY <2>3, <2>4
<1>. HIDE DEF T
<1>2. S \in T
  BY <1>1, SetInduction
<1>. QED BY <1>2 DEF T

(* The sum of naturals is one. *)
LEMMA SumIsNat ==
    ASSUME NEW f, NEW S, IsFiniteSet(S), \A x \in S : f[x] \in Nat
    PROVE  SumFunctionOnSet(f, S) \in Nat
<1>. DEFINE T == {s \in SUBSET S : SumFunctionOnSet(f, s) \in Nat}
<1>1. ASSUME NEW s \in SUBSET S, \A t \in SUBSET s : t # s => t \in T
      PROVE  s \in T
  <2>1. CASE s = {}
    BY <2>1, SumOfNone
  <2>2. CASE s # {}
    <3>1. Chosen(s) \in s /\ IsFiniteSet(s)
      BY <2>2, ChosenIn, FS_Subset
    <3>2. s \ {Chosen(s)} \in T
      BY <3>1, <1>1
    <3>. QED BY <2>2, <3>1, <3>2, SumOfChosen
  <2>. QED BY <2>1, <2>2
<1>. HIDE DEF T
<1>2. S \in T
  BY <1>1, SetInduction
<1>. QED BY <1>2 DEF T

(* A sum is that of the values at the elements. *)
LEMMA SumOfEqual ==
    ASSUME NEW f, NEW g, NEW S, IsFiniteSet(S), \A x \in S : f[x] = g[x]
    PROVE  SumFunctionOnSet(f, S) = SumFunctionOnSet(g, S)
<1>. DEFINE T == {s \in SUBSET S : SumFunctionOnSet(f, s) = SumFunctionOnSet(g, s)}
<1>1. ASSUME NEW s \in SUBSET S, \A t \in SUBSET s : t # s => t \in T
      PROVE  s \in T
  <2>1. CASE s = {}
    BY <2>1, SumOfNone
  <2>2. CASE s # {}
    <3>1. Chosen(s) \in s /\ IsFiniteSet(s)
      BY <2>2, ChosenIn, FS_Subset
    <3>2. s \ {Chosen(s)} \in T
      BY <3>1, <1>1
    <3>3. f[Chosen(s)] = g[Chosen(s)]
      BY <3>1
    <3>. QED BY <2>2, <3>1, <3>2, <3>3, SumOfChosen
  <2>. QED BY <2>1, <2>2
<1>. HIDE DEF T
<1>2. S \in T
  BY <1>1, SetInduction
<1>. QED BY <1>2 DEF T

(* The sum of a sum of two functions. *)
LEMMA SumOfBoth ==
    ASSUME NEW f, NEW g, NEW h, NEW S, IsFiniteSet(S),
           \A x \in S : f[x] \in Int /\ g[x] \in Int /\ h[x] = f[x] + g[x]
    PROVE  SumFunctionOnSet(h, S) = SumFunctionOnSet(f, S) + SumFunctionOnSet(g, S)
<1>. DEFINE T == {s \in SUBSET S : SumFunctionOnSet(h, s)
                                     = SumFunctionOnSet(f, s) + SumFunctionOnSet(g, s)}
<1>1. ASSUME NEW s \in SUBSET S, \A t \in SUBSET s : t # s => t \in T
      PROVE  s \in T
  <2>1. CASE s = {}
    BY <2>1, SumOfNone
  <2>2. CASE s # {}
    <3>. DEFINE c == Chosen(s)
                u == s \ {c}
    <3>1. c \in s /\ IsFiniteSet(s)
      BY <2>2, ChosenIn, FS_Subset
    <3>2. u \in T
      BY <3>1, <1>1
    <3>3. IsFiniteSet(u) /\ \A x \in u : f[x] \in Int /\ g[x] \in Int
      BY FS_Subset
    <3>4. f[c] \in Int /\ g[c] \in Int /\ h[c] = f[c] + g[c]
      BY <3>1
    <3>5. /\ SumFunctionOnSet(f, s) = f[c] + SumFunctionOnSet(f, u)
          /\ SumFunctionOnSet(g, s) = g[c] + SumFunctionOnSet(g, u)
          /\ SumFunctionOnSet(h, s) = h[c] + SumFunctionOnSet(h, u)
      BY <2>2, <3>1, SumOfChosen
    <3>6. SumFunctionOnSet(h, u) = SumFunctionOnSet(f, u) + SumFunctionOnSet(g, u)
      BY <3>2
    <3>. HIDE DEF u, c
    <3>7. SumFunctionOnSet(f, u) \in Int /\ SumFunctionOnSet(g, u) \in Int
      BY <3>3, SumIsInt
    <3>. QED BY <3>4, <3>5, <3>6, <3>7
  <2>. QED BY <2>1, <2>2
<1>. HIDE DEF T
<1>2. S \in T
  BY <1>1, SetInduction
<1>. QED BY <1>2 DEF T

(* The sum over two sets that do not meet. *)
LEMMA SumOfUnion ==
    ASSUME NEW f, NEW S, NEW U, IsFiniteSet(S), IsFiniteSet(U), S \cap U = {},
           \A x \in S \cup U : f[x] \in Int
    PROVE  SumFunctionOnSet(f, S \cup U) = SumFunctionOnSet(f, S) + SumFunctionOnSet(f, U)
<1>. DEFINE T == {s \in SUBSET S : SumFunctionOnSet(f, s \cup U)
                                     = SumFunctionOnSet(f, s) + SumFunctionOnSet(f, U)}
<1>0. SumFunctionOnSet(f, U) \in Int
  BY SumIsInt
<1>1. ASSUME NEW s \in SUBSET S, \A t \in SUBSET s : t # s => t \in T
      PROVE  s \in T
  <2>1. CASE s = {}
    <3>1. s \cup U = U
      BY <2>1
    <3>. QED BY <2>1, <3>1, <1>0, SumOfNone
  <2>2. CASE s # {}
    <3>. DEFINE c == Chosen(s)
                u == s \ {c}
    <3>1. c \in s /\ IsFiniteSet(s) /\ IsFiniteSet(s \cup U)
      BY <2>2, ChosenIn, FS_Subset, FS_Union
    <3>2. u \in T /\ (s \cup U) \ {c} = u \cup U
      BY <3>1, <1>1
    <3>3. IsFiniteSet(u) /\ \A x \in u : f[x] \in Int
      BY FS_Subset
    <3>4. f[c] \in Int /\ c \in s \cup U /\ \A x \in s \cup U : f[x] \in Int
      BY <3>1
    <3>5. SumFunctionOnSet(f, s) = f[c] + SumFunctionOnSet(f, u)
      BY <2>2, <3>1, SumOfChosen
    <3>6. SumFunctionOnSet(f, u \cup U) = SumFunctionOnSet(f, u) + SumFunctionOnSet(f, U)
      BY <3>2
    <3>. HIDE DEF u, c
    <3>7. SumFunctionOnSet(f, s \cup U) = f[c] + SumFunctionOnSet(f, (s \cup U) \ {c})
      BY <3>1, <3>4, SumWithout
    <3>8. SumFunctionOnSet(f, u) \in Int
      BY <3>3, SumIsInt
    <3>9. SumFunctionOnSet(f, s \cup U) = f[c] + SumFunctionOnSet(f, u \cup U)
      BY <3>2, <3>7
    <3>. QED BY <1>0, <3>4, <3>5, <3>6, <3>8, <3>9
  <2>. QED BY <2>1, <2>2
<1>. HIDE DEF T
<1>2. S \in T
  BY <1>1, SetInduction
<1>. QED BY <1>2 DEF T

(* A part of a sum of naturals is no more than the sum. *)
LEMMA SumOfPart ==
    ASSUME NEW f, NEW S, IsFiniteSet(S), \A x \in S : f[x] \in Nat, NEW U, U \subseteq S
    PROVE  SumFunctionOnSet(f, U) <= SumFunctionOnSet(f, S)
<1>. DEFINE V == S \ U
<1>1. IsFiniteSet(U) /\ IsFiniteSet(V) /\ U \cap V = {} /\ U \cup V = S
  BY FS_Subset
<1>2. (\A x \in U : f[x] \in Nat) /\ (\A x \in V : f[x] \in Nat)
      /\ (\A x \in U \cup V : f[x] \in Int)
  OBVIOUS
<1>. HIDE DEF V
<1>3. SumFunctionOnSet(f, U) \in Nat /\ SumFunctionOnSet(f, V) \in Nat
  BY <1>1, <1>2, SumIsNat
<1>4. SumFunctionOnSet(f, U \cup V) = SumFunctionOnSet(f, U) + SumFunctionOnSet(f, V)
  BY <1>1, <1>2, SumOfUnion
<1>5. \A a, b \in Nat : a <= a + b
  OBVIOUS
<1>6. SumFunctionOnSet(f, U) <= SumFunctionOnSet(f, U) + SumFunctionOnSet(f, V)
  BY <1>3, <1>5
<1>. QED BY <1>1, <1>4, <1>6

(* Two functions that differ at one element. *)
LEMMA SumChanged ==
    ASSUME NEW f, NEW g, NEW S, IsFiniteSet(S), NEW y \in S,
           \A x \in S : f[x] \in Int /\ g[x] \in Int,
           \A x \in S \ {y} : g[x] = f[x]
    PROVE  SumFunctionOnSet(g, S) = SumFunctionOnSet(f, S) + (g[y] - f[y])
<1>. DEFINE U == S \ {y}
<1>1. IsFiniteSet(U) /\ \A x \in U : f[x] \in Int /\ g[x] = f[x]
  BY FS_Subset
<1>2. /\ SumFunctionOnSet(f, S) = f[y] + SumFunctionOnSet(f, U)
      /\ SumFunctionOnSet(g, S) = g[y] + SumFunctionOnSet(g, U)
  BY SumWithout
<1>. HIDE DEF U
<1>3. SumFunctionOnSet(g, U) = SumFunctionOnSet(f, U)
  BY <1>1, SumOfEqual
<1>4. SumFunctionOnSet(f, U) \in Int
  BY <1>1, SumIsInt
<1>. QED BY <1>2, <1>3, <1>4

(* The sum of zeros. *)
LEMMA SumOfZeros ==
    ASSUME NEW f, NEW S, IsFiniteSet(S), \A x \in S : f[x] = 0
    PROVE  SumFunctionOnSet(f, S) = 0
<1>1. \A x \in S : f[x] \in Int /\ f[x] = f[x] + f[x]
  OBVIOUS
<1>2. SumFunctionOnSet(f, S) = SumFunctionOnSet(f, S) + SumFunctionOnSet(f, S)
  BY <1>1, SumOfBoth
<1>3. SumFunctionOnSet(f, S) \in Int
  BY <1>1, SumIsInt
<1>4. \A a \in Int : a = a + a => a = 0
  OBVIOUS
<1>. QED BY <1>2, <1>3, <1>4

(* Two elements more. *)
LEMMA SumOfTwoMore ==
    ASSUME NEW f, NEW g, NEW S, IsFiniteSet(S), NEW a, NEW b, a \notin S, b \notin S, a # b,
           \A x \in S : f[x] \in Int /\ g[x] = f[x], g[a] \in Int, g[b] \in Int
    PROVE  SumFunctionOnSet(g, S \cup {a, b}) = SumFunctionOnSet(f, S) + (g[a] + g[b])
<1>. DEFINE U == S \cup {a, b}
            V == S \cup {b}
<1>1. IsFiniteSet(U) /\ IsFiniteSet(V) /\ U \ {a} = V /\ V \ {b} = S /\ a \in U /\ b \in V
  <2>1. IsFiniteSet(V)
    BY FS_AddElement
  <2>2. IsFiniteSet(V \cup {a})
    BY <2>1, FS_AddElement
  <2>3. V \cup {a} = U
    OBVIOUS
  <2>. QED BY <2>1, <2>2, <2>3
<1>2. (\A x \in U : g[x] \in Int) /\ (\A x \in V : g[x] \in Int)
  OBVIOUS
<1>. HIDE DEF U, V
<1>3. SumFunctionOnSet(g, U) = g[a] + SumFunctionOnSet(g, V)
  BY <1>1, <1>2, SumWithout
<1>4. SumFunctionOnSet(g, V) = g[b] + SumFunctionOnSet(g, S)
  BY <1>1, <1>2, SumWithout
<1>5. SumFunctionOnSet(g, S) = SumFunctionOnSet(f, S)
  BY SumOfEqual
<1>6. SumFunctionOnSet(f, S) \in Int
  BY SumIsInt
<1>. QED BY <1>3, <1>4, <1>5, <1>6 DEF U

(* What is zero need not be summed. *)
LEMMA SumOfRest ==
    ASSUME NEW f, NEW g, NEW S, IsFiniteSet(S), NEW U, U \subseteq S,
           \A x \in U : f[x] \in Int /\ g[x] = f[x], \A x \in S \ U : g[x] = 0
    PROVE  SumFunctionOnSet(f, U) = SumFunctionOnSet(g, S)
<1>. DEFINE V == S \ U
<1>1. IsFiniteSet(U) /\ IsFiniteSet(V) /\ U \cap V = {} /\ U \cup V = S
  BY FS_Subset
<1>2. (\A x \in U \cup V : g[x] \in Int) /\ (\A x \in V : g[x] = 0)
  OBVIOUS
<1>. HIDE DEF V
<1>3. SumFunctionOnSet(g, S) = SumFunctionOnSet(g, U) + SumFunctionOnSet(g, V)
  BY <1>1, <1>2, SumOfUnion
<1>4. SumFunctionOnSet(g, V) = 0
  BY <1>1, <1>2, SumOfZeros
<1>5. SumFunctionOnSet(f, U) = SumFunctionOnSet(g, U)
  BY <1>1, SumOfEqual
<1>6. SumFunctionOnSet(f, U) \in Int
  BY <1>1, SumIsInt
<1>. QED BY <1>3, <1>4, <1>5, <1>6

(* The sum of the opposites. *)
LEMMA SumOfOpposites ==
    ASSUME NEW f, NEW g, NEW S, IsFiniteSet(S), \A x \in S : f[x] \in Int /\ g[x] = -f[x]
    PROVE  SumFunctionOnSet(g, S) = -SumFunctionOnSet(f, S)
<1>. DEFINE z == [x \in S |-> 0]
<1>1. \A x \in S : f[x] \in Int /\ g[x] \in Int /\ z[x] = f[x] + g[x]
  OBVIOUS
<1>2. \A x \in S : z[x] = 0
  OBVIOUS
<1>. HIDE DEF z
<1>3. SumFunctionOnSet(z, S) = SumFunctionOnSet(f, S) + SumFunctionOnSet(g, S)
  BY <1>1, SumOfBoth
<1>4. SumFunctionOnSet(z, S) = 0
  BY <1>2, SumOfZeros
<1>5. SumFunctionOnSet(f, S) \in Int /\ SumFunctionOnSet(g, S) \in Int
  BY <1>1, SumIsInt
<1>. QED BY <1>3, <1>4, <1>5

(* The sum of the sums over sets that do not meet. *)
LEMMA SumOfSums ==
    ASSUME NEW f, NEW h, NEW S, IsFiniteSet(S), NEW M,
           \A x \in S : IsFiniteSet(M[x]) /\ h[x] = SumFunctionOnSet(f, M[x])
                        /\ \A m \in M[x] : f[m] \in Int,
           \A x, y \in S : x # y => M[x] \cap M[y] = {}
    PROVE  SumFunctionOnSet(h, S) = SumFunctionOnSet(f, UNION {M[x] : x \in S})
<1>. DEFINE all(s) == UNION {M[x] : x \in s}
            T == {s \in SUBSET S : IsFiniteSet(all(s))
                                   /\ SumFunctionOnSet(h, s) = SumFunctionOnSet(f, all(s))}
<1>0. \A x \in S : h[x] \in Int
  BY SumIsInt
<1>1. ASSUME NEW s \in SUBSET S, \A t \in SUBSET s : t # s => t \in T
      PROVE  s \in T
  <2>1. CASE s = {}
    <3>1. all(s) = {}
      BY <2>1
    <3>. QED BY <2>1, <3>1, SumOfNone, FS_EmptySet
  <2>2. CASE s # {}
    <3>. DEFINE c == Chosen(s)
                u == s \ {c}
    <3>1. c \in s /\ IsFiniteSet(s)
      BY <2>2, ChosenIn, FS_Subset
    <3>2. u \in T
      BY <3>1, <1>1
    <3>3. IsFiniteSet(all(u)) /\ SumFunctionOnSet(h, u) = SumFunctionOnSet(f, all(u))
      BY <3>2
    <3>4. SumFunctionOnSet(h, s) = h[c] + SumFunctionOnSet(h, u)
      BY <2>2, <3>1, SumOfChosen
    <3>5. all(s) = M[c] \cup all(u) /\ M[c] \cap all(u) = {}
      BY <3>1
    <3>6. IsFiniteSet(M[c]) /\ h[c] = SumFunctionOnSet(f, M[c])
      BY <3>1
    <3>7. \A m \in M[c] \cup all(u) : f[m] \in Int
      BY <3>1
    <3>. HIDE DEF c, u, all
    <3>8. SumFunctionOnSet(f, M[c] \cup all(u)) = SumFunctionOnSet(f, M[c]) + SumFunctionOnSet(f, all(u))
      BY <3>3, <3>5, <3>6, <3>7, SumOfUnion
    <3>9. IsFiniteSet(all(s))
      <4>1. IsFiniteSet(M[c] \cup all(u))
        BY <3>3, <3>6, FS_Union
      <4>. QED BY <3>5, <4>1
    <3>. QED BY <3>3, <3>4, <3>5, <3>6, <3>8, <3>9
  <2>. QED BY <2>1, <2>2
<1>. HIDE DEF T
<1>2. S \in T
  BY <1>1, SetInduction
<1>. QED BY <1>2 DEF T

(* Two functions that differ at two elements. *)
LEMMA SumTwoChanged ==
    ASSUME NEW f, NEW g, NEW S, IsFiniteSet(S), NEW a \in S, NEW b \in S, a # b,
           \A x \in S : f[x] \in Int /\ g[x] \in Int,
           \A x \in S \ {a, b} : g[x] = f[x]
    PROVE  SumFunctionOnSet(g, S) = SumFunctionOnSet(f, S) + (g[a] - f[a]) + (g[b] - f[b])
<1>. DEFINE h == [x \in S |-> IF x = a THEN g[x] ELSE f[x]]
<1>1. /\ \A x \in S : h[x] \in Int
      /\ \A x \in S \ {a} : h[x] = f[x]
      /\ \A x \in S \ {b} : g[x] = h[x]
      /\ h[a] = g[a] /\ h[b] = f[b]
  OBVIOUS
<1>. HIDE DEF h
<1>2. SumFunctionOnSet(h, S) = SumFunctionOnSet(f, S) + (h[a] - f[a])
  BY <1>1, SumChanged
<1>3. SumFunctionOnSet(g, S) = SumFunctionOnSet(h, S) + (g[b] - h[b])
  BY <1>1, SumChanged
<1>4. SumFunctionOnSet(f, S) \in Int
  BY SumIsInt
<1>. QED BY <1>1, <1>2, <1>3, <1>4

===============================================================================

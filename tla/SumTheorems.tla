----------------------------- MODULE SumTheorems -----------------------------
(***************************************************************************)
(* What a sum over a finite set is: MapThenSumSet of the community modules *)
(* is a recursive function of a set, and neither its existence nor its     *)
(* independence of the order comes for free.  Each induction is by a       *)
(* smallest counterexample, which the well-foundedness of the subsets of a *)
(* finite set provides.                                                    *)
(***************************************************************************)
EXTENDS Naturals, FiniteSetsExt, FiniteSetTheorems, WellFoundedInduction, TLAPS

\* The sum of f over S.
SumOver(f, S) == MapThenSumSet(LAMBDA x : f[x], S)

Any(s) == CHOOSE x \in s : TRUE

\* g is the function the recursion defines on the subsets of S.
Recursive(g, f, S) ==
  g = [s \in SUBSET S |-> IF s = {} THEN 0 ELSE f[Any(s)] + g[s \ {Any(s)}]]

LEMMA AnyIn == ASSUME NEW S, S # {} PROVE Any(S) \in S
  BY DEF Any

\* A set of finite sets that is not empty has one with no member below it.
LEMMA Smallest ==
  ASSUME NEW S, IsFiniteSet(S), NEW T, T \subseteq SUBSET S, T # {}
  PROVE  \E s \in T : \A t \in T : t \subseteq s => t = s
<1>1. T \subseteq FiniteSubsetsOf(S)
  BY FS_Subset DEF FiniteSubsetsOf
<1>2. PICK s \in T : \A t \in T : ~ (<<t, s>> \in StrictSubsetOrdering(S))
  BY <1>1, FS_StrictSubsetOrderingWellFounded, WFMin
<1>3. \A t \in T : t \subseteq s => t = s
  BY <1>2 DEF StrictSubsetOrdering
<1> QED BY <1>3

\* Two such functions agree wherever both are defined.
LEMMA RecursionIsUnique ==
  ASSUME NEW f, NEW S, IsFiniteSet(S), NEW U, NEW V, U \subseteq S, V \subseteq S,
         NEW g, NEW h, Recursive(g, f, U), Recursive(h, f, V),
         NEW s, s \subseteq U, s \subseteq V
  PROVE  g[s] = h[s]
<1> DEFINE Differ == {t \in SUBSET S : t \subseteq U /\ t \subseteq V /\ g[t] # h[t]}
<1> SUFFICES ASSUME Differ # {} PROVE FALSE
  OBVIOUS
<1>0. Differ \subseteq SUBSET S
  OBVIOUS
<1>1. PICK t \in Differ : \A u \in Differ : u \subseteq t => u = t
  <2> HIDE DEF Differ
  <2> QED BY <1>0, Smallest
<1>2. t # {}
  BY DEF Recursive
<1>3. Any(t) \in t
  BY <1>2, AnyIn
<1>4. g[t \ {Any(t)}] = h[t \ {Any(t)}]
  BY <1>1, <1>3
<1>5. /\ g[t] = f[Any(t)] + g[t \ {Any(t)}]
      /\ h[t] = f[Any(t)] + h[t \ {Any(t)}]
  BY <1>2 DEF Recursive
<1> QED BY <1>4, <1>5

LEMMA RecursionRestricts ==
  ASSUME NEW f, NEW U, IsFiniteSet(U), NEW V, V \subseteq U,
         NEW g, NEW h, Recursive(g, f, U), Recursive(h, f, V)
  PROVE  g[V] = h[V]
<1>1. U \subseteq U /\ V \subseteq V
  OBVIOUS
<1> QED BY <1>1, RecursionIsUnique

LEMMA RecursionExists ==
  ASSUME NEW f, NEW S, IsFiniteSet(S)
  PROVE  \E g : Recursive(g, f, S)
<1> DEFINE None == {t \in SUBSET S : \A g : ~ Recursive(g, f, t)}
           G(t) == CHOOSE g : Recursive(g, f, t)
<1> SUFFICES ASSUME None # {} PROVE FALSE
  OBVIOUS
<1>0. None \subseteq SUBSET S
  OBVIOUS
<1>1. PICK t \in None : \A u \in None : u \subseteq t => u = t
  <2> HIDE DEF None
  <2> QED BY <1>0, Smallest
<1>2. \A u : u \subseteq t /\ u # t => Recursive(G(u), f, u)
  BY <1>1
<1> HIDE DEF G
<1> DEFINE g == [s \in SUBSET t |-> IF s = {} THEN 0
                                    ELSE f[Any(s)] + G(s \ {Any(s)})[s \ {Any(s)}]]
<1>3. ASSUME NEW u, u \subseteq t, u # t PROVE g[u] = G(u)[u]
  <2>1. Recursive(G(u), f, u)
    BY <1>2, <1>3
  <2>2. CASE u = {}
    BY <2>1, <2>2 DEF Recursive
  <2>3. CASE u # {}
    <3>1. Any(u) \in u
      BY <2>3, AnyIn
    <3> DEFINE v == u \ {Any(u)}
    <3>2. Recursive(G(v), f, v)
      BY <3>1, <1>2, <1>3
    <3>3. G(u)[v] = G(v)[v]
      <4>1. u \subseteq S /\ v \subseteq S /\ v \subseteq u
        BY <1>1, <1>3
      <4> HIDE DEF v, g
      <4>2. IsFiniteSet(u)
        BY <4>1, FS_Subset
      <4> QED BY <2>1, <3>2, <4>1, <4>2, RecursionRestricts
    <3>4. G(u)[u] = f[Any(u)] + G(u)[v]
      BY <2>1, <2>3 DEF Recursive
    <3>5. g[u] = f[Any(u)] + G(v)[v]
      BY <1>3, <2>3
    <3> QED BY <3>3, <3>4, <3>5
  <2> QED BY <2>2, <2>3
<1>4. \A s \in SUBSET t : s # {} => g[s \ {Any(s)}] = G(s \ {Any(s)})[s \ {Any(s)}]
  BY <1>3, AnyIn
<1>5. Recursive(g, f, t)
  BY <1>4 DEF Recursive
<1> QED BY <1>1, <1>5

\* The sum is what the recursion says.
LEMMA SumRecursive ==
  ASSUME NEW f, NEW S, IsFiniteSet(S), NEW g, Recursive(g, f, S)
  PROVE  SumOver(f, S) = g[S]
<1> DEFINE g0 == CHOOSE h : Recursive(h, f, S)
<1>1. Recursive(g0, f, S)
  OBVIOUS
<1>2. SumOver(f, S) = g0[S]
  BY <1>1 DEF SumOver, MapThenSumSet, MapThenFoldSet, Recursive, Any
<1> HIDE DEF g0
<1> QED BY <1>1, <1>2, RecursionIsUnique

LEMMA SumEmpty == ASSUME NEW f PROVE SumOver(f, {}) = 0
<1>1. IsFiniteSet({})
  BY FS_EmptySet
<1>2. PICK g : Recursive(g, f, {})
  BY <1>1, RecursionExists
<1> QED BY <1>1, <1>2, SumRecursive DEF Recursive

LEMMA SumStep ==
  ASSUME NEW f, NEW S, IsFiniteSet(S), S # {}
  PROVE  SumOver(f, S) = f[Any(S)] + SumOver(f, S \ {Any(S)})
<1> DEFINE R == S \ {Any(S)}
<1>1. Any(S) \in S /\ R \subseteq S /\ IsFiniteSet(R)
  BY AnyIn, FS_Subset
<1>2. PICK g : Recursive(g, f, S)
  BY RecursionExists
<1>3. PICK h : Recursive(h, f, R)
  BY <1>1, RecursionExists
<1>4. g[R] = h[R]
  <2> HIDE DEF R
  <2> QED BY <1>1, <1>2, <1>3, RecursionRestricts
<1>5. SumOver(f, R) = h[R]
  <2> HIDE DEF R
  <2> QED BY <1>1, <1>3, SumRecursive
<1>6. SumOver(f, S) = g[S]
  BY <1>2, SumRecursive
<1>7. g[S] = f[Any(S)] + g[R]
  BY <1>2 DEF Recursive
<1> QED BY <1>4, <1>5, <1>6, <1>7

\* A sum of numbers is a number.
LEMMA SumType ==
  ASSUME NEW S, IsFiniteSet(S), NEW f, \A x \in S : f[x] \in Nat
  PROVE  SumOver(f, S) \in Nat
<1> DEFINE Wrong == {t \in SUBSET S : SumOver(f, t) \notin Nat}
<1> SUFFICES ASSUME Wrong # {} PROVE FALSE
  OBVIOUS
<1>1. Wrong \subseteq SUBSET S
  OBVIOUS
<1>2. PICK t \in Wrong : \A u \in Wrong : u \subseteq t => u = t
  <2> HIDE DEF Wrong
  <2> QED BY <1>1, Smallest
<1>3. t # {} /\ IsFiniteSet(t)
  <2>1. SumOver(f, {}) \in Nat
    BY SumEmpty
  <2> QED BY <2>1, FS_Subset
<1>4. Any(t) \in t /\ f[Any(t)] \in Nat
  BY <1>3, AnyIn
<1>5. SumOver(f, t \ {Any(t)}) \in Nat
  BY <1>2, <1>4
<1> QED BY <1>3, <1>4, <1>5, SumStep

\* Whichever element is taken out, the rest and it make the sum.
LEMMA SumRemove ==
  ASSUME NEW S, IsFiniteSet(S), NEW f, \A x \in S : f[x] \in Nat, NEW y \in S
  PROVE  SumOver(f, S) = SumOver(f, S \ {y}) + f[y]
<1> DEFINE Wrong == {t \in SUBSET S : \E z \in t :
                       SumOver(f, t) # SumOver(f, t \ {z}) + f[z]}
<1> SUFFICES ASSUME Wrong # {} PROVE FALSE
  OBVIOUS
<1>1. Wrong \subseteq SUBSET S
  OBVIOUS
<1>2. PICK t \in Wrong : \A u \in Wrong : u \subseteq t => u = t
  <2> HIDE DEF Wrong
  <2> QED BY <1>1, Smallest
<1>3. PICK z \in t : SumOver(f, t) # SumOver(f, t \ {z}) + f[z]
  OBVIOUS
<1> DEFINE x == Any(t)
           u == t \ {x}
           v == t \ {z}
           w == (t \ {x}) \ {z}
<1>4. t # {} /\ IsFiniteSet(t) /\ x \in t /\ f[x] \in Nat /\ f[z] \in Nat
  BY FS_Subset, AnyIn
<1>5. /\ SumOver(f, t) \in Nat /\ SumOver(f, u) \in Nat
      /\ SumOver(f, v) \in Nat /\ SumOver(f, w) \in Nat
  <2>1. /\ u \subseteq S /\ v \subseteq S /\ w \subseteq S /\ t \subseteq S
        /\ IsFiniteSet(u) /\ IsFiniteSet(v) /\ IsFiniteSet(w)
    BY <1>4, FS_Subset
  <2> HIDE DEF u, v, w
  <2> QED BY <1>4, <2>1, SumType
<1>6. SumOver(f, t) = f[x] + SumOver(f, u)
  BY <1>4, SumStep
<1>7. x # z
  BY <1>3, <1>4, <1>5, <1>6
<1>8. SumOver(f, u) = SumOver(f, w) + f[z]
  <2>1. u \notin Wrong /\ z \in u /\ u \in SUBSET S
    BY <1>2, <1>4, <1>7
  <2> QED BY <2>1
<1>9. SumOver(f, v) = SumOver(f, v \ {x}) + f[x]
  <2>1. v \notin Wrong /\ x \in v /\ v \in SUBSET S
    BY <1>2, <1>4, <1>7
  <2> QED BY <2>1
<1>10. v \ {x} = w
  OBVIOUS
<1>11. SumOver(f, v) = SumOver(f, w) + f[x]
  BY <1>9, <1>10
<1>12. SumOver(f, t) = SumOver(f, v) + f[z]
  <2> HIDE DEF x, u, v, w, Wrong
  <2> QED BY <1>4, <1>5, <1>6, <1>8, <1>11
<1> QED BY <1>3, <1>12

\* The sum of numbers from low to high is from low to high times the number of
\* them.
LEMMA SumBounds ==
  ASSUME NEW S, IsFiniteSet(S), NEW f, NEW low \in Nat, NEW high \in Nat,
         \A x \in S : f[x] \in low..high
  PROVE  low * Cardinality(S) <= SumOver(f, S) /\ SumOver(f, S) <= high * Cardinality(S)
<1> DEFINE Wrong == {t \in SUBSET S : ~ (low * Cardinality(t) <= SumOver(f, t) /\
                       SumOver(f, t) <= high * Cardinality(t))}
<1> SUFFICES ASSUME Wrong # {} PROVE FALSE
  OBVIOUS
<1>1. Wrong \subseteq SUBSET S
  OBVIOUS
<1>2. PICK t \in Wrong : \A u \in Wrong : u \subseteq t => u = t
  <2> HIDE DEF Wrong
  <2> QED BY <1>1, Smallest
<1> DEFINE u == t \ {Any(t)}
<1>3. t # {} /\ IsFiniteSet(t)
  BY SumEmpty, FS_Subset, FS_EmptySet
<1>4. Any(t) \in t /\ f[Any(t)] \in low..high
  BY <1>3, AnyIn
<1>5. low * Cardinality(u) <= SumOver(f, u) /\ SumOver(f, u) <= high * Cardinality(u)
  BY <1>2, <1>4
<1>6. Cardinality(u) \in Nat /\ Cardinality(t) = Cardinality(u) + 1
  <2>1. IsFiniteSet(u) /\ Cardinality(u) = Cardinality(t) - 1
    BY <1>3, <1>4, FS_RemoveElement
  <2> QED BY <1>3, <2>1, FS_CardinalityType
<1>7. SumOver(f, u) \in Nat
  <2>1. IsFiniteSet(u) /\ \A x \in u : f[x] \in Nat
    BY <1>3, FS_Subset
  <2> QED BY <2>1, SumType
<1>8. SumOver(f, t) = f[Any(t)] + SumOver(f, u)
  BY <1>3, SumStep
<1>9. low * Cardinality(t) <= SumOver(f, t) /\ SumOver(f, t) <= high * Cardinality(t)
  <2> HIDE DEF u
  <2>0. \A c \in Nat : low * (c + 1) = low * c + low /\ high * (c + 1) = high * c + high
    OBVIOUS
  <2>1. /\ low * Cardinality(t) = low * Cardinality(u) + low
        /\ high * Cardinality(t) = high * Cardinality(u) + high
    BY <1>6, <2>0
  <2>2. \A c \in Nat : low * c \in Nat /\ high * c \in Nat
    OBVIOUS
  <2>3. f[Any(t)] \in Nat /\ low <= f[Any(t)] /\ f[Any(t)] <= high
    BY <1>4
  <2> HIDE DEF u
  <2> QED BY <1>5, <1>6, <1>7, <1>8, <2>1, <2>2, <2>3
<1> QED BY <1>2, <1>9
=============================================================================

---------------------------- MODULE Rubric_proofs ----------------------------
(***************************************************************************)
(* What a rubric makes of evidence, and how one is released.  For any      *)
(* rubrics, dimensions, categories and costs that meet the assumptions of  *)
(* Readiness: scores are valid, the advice is the cheapest, and gates and  *)
(* policies hold.  For any records, publications and corpora of Flywheel:  *)
(* a publication has one release, evidence moves the refit of its own      *)
(* vertical only, and what the Pilot controller reverted stays gone.       *)
(***************************************************************************)
EXTENDS Readiness, Flywheel, FiniteSetTheorems, WellFoundedInduction, TLAPS

-----------------------------------------------------------------------------
(* Sums over finite sets.  The library adds what a function gives for the  *)
(* elements of a set in the order in which CHOOSE picks them.              *)

Pick(S) == CHOOSE x \in S : TRUE

\* The function that the library's definition of the sum of f over S goes by.
Summing(f, S, g) ==
    g = [s \in SUBSET S |-> IF s = {} THEN 0 ELSE f[Pick(s)] + g[s \ {Pick(s)}]]

LEMMA SumIsChosen ==
    ASSUME NEW f, NEW S
    PROVE  SumFunctionOnSet(f, S) = (CHOOSE g : Summing(f, S, g))[S]
BY Zenon DEF SumFunctionOnSet, FoldFunctionOnSet, MapThenFoldSet, Summing, Pick

\* Among sets of subsets of a finite set, one contains no other.
LEMMA LeastSubset ==
    ASSUME NEW S, IsFiniteSet(S), NEW T, \A t \in T : t \subseteq S, T # {}
    PROVE  \E s \in T : \A t \in T : t \subseteq s => t = s
<1>1. T \subseteq FiniteSubsetsOf(S)
  BY FS_Subset DEF FiniteSubsetsOf
<1>2. PICK s \in T : \A t \in T : ~(<<t, s>> \in StrictSubsetOrdering(S))
  BY <1>1, FS_StrictSubsetOrderingWellFounded, WFMin, Zenon
<1>3. \A t \in T : t \subseteq s => t = s
  BY <1>2 DEF StrictSubsetOrdering
<1>4. QED
  BY <1>3

LEMMA PickIn == ASSUME NEW S, S # {} PROVE Pick(S) \in S
BY DEF Pick

\* Two such functions agree where both are defined.
LEMMA SummingsAgree ==
    ASSUME NEW f, NEW S, NEW T, IsFiniteSet(S), NEW g, NEW h,
           Summing(f, S, g), Summing(f, T, h)
    PROVE  \A s : s \subseteq S /\ s \subseteq T => g[s] = h[s]
<1> DEFINE Bad == {s \in SUBSET (S \cap T) : g[s] # h[s]}
<1>1. \A t \in Bad : t \subseteq S
  OBVIOUS
<1> HIDE DEF Bad
<1>2. Bad # {} => \E s \in Bad : \A t \in Bad : t \subseteq s => t = s
  BY <1>1, LeastSubset
<1>3. ASSUME NEW s \in Bad, \A t \in Bad : t \subseteq s => t = s
      PROVE  FALSE
  <2>3. s \in SUBSET S /\ s \in SUBSET T /\ g[s] # h[s]
    BY DEF Bad
  <2>4. CASE s = {}
    BY <2>3, <2>4 DEF Summing
  <2>5. CASE s # {}
    <3> DEFINE u == s \ {Pick(s)}
    <3>1. Pick(s) \in s
      BY <2>5, PickIn
    <3>2. u \subseteq s /\ u # s /\ u \in SUBSET S /\ u \in SUBSET T
      BY <2>3, <3>1
    <3>3. g[u] = h[u]
      BY <1>3, <3>2 DEF Bad
    <3>4. g[s] = f[Pick(s)] + g[u] /\ h[s] = f[Pick(s)] + h[u]
      BY <2>3, <2>5, Zenon DEF Summing
    <3>5. QED
      BY <2>3, <3>3, <3>4
  <2>6. QED
    BY <2>4, <2>5
<1>4. QED
  BY <1>2, <1>3 DEF Bad

LEMMA SummingExists ==
    ASSUME NEW f, NEW S, IsFiniteSet(S)
    PROVE  \E g : Summing(f, S, g)
<1> DEFINE Bad == {s \in SUBSET S : ~\E g : Summing(f, s, g)}
<1>1. \A t \in Bad : t \subseteq S
  OBVIOUS
<1> HIDE DEF Bad
<1>2. Bad # {} => \E s \in Bad : \A t \in Bad : t \subseteq s => t = s
  BY <1>1, LeastSubset
<1>3. ASSUME NEW s \in Bad, \A t \in Bad : t \subseteq s => t = s
      PROVE  FALSE
  <2>3. s \in SUBSET S /\ ~\E g : Summing(f, s, g)
    BY DEF Bad
  <2> DEFINE of(t) == CHOOSE g : Summing(f, t, g)
             h == [t \in SUBSET s |-> IF t = {} THEN 0
                      ELSE f[Pick(t)] + of(t \ {Pick(t)})[t \ {Pick(t)}]]
  <2>4. ASSUME NEW t \in SUBSET s, t # s
        PROVE  Summing(f, t, of(t)) /\ IsFiniteSet(t)
    <3>1. t \in SUBSET S /\ t \notin Bad
      BY <1>3, <2>3, <2>4
    <3>2. \E g : Summing(f, t, g)
      BY <3>1 DEF Bad
    <3>3. QED
      BY <3>1, <3>2, FS_Subset
  <2>5. ASSUME NEW t \in SUBSET s, t # s
        PROVE  h[t] = of(t)[t]
    <3>1. Summing(f, t, of(t))
      BY <2>4, <2>5
    <3> HIDE DEF of
    <3>2. CASE t = {}
      <4>1. of(t)[t] = 0
        BY <3>1, <3>2 DEF Summing
      <4>2. h[t] = 0
        BY <3>2
      <4>3. QED
        BY <4>1, <4>2
    <3>3. CASE t # {}
      <4> DEFINE u == t \ {Pick(t)}
      <4>1. Pick(t) \in t
        BY <3>3, PickIn
      <4>2. u \in SUBSET t /\ u \in SUBSET s /\ u # s
        BY <4>1
      <4>3. Summing(f, u, of(u)) /\ IsFiniteSet(u)
        BY <2>4, <4>2
      <4>4. of(u)[u] = of(t)[u]
        <5>1. u \subseteq u /\ u \subseteq t
          BY <4>2
        <5> HIDE DEF u
        <5>2. QED
          BY <3>1, <4>3, <5>1, SummingsAgree
      <4>5. of(t)[t] = f[Pick(t)] + of(t)[u]
        BY <3>1, <3>3, Zenon DEF Summing
      <4>6. h[t] = f[Pick(t)] + of(u)[u]
        BY <3>3, Zenon
      <4>7. QED
        BY <4>4, <4>5, <4>6
    <3>4. QED
      BY <3>2, <3>3
  <2>6. Summing(f, s, h)
    <3>1. ASSUME NEW t \in SUBSET s, t # {}
          PROVE  of(t \ {Pick(t)})[t \ {Pick(t)}] = h[t \ {Pick(t)}]
      <4>1. Pick(t) \in t
        BY <3>1, PickIn
      <4>2. t \ {Pick(t)} \in SUBSET s /\ t \ {Pick(t)} # s
        BY <4>1
      <4> HIDE DEF of, h
      <4>3. QED
        BY <2>5, <4>2
    <3>2. \A t \in SUBSET s : h[t] = IF t = {} THEN 0 ELSE f[Pick(t)] + h[t \ {Pick(t)}]
      <4>1. \A t \in SUBSET s : h[t] = IF t = {} THEN 0
                      ELSE f[Pick(t)] + of(t \ {Pick(t)})[t \ {Pick(t)}]
        BY Zenon
      <4> HIDE DEF of, h
      <4>2. QED
        BY <3>1, <4>1
    <3>3. h = [t \in SUBSET s |-> h[t]]
      OBVIOUS
    <3> HIDE DEF of, h
    <3>4. h = [t \in SUBSET s |-> IF t = {} THEN 0 ELSE f[Pick(t)] + h[t \ {Pick(t)}]]
      BY <3>2, <3>3
    <3>5. QED
      BY <3>4 DEF Summing
  <2>7. QED
    BY <2>3, <2>6
<1>4. S \notin Bad
  BY <1>2, <1>3
<1>5. QED
  BY <1>4 DEF Bad

LEMMA SumOfNone == ASSUME NEW f PROVE SumFunctionOnSet(f, {}) = 0
<1> DEFINE g == CHOOSE g : Summing(f, {}, g)
<1>1. Summing(f, {}, g)
  BY SummingExists, FS_EmptySet
<1> HIDE DEF g
<1>2. g[{}] = 0
  BY <1>1 DEF Summing
<1>3. QED
  BY <1>2, SumIsChosen DEF g

\* The sum over a set is what is picked first, and the sum over the others.
LEMMA SumOfPick ==
    ASSUME NEW f, NEW S, IsFiniteSet(S), S # {}
    PROVE  SumFunctionOnSet(f, S) = f[Pick(S)] + SumFunctionOnSet(f, S \ {Pick(S)})
<1> DEFINE of(t) == CHOOSE g : Summing(f, t, g)
           u == S \ {Pick(S)}
<1>1. u \in SUBSET S /\ u \subseteq u /\ IsFiniteSet(u)
  BY FS_Subset
<1>2. Summing(f, S, of(S)) /\ Summing(f, u, of(u))
  BY <1>1, SummingExists
<1>3. SumFunctionOnSet(f, S) = of(S)[S] /\ SumFunctionOnSet(f, u) = of(u)[u]
  BY SumIsChosen
<1> HIDE DEF of
<1>4. of(S)[S] = f[Pick(S)] + of(S)[u]
  BY <1>2, Zenon DEF Summing
<1> HIDE DEF u
<1>5. of(u)[u] = of(S)[u]
  BY <1>1, <1>2, SummingsAgree
<1>6. QED
  BY <1>3, <1>4, <1>5 DEF u

LEMMA SumIsInt ==
    ASSUME NEW f, NEW S, IsFiniteSet(S), \A x \in S : f[x] \in Int
    PROVE  SumFunctionOnSet(f, S) \in Int
<1> DEFINE Bad == {s \in SUBSET S : SumFunctionOnSet(f, s) \notin Int}
<1>1. \A t \in Bad : t \subseteq S
  OBVIOUS
<1> HIDE DEF Bad
<1>2. Bad # {} => \E s \in Bad : \A t \in Bad : t \subseteq s => t = s
  BY <1>1, LeastSubset
<1>3. ASSUME NEW s \in Bad, \A t \in Bad : t \subseteq s => t = s
      PROVE  FALSE
  <2>1. s \subseteq S /\ IsFiniteSet(s) /\ SumFunctionOnSet(f, s) \notin Int
    BY FS_Subset DEF Bad
  <2>2. CASE s = {}
    BY <2>1, <2>2, SumOfNone
  <2>3. CASE s # {}
    <3> DEFINE u == s \ {Pick(s)}
    <3>1. Pick(s) \in s /\ f[Pick(s)] \in Int
      BY <2>1, <2>3, PickIn
    <3>2. u \subseteq s /\ u # s
      BY <3>1
    <3>3. SumFunctionOnSet(f, u) \in Int
      BY <1>3, <2>1, <3>2 DEF Bad
    <3>4. SumFunctionOnSet(f, s) = f[Pick(s)] + SumFunctionOnSet(f, u)
      BY <2>1, <2>3, SumOfPick
    <3>5. QED
      BY <2>1, <3>1, <3>3, <3>4
  <2>4. QED
    BY <2>2, <2>3
<1>4. QED
  BY <1>2, <1>3 DEF Bad

\* Any element may be added last.
LEMMA SumWithout ==
    ASSUME NEW f, NEW S, IsFiniteSet(S), \A x \in S : f[x] \in Int, NEW y \in S
    PROVE  SumFunctionOnSet(f, S) = f[y] + SumFunctionOnSet(f, S \ {y})
<1> DEFINE Bad == {s \in SUBSET S : \E x \in s :
               SumFunctionOnSet(f, s) # f[x] + SumFunctionOnSet(f, s \ {x})}
<1>1. \A t \in Bad : t \subseteq S
  OBVIOUS
<1> HIDE DEF Bad
<1>2. Bad # {} => \E s \in Bad : \A t \in Bad : t \subseteq s => t = s
  BY <1>1, LeastSubset
<1>3. ASSUME NEW s \in Bad, \A t \in Bad : t \subseteq s => t = s
      PROVE  FALSE
  <2>1. s \subseteq S /\ IsFiniteSet(s)
    BY FS_Subset DEF Bad
  <2>2. PICK x \in s : SumFunctionOnSet(f, s) # f[x] + SumFunctionOnSet(f, s \ {x})
    BY DEF Bad
  <2> DEFINE p == Pick(s)
             u == s \ {p}
             v == s \ {x}
             w == s \ {p, x}
  <2>3. p \in s
    BY <2>2, PickIn
  <2>4. SumFunctionOnSet(f, s) = f[p] + SumFunctionOnSet(f, u)
    BY <2>1, <2>3, SumOfPick
  <2>5. x # p
    BY <2>2, <2>4
  <2>6. /\ u \subseteq s /\ u # s /\ v \subseteq s /\ v # s
        /\ x \in u /\ p \in v /\ u \ {x} = w /\ v \ {p} = w
    BY <2>3, <2>5
  <2>7. SumFunctionOnSet(f, u) = f[x] + SumFunctionOnSet(f, w)
    <3>1. u \in SUBSET S /\ u \notin Bad
      BY <1>3, <2>1, <2>6
    <3>2. QED
      BY <2>6, <3>1 DEF Bad
  <2>8. SumFunctionOnSet(f, v) = f[p] + SumFunctionOnSet(f, w)
    <3>1. v \in SUBSET S /\ v \notin Bad
      BY <1>3, <2>1, <2>6
    <3>2. QED
      BY <2>6, <3>1 DEF Bad
  <2>9. SumFunctionOnSet(f, w) \in Int /\ f[x] \in Int /\ f[p] \in Int
    <3>1. IsFiniteSet(w) /\ \A z \in w : f[z] \in Int
      BY <2>1, FS_Subset
    <3>2. QED
      BY <2>1, <2>3, <3>1, SumIsInt
  <2> HIDE DEF u, v, w, p
  <2>10. SumFunctionOnSet(f, s) = f[x] + SumFunctionOnSet(f, v)
    BY <2>4, <2>7, <2>8, <2>9
  <2>11. QED
    BY <2>2, <2>10 DEF v
<1>4. S \notin Bad
  BY <1>2, <1>3
<1>5. QED
  BY <1>4 DEF Bad

\* A sum is bounded by a multiple of another when its terms are.
LEMMA SumBound ==
    ASSUME NEW f, NEW w, NEW k \in Nat, NEW S, IsFiniteSet(S),
           \A x \in S : f[x] \in Int /\ w[x] \in Int /\ f[x] <= k * w[x]
    PROVE  SumFunctionOnSet(f, S) <= k * SumFunctionOnSet(w, S)
<1> DEFINE Bad == {s \in SUBSET S :
               ~(SumFunctionOnSet(f, s) <= k * SumFunctionOnSet(w, s))}
<1>1. \A t \in Bad : t \subseteq S
  OBVIOUS
<1> HIDE DEF Bad
<1>2. Bad # {} => \E s \in Bad : \A t \in Bad : t \subseteq s => t = s
  BY <1>1, LeastSubset
<1>3. ASSUME NEW s \in Bad, \A t \in Bad : t \subseteq s => t = s
      PROVE  FALSE
  <2>1. /\ s \subseteq S /\ IsFiniteSet(s)
        /\ ~(SumFunctionOnSet(f, s) <= k * SumFunctionOnSet(w, s))
    BY FS_Subset DEF Bad
  <2>2. CASE s = {}
    BY <2>1, <2>2, SumOfNone
  <2>3. CASE s # {}
    <3> DEFINE p == Pick(s)
               u == s \ {p}
    <3>1. p \in s /\ f[p] \in Int /\ w[p] \in Int /\ f[p] <= k * w[p]
      BY <2>1, <2>3, PickIn
    <3>2. u \subseteq s /\ u # s /\ IsFiniteSet(u)
      BY <2>1, <3>1, FS_Subset
    <3>3. SumFunctionOnSet(f, u) <= k * SumFunctionOnSet(w, u)
      BY <1>3, <2>1, <3>2 DEF Bad
    <3>4. /\ SumFunctionOnSet(f, s) = f[p] + SumFunctionOnSet(f, u)
          /\ SumFunctionOnSet(w, s) = w[p] + SumFunctionOnSet(w, u)
      BY <2>1, <2>3, SumOfPick
    <3>5. SumFunctionOnSet(f, u) \in Int /\ SumFunctionOnSet(w, u) \in Int
      <4>1. \A x \in u : f[x] \in Int /\ w[x] \in Int
        BY <2>1
      <4>2. QED
        BY <3>2, <4>1, SumIsInt
    <3> HIDE DEF u, p
    <3>6. k * (w[p] + SumFunctionOnSet(w, u)) = k * w[p] + k * SumFunctionOnSet(w, u)
      BY <3>1, <3>5
    <3>7. k * w[p] \in Int /\ k * SumFunctionOnSet(w, u) \in Int
      BY <3>1, <3>5
    <3>8. QED
      BY <2>1, <3>1, <3>3, <3>4, <3>5, <3>6, <3>7
  <2>4. QED
    BY <2>2, <2>3
<1>4. QED
  BY <1>2, <1>3 DEF Bad

\* A sum of naturals is no smaller than that over a part of the set.
LEMMA SumOfPart ==
    ASSUME NEW f, NEW S, IsFiniteSet(S), \A x \in S : f[x] \in Nat,
           NEW T, T \subseteq S
    PROVE  SumFunctionOnSet(f, T) <= SumFunctionOnSet(f, S)
<1> DEFINE Bad == {s \in SUBSET S :
               T \subseteq s /\ ~(SumFunctionOnSet(f, T) <= SumFunctionOnSet(f, s))}
<1>1. \A t \in Bad : t \subseteq S
  OBVIOUS
<1> HIDE DEF Bad
<1>2. Bad # {} => \E s \in Bad : \A t \in Bad : t \subseteq s => t = s
  BY <1>1, LeastSubset
<1>3. ASSUME NEW s \in Bad, \A t \in Bad : t \subseteq s => t = s
      PROVE  FALSE
  <2>1. /\ s \subseteq S /\ IsFiniteSet(s) /\ T \subseteq s
        /\ ~(SumFunctionOnSet(f, T) <= SumFunctionOnSet(f, s))
        /\ \A x \in s : f[x] \in Int
    BY FS_Subset DEF Bad
  <2>2. IsFiniteSet(T) /\ \A x \in T : f[x] \in Int
    BY <2>1, FS_Subset
  <2>3. SumFunctionOnSet(f, T) \in Int
    BY <2>2, SumIsInt
  <2>4. T # s
    BY <2>1, <2>3
  <2>5. PICK x \in s : x \notin T
    BY <2>1, <2>4
  <2> DEFINE u == s \ {x}
  <2>6. u \subseteq s /\ u # s /\ T \subseteq u /\ IsFiniteSet(u)
    BY <2>1, <2>5, FS_Subset
  <2>7. SumFunctionOnSet(f, T) <= SumFunctionOnSet(f, u)
    <3>1. u \in SUBSET S /\ u \notin Bad
      BY <1>3, <2>1, <2>6
    <3>2. QED
      BY <2>6, <3>1 DEF Bad
  <2>8. SumFunctionOnSet(f, s) = f[x] + SumFunctionOnSet(f, u)
    BY <2>1, SumWithout
  <2>9. SumFunctionOnSet(f, u) \in Int /\ f[x] \in Nat
    BY <2>1, <2>6, SumIsInt
  <2> HIDE DEF u
  <2>10. QED
    BY <2>1, <2>3, <2>7, <2>8, <2>9
<1>4. S \notin Bad
  BY <1>2, <1>3
<1>5. QED
  BY <1>4 DEF Bad

LEMMA SumIsNat ==
    ASSUME NEW f, NEW S, IsFiniteSet(S), \A x \in S : f[x] \in Nat
    PROVE  SumFunctionOnSet(f, S) \in Nat
<1>1. SumFunctionOnSet(f, {}) <= SumFunctionOnSet(f, S)
  BY SumOfPart
<1>2. SumFunctionOnSet(f, S) \in Int
  <2>1. \A x \in S : f[x] \in Int
    OBVIOUS
  <2>2. QED
    BY <2>1, SumIsInt
<1>3. QED
  BY <1>1, <1>2, SumOfNone

LEMMA SumOfOne ==
    ASSUME NEW f, NEW x, f[x] \in Int
    PROVE  SumFunctionOnSet(f, {x}) = f[x]
<1>1. IsFiniteSet({x}) /\ {x} \ {x} = {}
  BY FS_Singleton
<1>2. SumFunctionOnSet(f, {x}) = f[x] + SumFunctionOnSet(f, {x} \ {x})
  BY <1>1, SumWithout
<1>3. QED
  BY <1>1, <1>2, SumOfNone

LEMMA SumOfTwo ==
    ASSUME NEW f, NEW x, NEW y, x # y, f[x] \in Int, f[y] \in Int
    PROVE  SumFunctionOnSet(f, {x, y}) = f[x] + f[y]
<1>1. IsFiniteSet({x, y}) /\ {x, y} \ {x} = {y}
  <2>1. IsFiniteSet({x} \cup {y}) /\ {x, y} = {x} \cup {y}
    BY FS_Singleton, FS_AddElement
  <2>2. QED
    BY <2>1
<1>2. SumFunctionOnSet(f, {x, y}) = f[x] + SumFunctionOnSet(f, {x, y} \ {x})
  <2>1. \A z \in {x, y} : f[z] \in Int
    OBVIOUS
  <2>2. QED
    BY <1>1, <2>1, SumWithout
<1>3. QED
  BY <1>1, <1>2, SumOfOne

\* Two sums whose terms add up to a multiple of a third's add up to it themselves.
LEMMA SumsAddUp ==
    ASSUME NEW f, NEW g, NEW w, NEW k \in Nat, NEW S, IsFiniteSet(S),
           \A x \in S : /\ f[x] \in Int /\ g[x] \in Int /\ w[x] \in Int
                       /\ f[x] + g[x] = k * w[x]
    PROVE  SumFunctionOnSet(f, S) + SumFunctionOnSet(g, S) = k * SumFunctionOnSet(w, S)
<1> DEFINE Bad == {s \in SUBSET S : SumFunctionOnSet(f, s) + SumFunctionOnSet(g, s)
                                       # k * SumFunctionOnSet(w, s)}
<1>1. \A t \in Bad : t \subseteq S
  OBVIOUS
<1> HIDE DEF Bad
<1>2. Bad # {} => \E s \in Bad : \A t \in Bad : t \subseteq s => t = s
  BY <1>1, LeastSubset
<1>3. ASSUME NEW s \in Bad, \A t \in Bad : t \subseteq s => t = s
      PROVE  FALSE
  <2>1. /\ s \subseteq S /\ IsFiniteSet(s)
        /\ SumFunctionOnSet(f, s) + SumFunctionOnSet(g, s) # k * SumFunctionOnSet(w, s)
    BY FS_Subset DEF Bad
  <2>2. CASE s = {}
    BY <2>1, <2>2, SumOfNone
  <2>3. CASE s # {}
    <3> DEFINE p == Pick(s)
               u == s \ {p}
    <3>1. p \in s /\ f[p] \in Int /\ g[p] \in Int /\ w[p] \in Int /\ f[p] + g[p] = k * w[p]
      BY <2>1, <2>3, PickIn
    <3>2. u \subseteq s /\ u # s /\ IsFiniteSet(u)
      BY <2>1, <3>1, FS_Subset
    <3>3. SumFunctionOnSet(f, u) + SumFunctionOnSet(g, u) = k * SumFunctionOnSet(w, u)
      BY <1>3, <2>1, <3>2 DEF Bad
    <3>4. /\ SumFunctionOnSet(f, s) = f[p] + SumFunctionOnSet(f, u)
          /\ SumFunctionOnSet(g, s) = g[p] + SumFunctionOnSet(g, u)
          /\ SumFunctionOnSet(w, s) = w[p] + SumFunctionOnSet(w, u)
      BY <2>1, <2>3, SumOfPick
    <3>5. /\ SumFunctionOnSet(f, u) \in Int /\ SumFunctionOnSet(g, u) \in Int
          /\ SumFunctionOnSet(w, u) \in Int
      <4>1. \A x \in u : f[x] \in Int /\ g[x] \in Int /\ w[x] \in Int
        BY <2>1
      <4>2. QED
        BY <3>2, <4>1, SumIsInt
    <3> HIDE DEF u, p
    <3>6. k * (w[p] + SumFunctionOnSet(w, u)) = k * w[p] + k * SumFunctionOnSet(w, u)
      BY <3>1, <3>5
    <3>7. QED
      BY <2>1, <3>1, <3>3, <3>4, <3>5, <3>6
  <2>4. QED
    BY <2>2, <2>3
<1>4. S \notin Bad
  BY <1>2, <1>3
<1>5. QED
  BY <1>4 DEF Bad

\* Terms that are off by half a point each make a sum that is off by half a point each.
LEMMA SumOfRounded ==
    ASSUME NEW f, NEW g, NEW S, IsFiniteSet(S),
           \A x \in S : f[x] \in Int /\ g[x] \in Int /\ f[x] <= 10 * g[x] + 5
    PROVE  SumFunctionOnSet(f, S) <= 10 * SumFunctionOnSet(g, S) + 5 * Cardinality(S)
<1> DEFINE Bad == {s \in SUBSET S : ~(SumFunctionOnSet(f, s)
                      <= 10 * SumFunctionOnSet(g, s) + 5 * Cardinality(s))}
<1>1. \A t \in Bad : t \subseteq S
  OBVIOUS
<1> HIDE DEF Bad
<1>2. Bad # {} => \E s \in Bad : \A t \in Bad : t \subseteq s => t = s
  BY <1>1, LeastSubset
<1>3. ASSUME NEW s \in Bad, \A t \in Bad : t \subseteq s => t = s
      PROVE  FALSE
  <2>1. /\ s \subseteq S /\ IsFiniteSet(s)
        /\ ~(SumFunctionOnSet(f, s) <= 10 * SumFunctionOnSet(g, s) + 5 * Cardinality(s))
    BY FS_Subset DEF Bad
  <2>2. CASE s = {}
    BY <2>1, <2>2, SumOfNone, FS_EmptySet
  <2>3. CASE s # {}
    <3> DEFINE p == Pick(s)
               u == s \ {p}
    <3>1. p \in s /\ f[p] \in Int /\ g[p] \in Int /\ f[p] <= 10 * g[p] + 5
      BY <2>1, <2>3, PickIn
    <3>2. /\ u \subseteq s /\ u # s /\ IsFiniteSet(u)
          /\ Cardinality(u) \in Nat /\ Cardinality(s) = Cardinality(u) + 1
      <4>1. u \subseteq s /\ u # s /\ IsFiniteSet(u)
        BY <2>1, <3>1, FS_Subset
      <4>2. Cardinality(u) = Cardinality(s) - 1 /\ Cardinality(u) \in Nat /\ Cardinality(s) \in Nat
        BY <2>1, <3>1, <4>1, FS_RemoveElement, FS_CardinalityType
      <4>3. QED
        BY <4>1, <4>2
    <3>3. SumFunctionOnSet(f, u) <= 10 * SumFunctionOnSet(g, u) + 5 * Cardinality(u)
      BY <1>3, <2>1, <3>2 DEF Bad
    <3>4. /\ SumFunctionOnSet(f, s) = f[p] + SumFunctionOnSet(f, u)
          /\ SumFunctionOnSet(g, s) = g[p] + SumFunctionOnSet(g, u)
      BY <2>1, <2>3, SumOfPick
    <3>5. SumFunctionOnSet(f, u) \in Int /\ SumFunctionOnSet(g, u) \in Int
      <4>1. \A x \in u : f[x] \in Int /\ g[x] \in Int
        BY <2>1
      <4>2. QED
        BY <3>2, <4>1, SumIsInt
    <3> HIDE DEF u, p
    <3>6. QED
      BY <2>1, <3>1, <3>2, <3>3, <3>4, <3>5
  <2>4. QED
    BY <2>2, <2>3
<1>4. S \notin Bad
  BY <1>2, <1>3
<1>5. QED
  BY <1>4 DEF Bad

-----------------------------------------------------------------------------
(* Rounding, and the numbers of a score.                                   *)

\* Rounding goes to one of the nearest integers.
LEMMA RoundIsNearest ==
    ASSUME NEW n \in Int, NEW m \in {10, 100}
    PROVE  Round(n, m) \in Nearest(n, m)
<1> DEFINE q == n \div m
<1>1. q \in Int /\ 0 <= n - q * m /\ n - q * m < m
  BY DEF q
<1> HIDE DEF q
<1>2. Nearest(n, m) = {i \in {q, q + 1} : 2 * (i * m - n) \in (-m)..m}
  BY DEF Nearest, q
<1>3. q % 2 = 0 \/ (q + 1) % 2 = 0
  BY <1>1
<1>4. CASE 2 * (n - q * m) < m
  <2>1. Nearest(n, m) = {q}
    BY <1>1, <1>2, <1>4
  <2>2. Cardinality({q}) = 1
    BY FS_Singleton
  <2>3. QED
    BY <2>1, <2>2, Zenon DEF Round
<1>5. CASE 2 * (n - q * m) > m
  <2>1. Nearest(n, m) = {q + 1}
    BY <1>1, <1>2, <1>5
  <2>2. Cardinality({q + 1}) = 1
    BY FS_Singleton
  <2>3. QED
    BY <2>1, <2>2, Zenon DEF Round
<1>6. CASE 2 * (n - q * m) = m
  <2>1. Nearest(n, m) = {q, q + 1}
    BY <1>1, <1>2, <1>6
  <2>2. \E i \in Nearest(n, m) : i % 2 = 0
    BY <1>3, <2>1
  <2>3. QED
    BY <2>2 DEF Round
<1>7. QED
  BY <1>1, <1>4, <1>5, <1>6

\* A set of naturals that is not empty has a least one.
LEMMA MinOfNats ==
    ASSUME NEW S, S \subseteq Nat, S # {}
    PROVE  Min(S) \in S /\ \A q \in S : Min(S) <= q
<1>1. PICK p \in S : \A q \in S : ~(<<q, p>> \in OpToRel(<, Nat))
  BY NatLessThanWellFounded, WFMin, Zenon
<1>2. ASSUME NEW q \in S PROVE p <= q
  <2>1. p \in Nat /\ q \in Nat
    OBVIOUS
  <2>2. q < p => <<q, p>> \in OpToRel(<, Nat)
    BY <2>1, Zenon DEF OpToRel
  <2>3. ~(q < p)
    BY <1>1, <2>2
  <2>4. QED
    BY <2>1, <2>3
<1>3. QED
  BY <1>2 DEF Min

\* What discovery can find.
Inventories == [Categories -> Quality]

\* A dimension's raw score is 85 at best, 15 if nothing it is judged by passed
\* its check, and 0 if it is judged by nothing.
LEMMA RawBounds ==
    ASSUME NEW inputs \in Inventories, NEW d \in Dimensions
    PROVE  /\ Raw(inputs, d) \in 0..85
           /\ (\A c \in CategoriesOf[d] : inputs[c] # "present") => Raw(inputs, d) <= 15
           /\ CategoriesOf[d] = {} => Raw(inputs, d) = 0
<1> DEFINE facts == Facts(inputs, d)
           fn == [c \in facts |-> Points(inputs[c])]
           unchecked == \A c \in CategoriesOf[d] : inputs[c] # "present"
<1>1. PICK c \in Categories, e \in Categories : CategoriesOf[d] \in {{}, {c, e}}
  BY CategoriesAssumption
<1>2. /\ facts \subseteq CategoriesOf[d]
      /\ facts \in {{}, {c}, {e}, {c, e}}
  BY <1>1 DEF Facts
<1>3. /\ \A x \in facts : fn[x] \in {15, 85} /\ (unchecked => fn[x] = 15)
      /\ DOMAIN fn = facts
  BY <1>2 DEF Points
<1>4. facts # {} => Raw(inputs, d) = SumFunctionOnSet(fn, facts) \div Cardinality(facts)
  BY Zenon DEF Raw, SumFunction
<1>5. facts = {} => Raw(inputs, d) = 0
  BY DEF Raw
<1> HIDE DEF fn, facts
<1>6. ASSUME NEW x, facts = {x}
      PROVE  Raw(inputs, d) \in {15, 85} /\ (unchecked => Raw(inputs, d) = 15)
  <2>1. fn[x] \in {15, 85} /\ (unchecked => fn[x] = 15)
    BY <1>3, <1>6
  <2>2. Cardinality(facts) = 1 /\ SumFunctionOnSet(fn, facts) = fn[x]
    BY <1>6, <2>1, FS_Singleton, SumOfOne
  <2>3. QED
    BY <1>4, <1>6, <2>1, <2>2
<1>7. ASSUME facts = {c, e}, c # e
      PROVE  Raw(inputs, d) \in {15, 50, 85} /\ (unchecked => Raw(inputs, d) = 15)
  <2>1. /\ fn[c] \in {15, 85} /\ (unchecked => fn[c] = 15)
        /\ fn[e] \in {15, 85} /\ (unchecked => fn[e] = 15)
    BY <1>3, <1>7
  <2>2. SumFunctionOnSet(fn, facts) = fn[c] + fn[e]
    <3>1. fn[c] \in Int /\ fn[e] \in Int
      BY <2>1
    <3>2. SumFunctionOnSet(fn, {c, e}) = fn[c] + fn[e]
      BY <1>7, <3>1, SumOfTwo
    <3>3. QED
      BY <1>7, <3>2
  <2>3. Cardinality(facts) = 2
    <3>1. /\ Cardinality({c} \cup {e}) = Cardinality({c}) + 1
          /\ Cardinality({c}) = 1
      BY <1>7, FS_Singleton, FS_AddElement
    <3>2. facts = {c} \cup {e}
      BY <1>7
    <3>3. QED
      BY <3>1, <3>2
  <2>4. QED
    BY <1>4, <1>7, <2>1, <2>2, <2>3
<1>8. QED
  BY <1>2, <1>5, <1>6, <1>7 DEF facts

\* The confidence of a score is that of one of its facts.
LEMMA ConfidenceIs ==
    ASSUME NEW inputs
    PROVE  Confidence(inputs) \in {15, 20, 85}
<1> DEFINE all == UNION {Confidences(inputs, d) : d \in Dimensions}
<1>1. \A d \in Dimensions :
          Confidences(inputs, d) \subseteq {15, 20, 85} /\ Confidences(inputs, d) # {}
  BY DEF Confidences
<1>2. all \subseteq {15, 20, 85} /\ all # {}
  BY <1>1, RubricAssumption
<1> HIDE DEF all
<1>3. Min(all) \in all
  <2>1. all \subseteq Nat
    BY <1>2
  <2>2. QED
    BY <1>2, <2>1, MinOfNats
<1>4. QED
  BY <1>2, <1>3 DEF Confidence, all

\* What a dimension can contribute at most, without what is judged by nothing.
RawScores == [Dimensions -> 0..85]

LEMMA WeightedBounds ==
    ASSUME NEW r \in Rubrics, NEW raw \in RawScores
    PROVE  Weighted(r, raw) \in Nat /\ Weighted(r, raw) <= 8500
<1> DEFINE fn == [d \in Dimensions |-> raw[d] * Weight[r][d]]
           w == Weight[r]
<1>1. \A d \in Dimensions : raw[d] \in 0..85 /\ w[d] \in Nat
  BY RubricAssumption DEF RawScores
<1>2. ASSUME NEW d \in Dimensions
      PROVE  fn[d] \in Nat /\ fn[d] \in Int /\ w[d] \in Int /\ fn[d] <= 85 * w[d]
  <2>1. \A a \in 0..85, b \in Nat : a * b \in Nat /\ a * b <= 85 * b
    OBVIOUS
  <2>2. fn[d] = raw[d] * w[d]
    OBVIOUS
  <2>3. QED
    BY <1>1, <2>1, <2>2
<1>3. DOMAIN fn = Dimensions
  OBVIOUS
<1>4. IsFiniteSet(Dimensions) /\ SumFunctionOnSet(w, Dimensions) = 100
  BY RubricAssumption
<1>5. Weighted(r, raw) = SumFunctionOnSet(fn, Dimensions)
  BY <1>3, Zenon DEF Weighted, SumFunction
<1> HIDE DEF fn, w
<1>6. SumFunctionOnSet(fn, Dimensions) <= 85 * SumFunctionOnSet(w, Dimensions)
  BY <1>2, <1>4, SumBound
<1>7. SumFunctionOnSet(fn, Dimensions) \in Nat
  BY <1>2, <1>4, SumIsNat
<1>8. QED
  BY <1>4, <1>5, <1>6, <1>7

\* The score is at most 850, since no dimension's is more than 85, and rounding
\* keeps it in its interval, since no confidence is more than 85 either.
LEMMA ScoreNumbers ==
    ASSUME NEW n \in Nat, n <= 8500, NEW confidence \in {15, 20, 85},
           NEW value, value \in Nearest(n, 10)
    PROVE  /\ value \in 0..850
           /\ 10 * value <= n + 5 /\ n <= 10 * value + 5
           /\ Round(value * confidence, 100) \in 0..value
           /\ High(value, confidence) \in value..1000
<1>1. value \in Int /\ -10 <= 2 * (value * 10 - n) /\ 2 * (value * 10 - n) <= 10
  BY DEF Nearest
<1>2. value \in 0..850 /\ 10 * value <= n + 5 /\ n <= 10 * value + 5
  <2>1. 10 * value <= n + 5 /\ n <= 10 * value + 5
    BY <1>1
  <2>2. QED
    BY <1>1, <2>1
<1>3. Round(value * confidence, 100) \in 0..value
  <2> DEFINE product == value * confidence
             low == Round(product, 100)
  <2>1. product \in Int /\ 0 <= product /\ product <= 85 * value
    BY <1>2
  <2>2. low \in Nearest(product, 100)
    BY <2>1, RoundIsNearest
  <2> HIDE DEF product, low
  <2>3. low \in Int /\ -100 <= 2 * (low * 100 - product) /\ 2 * (low * 100 - product) <= 100
    BY <2>1, <2>2 DEF Nearest
  <2>4. low \in 0..value
    BY <1>2, <2>1, <2>3
  <2>5. QED
    BY <2>4 DEF low, product
<1>4. High(value, confidence) \in value..1000
  <2> DEFINE top == value + 1000 - confidence * 10
  <2>1. top \in Nat /\ value <= top
    BY <1>2
  <2> HIDE DEF top
  <2>2. Min({1000, top}) \in {1000, top} /\ Min({1000, top}) <= 1000
    BY <2>1, MinOfNats
  <2>3. Min({1000, top}) \in value..1000
    BY <1>2, <2>1, <2>2
  <2>4. QED
    BY <2>3 DEF High, top
<1>5. QED
  BY <1>2, <1>3, <1>4

-----------------------------------------------------------------------------
(* The order of candidates.                                                *)

\* The part of a group that stands before d.
Ahead(d, group) == {e \in group : Position[e] < Position[d]}

LEMMA Names ==
    ASSUME NEW a, NEW b
    PROVE  NamesBefore(a, b) <=> \E d \in a, e \in b :
                                     Ahead(d, a) = Ahead(e, b) /\ Rank[d] < Rank[e]
BY Zenon DEF NamesBefore, Ahead

LEMMA Placed ==
    /\ \A d \in Dimensions : Position[d] \in Nat /\ Rank[d] \in Nat
    /\ \A d, e \in Dimensions : d # e => Position[d] # Position[e] /\ Rank[d] # Rank[e]
BY OrderAssumption DEF IsInjective

\* A group that is not empty has a first member.
LEMMA FirstOf ==
    ASSUME NEW group, group \subseteq Dimensions, group # {}
    PROVE  \E d \in group : \A e \in group : Position[d] <= Position[e]
<1> DEFINE places == {Position[d] : d \in group}
<1>1. places \subseteq Nat /\ places # {}
  BY Placed
<1> HIDE DEF places
<1>2. Min(places) \in places /\ \A q \in places : Min(places) <= q
  BY <1>1, MinOfNats
<1>3. QED
  BY <1>2 DEF places

\* Behind the same names, a member that only one of two groups has decides.
LEMMA NamesDiffer ==
    ASSUME NEW a, NEW b, a \subseteq Dimensions, b \subseteq Dimensions,
           NEW x \in a, x \notin b, NEW y \in b, y \notin a,
           \A z \in Dimensions :
               (z \in a /\ z \notin b) \/ (z \in b /\ z \notin a) => Position[x] <= Position[z]
    PROVE  NamesBefore(a, b) \/ NamesBefore(b, a)
<1> DEFINE behind == {z \in b : Position[x] < Position[z]}
<1>1. y \in behind
  BY Placed
<1>2. PICK e \in behind : \A z \in behind : Position[e] <= Position[z]
  BY <1>1, FirstOf
<1>3. e \in b /\ Position[x] < Position[e] /\ x # e
  BY <1>2
<1>4. Ahead(x, a) = Ahead(e, b)
  <2>1. ASSUME NEW z \in a, Position[z] < Position[x]
        PROVE  z \in b /\ Position[z] < Position[e]
    BY <1>3, <2>1, Placed
  <2>2. ASSUME NEW z \in b, Position[z] < Position[e]
        PROVE  z \in a /\ Position[z] < Position[x]
    <3>1. ~(Position[x] < Position[z])
      BY <1>2, <2>2, Placed
    <3>2. Position[z] < Position[x]
      BY <3>1, Placed
    <3>3. QED
      BY <3>2, Placed
  <2>3. QED
    BY <2>1, <2>2 DEF Ahead
<1>5. Rank[x] < Rank[e] \/ Rank[e] < Rank[x]
  BY <1>3, Placed
<1>6. QED
  BY <1>3, <1>4, <1>5, Names

\* Of two groups as large, the names of one come before those of the other.
LEMMA NamesTotal ==
    ASSUME NEW a, NEW b, a \subseteq Dimensions, b \subseteq Dimensions,
           Cardinality(a) = Cardinality(b), a # b
    PROVE  NamesBefore(a, b) \/ NamesBefore(b, a)
<1>1. IsFiniteSet(a) /\ IsFiniteSet(b)
  BY FS_Subset, RubricAssumption
<1>2. ~(a \subseteq b) /\ ~(b \subseteq a)
  <2>1. a \subseteq b => Cardinality(a) < Cardinality(b)
    BY <1>1, FS_Subset, FS_CardinalityType
  <2>2. b \subseteq a => Cardinality(b) < Cardinality(a)
    BY <1>1, FS_Subset, FS_CardinalityType
  <2>3. Cardinality(a) \in Nat /\ Cardinality(b) \in Nat
    BY <1>1, FS_CardinalityType
  <2>4. QED
    BY <2>1, <2>2, <2>3
<1> DEFINE apart == {z \in Dimensions : (z \in a /\ z \notin b) \/ (z \in b /\ z \notin a)}
<1>3. apart # {}
  BY <1>2
<1>4. PICK x \in apart : \A z \in apart : Position[x] <= Position[z]
  BY <1>3, FirstOf
<1>5. PICK y \in a, z \in b : y \notin b /\ z \notin a
  BY <1>2
<1>6. \A q \in Dimensions :
          (q \in a /\ q \notin b) \/ (q \in b /\ q \notin a) => Position[x] <= Position[q]
  BY <1>4
<1>7. CASE x \in a /\ x \notin b
  BY <1>5, <1>6, <1>7, NamesDiffer
<1>8. CASE x \in b /\ x \notin a
  BY <1>5, <1>6, <1>8, NamesDiffer
<1>9. QED
  BY <1>4, <1>7, <1>8

LEMMA NamesTransitive ==
    ASSUME NEW a, NEW b, NEW c, a \subseteq Dimensions, b \subseteq Dimensions,
           c \subseteq Dimensions, NamesBefore(a, b), NamesBefore(b, c)
    PROVE  NamesBefore(a, c)
<1>1. PICK d1 \in a, e1 \in b : Ahead(d1, a) = Ahead(e1, b) /\ Rank[d1] < Rank[e1]
  BY Names
<1>2. PICK d2 \in b, e2 \in c : Ahead(d2, b) = Ahead(e2, c) /\ Rank[d2] < Rank[e2]
  BY Names
<1>3. /\ Rank[d1] \in Nat /\ Rank[e1] \in Nat /\ Rank[d2] \in Nat /\ Rank[e2] \in Nat
      /\ \A d \in Dimensions : Position[d] \in Nat
  BY Placed
<1>4. CASE e1 = d2
  BY <1>1, <1>2, <1>3, <1>4, Names
<1>5. CASE Position[e1] < Position[d2]
  <2>1. e1 \in c /\ Position[e1] < Position[e2]
    BY <1>2, <1>5 DEF Ahead
  <2>2. Ahead(e1, c) = Ahead(e1, b)
    <3>1. ASSUME NEW z \in Dimensions, Position[z] < Position[e1]
          PROVE  z \in b <=> z \in c
      BY <1>2, <1>3, <1>5, <2>1, <3>1 DEF Ahead
    <3>2. QED
      BY <3>1 DEF Ahead
  <2>3. QED
    BY <1>1, <2>1, <2>2, Names
<1>6. CASE Position[d2] < Position[e1]
  <2>1. d2 \in a /\ Position[d2] < Position[d1]
    BY <1>1, <1>6 DEF Ahead
  <2>2. Ahead(d2, a) = Ahead(d2, b)
    <3>1. ASSUME NEW z \in Dimensions, Position[z] < Position[d2]
          PROVE  z \in a <=> z \in b
      BY <1>1, <1>3, <1>6, <2>1, <3>1 DEF Ahead
    <3>2. QED
      BY <3>1 DEF Ahead
  <2>3. QED
    BY <1>2, <2>1, <2>2, Names
<1>7. QED
  BY <1>4, <1>5, <1>6, Placed

LEMMA Measured ==
    ASSUME NEW a, a \subseteq Dimensions
    PROVE  IsFiniteSet(a) /\ Cardinality(a) \in Nat /\ TotalCost(a) \in Nat
<1>1. IsFiniteSet(a)
  BY FS_Subset, RubricAssumption
<1>2. \A d \in a : Cost[d] \in Nat
  BY RubricAssumption
<1>3. QED
  BY <1>1, <1>2, FS_CardinalityType, SumIsNat DEF TotalCost

LEMMA BetterTotal ==
    ASSUME NEW a, NEW b, a \subseteq Dimensions, b \subseteq Dimensions, a # b
    PROVE  Better(a, b) \/ Better(b, a)
<1>1. /\ Cardinality(a) \in Nat /\ Cardinality(b) \in Nat
      /\ TotalCost(a) \in Nat /\ TotalCost(b) \in Nat
  BY Measured
<1>2. QED
  BY <1>1, NamesTotal DEF Better

LEMMA BetterTransitive ==
    ASSUME NEW a, NEW b, NEW c, a \subseteq Dimensions, b \subseteq Dimensions,
           c \subseteq Dimensions, Better(a, b), Better(b, c)
    PROVE  Better(a, c)
<1>1. /\ Cardinality(a) \in Nat /\ Cardinality(b) \in Nat /\ Cardinality(c) \in Nat
      /\ TotalCost(a) \in Nat /\ TotalCost(b) \in Nat /\ TotalCost(c) \in Nat
  BY Measured
<1>2. QED
  BY <1>1, NamesTransitive DEF Better

\* Among groups there is one that is better than all the others.
LEMMA BestGroup ==
    ASSUME NEW C, \A g \in C : g \subseteq Dimensions, C # {}
    PROVE  \E a \in C : \A b \in C \ {a} : Better(a, b)
<1> DEFINE Bad == {s \in SUBSET C : s # {} /\ ~\E a \in s : \A b \in s \ {a} : Better(a, b)}
<1>1. IsFiniteSet(C) /\ \A t \in Bad : t \subseteq C
  <2>1. IsFiniteSet(SUBSET Dimensions) /\ C \subseteq SUBSET Dimensions
    BY FS_SUBSET, RubricAssumption
  <2>2. IsFiniteSet(C)
    BY <2>1, FS_Subset
  <2>3. QED
    BY <2>2
<1> HIDE DEF Bad
<1>2. Bad # {} => \E s \in Bad : \A t \in Bad : t \subseteq s => t = s
  BY <1>1, LeastSubset
<1>3. ASSUME NEW s \in Bad, \A t \in Bad : t \subseteq s => t = s
      PROVE  FALSE
  <2>1. s \subseteq C /\ s # {} /\ ~\E a \in s : \A b \in s \ {a} : Better(a, b)
    BY DEF Bad
  <2>2. PICK x \in s : TRUE
    BY <2>1
  <2> DEFINE u == s \ {x}
  <2>3. u # {}
    BY <2>1, <2>2
  <2>4. PICK m \in u : \A b \in u \ {m} : Better(m, b)
    <3>1. u \subseteq s /\ u # s /\ u \in SUBSET C
      BY <2>1, <2>2
    <3>2. QED
      BY <1>3, <2>3, <3>1 DEF Bad
  <2>5. m \subseteq Dimensions /\ x \subseteq Dimensions /\ m # x
    BY <2>1, <2>2, <2>4
  <2>6. CASE Better(m, x)
    BY <2>1, <2>2, <2>4, <2>6
  <2>7. CASE Better(x, m)
    <3>1. ASSUME NEW b \in s \ {x} PROVE Better(x, b)
      <4>1. b = m \/ Better(m, b)
        BY <2>4
      <4>2. b \subseteq Dimensions
        BY <2>1
      <4>3. QED
        BY <2>5, <2>7, <4>1, <4>2, BetterTransitive
    <3>2. QED
      BY <2>1, <2>2, <3>1
  <2>8. QED
    BY <2>5, <2>6, <2>7, BetterTotal
<1>4. C \notin Bad
  BY <1>2, <1>3
<1>5. QED
  BY <1>4 DEF Bad

-----------------------------------------------------------------------------
(* The advice.                                                             *)

LEMMA ProjectedIs ==
    ASSUME NEW r \in Rubrics, NEW raw \in RawScores, NEW value \in 0..850,
           NEW group, group \subseteq Dimensions
    PROVE  /\ Projected(r, raw, value, group) \in Int
           /\ group = {} => Projected(r, raw, value, group) = value
<1> DEFINE fn == [d \in group |-> Gain(r, raw, d)]
           sum == SumFunctionOnSet(fn, group)
<1>1. DOMAIN fn = group
  OBVIOUS
<1>2. Projected(r, raw, value, group) = Round(10 * value + sum, 10)
  BY <1>1, Zenon DEF Projected, SumFunction
<1>3. IsFiniteSet(group)
  BY Measured
<1>4. \A d \in group : fn[d] \in Int
  <2>1. \A d \in group : raw[d] \in Int /\ Weight[r][d] \in Int
    BY RubricAssumption DEF RawScores
  <2>2. QED
    BY <2>1 DEF Gain
<1> HIDE DEF fn
<1>5. sum \in Int /\ (group = {} => sum = 0)
  BY <1>3, <1>4, SumIsInt, SumOfNone
<1> HIDE DEF sum
<1> DEFINE total == 10 * value + sum
<1>6. total \in Int /\ (group = {} => total = 10 * value)
  BY <1>5
<1>7. Round(total, 10) \in Nearest(total, 10)
  BY <1>6, RoundIsNearest
<1> HIDE DEF total
<1>8. /\ Round(total, 10) \in Int
      /\ -10 <= 2 * (Round(total, 10) * 10 - total)
      /\ 2 * (Round(total, 10) * 10 - total) <= 10
      /\ Round(total, 10) \in {total \div 10, total \div 10 + 1}
  BY <1>6, <1>7 DEF Nearest
<1>9. group = {} => Round(total, 10) = value
  BY <1>6, <1>8
<1>10. QED
  BY <1>2, <1>8, <1>9 DEF total

LEMMA TargetIs ==
    ASSUME NEW value \in 0..850, Band(value) # "SCALE"
    PROVE  Target(value) \in Nat /\ value < Target(value) /\ Target(value) <= 800
<1>1. value < 800
  BY DEF Band
<1>2. /\ {t \in Thresholds : value < t} \subseteq Nat
      /\ 800 \in {t \in Thresholds : value < t}
  BY <1>1 DEF Thresholds
<1>3. /\ Min({t \in Thresholds : value < t}) \in {t \in Thresholds : value < t}
      /\ Min({t \in Thresholds : value < t}) <= 800
  BY <1>2, MinOfNats
<1>4. QED
  BY <1>2, <1>3 DEF Target

LEMMA AdviceIs ==
    ASSUME NEW r \in Rubrics, NEW raw \in RawScores, NEW value \in 0..850
    PROVE  /\ Advice(r, raw, value) \subseteq Dimensions
           /\ Advice(r, raw, value) # {} =>
                  /\ Band(value) # "SCALE"
                  /\ \A b \in Candidates(r, raw, value) \ {Advice(r, raw, value)} :
                         Better(Advice(r, raw, value), b)
           /\ Band(value) # "SCALE" /\ Candidates(r, raw, value) # {} =>
                  Advice(r, raw, value) \in Candidates(r, raw, value)
<1> DEFINE candidates == IF Band(value) = "SCALE" THEN {} ELSE Candidates(r, raw, value)
           advice == Advice(r, raw, value)
<1>1. \A g \in candidates : g \subseteq Dimensions
  BY DEF Candidates
<1>2. advice = IF candidates = {} THEN {}
               ELSE CHOOSE a \in candidates : \A b \in candidates \ {a} : Better(a, b)
  BY Zenon DEF Advice
<1>3. CASE candidates = {}
  BY <1>2, <1>3
<1>4. CASE candidates # {}
  <2>1. candidates = Candidates(r, raw, value) /\ Band(value) # "SCALE"
    BY <1>4
  <2> HIDE DEF candidates, advice
  <2>2. \E a \in candidates : \A b \in candidates \ {a} : Better(a, b)
    BY <1>1, <1>4, BestGroup
  <2>3. advice \in candidates /\ \A b \in candidates \ {advice} : Better(advice, b)
    BY <1>2, <1>4, <2>2
  <2>4. QED
    BY <1>1, <2>1, <2>3 DEF advice
<1>5. QED
  BY <1>3, <1>4

\* Bringing every dimension to 100 would reach any band: the gains are all that a
\* score lacks, give or take the rounding of the score itself.
LEMMA AllReach ==
    ASSUME NEW r \in Rubrics, NEW raw \in RawScores, NEW value \in 0..850,
           Band(value) # "SCALE", Weighted(r, raw) <= 10 * value + 5
    PROVE  Dimensions \in Candidates(r, raw, value)
<1> DEFINE gain == [d \in Dimensions |-> Gain(r, raw, d)]
           share == [d \in Dimensions |-> raw[d] * Weight[r][d]]
           w == Weight[r]
           total == SumFunctionOnSet(gain, Dimensions)
<1>1. /\ DOMAIN gain = Dimensions /\ DOMAIN share = Dimensions
      /\ Projected(r, raw, value, Dimensions) = Round(10 * value + total, 10)
      /\ Weighted(r, raw) = SumFunctionOnSet(share, Dimensions)
  <2>1. DOMAIN gain = Dimensions /\ DOMAIN share = Dimensions
    OBVIOUS
  <2>2. QED
    BY <2>1, Zenon DEF Projected, Weighted, SumFunction
<1>2. ASSUME NEW d \in Dimensions
      PROVE  /\ gain[d] \in Int /\ share[d] \in Int /\ w[d] \in Int
             /\ gain[d] + share[d] = 100 * w[d]
  <2>1. raw[d] \in Int /\ w[d] \in Int
    BY RubricAssumption DEF RawScores
  <2>2. \A a, b \in Int : /\ a * b \in Int /\ (100 - a) * b \in Int
                          /\ (100 - a) * b + a * b = 100 * b
    OBVIOUS
  <2>3. gain[d] = (100 - raw[d]) * w[d] /\ share[d] = raw[d] * w[d]
    BY DEF Gain
  <2> HIDE DEF gain, share, w
  <2>4. QED
    BY <2>1, <2>2, <2>3
<1>3. IsFiniteSet(Dimensions) /\ SumFunctionOnSet(w, Dimensions) = 100
  BY RubricAssumption
<1> HIDE DEF gain, share, w
<1>4. total + Weighted(r, raw) = 10000 /\ total \in Int /\ Weighted(r, raw) \in Int
  <2>1. total + SumFunctionOnSet(share, Dimensions) = 100 * SumFunctionOnSet(w, Dimensions)
    BY <1>2, <1>3, SumsAddUp
  <2>2. total \in Int /\ SumFunctionOnSet(share, Dimensions) \in Int
    BY <1>2, <1>3, SumIsInt
  <2>3. QED
    BY <1>1, <1>3, <2>1, <2>2
<1> HIDE DEF total
<1> DEFINE n == 10 * value + total
<1>5. n \in Int /\ 9995 <= n
  BY <1>4
<1> HIDE DEF n
<1>6. Round(n, 10) \in Nearest(n, 10)
  BY <1>5, RoundIsNearest
<1>7. Round(n, 10) \in Int /\ 800 <= Round(n, 10)
  BY <1>5, <1>6 DEF Nearest
<1>8. Target(value) \in Nat /\ Target(value) <= 800
  BY TargetIs
<1>9. Projected(r, raw, value, Dimensions) >= Target(value)
  BY <1>1, <1>7, <1>8 DEF n
<1>10. Dimensions = {d \in Dimensions : raw[d] < 100} /\ Dimensions # {}
  BY RubricAssumption DEF RawScores
<1>11. QED
  BY <1>9, <1>10 DEF Candidates

\* A group that the order prefers costs no more, and is no larger at that cost.
LEMMA BetterIsCheaper ==
    ASSUME NEW a, NEW b, a \subseteq Dimensions, b \subseteq Dimensions, Better(a, b)
    PROVE  ~(TotalCost(b) < TotalCost(a)) /\ ~(b \subseteq a /\ b # a)
<1>1. /\ Cardinality(a) \in Nat /\ Cardinality(b) \in Nat /\ IsFiniteSet(a)
      /\ TotalCost(a) \in Nat /\ TotalCost(b) \in Nat
  BY Measured
<1>2. ASSUME b \subseteq a, b # a
      PROVE  Cardinality(b) < Cardinality(a) /\ TotalCost(b) <= TotalCost(a)
  <2>1. Cardinality(b) < Cardinality(a)
    BY <1>1, <1>2, FS_Subset, FS_CardinalityType
  <2>2. \A d \in a : Cost[d] \in Nat
    BY RubricAssumption
  <2>3. TotalCost(b) <= TotalCost(a)
    BY <1>1, <1>2, <2>2, SumOfPart DEF TotalCost
  <2>4. QED
    BY <2>1, <2>3
<1>3. QED
  BY <1>1, <1>2 DEF Better

-----------------------------------------------------------------------------
(* Every score is what score_inventory makes of some inventory under some  *)
(* rubric; the properties of scores follow from that.                      *)

RawOf(inputs) == [d \in Dimensions |-> Raw(inputs, d)]

\* The score that rounds to a value.
ScoreOf(r, inputs, value) ==
    LET raw == RawOf(inputs)
        confidence == Confidence(inputs)
    IN  [rubric |-> r, inputs |-> inputs, raw |-> raw, value |-> value,
         confidence |-> confidence, low |-> Round(value * confidence, 100),
         high |-> High(value, confidence), advice |-> Advice(r, raw, value)]

Computed(s) ==
    \E r \in Rubrics, inputs \in Inventories :
        \E value \in Nearest(Weighted(r, RawOf(inputs)), 10) : s = ScoreOf(r, inputs, value)

ScoreInv ==
    /\ evidence \in Inventories
    /\ todo \subseteq Dimensions
    /\ Scored => Computed(score)

LEMMA RawOfIs == ASSUME NEW inputs \in Inventories PROVE RawOf(inputs) \in RawScores
<1>1. \A d \in Dimensions : Raw(inputs, d) \in 0..85
  BY RawBounds
<1>2. QED
  BY <1>1 DEF RawOf, RawScores

\* What follows from the bounds of ScoreNumbers for a score.
LEMMA ComputedIs ==
    ASSUME NEW r \in Rubrics, NEW inputs \in Inventories,
           NEW value, value \in Nearest(Weighted(r, RawOf(inputs)), 10)
    PROVE  LET s == ScoreOf(r, inputs, value)
           IN  /\ s.rubric = r /\ s.inputs = inputs /\ s.value = value
               /\ s.raw = RawOf(inputs) /\ s.raw \in RawScores
               /\ s.advice = Advice(r, RawOf(inputs), value) /\ s.advice \subseteq Dimensions
               /\ value \in 0..850
               /\ 10 * value <= Weighted(r, RawOf(inputs)) + 5
               /\ Weighted(r, RawOf(inputs)) <= 10 * value + 5
               /\ Weighted(r, RawOf(inputs)) \in Nat
               /\ s.low \in 0..value /\ s.high \in value..1000
               /\ s \in Score /\ s # NoScore
<1> DEFINE raw == RawOf(inputs)
           confidence == Confidence(inputs)
           s == ScoreOf(r, inputs, value)
           low == Round(value * confidence, 100)
           high == High(value, confidence)
           advice == Advice(r, raw, value)
<1>1. raw \in RawScores
  BY RawOfIs
<1>2. Weighted(r, raw) \in Nat /\ Weighted(r, raw) <= 8500
  BY <1>1, WeightedBounds
<1>3. confidence \in {15, 20, 85}
  BY ConfidenceIs
<1>4. /\ value \in 0..850 /\ low \in 0..value /\ high \in value..1000
      /\ 10 * value <= Weighted(r, raw) + 5 /\ Weighted(r, raw) <= 10 * value + 5
  BY <1>2, <1>3, ScoreNumbers
<1>5. advice \subseteq Dimensions
  BY <1>1, <1>4, AdviceIs
<1>6. s = [rubric |-> r, inputs |-> inputs, raw |-> raw, value |-> value,
           confidence |-> confidence, low |-> low, high |-> high, advice |-> advice]
  BY Zenon DEF ScoreOf
<1> HIDE DEF s, low, high, advice, confidence, raw
<1>7. raw \in [Dimensions -> 0..100]
  BY <1>1 DEF RawScores
<1>8. value \in 0..1000 /\ low \in 0..1000 /\ high \in 0..1000 /\ confidence \in 0..100
  BY <1>3, <1>4
<1>9. s \in Score
  BY <1>5, <1>6, <1>7, <1>8 DEF Score, Inventories
<1>10. s # NoScore
  BY <1>6 DEF NoScore
<1>11. /\ s.rubric = r /\ s.inputs = inputs /\ s.value = value /\ s.raw = raw
       /\ s.advice = advice /\ s.low = low /\ s.high = high
  BY <1>6
<1>12. QED
  BY <1>1, <1>2, <1>4, <1>5, <1>9, <1>10, <1>11 DEF s, low, high, advice, confidence, raw

LEMMA ScoreInvariant == ScoreSpec => []ScoreInv
<1>1. ScoreInit => ScoreInv
  BY DEF ScoreInit, ScoreInv, Scored, Inventories
<1>2. ScoreInv /\ [ScoreNext]_scoreVars => ScoreInv'
  <2> SUFFICES ASSUME ScoreInv, [ScoreNext]_scoreVars PROVE ScoreInv'
    OBVIOUS
  <2>1. ASSUME NEW r \in Rubrics, Assess(r) PROVE ScoreInv'
    <3>1. PICK value \in Nearest(Weighted(r, RawOf(evidence)), 10) :
              /\ score' = ScoreOf(r, evidence, value)
              /\ todo' = Advice(r, RawOf(evidence), value)
              /\ evidence' = evidence
      BY <2>1, Zenon DEF Assess, ScoreOf, RawOf
    <3>2. evidence \in Inventories
      BY DEF ScoreInv
    <3>3. todo' \subseteq Dimensions
      BY <3>1, <3>2, ComputedIs
    <3>4. Computed(score')
      BY <3>1, <3>2, Zenon DEF Computed
    <3>5. QED
      BY <3>1, <3>2, <3>3, <3>4 DEF ScoreInv
  <2>2. ASSUME NEW d \in Dimensions, CarryOut(d) PROVE ScoreInv'
    <3>1. evidence' \in Inventories
      BY <2>2 DEF CarryOut, ScoreInv, Inventories, Quality
    <3>2. QED
      BY <2>2, <3>1 DEF CarryOut, ScoreInv, Scored, Computed
  <2>3. CASE UNCHANGED scoreVars
    BY <2>3 DEF scoreVars, ScoreInv, Scored, Computed
  <2>4. QED
    BY <2>1, <2>2, <2>3 DEF ScoreNext
<1>3. QED
  BY <1>1, <1>2, PTL DEF ScoreSpec

\* score_inventory's own validator accepts every score: its numbers are in their
\* ranges, and rounding leaves the score inside its interval.
THEOREM ScoresAreValid == ScoreSpec => []NeverRefused
<1>1. ScoreInv => NeverRefused
  <2> SUFFICES ASSUME ScoreInv PROVE NeverRefused
    OBVIOUS
  <2>1. ASSUME Scored
        PROVE  score \in Score /\ score.low <= score.value /\ score.value <= score.high
    <3>1. PICK r \in Rubrics, inputs \in Inventories :
              \E value \in Nearest(Weighted(r, RawOf(inputs)), 10) : score = ScoreOf(r, inputs, value)
      BY <2>1 DEF ScoreInv, Computed
    <3>2. PICK value \in Nearest(Weighted(r, RawOf(inputs)), 10) : score = ScoreOf(r, inputs, value)
      BY <3>1
    <3>3. QED
      BY <3>2, ComputedIs
  <2>2. TypeOK
    BY <2>1 DEF TypeOK, ScoreInv, Scored, Inventories
  <2>3. QED
    BY <2>1, <2>2 DEF NeverRefused
<1>2. QED
  BY <1>1, ScoreInvariant, PTL

\* Below the last band there is advice that would reach the next one, and no set of
\* dimensions that costs less, and no part of it, would.
THEOREM AdviceIsCheapest == ScoreSpec => []CheapestAdvice
<1>1. ScoreInv => CheapestAdvice
  <2> DEFINE Reaches(group) == Projected(score.rubric, score.raw, score.value, group)
                                   >= Target(score.value)
  <2> SUFFICES ASSUME ScoreInv, Scored
               PROVE  /\ Band(score.value) # "SCALE" => score.advice # {} /\ Reaches(score.advice)
                      /\ \A group \in SUBSET Dimensions :
                             TotalCost(group) < TotalCost(score.advice)
                               \/ (group \subseteq score.advice /\ group # score.advice)
                                 => ~Reaches(group)
    BY Zenon DEF CheapestAdvice
  <2>1. PICK r \in Rubrics, inputs \in Inventories :
            \E value \in Nearest(Weighted(r, RawOf(inputs)), 10) : score = ScoreOf(r, inputs, value)
    BY DEF ScoreInv, Computed
  <2>2. PICK value \in Nearest(Weighted(r, RawOf(inputs)), 10) : score = ScoreOf(r, inputs, value)
    BY <2>1
  <2> DEFINE raw == RawOf(inputs)
             advice == Advice(r, raw, value)
  <2>3. /\ score.rubric = r /\ score.raw = raw /\ score.value = value /\ score.advice = advice
        /\ value \in 0..850 /\ raw \in RawScores /\ Weighted(r, raw) <= 10 * value + 5
    BY <2>2, ComputedIs
  <2> HIDE DEF raw
  <2>4. r \in Rubrics /\ raw \in RawScores /\ value \in 0..850
    BY <2>1, <2>3
  <2>5. /\ advice \subseteq Dimensions
        /\ advice # {} =>
               /\ Band(value) # "SCALE"
               /\ \A b \in Candidates(r, raw, value) \ {advice} : Better(advice, b)
        /\ Band(value) # "SCALE" /\ Candidates(r, raw, value) # {} =>
               advice \in Candidates(r, raw, value)
    BY <2>4, AdviceIs, Zenon
  <2> HIDE DEF advice
  <2>6. ASSUME Band(value) # "SCALE"
        PROVE  advice # {} /\ Projected(r, raw, value, advice) >= Target(value)
    <3>1. Dimensions \in Candidates(r, raw, value)
      BY <2>3, <2>4, <2>6, AllReach
    <3>2. advice \in Candidates(r, raw, value)
      BY <2>5, <2>6, <3>1
    <3>3. QED
      BY <3>2 DEF Candidates
  <2>7. ASSUME NEW group \in SUBSET Dimensions,
               TotalCost(group) < TotalCost(advice) \/ (group \subseteq advice /\ group # advice)
        PROVE  ~(Projected(r, raw, value, group) >= Target(value))
    <3>1. advice # {} /\ group # advice
      <4>1. TotalCost({}) = 0
        BY SumOfNone DEF TotalCost
      <4>2. TotalCost(group) \in Nat /\ TotalCost(advice) \in Nat
        BY <2>5, Measured
      <4>3. QED
        BY <2>7, <4>1, <4>2
    <3>2. Target(value) \in Nat /\ value < Target(value)
      BY <2>4, <2>5, <3>1, TargetIs
    <3>3. /\ Projected(r, raw, value, group) \in Int
          /\ group = {} => Projected(r, raw, value, group) = value
      BY <2>4, ProjectedIs
    <3>4. group \notin Candidates(r, raw, value)
      <4>1. Better(advice, group) =>
                ~(TotalCost(group) < TotalCost(advice)) /\ ~(group \subseteq advice /\ group # advice)
        BY <2>5, BetterIsCheaper
      <4>2. QED
        BY <2>5, <2>7, <3>1, <4>1
    <3>5. \A d \in group : raw[d] < 100
      BY <2>4 DEF RawScores
    <3>6. group = {} \/ ~(Projected(r, raw, value, group) >= Target(value))
      BY <3>4, <3>5 DEF Candidates
    <3>7. QED
      BY <2>4, <3>2, <3>3, <3>6
  <2>8. QED
    BY <2>3, <2>6, <2>7
<1>2. QED
  BY <1>1, ScoreInvariant, PTL

\* What is printed with a score falls short of the next band by half a point for each
\* action and half a point for the projection at most, whatever the rubric.
DeltasNearlyAddUp ==
    Scored /\ Band(score.value) # "SCALE" =>
        2 * (Target(score.value) - Promised) <= Cardinality(score.advice) + 1

\* Each delta is rounded on its own.  Under some weights their sum stays below the
\* threshold the advice was chosen to reach, but never by more than that.
THEOREM DeltasFallShortByRounding == ScoreSpec => []DeltasNearlyAddUp
<1>1. ScoreInv /\ CheapestAdvice => DeltasNearlyAddUp
  <2> SUFFICES ASSUME ScoreInv, CheapestAdvice, Scored, Band(score.value) # "SCALE"
               PROVE  2 * (Target(score.value) - Promised) <= Cardinality(score.advice) + 1
    BY DEF DeltasNearlyAddUp
  <2>1. PICK r \in Rubrics, inputs \in Inventories :
            \E value \in Nearest(Weighted(r, RawOf(inputs)), 10) : score = ScoreOf(r, inputs, value)
    BY DEF ScoreInv, Computed
  <2>2. PICK value \in Nearest(Weighted(r, RawOf(inputs)), 10) : score = ScoreOf(r, inputs, value)
    BY <2>1
  <2> DEFINE raw == RawOf(inputs)
             advice == score.advice
             gain == [d \in advice |-> Gain(r, raw, d)]
             delta == [d \in advice |-> Round(Gain(r, raw, d), 10)]
             lacking == SumFunctionOnSet(gain, advice)
             printed == SumFunctionOnSet(delta, advice)
             size == Cardinality(advice)
  <2>3. /\ score.rubric = r /\ score.raw = raw /\ score.value = value
        /\ value \in 0..850 /\ raw \in RawScores
        /\ advice = Advice(r, raw, value) /\ advice \subseteq Dimensions
    <3>1. /\ score.rubric = r /\ score.raw = RawOf(inputs) /\ score.value = value
          /\ value \in 0..850 /\ RawOf(inputs) \in RawScores
          /\ score.advice = Advice(r, RawOf(inputs), value)
      BY <2>2, ComputedIs
    <3>2. Advice(r, RawOf(inputs), value) \subseteq Dimensions
      BY <2>1, <3>1, AdviceIs, Zenon
    <3>3. QED
      BY <3>1, <3>2, Zenon
  <2>4. /\ Promised = value + printed
        /\ Projected(r, raw, value, advice) = Round(10 * value + lacking, 10)
    <3>1. DOMAIN gain = advice /\ DOMAIN delta = advice
      OBVIOUS
    <3>2. QED
      BY <2>3, <3>1, Zenon DEF Promised, Projected, SumFunction
  <2>5. Projected(r, raw, value, advice) >= Target(value)
    BY <2>3 DEF CheapestAdvice
  <2>6. Target(value) \in Nat
    BY <2>3, TargetIs
  <2>7. IsFiniteSet(advice) /\ size \in Nat
    BY <2>3, Measured
  <2> HIDE DEF raw, advice
  <2>8. ASSUME NEW d \in advice
        PROVE  gain[d] \in Int /\ delta[d] \in Int /\ gain[d] <= 10 * delta[d] + 5
    <3>1. raw[d] \in Int /\ Weight[r][d] \in Int
      BY <2>3, RubricAssumption DEF RawScores
    <3>2. Gain(r, raw, d) \in Int
      BY <3>1 DEF Gain
    <3>3. Round(Gain(r, raw, d), 10) \in Nearest(Gain(r, raw, d), 10)
      BY <3>2, RoundIsNearest
    <3>4. gain[d] = Gain(r, raw, d) /\ delta[d] = Round(Gain(r, raw, d), 10)
      OBVIOUS
    <3> HIDE DEF gain, delta
    <3>5. QED
      BY <3>2, <3>3, <3>4 DEF Nearest
  <2> HIDE DEF gain, delta
  <2>9. lacking \in Int /\ printed \in Int
    BY <2>7, <2>8, SumIsInt
  <2>10. lacking <= 10 * printed + 5 * size
    BY <2>7, <2>8, SumOfRounded
  <2> HIDE DEF lacking, printed, size
  <2> DEFINE n == 10 * value + lacking
  <2>11. n \in Int
    BY <2>3, <2>9
  <2> HIDE DEF n
  <2>12. Round(n, 10) \in Int /\ 10 * Round(n, 10) <= n + 5
    <3>1. Round(n, 10) \in Nearest(n, 10)
      BY <2>11, RoundIsNearest
    <3>2. QED
      BY <2>11, <3>1 DEF Nearest
  <2>13. 10 * Target(value) <= 10 * value + lacking + 5
    BY <2>3, <2>4, <2>5, <2>6, <2>9, <2>12 DEF n
  <2>14. 2 * (Target(value) - (value + printed)) <= size + 1
    BY <2>3, <2>6, <2>7, <2>9, <2>10, <2>13 DEF size
  <2>15. QED
    BY <2>3, <2>4, <2>14 DEF size, advice
<1>2. QED
  BY <1>1, ScoreInvariant, AdviceIsCheapest, PTL

\* What has no checked evidence is low, and so is the dimension for which discovery
\* looks for nothing: no blueprint is without an approval.
THEOREM GatesHold == ScoreSpec => []UnprovenIsGated
<1>1. ScoreInv => UnprovenIsGated
  <2> SUFFICES ASSUME ScoreInv, Scored, NEW requested \in 0..Len(Levels)
               PROVE  LET b == Blueprint(score, requested, <<>>)
                      IN  /\ b.approvals # {}
                          /\ \A d \in Dimensions :
                                 (\A c \in CategoriesOf[d] : score.inputs[c] # "present")
                                     => d \in (b.denied \cup b.human) \cap b.approvals
    BY DEF UnprovenIsGated
  <2>1. PICK r \in Rubrics, inputs \in Inventories :
            \E value \in Nearest(Weighted(r, RawOf(inputs)), 10) : score = ScoreOf(r, inputs, value)
    BY DEF ScoreInv, Computed
  <2>2. PICK value \in Nearest(Weighted(r, RawOf(inputs)), 10) : score = ScoreOf(r, inputs, value)
    BY <2>1
  <2>3. score.raw = RawOf(inputs) /\ score.inputs = inputs
    BY <2>1, <2>2, ComputedIs
  <2> DEFINE low == Low(score.raw)
             b == Blueprint(score, requested, <<>>)
  <2>4. ASSUME NEW d \in Dimensions, \A c \in CategoriesOf[d] : inputs[c] # "present"
        PROVE  d \in low
    <3>1. Raw(inputs, d) \in 0..85 /\ Raw(inputs, d) <= 15
      BY <2>4, RawBounds
    <3>2. score.raw[d] = Raw(inputs, d)
      BY <2>3 DEF RawOf
    <3>3. \A n \in 0..85 : n <= 15 => n < 40
      OBVIOUS
    <3>4. score.raw[d] < 40
      BY <3>1, <3>2, <3>3, Zenon
    <3>5. QED
      BY <3>4 DEF Low
  <2>5. low # {}
    BY <2>4, CategoriesAssumption
  <2>6. /\ b.denied = low \cap {Rollback} /\ b.human = low \ {Rollback}
        /\ b.approvals = low
    BY <2>5 DEF Blueprint
  <2> HIDE DEF low, b
  <2>7. \A d \in Dimensions :
            (\A c \in CategoriesOf[d] : score.inputs[c] # "present")
                => d \in (b.denied \cup b.human) \cap b.approvals
    BY <2>3, <2>4, <2>6
  <2>8. QED
    BY <2>5, <2>6, <2>7 DEF b
<1>2. QED
  BY <1>1, ScoreInvariant, PTL

\* When each override tightens the ones before it, the last is the tightest.
LEMMA LastIsTightest ==
    ASSUME NEW overrides \in Overrides, Tightens(overrides), overrides # <<>>
    PROVE  LET last == overrides[Len(overrides)]
           IN  last <= Budget /\ \A i \in DOMAIN overrides : last <= overrides[i]
<1> DEFINE n == Len(overrides)
           last == overrides[n]
           behind == {k \in Nat : k < n /\ ~(last <= overrides[n - k])}
<1>1. overrides \in Seq(Nat)
  BY BudgetAssumption
<1>2. /\ n \in Nat /\ 1 <= n /\ DOMAIN overrides = 1..n
      /\ \A i \in 1..n : overrides[i] \in Nat
  BY <1>1
<1>3. \A i \in 1..n : overrides[i] <= IF i = 1 THEN Budget ELSE overrides[i - 1]
  BY <1>2 DEF Tightens
<1> HIDE DEF n
<1>4. last \in Nat
  BY <1>2
<1> HIDE DEF last
<1>5. ASSUME behind # {} PROVE FALSE
  <2>1. PICK k \in behind : \A q \in behind : k <= q
    <3>1. behind \subseteq Nat
      OBVIOUS
    <3> HIDE DEF behind
    <3>2. Min(behind) \in behind /\ \A q \in behind : Min(behind) <= q
      BY <1>5, <3>1, MinOfNats
    <3>3. QED
      BY <3>2
  <2>2. k \in Nat /\ k < n /\ ~(last <= overrides[n - k])
    BY <2>1
  <2>3. k # 0
    BY <1>2, <1>4, <2>2 DEF last
  <2>4. PICK j \in Nat : j = k - 1
    BY <2>2, <2>3
  <2>5. last <= overrides[n - j]
    <3>1. j < n /\ ~(k <= j)
      BY <1>2, <2>2, <2>4
    <3>2. j \notin behind
      <4> HIDE DEF behind
      <4>1. QED
        BY <2>1, <3>1
    <3>3. QED
      BY <3>1, <3>2
  <2>6. n - k \in 1..n /\ n - j \in 1..n /\ n - j # 1 /\ (n - j) - 1 = n - k
    BY <1>2, <2>2, <2>3, <2>4
  <2>7. overrides[n - j] <= overrides[n - k]
    BY <1>3, <2>6
  <2>8. overrides[n - j] \in Nat /\ overrides[n - k] \in Nat
    BY <1>2, <2>6
  <2>9. QED
    BY <1>4, <2>2, <2>5, <2>7, <2>8
<1>6. ASSUME NEW i \in 1..n PROVE last <= overrides[i]
  <2>1. n - i \in Nat /\ n - i < n /\ n - (n - i) = i
    BY <1>2
  <2>2. n - i \notin behind
    BY <1>5
  <2>3. QED
    BY <2>1, <2>2
<1>7. last <= Budget
  <2>1. 1 \in 1..n /\ overrides[1] \in Nat
    BY <1>2
  <2>2. last <= overrides[1] /\ overrides[1] <= Budget
    BY <1>3, <1>6, <2>1
  <2>3. QED
    BY <1>4, <2>1, <2>2, BudgetAssumption
<1>8. QED
  BY <1>2, <1>6, <1>7 DEF last, n

\* The bands as the levels they permit.
LEMMA PermittedIs ==
    ASSUME NEW value \in Int
    PROVE  /\ Permitted(value) \in 1..4
           /\ value < 600 => Permitted(value) < 3
           /\ value < 800 => Permitted(value) < 4
<1>1. CASE value < 400
  <2>1. Band(value) = "BLOCKED"
    BY <1>1 DEF Band
  <2>2. Permitted(value) = 1
    BY <2>1 DEF Permitted
  <2>3. QED
    BY <2>2
<1>2. CASE ~(value < 400) /\ value < 600
  <2>1. Band(value) = "CONDITIONAL"
    BY <1>2 DEF Band
  <2>2. Permitted(value) = 2
    BY <2>1 DEF Permitted
  <2>3. QED
    BY <2>2
<1>3. CASE ~(value < 600) /\ value < 800
  <2>1. Band(value) = "READY"
    BY <1>3 DEF Band
  <2>2. Permitted(value) = 3
    BY <2>1 DEF Permitted
  <2>3. QED
    BY <1>3, <2>2
<1>4. CASE ~(value < 800)
  <2>1. Permitted(value) \in 1..4
    BY DEF Permitted
  <2>2. ~(value < 600)
    BY <1>4
  <2>3. QED
    BY <1>4, <2>1, <2>2
<1>5. QED
  BY <1>1, <1>2, <1>3, <1>4

LEMMA AutonomyIs ==
    ASSUME NEW s, NEW requested \in 0..4, NEW overrides
    PROVE  LET autonomy == Blueprint(s, requested, overrides).autonomy
           IN  autonomy \in 1..4 /\ autonomy <= Permitted(s.value)
<1> DEFINE permitted == Permitted(s.value)
<1>1. permitted \in 1..4
  BY DEF Permitted
<1>2. Blueprint(s, requested, overrides).autonomy =
          IF requested = 0 THEN permitted ELSE Min({requested, permitted})
  BY DEF Blueprint
<1> HIDE DEF permitted
<1>3. Min({requested, permitted}) \in {requested, permitted} /\ Min({requested, permitted}) <= permitted
  BY <1>1, MinOfNats
<1>4. QED
  BY <1>1, <1>2, <1>3 DEF permitted

\* A blueprint stays within the autonomy of its band, the default budget and every
\* accepted override.
THEOREM PolicyIsKept == ScoreSpec => []PolicyHolds
<1>1. ScoreInv => PolicyHolds
  <2> SUFFICES ASSUME ScoreInv, Scored, NEW requested \in 0..Len(Levels),
                      NEW overrides \in Overrides, Tightens(overrides)
               PROVE  LET b == Blueprint(score, requested, overrides)
                      IN  /\ Levels[b.autonomy] = "BOUNDED" => score.value >= 600
                          /\ Levels[b.autonomy] = "AUTONOMOUS" => score.value >= 800
                          /\ b.budget <= Budget
                          /\ \A i \in DOMAIN overrides : b.budget <= overrides[i]
    BY DEF PolicyHolds
  <2>1. PICK r \in Rubrics, inputs \in Inventories :
            \E value \in Nearest(Weighted(r, RawOf(inputs)), 10) : score = ScoreOf(r, inputs, value)
    BY DEF ScoreInv, Computed
  <2>2. PICK value \in Nearest(Weighted(r, RawOf(inputs)), 10) : score = ScoreOf(r, inputs, value)
    BY <2>1
  <2>3. score.value \in Int
    <3>1. score.value = value /\ value \in 0..850
      BY <2>1, <2>2, ComputedIs
    <3>2. \A n \in 0..850 : n \in Int
      OBVIOUS
    <3>3. QED
      BY <3>1, <3>2, Zenon
  <2> DEFINE b == Blueprint(score, requested, overrides)
  <2>4. requested \in 0..4
    BY DEF Levels
  <2>5. b.autonomy \in 1..4 /\ b.autonomy <= Permitted(score.value)
    BY <2>4, AutonomyIs
  <2>6. b.budget = IF overrides = <<>> THEN Budget ELSE overrides[Len(overrides)]
    BY DEF Blueprint
  <2>7. b.budget <= Budget /\ \A i \in DOMAIN overrides : b.budget <= overrides[i]
    BY <2>6, LastIsTightest, BudgetAssumption
  <2> HIDE DEF b
  <2>8. /\ Levels[b.autonomy] = "BOUNDED" => b.autonomy = 3
        /\ Levels[b.autonomy] = "AUTONOMOUS" => b.autonomy = 4
    BY <2>5 DEF Levels
  <2>9. /\ Permitted(score.value) >= 3 => score.value >= 600
        /\ Permitted(score.value) >= 4 => score.value >= 800
    BY <2>3, PermittedIs
  <2>10. /\ b.autonomy = 3 => Permitted(score.value) >= 3
         /\ b.autonomy = 4 => Permitted(score.value) >= 4
    <3>1. Permitted(score.value) \in Nat
      BY DEF Permitted
    <3>2. QED
      BY <2>5, <3>1
  <2>11. QED
    BY <2>7, <2>8, <2>9, <2>10 DEF b
<1>2. QED
  BY <1>1, ScoreInvariant, PTL

\* What is as good in every dimension weighs as much.
LEMMA WeightedGrows ==
    ASSUME NEW r \in Rubrics, NEW raw \in [Dimensions -> Nat], NEW best \in [Dimensions -> Nat],
           \A d \in Dimensions : raw[d] <= best[d]
    PROVE  /\ Weighted(r, raw) \in Int /\ Weighted(r, best) \in Int
           /\ Weighted(r, raw) <= Weighted(r, best)
<1> DEFINE f == [d \in Dimensions |-> raw[d] * Weight[r][d]]
           g == [d \in Dimensions |-> best[d] * Weight[r][d]]
<1>1. ASSUME NEW d \in Dimensions
      PROVE  f[d] \in Int /\ g[d] \in Int /\ f[d] <= 1 * g[d]
  <2>1. raw[d] \in Nat /\ best[d] \in Nat /\ raw[d] <= best[d] /\ Weight[r][d] \in Nat
    BY RubricAssumption
  <2>2. \A x, y, w \in Nat : x <= y => x * w \in Int /\ y * w \in Int /\ x * w <= 1 * (y * w)
    OBVIOUS
  <2>3. QED
    BY <2>1, <2>2
<1>2. /\ Weighted(r, raw) = SumFunctionOnSet(f, Dimensions)
      /\ Weighted(r, best) = SumFunctionOnSet(g, Dimensions)
  <2>1. DOMAIN f = Dimensions /\ DOMAIN g = Dimensions
    OBVIOUS
  <2>2. QED
    BY <2>1, Zenon DEF Weighted, SumFunction
<1> HIDE DEF f, g
<1>3. IsFiniteSet(Dimensions)
  BY RubricAssumption
<1>4. SumFunctionOnSet(f, Dimensions) <= 1 * SumFunctionOnSet(g, Dimensions)
  BY <1>1, <1>3, SumBound
<1>5. SumFunctionOnSet(f, Dimensions) \in Int /\ SumFunctionOnSet(g, Dimensions) \in Int
  BY <1>1, <1>3, SumIsInt
<1>6. QED
  BY <1>2, <1>4, <1>5

\* Under rubrics that give rolling back the weight RollbackWeighs asks for, nothing
\* else a repository shows makes up for a rollback plan: no blueprint is BOUNDED and
\* no metrics make a GO.
THEOREM RollbackComesFirst == ASSUME RollbackWeighs PROVE ScoreSpec => []RollbackFirst
<1>1. ScoreInv => RollbackFirst
  <2> SUFFICES ASSUME ScoreInv, Scored, score.inputs[RollbackPlan] # "present"
               PROVE  /\ Blueprint(score, Len(Levels), <<>>).autonomy < 3
                      /\ \A metrics \in Metrics : Recommend(score, metrics) # "GO"
    BY DEF RollbackFirst
  <2>1. PICK r \in Rubrics, inputs \in Inventories :
            \E value \in Nearest(Weighted(r, RawOf(inputs)), 10) : score = ScoreOf(r, inputs, value)
    BY DEF ScoreInv, Computed
  <2>2. PICK value \in Nearest(Weighted(r, RawOf(inputs)), 10) : score = ScoreOf(r, inputs, value)
    BY <2>1
  <2> DEFINE raw == RawOf(inputs)
             best == [d \in Dimensions |-> IF CategoriesOf[d] = {} THEN 0
                                           ELSE IF d = Rollback THEN 15 ELSE 85]
  <2>3. /\ score.inputs = inputs /\ score.value = value /\ value \in 0..850
        /\ 10 * value <= Weighted(r, raw) + 5 /\ Weighted(r, raw) \in Nat
    BY <2>1, <2>2, ComputedIs
  <2>4. ASSUME NEW d \in Dimensions
        PROVE  raw[d] \in Nat /\ best[d] \in Nat /\ raw[d] <= best[d]
    <3>1. /\ Raw(inputs, d) \in 0..85
          /\ (\A c \in CategoriesOf[d] : inputs[c] # "present") => Raw(inputs, d) <= 15
          /\ CategoriesOf[d] = {} => Raw(inputs, d) = 0
      BY <2>1, RawBounds
    <3>2. d = Rollback => Raw(inputs, d) <= 15
      BY <2>3, <3>1, CategoriesAssumption
    <3>3. raw[d] = Raw(inputs, d)
      BY DEF RawOf
    <3>4. QED
      BY <3>1, <3>2, <3>3
  <2>5. raw \in [Dimensions -> Nat] /\ best \in [Dimensions -> Nat]
    <3>1. raw = [d \in Dimensions |-> raw[d]] /\ best = [d \in Dimensions |-> best[d]]
      BY DEF RawOf
    <3> HIDE DEF raw, best
    <3>2. QED
      BY <2>4, <3>1
  <2>6. Weighted(r, best) < 5995
    BY <2>1 DEF RollbackWeighs
  <2> HIDE DEF raw, best
  <2>7. Weighted(r, raw) <= Weighted(r, best) /\ Weighted(r, best) \in Int
    BY <2>1, <2>4, <2>5, WeightedGrows
  <2>8. value < 600
    BY <2>3, <2>6, <2>7
  <2>9. Permitted(score.value) < 3
    <3>1. value \in Int
      BY <2>3
    <3>2. QED
      BY <2>3, <2>8, <3>1, PermittedIs
  <2>10. /\ Blueprint(score, Len(Levels), <<>>).autonomy \in 1..4
         /\ Blueprint(score, Len(Levels), <<>>).autonomy <= Permitted(score.value)
    <3>1. Len(Levels) \in 0..4
      BY DEF Levels
    <3>2. QED
      BY <3>1, AutonomyIs
  <2>11. Permitted(score.value) \in Nat
    BY DEF Permitted
  <2>12. \A metrics \in Metrics : Recommend(score, metrics) # "GO"
    BY <2>3, <2>8 DEF Recommend
  <2>13. QED
    BY <2>9, <2>10, <2>11, <2>12
<1>2. QED
  BY <1>1, ScoreInvariant, PTL

\* Under rubrics that leave what is judged by nothing the weight UnjudgedWeighs asks
\* for, no evidence makes a blueprint AUTONOMOUS.
THEOREM AutonomyIsOutOfReach == ASSUME UnjudgedWeighs PROVE ScoreSpec => []NeverAutonomous
<1>1. ScoreInv => NeverAutonomous
  <2> SUFFICES ASSUME ScoreInv, Scored
               PROVE  Levels[Blueprint(score, Len(Levels), <<>>).autonomy] # "AUTONOMOUS"
    BY DEF NeverAutonomous
  <2>1. PICK r \in Rubrics, inputs \in Inventories :
            \E value \in Nearest(Weighted(r, RawOf(inputs)), 10) : score = ScoreOf(r, inputs, value)
    BY DEF ScoreInv, Computed
  <2>2. PICK value \in Nearest(Weighted(r, RawOf(inputs)), 10) : score = ScoreOf(r, inputs, value)
    BY <2>1
  <2> DEFINE raw == RawOf(inputs)
             best == [d \in Dimensions |-> IF CategoriesOf[d] = {} THEN 0 ELSE 85]
  <2>3. /\ score.value = value /\ value \in 0..850
        /\ 10 * value <= Weighted(r, raw) + 5 /\ Weighted(r, raw) \in Nat
    BY <2>1, <2>2, ComputedIs
  <2>4. ASSUME NEW d \in Dimensions
        PROVE  raw[d] \in Nat /\ best[d] \in Nat /\ raw[d] <= best[d]
    <3>1. Raw(inputs, d) \in 0..85 /\ (CategoriesOf[d] = {} => Raw(inputs, d) = 0)
      BY <2>1, RawBounds
    <3>2. raw[d] = Raw(inputs, d)
      BY DEF RawOf
    <3>3. QED
      BY <3>1, <3>2
  <2>5. raw \in [Dimensions -> Nat] /\ best \in [Dimensions -> Nat]
    <3>1. raw = [d \in Dimensions |-> raw[d]] /\ best = [d \in Dimensions |-> best[d]]
      BY DEF RawOf
    <3> HIDE DEF raw, best
    <3>2. QED
      BY <2>4, <3>1
  <2>6. Weighted(r, best) < 7995
    BY <2>1 DEF UnjudgedWeighs
  <2> HIDE DEF raw, best
  <2>7. Weighted(r, raw) <= Weighted(r, best) /\ Weighted(r, best) \in Int
    BY <2>1, <2>4, <2>5, WeightedGrows
  <2>8. value < 800
    BY <2>3, <2>6, <2>7
  <2>9. Permitted(score.value) \in Nat /\ Permitted(score.value) < 4
    <3>1. value \in Int
      BY <2>3
    <3>2. ~(Permitted(value) >= 4)
      BY <2>8, <3>1, PermittedIs
    <3>3. Permitted(value) \in Nat
      BY DEF Permitted
    <3>4. QED
      BY <2>3, <3>2, <3>3
  <2>10. /\ Blueprint(score, Len(Levels), <<>>).autonomy \in 1..4
         /\ Blueprint(score, Len(Levels), <<>>).autonomy <= Permitted(score.value)
    <3>1. Len(Levels) \in 0..4
      BY DEF Levels
    <3>2. QED
      BY <3>1, AutonomyIs
  <2>11. Blueprint(score, Len(Levels), <<>>).autonomy \in 1..3
    BY <2>9, <2>10
  <2>12. QED
    BY <2>11 DEF Levels
<1>2. QED
  BY <1>1, ScoreInvariant, PTL

-----------------------------------------------------------------------------
(* What following the advice does to the evidence, and evidence to a score. *)

\* The second inventory has all the first has, and checked evidence besides.
AtLeast(a, b) == \A c \in Categories : b[c] = a[c] \/ b[c] = "present"

\* A dimension's raw score, spelled out: one fact counts in full, two each half.
LEMMA RawIs ==
    ASSUME NEW inputs \in Inventories, NEW d \in Dimensions,
           NEW c \in Categories, NEW e \in Categories, CategoriesOf[d] = {c, e}
    PROVE  /\ inputs[c] = "absent" /\ inputs[e] = "absent" => Raw(inputs, d) = 0
           /\ inputs[c] = "absent" /\ inputs[e] # "absent" => Raw(inputs, d) = Points(inputs[e])
           /\ inputs[c] # "absent" /\ (inputs[e] = "absent" \/ c = e)
                  => Raw(inputs, d) = Points(inputs[c])
           /\ inputs[c] # "absent" /\ inputs[e] # "absent" /\ c # e
                  => Raw(inputs, d) = (Points(inputs[c]) + Points(inputs[e])) \div 2
<1> DEFINE facts == Facts(inputs, d)
           fn == [x \in facts |-> Points(inputs[x])]
<1>1. facts = {x \in {c, e} : inputs[x] # "absent"}
  BY DEF Facts
<1>2. \A x \in facts : fn[x] = Points(inputs[x]) /\ fn[x] \in Int
  BY DEF Points
<1>3. facts # {} => Raw(inputs, d) = SumFunctionOnSet(fn, facts) \div Cardinality(facts)
  <2>1. DOMAIN fn = facts
    OBVIOUS
  <2>2. QED
    BY <2>1, Zenon DEF Raw, SumFunction
<1>4. facts = {} => Raw(inputs, d) = 0
  BY DEF Raw
<1> HIDE DEF fn, facts
<1>5. ASSUME NEW x, facts = {x}
      PROVE  Raw(inputs, d) = Points(inputs[x])
  <2>1. Cardinality(facts) = 1 /\ SumFunctionOnSet(fn, facts) = fn[x]
    BY <1>2, <1>5, FS_Singleton, SumOfOne
  <2>2. fn[x] = Points(inputs[x]) /\ fn[x] \in Int
    BY <1>2, <1>5
  <2>3. QED
    BY <1>3, <1>5, <2>1, <2>2
<1>6. ASSUME facts = {c, e}, c # e
      PROVE  Raw(inputs, d) = (Points(inputs[c]) + Points(inputs[e])) \div 2
  <2>1. /\ fn[c] = Points(inputs[c]) /\ fn[c] \in Int
        /\ fn[e] = Points(inputs[e]) /\ fn[e] \in Int
    BY <1>2, <1>6
  <2>2. SumFunctionOnSet(fn, facts) = fn[c] + fn[e]
    BY <1>6, <2>1, SumOfTwo
  <2>3. Cardinality(facts) = 2
    <3>1. Cardinality({c} \cup {e}) = Cardinality({c}) + 1 /\ Cardinality({c}) = 1
      BY <1>6, FS_Singleton, FS_AddElement
    <3>2. facts = {c} \cup {e}
      BY <1>6
    <3>3. QED
      BY <3>1, <3>2
  <2>4. QED
    BY <1>3, <1>6, <2>1, <2>2, <2>3
<1>7. CASE inputs[c] = "absent" /\ inputs[e] = "absent"
  BY <1>1, <1>4, <1>7
<1>8. CASE inputs[c] = "absent" /\ inputs[e] # "absent"
  <2>1. facts = {e}
    BY <1>1, <1>8
  <2>2. QED
    BY <1>5, <1>8, <2>1
<1>9. CASE inputs[c] # "absent" /\ (inputs[e] = "absent" \/ c = e)
  <2>1. facts = {c}
    BY <1>1, <1>9
  <2>2. QED
    BY <1>5, <1>9, <2>1
<1>10. CASE inputs[c] # "absent" /\ inputs[e] # "absent" /\ c # e
  <2>1. facts = {c, e}
    BY <1>1, <1>10
  <2>2. QED
    BY <1>6, <1>10, <2>1
<1>11. QED
  BY <1>7, <1>8, <1>9, <1>10

LEMMA RawGrows ==
    ASSUME NEW a \in Inventories, NEW b \in Inventories, AtLeast(a, b), NEW d \in Dimensions
    PROVE  Raw(a, d) <= Raw(b, d)
<1>1. PICK c \in Categories, e \in Categories : CategoriesOf[d] \in {{}, {c, e}}
  BY CategoriesAssumption
<1>2. CASE CategoriesOf[d] = {}
  <2>1. Raw(a, d) = 0 /\ Raw(b, d) = 0
    BY <1>2, RawBounds
  <2>2. QED
    BY <2>1
<1>3. CASE CategoriesOf[d] = {c, e}
  <2>1. /\ b[c] = a[c] \/ b[c] = "present"
        /\ b[e] = a[e] \/ b[e] = "present"
    BY DEF AtLeast
  <2>2. \A q : Points(q) = IF q = "present" THEN 85 ELSE 15
    BY DEF Points
  <2>3. "present" # "absent"
    OBVIOUS
  <2>4. /\ a[c] = "absent" /\ a[e] = "absent" => Raw(a, d) = 0
        /\ a[c] = "absent" /\ a[e] # "absent" => Raw(a, d) = Points(a[e])
        /\ a[c] # "absent" /\ (a[e] = "absent" \/ c = e) => Raw(a, d) = Points(a[c])
        /\ a[c] # "absent" /\ a[e] # "absent" /\ c # e
               => Raw(a, d) = (Points(a[c]) + Points(a[e])) \div 2
    BY <1>3, RawIs
  <2>5. /\ b[c] = "absent" /\ b[e] = "absent" => Raw(b, d) = 0
        /\ b[c] = "absent" /\ b[e] # "absent" => Raw(b, d) = Points(b[e])
        /\ b[c] # "absent" /\ (b[e] = "absent" \/ c = e) => Raw(b, d) = Points(b[c])
        /\ b[c] # "absent" /\ b[e] # "absent" /\ c # e
               => Raw(b, d) = (Points(b[c]) + Points(b[e])) \div 2
    BY <1>3, RawIs
  <2>6. CASE c = e
    BY <2>1, <2>2, <2>3, <2>4, <2>5, <2>6
  <2>7. CASE c # e
    <3>1. CASE a[c] = "absent" /\ a[e] = "absent"
      BY <2>1, <2>2, <2>3, <2>4, <2>5, <2>7, <3>1
    <3>2. CASE a[c] = "absent" /\ a[e] # "absent"
      BY <2>1, <2>2, <2>3, <2>4, <2>5, <2>7, <3>2
    <3>3. CASE a[c] # "absent" /\ a[e] = "absent"
      BY <2>1, <2>2, <2>3, <2>4, <2>5, <2>7, <3>3
    <3>4. CASE a[c] # "absent" /\ a[e] # "absent"
      BY <2>1, <2>2, <2>3, <2>4, <2>5, <2>7, <3>4
    <3>5. QED
      BY <3>1, <3>2, <3>3, <3>4
  <2>8. QED
    BY <2>6, <2>7
<1>4. QED
  BY <1>1, <1>2, <1>3

LEMMA ConfidenceGrows ==
    ASSUME NEW a \in Inventories, NEW b \in Inventories, AtLeast(a, b)
    PROVE  Confidence(a) <= Confidence(b)
<1> DEFINE all(inputs) == UNION {Confidences(inputs, d) : d \in Dimensions}
<1>1. ASSUME NEW inputs
      PROVE  /\ all(inputs) \subseteq Nat /\ all(inputs) # {}
             /\ \A d \in Dimensions : /\ Confidences(inputs, d) # {}
                                      /\ Confidences(inputs, d) \subseteq {15, 20, 85}
             /\ Confidence(inputs) = Min(all(inputs))
  <2>1. \A d \in Dimensions : Confidences(inputs, d) \subseteq {15, 20, 85}
    BY DEF Confidences
  <2>2. \A d \in Dimensions : Confidences(inputs, d) # {}
    BY DEF Confidences
  <2>3. QED
    BY <2>1, <2>2, RubricAssumption DEF Confidence
<1>2. ASSUME NEW d \in Dimensions, NEW q, q \in Confidences(b, d)
      PROVE  \E p \in Confidences(a, d) : p <= q
  <2>1. CategoriesOf[d] \subseteq Categories
    BY CategoriesAssumption
  <2>2. CASE Facts(b, d) = {}
    <3>1. Facts(a, d) = {}
      BY <2>1, <2>2 DEF Facts, AtLeast
    <3>2. QED
      BY <1>2, <2>2, <3>1 DEF Confidences
  <2>3. CASE Facts(b, d) # {}
    <3>1. PICK c \in Facts(b, d) : q = IF b[c] = "present" THEN 85 ELSE 15
      BY <1>2, <2>3 DEF Confidences
    <3>2. CASE b[c] = "present"
      <4>1. PICK p : p \in Confidences(a, d)
        BY <1>1
      <4>2. p \in {15, 20, 85}
        BY <1>1, <4>1
      <4>3. QED
        BY <3>1, <3>2, <4>1, <4>2
    <3>3. CASE b[c] # "present"
      <4>1. c \in Categories /\ b[c] = a[c]
        BY <2>1, <3>3 DEF Facts, AtLeast
      <4>2. c \in Facts(a, d)
        BY <3>1, <4>1 DEF Facts
      <4>3. q \in Confidences(a, d) /\ q = 15
        BY <3>1, <3>3, <4>1, <4>2 DEF Confidences
      <4>4. QED
        BY <4>3
    <3>4. QED
      BY <3>2, <3>3
  <2>4. QED
    BY <2>2, <2>3
<1>3. \A q \in all(b) : \E p \in all(a) : p <= q
  BY <1>2
<1>4. /\ all(a) \subseteq Nat /\ all(a) # {} /\ Confidence(a) = Min(all(a))
      /\ all(b) \subseteq Nat /\ all(b) # {} /\ Confidence(b) = Min(all(b))
  BY <1>1
<1> HIDE DEF all
<1>5. Min(all(b)) \in all(b)
  BY <1>4, MinOfNats
<1>6. PICK p \in all(a) : p <= Min(all(b))
  BY <1>3, <1>5
<1>7. Min(all(a)) \in all(a) /\ Min(all(a)) <= p
  BY <1>4, MinOfNats
<1>8. QED
  BY <1>4, <1>5, <1>6, <1>7

\* What the last score was made from, and what following its advice added.
Followed ==
    Scored => /\ score.inputs \in Inventories
              /\ score.raw = RawOf(score.inputs)
              /\ score.confidence = Confidence(score.inputs)
              /\ AtLeast(score.inputs, evidence)

LEMMA ScoreIs ==
    ASSUME NEW r, NEW inputs, NEW value
    PROVE  /\ ScoreOf(r, inputs, value).inputs = inputs
           /\ ScoreOf(r, inputs, value).raw = RawOf(inputs)
           /\ ScoreOf(r, inputs, value).confidence = Confidence(inputs)
BY Zenon DEF ScoreOf

LEMMA FollowedInvariant == ScoreSpec => []Followed
<1>1. ScoreInit => Followed
  BY DEF ScoreInit, Followed, Scored
<1>2. ScoreInv /\ Followed /\ [ScoreNext]_scoreVars => Followed'
  <2> SUFFICES ASSUME ScoreInv, Followed, [ScoreNext]_scoreVars PROVE Followed'
    OBVIOUS
  <2>1. ASSUME NEW r \in Rubrics, Assess(r) PROVE Followed'
    <3>1. PICK value \in Nearest(Weighted(r, RawOf(evidence)), 10) :
              score' = ScoreOf(r, evidence, value) /\ evidence' = evidence
      BY <2>1, Zenon DEF Assess, ScoreOf, RawOf
    <3>2. /\ score'.inputs = evidence /\ score'.raw = RawOf(evidence)
          /\ score'.confidence = Confidence(evidence)
      BY <3>1, ScoreIs
    <3>3. QED
      BY <3>1, <3>2 DEF ScoreInv, Followed, AtLeast
  <2>2. ASSUME NEW d \in Dimensions, CarryOut(d) PROVE Followed'
    BY <2>2 DEF CarryOut, Followed, Scored, AtLeast
  <2>3. CASE UNCHANGED scoreVars
    BY <2>3 DEF scoreVars, Followed, Scored
  <2>4. QED
    BY <2>1, <2>2, <2>3 DEF ScoreNext
<1>3. QED
  BY <1>1, <1>2, ScoreInvariant, PTL DEF ScoreSpec

\* Advice carried out, in whole or in part and in any order, lowers no dimension
\* and no confidence, under any rubric and for any categories dimensions share.
THEOREM FollowingAdviceNeverHurts == ScoreSpec => []AdviceNeverHurts
<1>1. ScoreInv /\ Followed => AdviceNeverHurts
  <2> SUFFICES ASSUME ScoreInv, Followed, Scored
               PROVE  /\ \A d \in Dimensions : score.raw[d] <= Raw(evidence, d)
                      /\ score.confidence <= Confidence(evidence)
    BY DEF AdviceNeverHurts
  <2>1. /\ evidence \in Inventories /\ score.inputs \in Inventories
        /\ AtLeast(score.inputs, evidence)
        /\ score.raw = RawOf(score.inputs)
        /\ score.confidence = Confidence(score.inputs)
    BY DEF ScoreInv, Followed
  <2>2. ASSUME NEW d \in Dimensions PROVE score.raw[d] <= Raw(evidence, d)
    <3>1. score.raw[d] = Raw(score.inputs, d)
      BY <2>1 DEF RawOf
    <3>2. Raw(score.inputs, d) <= Raw(evidence, d)
      BY <2>1, RawGrows
    <3>3. QED
      BY <3>1, <3>2
  <2>3. score.confidence <= Confidence(evidence)
    BY <2>1, ConfidenceGrows
  <2>4. QED
    BY <2>2, <2>3
<1>2. QED
  BY <1>1, ScoreInvariant, FollowedInvariant, PTL

-----------------------------------------------------------------------------
(* A publication has one release.  What the split computes stays opaque.   *)

\* The only refit that a publication can have.
Release(p) ==
    [status |-> "PUBLISHED", rows |-> p.rows,
     holdout |-> Candidate(p.rows), baseline |-> Baseline(p.rows)]

\* A refit is published of the approved rows only, so it is that one; without
\* this the corpus a release was made of would be forgotten.
ReleaseInv ==
    release.status = "REFUSED" \/ \E p : p = publication /\ release = Release(p)

\* Whatever the corpus holds, a refit raises, is refused or is the publication's.
LEMMA RefitIsRelease ==
    ASSUME NEW v
    PROVE  /\ Refit(v).status \in {"RAISED", "REFUSED", "PUBLISHED"}
           /\ Refit(v).status = "PUBLISHED" => Refit(v) = Release(publication)
<1> DEFINE rows == Rows(v)
           result == [status |-> "PUBLISHED", rows |-> rows,
                      holdout |-> Candidate(rows), baseline |-> Baseline(rows)]
<1>1. Raised.status = "RAISED" /\ \A reason : Refused(reason).status = "REFUSED"
  BY DEF Raised, Refused
<1>2. \/ Refit(v).status \in {"RAISED", "REFUSED"}
      \/ Refit(v) = result /\ ApprovedCorpus(rows, v)
  <2>1. \/ Refit(v) = Raised
        \/ \E reason : Refit(v) = Refused(reason)
        \/ Refit(v) = result /\ ApprovedCorpus(rows, v)
    BY Zenon DEF Refit
  <2>2. QED
    BY <1>1, <2>1
<1>3. ASSUME Refit(v) = result, ApprovedCorpus(rows, v)
      PROVE  Refit(v) = Release(publication) /\ Refit(v).status = "PUBLISHED"
  <2>1. publication.rows = rows
    BY <1>3 DEF ApprovedCorpus
  <2>2. Release(publication) = result
    BY <2>1 DEF Release
  <2>3. result.status = "PUBLISHED"
    OBVIOUS
  <2>4. QED
    BY <1>3, <2>2, <2>3
<1>4. QED
  BY <1>2, <1>3

LEMMA NextRelease ==
    ASSUME ReleaseInv, [Next]_vars
    PROVE  ReleaseInv' /\ (release' # release => release.status = "REFUSED")
<1>1. ASSUME NEW v \in Verticals, Learn(v)
      PROVE  ReleaseInv' /\ (release' # release => release.status = "REFUSED")
  <2>1. PICK p : p = publication
    OBVIOUS
  <2>2. release' = release \/ release' = Release(p)
    BY <1>1, <2>1, RefitIsRelease DEF Learn
  <2>3. publication' = p
    BY <1>1, <2>1 DEF Learn
  <2>4. release.status # "REFUSED" => release = Release(p)
    BY <2>1 DEF ReleaseInv
  <2>5. QED
    BY <2>2, <2>3, <2>4 DEF ReleaseInv
<1>2. CASE UNCHANGED <<publication, release>>
  BY <1>2 DEF ReleaseInv
<1>3. (\E v \in Verticals : Learn(v)) \/ UNCHANGED <<publication, release>>
  BY DEF Next, Contribute, vars
<1>4. QED
  BY <1>1, <1>2, <1>3

\* Whatever is added to the corpus, in whatever order, and however often refits
\* are asked for, a release is never replaced by another one.
THEOREM ReleasesAreFinal == Spec => ReleasedOnce
<1>1. Init => ReleaseInv
  BY DEF Init, ReleaseInv, Refused
<1>2. QED
  BY <1>1, NextRelease, PTL DEF Spec, ReleasedOnce

-----------------------------------------------------------------------------
(* The Pilot controller.                                                   *)

\* What landed records of a commit.
Commits == [file : TreeFiles, before : Nat]

Before(c) == landed[c].before

\* Commits lie in the order they landed, each on one of its own file.
Ordered ==
    /\ landed \in Seq(Commits)
    /\ content \in [TreeFiles -> Nat]
    /\ \A f \in TreeFiles : content[f] # 0 =>
           content[f] \in DOMAIN landed /\ landed[content[f]].file = f
    /\ \A c \in DOMAIN landed : Before(c) # 0 =>
           /\ Before(c) \in DOMAIN landed /\ Before(c) < c
           /\ landed[Before(c)].file = landed[c].file

\* What RevertedIsGone says, and that the commit is one that landed: it would
\* not be gone if it could land again under the same name.
PilotInv ==
    /\ Ordered
    /\ RevertedIsGone
    /\ event.status = "REVERTED" => event.commit \in DOMAIN landed

\* A commit is gone when some set that holds what the files contain is without it.
LEMMA GoneWithout ==
    ASSUME NEW c, NEW S \in SUBSET (0..Len(landed)), Holds(S), c \notin S
    PROVE  c \notin Under
BY DEF Under

LEMMA LandGone ==
    ASSUME PilotInv, NEW f \in TreeFiles, Land(f)
    PROVE  PilotInv'
<1> DEFINE n == Len(landed) + 1
           new == [file |-> f, before |-> content[f]]
<1>1. /\ landed \in Seq(Commits)
      /\ content \in [TreeFiles -> Nat]
      /\ new \in Commits
      /\ DOMAIN landed = 1..Len(landed) /\ Len(landed) \in Nat
  BY DEF PilotInv, Ordered, Commits
<1>2. /\ landed' \in Seq(Commits)
      /\ Len(landed') = n
      /\ DOMAIN landed' = 1..n
      /\ landed'[n] = new
      /\ \A c \in DOMAIN landed : landed'[c] = landed[c]
      /\ content' \in [TreeFiles -> Nat]
      /\ content'[f] = n
      /\ \A g \in TreeFiles \ {f} : content'[g] = content[g]
      /\ event' = event
  BY <1>1 DEF Land
<1>3. Ordered'
  <2>1. ASSUME NEW g \in TreeFiles, content'[g] # 0
        PROVE  content'[g] \in DOMAIN landed' /\ landed'[content'[g]].file = g
    <3>1. CASE g = f
      <4>1. content'[g] = n /\ n \in 1..n /\ landed'[n].file = f
        BY <1>1, <1>2, <3>1
      <4>2. QED
        BY <1>2, <3>1, <4>1
    <3>2. CASE g # f
      <4>1. content'[g] = content[g]
        BY <1>2, <3>2
      <4>2. content[g] \in DOMAIN landed /\ landed[content[g]].file = g
        BY <2>1, <4>1 DEF PilotInv, Ordered
      <4>3. QED
        BY <1>1, <1>2, <4>1, <4>2
    <3>3. QED
      BY <3>1, <3>2
  <2>2. ASSUME NEW c \in DOMAIN landed', landed'[c].before # 0
        PROVE  /\ landed'[c].before \in DOMAIN landed' /\ landed'[c].before < c
               /\ landed'[landed'[c].before].file = landed'[c].file
    <3>1. CASE c = n
      <4>1. content[f] # 0 /\ landed'[c].before = content[f]
        BY <1>2, <2>2, <3>1
      <4>2. content[f] \in DOMAIN landed /\ landed[content[f]].file = f
        BY <4>1 DEF PilotInv, Ordered
      <4>3. QED
        BY <1>1, <1>2, <3>1, <4>1, <4>2
    <3>2. CASE c \in DOMAIN landed
      <4>1. landed'[c] = landed[c] /\ Before(c) # 0 /\ landed'[c].before = Before(c)
        BY <1>2, <2>2, <3>2 DEF Before
      <4>2. /\ Before(c) \in DOMAIN landed /\ Before(c) < c
            /\ landed[Before(c)].file = landed[c].file
        BY <3>2, <4>1 DEF PilotInv, Ordered
      <4>3. Before(c) \in DOMAIN landed' /\ landed'[Before(c)] = landed[Before(c)]
        BY <1>1, <1>2, <4>2
      <4>4. QED
        BY <4>1, <4>2, <4>3
    <3>3. QED
      BY <1>1, <1>2, <3>1, <3>2
  <2>3. QED
    BY <1>2, <2>1, <2>2 DEF Ordered, Before
<1>4. ASSUME event.status = "REVERTED"
      PROVE  event.commit \in DOMAIN landed' /\ event.commit \notin Under'
  <2>1. event.commit \in DOMAIN landed /\ event.commit \notin Under
    BY <1>4 DEF PilotInv, RevertedIsGone
  <2>2. PICK S \in SUBSET (0..Len(landed)) : Holds(S) /\ event.commit \notin S
    BY <2>1 DEF Under
  <2> DEFINE T == S \cup {n}
  <2>3. T \in SUBSET (0..Len(landed')) /\ event.commit \notin T
    <3>1. event.commit # n
      BY <1>1, <2>1
    <3>2. S \subseteq 0..n /\ n \in 0..n
      BY <1>1
    <3>3. QED
      BY <1>2, <2>2, <3>1, <3>2
  <2>4. \A g \in TreeFiles : content'[g] \in T
    BY <1>2, <2>2 DEF Holds
  <2>5. ASSUME NEW c \in T \ {0} PROVE landed'[c].before \in T
    <3>1. CASE c = n
      BY <1>2, <2>2, <3>1 DEF Holds
    <3>2. CASE c \in S \ {0}
      <4>1. c \in DOMAIN landed
        BY <1>1, <3>2
      <4>2. landed'[c] = landed[c]
        BY <1>2, <4>1
      <4>3. QED
        BY <2>2, <3>2, <4>2 DEF Holds
    <3>3. QED
      BY <2>5, <3>1, <3>2
  <2> HIDE DEF T
  <2>6. event.commit \notin Under'
    BY <2>3, <2>4, <2>5 DEF Under, Holds
  <2>7. QED
    BY <1>1, <1>2, <2>1, <2>6
<1>5. QED
  BY <1>2, <1>3, <1>4 DEF PilotInv, RevertedIsGone

LEMMA RevertGone ==
    ASSUME PilotInv, NEW a \in Actions, NEW c \in DOMAIN landed, Revert(a, c)
    PROVE  PilotInv'
<1> DEFINE f == landed[c].file
<1>1. /\ Ordered /\ landed' = landed
      /\ landed \in Seq(Commits)
      /\ DOMAIN landed = 1..Len(landed) /\ Len(landed) \in Nat
      /\ f \in TreeFiles
      /\ event' = [status |-> IF Reverts(c) THEN "REVERTED" ELSE "raised",
                   commit |-> c]
  <2>1. Ordered /\ landed \in Seq(Commits)
    BY DEF PilotInv, Ordered
  <2>2. landed' = landed
    BY DEF Revert
  <2>3. event' = [status |-> IF Reverts(c) THEN "REVERTED" ELSE "raised",
                  commit |-> c]
    BY Zenon DEF Revert, Answer, Succeeded
  <2>4. DOMAIN landed = 1..Len(landed) /\ Len(landed) \in Nat /\ f \in TreeFiles
    <3>1. landed[c] \in Commits
      BY <2>1
    <3>2. QED
      BY <2>1, <3>1 DEF Commits
  <2>5. QED
    BY <2>1, <2>2, <2>3, <2>4, Zenon
<1>2. CASE ~Reverts(c)
  <2>1. content' = content /\ event'.status # "REVERTED"
    BY <1>1, <1>2 DEF Revert
  <2>2. Ordered'
    BY <1>1, <2>1 DEF Ordered, Before
  <2>3. QED
    BY <2>1, <2>2 DEF PilotInv, RevertedIsGone
<1>3. CASE Reverts(c)
  <2>1. /\ content' \in [TreeFiles -> Nat]
        /\ content'[f] = Before(c)
        /\ \A g \in TreeFiles \ {f} : content'[g] = content[g]
    BY <1>1, <1>3 DEF Revert, Ordered, Before
  <2>2. ASSUME NEW g \in TreeFiles
        PROVE  content'[g] = 0 \/ /\ content'[g] \in DOMAIN landed
                                  /\ landed[content'[g]].file = g
                                  /\ g = f => content'[g] < c
    BY <1>1, <2>1 DEF Ordered, Before
  <2>3. Ordered'
    BY <1>1, <2>1, <2>2 DEF Ordered, Before
  <2> DEFINE S == {x \in 0..Len(landed) : x = 0 \/ x < c \/ landed[x].file # f}
  <2>4. S \in SUBSET (0..Len(landed')) /\ c \notin S
    BY <1>1
  <2>5. ASSUME NEW g \in TreeFiles PROVE content'[g] \in S
    <3>1. CASE content'[g] = 0
      BY <1>1, <3>1
    <3>2. CASE content'[g] # 0
      <4>1. /\ content'[g] \in 0..Len(landed)
            /\ content'[g] < c \/ landed[content'[g]].file # f
        BY <1>1, <2>2, <3>2
      <4>2. QED
        BY <4>1
    <3>3. QED
      BY <3>1, <3>2
  <2>6. ASSUME NEW x \in S \ {0} PROVE landed'[x].before \in S
    <3>1. x \in DOMAIN landed
      BY <1>1
    <3>2. \/ Before(x) = 0
          \/ /\ Before(x) \in DOMAIN landed /\ Before(x) < x
             /\ landed[Before(x)].file = landed[x].file
      BY <1>1, <3>1 DEF Ordered
    <3>3. QED
      BY <1>1, <3>1, <3>2 DEF Before
  <2> HIDE DEF S
  <2>7. c \notin Under'
    BY <2>4, <2>5, <2>6 DEF Under, Holds
  <2>8. QED
    BY <1>1, <1>3, <2>3, <2>7 DEF PilotInv, RevertedIsGone
<1>4. QED
  BY <1>2, <1>3

LEMMA NextGone == PilotInv /\ [Next]_vars => PilotInv'
<1> SUFFICES ASSUME PilotInv, [Next]_vars PROVE PilotInv'
  OBVIOUS
<1>1. ASSUME UNCHANGED <<content, landed>>,
             event' = event \/ event'.status # "REVERTED"
      PROVE  PilotInv'
  BY <1>1 DEF PilotInv, Ordered, Before, RevertedIsGone, Under, Holds
<1>2. CASE PilotNext
  BY <1>1, <1>2, LandGone, RevertGone DEF PilotNext, Construct, Abort,
     NothingToRevert, Answer, gitVars
<1>3. CASE UNCHANGED pilotVars
  BY <1>1, <1>3 DEF pilotVars, gitVars
<1>4. QED
  BY <1>2, <1>3 DEF Next, Contribute, Learn, vars

\* However reverts conflict, fail, are aborted and are repeated between commits
\* to any files, what monitor reported as reverted is gone and stays gone.
THEOREM RevertedStaysGone == Spec => []RevertedIsGone
<1>1. Init => PilotInv
  BY DEF Init, PilotInit, PilotInv, Ordered, RevertedIsGone
<1>2. PilotInv => RevertedIsGone
  BY DEF PilotInv
<1>3. QED
  BY <1>1, <1>2, NextGone, PTL DEF Spec

-----------------------------------------------------------------------------
(* What a line of the corpus moves.  Rows and the refit, as functions of a *)
(* corpus: the k-th row is the accepted line with k - 1 such lines before. *)

Kept(lines, v) ==
    {i \in DOMAIN lines : QualityGate(lines[i]) = "accepted" /\ lines[i].vertical = v}

Behind(S, i) == {j \in S : j < i}

Line(S, k) == CHOOSE i \in S : Cardinality(Behind(S, i)) = k - 1

RowsOf(lines, v) ==
    [k \in 1..Cardinality(Kept(lines, v)) |-> lines[Line(Kept(lines, v), k)]]

PoisonedIn(lines) == \E i \in DOMAIN lines : QualityGate(lines[i]) = "untrusted_source"

LoadsIn(lines) ==
    \A i \in DOMAIN lines :
        lines[i].shape # "no_json" /\ QualityGate(lines[i]) # "KeyError"

RefitOf(loads, poisoned, rows, p, v) ==
    IF ~loads THEN Raised
    ELSE IF poisoned THEN Refused("poison")
    ELSE IF Len(rows) < MinAccepted THEN Refused("insufficient")
    ELSE IF Candidate(rows) <= Baseline(rows) THEN Refused("not improved")
    ELSE IF ~p.sound THEN Refused("no provenance")
    ELSE IF ~(p.vertical = v /\ p.rows = rows) THEN Refused("not the approved corpus")
    ELSE [status |-> "PUBLISHED", rows |-> rows,
          holdout |-> Candidate(rows), baseline |-> Baseline(rows)]

LEMMA RefitIs ==
    ASSUME NEW v
    PROVE  /\ Refit(v) = RefitOf(LoadsIn(corpus), PoisonedIn(corpus),
                                  RowsOf(corpus, v), publication, v)
           /\ Refit(v)' = RefitOf(LoadsIn(corpus'), PoisonedIn(corpus'),
                                   RowsOf(corpus', v), publication', v)
<1>1. Rows(v) = RowsOf(corpus, v) /\ Rows(v)' = RowsOf(corpus', v)
  BY Zenon DEF Rows, RowsOf, Kept, Line, Behind
<1>2. /\ Poisoned = PoisonedIn(corpus) /\ Poisoned' = PoisonedIn(corpus')
      /\ Loads = LoadsIn(corpus) /\ Loads' = LoadsIn(corpus')
  BY DEF Poisoned, PoisonedIn, Loads, LoadsIn
<1>3. Refit(v) = RefitOf(Loads, Poisoned, Rows(v), publication, v)
  BY Zenon DEF Refit, RefitOf, ApprovedCorpus
<1>4. Refit(v)' = RefitOf(Loads', Poisoned', Rows(v)', publication', v)
  BY Zenon DEF Refit, RefitOf, ApprovedCorpus
<1>5. QED
  BY <1>1, <1>2, <1>3, <1>4

\* Numbers can be counted: one of them has k - 1 before it.
LEMMA Counted ==
    ASSUME NEW n \in Nat, NEW S, S \subseteq 1..n
    PROVE  /\ IsFiniteSet(S) /\ Cardinality(S) \in Nat
           /\ \A k \in 1..Cardinality(S) : \E i \in S : Cardinality(Behind(S, i)) = k - 1
<1>1. IsFiniteSet(S)
  <2>1. IsFiniteSet(1..n)
    BY FS_Interval
  <2>2. QED
    BY <2>1, FS_Subset
<1> DEFINE Bad == {s \in SUBSET S :
               ~\A k \in 1..Cardinality(s) : \E i \in s : Cardinality(Behind(s, i)) = k - 1}
<1>2. \A t \in Bad : t \subseteq S
  OBVIOUS
<1> HIDE DEF Bad
<1>3. Bad # {} => \E s \in Bad : \A t \in Bad : t \subseteq s => t = s
  BY <1>1, <1>2, LeastSubset
<1>4. ASSUME NEW s \in Bad, \A t \in Bad : t \subseteq s => t = s
      PROVE  FALSE
  <2>1. s \subseteq S /\ IsFiniteSet(s) /\ Cardinality(s) \in Nat
    BY <1>1, <1>2, FS_Subset, FS_CardinalityType
  <2>2. PICK k \in 1..Cardinality(s) : ~\E i \in s : Cardinality(Behind(s, i)) = k - 1
    BY DEF Bad
  <2>3. s # {}
    BY <2>1, <2>2, FS_EmptySet
  <2>4. PICK m \in s : \A i \in s : i <= m
    <3> DEFINE short == {n - i : i \in s}
    <3>1. short \subseteq Nat /\ short # {}
      <4>1. \A i \in s : i \in 1..n
        BY <2>1
      <4>2. \A i \in 1..n : n - i \in Nat
        OBVIOUS
      <4>3. QED
        BY <2>3, <4>1, <4>2
    <3> HIDE DEF short
    <3>2. Min(short) \in short /\ \A q \in short : Min(short) <= q
      BY <3>1, MinOfNats
    <3>3. PICK m \in s : Min(short) = n - m
      BY <3>2 DEF short
    <3>4. \A i \in s : n - m <= n - i
      BY <3>2, <3>3 DEF short
    <3>5. \A i \in s : i \in Int
      BY <2>1
    <3>6. QED
      BY <3>4, <3>5
  <2>5. \A i \in s : i \in Int
    BY <2>1
  <2> DEFINE u == s \ {m}
  <2>6. /\ u \subseteq s /\ u # s /\ IsFiniteSet(u)
        /\ Cardinality(u) = Cardinality(s) - 1
    BY <2>1, FS_Subset, FS_RemoveElement
  <2>7. CASE k = Cardinality(s)
    <3>1. Behind(s, m) = u
      BY <2>4, <2>5 DEF Behind
    <3>2. QED
      BY <2>2, <2>6, <2>7, <3>1
  <2>8. CASE k # Cardinality(s)
    <3>1. k \in 1..Cardinality(u)
      BY <2>1, <2>2, <2>6, <2>8
    <3>2. u \in SUBSET S /\ u \notin Bad
      BY <1>4, <2>1, <2>6
    <3>3. PICK i \in u : Cardinality(Behind(u, i)) = k - 1
      BY <3>1, <3>2 DEF Bad
    <3>4. Behind(u, i) = Behind(s, i)
      BY <2>4, <2>5 DEF Behind
    <3>5. QED
      BY <2>2, <3>3, <3>4
  <2>9. QED
    BY <2>7, <2>8
<1>5. S \notin Bad
  BY <1>3, <1>4
<1>6. QED
  BY <1>1, <1>5, FS_CardinalityType DEF Bad

LEMMA LineKept ==
    ASSUME NEW n \in Nat, NEW S, S \subseteq 1..n, NEW k \in 1..Cardinality(S)
    PROVE  Line(S, k) \in S
<1>1. \E i \in S : Cardinality(Behind(S, i)) = k - 1
  BY Counted
<1>2. QED
  BY <1>1 DEF Line

\* A line that is not an accepted one of v leaves v's rows alone.
LEMMA RowsStay ==
    ASSUME NEW X, NEW lines \in Seq(X), NEW r, NEW v,
           ~(QualityGate(r) = "accepted" /\ r.vertical = v)
    PROVE  RowsOf(Append(lines, r), v) = RowsOf(lines, v)
<1> DEFINE n == Len(lines)
           more == Append(lines, r)
           kept == Kept(lines, v)
<1>1. /\ n \in Nat /\ DOMAIN lines = 1..n /\ DOMAIN more = 1..(n + 1)
      /\ more[n + 1] = r /\ \A i \in 1..n : more[i] = lines[i]
  OBVIOUS
<1> HIDE DEF n, more
<1>2. kept \subseteq 1..n
  BY <1>1 DEF Kept
<1>3. Kept(more, v) = kept
  <2>1. \A i \in 1..(n + 1) : i \in 1..n \/ i = n + 1
    BY <1>1
  <2>2. 1..n \subseteq 1..(n + 1)
    BY <1>1
  <2>3. QED
    BY <1>1, <2>1, <2>2 DEF Kept
<1> HIDE DEF kept
<1>4. \A k \in 1..Cardinality(kept) : Line(kept, k) \in kept
  BY <1>1, <1>2, LineKept
<1>5. \A k \in 1..Cardinality(kept) : more[Line(kept, k)] = lines[Line(kept, k)]
  BY <1>1, <1>2, <1>4
<1>6. RowsOf(more, v) = [k \in 1..Cardinality(kept) |-> more[Line(kept, k)]]
  BY <1>3 DEF RowsOf
<1>7. RowsOf(lines, v) = [k \in 1..Cardinality(kept) |-> lines[Line(kept, k)]]
  BY DEF RowsOf, kept
<1>8. QED
  BY <1>5, <1>6, <1>7 DEF more

\* A line adds what it is itself to whether a corpus loads and is poisoned.
LEMMA LineAdds ==
    ASSUME NEW X, NEW lines \in Seq(X), NEW r
    PROVE  /\ PoisonedIn(Append(lines, r)) <=>
                  PoisonedIn(lines) \/ QualityGate(r) = "untrusted_source"
           /\ LoadsIn(Append(lines, r)) <=>
                  LoadsIn(lines) /\ r.shape # "no_json" /\ QualityGate(r) # "KeyError"
<1> DEFINE n == Len(lines)
           more == Append(lines, r)
<1>1. /\ n \in Nat /\ DOMAIN lines = 1..n /\ DOMAIN more = 1..(n + 1)
      /\ more[n + 1] = r /\ \A i \in 1..n : more[i] = lines[i]
  OBVIOUS
<1>2. /\ \A i \in 1..(n + 1) : i \in 1..n \/ i = n + 1
      /\ \A i \in 1..n : i \in 1..(n + 1)
      /\ n + 1 \in 1..(n + 1)
  BY <1>1
<1> HIDE DEF n, more
<1>3. PoisonedIn(more) <=> PoisonedIn(lines) \/ QualityGate(r) = "untrusted_source"
  BY <1>1, <1>2 DEF PoisonedIn
<1>4. LoadsIn(more) <=>
          LoadsIn(lines) /\ r.shape # "no_json" /\ QualityGate(r) # "KeyError"
  BY <1>1, <1>2, Zenon DEF LoadsIn
<1>5. QED
  BY <1>3, <1>4 DEF more

Contributions == Records \cup {PilotOutcome}

CorpusInv == corpus \in Seq(Contributions)

LEMMA CorpusInvariant == Spec => []CorpusInv
<1>1. Init => CorpusInv
  BY DEF Init, CorpusInv
<1>2. CorpusInv /\ [Next]_vars => CorpusInv'
  <2> SUFFICES ASSUME CorpusInv, [Next]_vars PROVE CorpusInv'
    OBVIOUS
  <2>1. \/ corpus' = corpus
        \/ \E r \in Contributions : corpus' = Append(corpus, r)
    BY DEF Next, Contribute, Learn, vars, Contributions
  <2>2. QED
    BY <2>1 DEF CorpusInv
<1>3. QED
  BY <1>1, <1>2, PTL DEF Spec

\* What the gate says of a line, by its shape; of a record, by its evidence.
LEMMA GateIs ==
    ASSUME NEW r \in Contributions
    PROVE  /\ r.shape \in Shapes
           /\ r.shape = "malformed" => QualityGate(r) = "malformed"
           /\ r.shape = "other_artifact" => QualityGate(r) = "KeyError"
           /\ r.shape = "outcome_record" =>
                  /\ QualityGate(r) # "KeyError"
                  /\ QualityGate(r) \in {"accepted", "untrusted_source"} => r.quality >= 5
                  /\ r.trusted => QualityGate(r) # "untrusted_source"
                  /\ ~r.trusted => QualityGate(r) # "accepted"
<1>1. r.shape \in Shapes /\ r.trusted \in BOOLEAN /\ r.quality \in Int
  <2>1. CASE r \in Records
    BY <2>1, RecordsAssumption, Zenon
  <2>2. CASE r = PilotOutcome
    <3>1. /\ PilotOutcome.shape \in Shapes /\ PilotOutcome.trusted \in BOOLEAN
          /\ PilotOutcome.quality \in Int
      BY DEF PilotOutcome, Shapes
    <3>2. QED
      BY <2>2, <3>1, Zenon
  <2>3. QED
    BY <2>1, <2>2 DEF Contributions
<1>2. (r.quality < 5) <=> ~(r.quality >= 5)
  BY <1>1
<1>3. /\ r.shape = "malformed" => QualityGate(r) = "malformed"
      /\ r.shape = "other_artifact" => QualityGate(r) = "KeyError"
  BY DEF QualityGate
<1>4. ASSUME r.shape = "outcome_record"
      PROVE  /\ QualityGate(r) # "KeyError"
             /\ QualityGate(r) \in {"accepted", "untrusted_source"} => r.quality >= 5
             /\ r.trusted => QualityGate(r) # "untrusted_source"
             /\ ~r.trusted => QualityGate(r) # "accepted"
  BY <1>2, <1>4 DEF QualityGate
<1>5. QED
  BY <1>1, <1>3, <1>4

\* A refit of a corpus that loads does not raise.
LEMMA LoadedIsNotRaised ==
    ASSUME NEW poisoned, NEW rows, NEW p, NEW v
    PROVE  RefitOf(TRUE, poisoned, rows, p, v) # Raised
<1>1. /\ Raised.status = "RAISED"
      /\ \A reason : Refused(reason).status = "REFUSED"
  BY DEF Raised, Refused
<1> DEFINE result == [status |-> "PUBLISHED", rows |-> rows,
                      holdout |-> Candidate(rows), baseline |-> Baseline(rows)]
<1>2. result.status = "PUBLISHED"
  OBVIOUS
<1>3. \/ \E reason : RefitOf(TRUE, poisoned, rows, p, v) = Refused(reason)
      \/ RefitOf(TRUE, poisoned, rows, p, v) = result
  BY Zenon DEF RefitOf
<1> HIDE DEF result
<1>4. QED
  BY <1>1, <1>2, <1>3

\* One vertical's evidence moves no other vertical's refit, a record of little quality
\* or that validation refuses moves none; a convincing record of an untrusted source
\* has all of them refused, a line that is no JSON or another artifact has them raise.
THEOREM EvidenceMovesItsOwn == Spec => OnlyEvidenceMoves
<1>1. ASSUME CorpusInv, [Next]_vars, NEW r \in Records \cup {PilotOutcome}, NEW v \in Verticals,
             corpus' = Append(corpus, r), Refit(v)' # Refit(v)
      PROVE  /\ Refit(v) # Raised
             /\ IF r.shape = "outcome_record"
                THEN /\ r.quality >= 5
                     /\ IF r.trusted THEN r.vertical = v
                                     ELSE Refit(v)' = Refused("poison")
                ELSE r.shape # "malformed" /\ Refit(v)' = Raised
  <2>1. corpus \in Seq(Contributions) /\ r \in Contributions
    BY <1>1 DEF CorpusInv, Contributions
  <2>2. corpus' # corpus
    <3>1. Len(corpus') = Len(corpus) + 1 /\ Len(corpus) \in Nat
      BY <1>1, <2>1
    <3>2. QED
      BY <3>1
  <2>3. publication' = publication
    BY <1>1, <2>2 DEF Next, Contribute, Learn, vars
  <2>4. LoadsIn(corpus') <=>
            LoadsIn(corpus) /\ r.shape # "no_json" /\ QualityGate(r) # "KeyError"
    BY <1>1, <2>1, LineAdds
  <2>5. ~LoadsIn(corpus') => Refit(v)' = Raised
    BY RefitIs DEF RefitOf
  <2>6. LoadsIn(corpus)
    <3>1. ~LoadsIn(corpus) => Refit(v) = Raised
      BY RefitIs DEF RefitOf
    <3>2. QED
      BY <1>1, <2>4, <2>5, <3>1
  <2>7. LoadsIn(corpus) = TRUE
    BY <2>6 DEF LoadsIn
  <2>8. Refit(v) # Raised
    BY <2>7, RefitIs, LoadedIsNotRaised
  <2>9. CASE r.shape = "outcome_record"
    <3>1. LoadsIn(corpus') = TRUE
      <4>1. r.shape # "no_json" /\ QualityGate(r) # "KeyError"
        BY <2>1, <2>9, GateIs
      <4>2. LoadsIn(corpus')
        BY <2>4, <2>6, <4>1
      <4>3. QED
        BY <4>2 DEF LoadsIn
    <3>2. \/ RowsOf(corpus', v) # RowsOf(corpus, v)
          \/ ~(PoisonedIn(corpus') <=> PoisonedIn(corpus))
      <4>1. PoisonedIn(corpus) \in BOOLEAN /\ PoisonedIn(corpus') \in BOOLEAN
        BY DEF PoisonedIn
      <4>2. QED
        BY <1>1, <2>3, <2>7, <3>1, <4>1, RefitIs
    <3>3. ~(QualityGate(r) = "accepted" /\ r.vertical = v)
              => RowsOf(corpus', v) = RowsOf(corpus, v)
      BY <1>1, <2>1, RowsStay
    <3>4. PoisonedIn(corpus') <=> PoisonedIn(corpus) \/ QualityGate(r) = "untrusted_source"
      BY <1>1, <2>1, LineAdds
    <3>5. \/ QualityGate(r) = "accepted" /\ r.vertical = v
          \/ QualityGate(r) = "untrusted_source"
      BY <3>2, <3>3, <3>4
    <3>6. r.quality >= 5
      BY <2>1, <2>9, <3>5, GateIs
    <3>7. CASE r.trusted
      BY <2>1, <2>8, <2>9, <3>5, <3>6, <3>7, GateIs
    <3>8. CASE ~r.trusted
      <4>1. QualityGate(r) = "untrusted_source"
        BY <2>1, <2>9, <3>5, <3>8, GateIs
      <4>2. Refit(v)' = Refused("poison")
        BY <3>1, <3>4, <4>1, RefitIs DEF RefitOf
      <4>3. QED
        BY <2>8, <2>9, <3>6, <3>8, <4>2
    <3>9. QED
      BY <3>7, <3>8
  <2>10. CASE r.shape = "malformed"
    <3>1. QualityGate(r) = "malformed"
      BY <2>1, <2>10, GateIs
    <3>2. LoadsIn(corpus') = LoadsIn(corpus) /\ PoisonedIn(corpus') = PoisonedIn(corpus)
      <4>1. LoadsIn(corpus') <=> LoadsIn(corpus)
        BY <2>4, <2>10, <3>1
      <4>2. PoisonedIn(corpus') <=> PoisonedIn(corpus)
        BY <1>1, <2>1, <3>1, LineAdds
      <4>3. QED
        BY <4>1, <4>2 DEF LoadsIn, PoisonedIn
    <3>3. RowsOf(corpus', v) = RowsOf(corpus, v)
      <4>1. ~(QualityGate(r) = "accepted" /\ r.vertical = v)
        BY <3>1
      <4>2. QED
        BY <1>1, <2>1, <4>1, RowsStay
    <3>4. Refit(v)' = Refit(v)
      BY <2>3, <3>2, <3>3, RefitIs
    <3>5. QED
      BY <1>1, <3>4
  <2>11. CASE r.shape \in {"other_artifact", "no_json"}
    <3>1. r.shape = "no_json" \/ QualityGate(r) = "KeyError"
      BY <2>1, <2>11, GateIs
    <3>2. Refit(v)' = Raised
      BY <2>4, <2>5, <3>1
    <3>3. QED
      BY <2>8, <2>11, <3>2
  <2>12. QED
    BY <2>1, <2>9, <2>10, <2>11, GateIs DEF Shapes
<1>2. CorpusInv /\ [Next]_vars =>
          [\A r \in Records \cup {PilotOutcome}, v \in Verticals :
               corpus' = Append(corpus, r) /\ Refit(v)' # Refit(v) =>
                   /\ Refit(v) # Raised
                   /\ IF r.shape = "outcome_record"
                      THEN /\ r.quality >= 5
                           /\ IF r.trusted THEN r.vertical = v
                                           ELSE Refit(v)' = Refused("poison")
                      ELSE r.shape # "malformed" /\ Refit(v)' = Raised]_vars
  BY <1>1
<1>3. QED
  BY <1>2, CorpusInvariant, PTL DEF Spec, OnlyEvidenceMoves
=============================================================================

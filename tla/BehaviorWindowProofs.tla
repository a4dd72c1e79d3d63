------------------------ MODULE BehaviorWindowProofs ------------------------
(***************************************************************************)
(* Proofs about BehaviorWindow, for any window, thresholds, frames and     *)
(* detections.  First that a summary exists: of the groups of a window one *)
(* is the best.  Then what the window decides, from the majorities that    *)
(* starting and clearing take.                                             *)
(***************************************************************************)
EXTENDS BehaviorWindow, FiniteSetTheorems, SequenceTheorems,
        TLAPS

-----------------------------------------------------------------------------
(* Least and greatest elements.                                            *)

LEMMA Least ==
    ASSUME NEW T \in SUBSET Nat, T # {}
    PROVE  \E m \in T : \A k \in T : m <= k
<1> DEFINE Upto(n) == 0..n
           Intervals == {Upto(n) : n \in T}
<1>1. \A n \in Nat : IsFiniteSet(Upto(n)) /\ Upto(n) \in SUBSET Nat
  BY FS_Interval
<1>2. Intervals \subseteq FiniteSubsetsOf(Nat) /\ Intervals # {}
  <2> HIDE DEF Upto
  <2> QED BY <1>1 DEF FiniteSubsetsOf
<1>3. PICK S \in Intervals : \A U \in Intervals : <<U, S>> \notin StrictSubsetOrdering(Nat)
  BY <1>2, FS_StrictSubsetOrderingWellFounded, WFMin
<1>4. PICK m \in T : S = Upto(m)
  OBVIOUS
<1>5. ASSUME NEW k \in T PROVE m <= k
  <2>1. <<Upto(k), Upto(m)>> \notin StrictSubsetOrdering(Nat)
    BY <1>3, <1>4
  <2>2. Upto(k) \in SUBSET Nat /\ Upto(m) \in SUBSET Nat
    OBVIOUS
  <2>3. k < m => Upto(k) \subseteq Upto(m) /\ Upto(k) # Upto(m)
    OBVIOUS
  <2> QED BY <2>1, <2>2, <2>3 DEF StrictSubsetOrdering
<1> QED BY <1>5

LEMMA MinOf ==
    ASSUME NEW T \in SUBSET Nat, T # {}
    PROVE  Min(T) \in T /\ \A k \in T : Min(T) <= k
  BY Least DEF Min

LEMMA MaxOf ==
    ASSUME NEW n \in Nat, NEW T \in SUBSET 0..n, T # {}
    PROVE  Max(T) \in T /\ \A k \in T : Max(T) >= k
<1> DEFINE below == {n - k : k \in T}
<1>1. below \in SUBSET Nat /\ below # {}
  <2>1. \A k \in T : n - k \in Nat
    OBVIOUS
  <2> QED BY <2>1
<1>2. PICK m \in below : \A k \in below : m <= k
  BY <1>1, Least
<1>3. PICK x \in T : m = n - x
  OBVIOUS
<1>4. \A k \in T : x >= k
  BY <1>2, <1>3
<1> QED BY <1>4 DEF Max

\* A finite set under a strict total order has a first element.
LEMMA First ==
    ASSUME NEW S, IsFiniteSet(S), S # {}, NEW R,
           \A x, y, z \in S : <<x, y>> \in R /\ <<y, z>> \in R => <<x, z>> \in R,
           \A x, y \in S : x # y => <<x, y>> \in R \/ <<y, x>> \in R
    PROVE  \E x \in S : \A y \in S \ {x} : <<x, y>> \in R
<1> DEFINE Has(U) == \E x \in U : \A y \in U \ {x} : <<x, y>> \in R
           Without == {U \in SUBSET S : U # {} /\ ~Has(U)}
<1> SUFFICES ASSUME Without # {} PROVE FALSE
  OBVIOUS
<1>1. Without \subseteq FiniteSubsetsOf(S)
  BY FS_Subset DEF FiniteSubsetsOf
<1>2. PICK U \in Without : \A V \in Without : <<V, U>> \notin StrictSubsetOrdering(S)
  <2> HIDE DEF Without
  <2> QED BY <1>1, FS_StrictSubsetOrderingWellFounded, WFMin
<1>3. PICK y \in U : TRUE
  OBVIOUS
<1>4. U \ {y} \notin Without
  <2>1. U \ {y} \in SUBSET S /\ U \in SUBSET S /\ U \ {y} \subseteq U /\ U \ {y} # U
    BY <1>3
  <2> HIDE DEF Without
  <2> QED BY <1>2, <2>1 DEF StrictSubsetOrdering
<1>5. CASE U \ {y} = {}
  BY <1>3, <1>5
<1>6. CASE U \ {y} # {}
  <2>1. PICK x \in U \ {y} : \A z \in (U \ {y}) \ {x} : <<x, z>> \in R
    BY <1>4, <1>6
  <2>2. CASE <<x, y>> \in R
    BY <2>1, <2>2
  <2>3. CASE <<y, x>> \in R
    <3>1. \A z \in U \ {y} : <<y, z>> \in R
      BY <1>3, <2>1, <2>3
    <3> QED BY <1>3, <3>1
  <2> QED BY <1>3, <2>1, <2>2, <2>3
<1> QED BY <1>5, <1>6

-----------------------------------------------------------------------------
(* Totals.                                                                 *)

\* What the fold that Total is satisfies.
Folds(f, w, group) ==
    f = [s \in SUBSET group |->
            IF s = {} THEN 0
            ELSE w[CHOOSE x \in s : TRUE].confidence
                    + f[s \ {CHOOSE x \in s : TRUE}]]

Partial(w, group) == CHOOSE f : Folds(f, w, group)

LEMMA TotalIsPartial ==
    ASSUME NEW w, NEW group
    PROVE  Total(w, group) = Partial(w, group)[group]
  BY DEF Total, Partial, Folds, MapThenSumSet, MapThenFoldSet

\* It is defined on sets of up to n elements, for every n.
LEMMA PartialExists ==
    ASSUME NEW w, NEW group, IsFiniteSet(group),
           \A i \in group : w[i].confidence \in Nat
    PROVE  \E f : Folds(f, w, group)
<1> DEFINE one(s) == CHOOSE x \in s : TRUE
           Small(n) == {s \in SUBSET group : Cardinality(s) <= n}
           Defined(n) == \E g : \A s \in Small(n) :
              g[s] = IF s = {} THEN 0 ELSE w[one(s)].confidence + g[s \ {one(s)}]
           Undefined == {n \in Nat : ~Defined(n)}
<1>1. \A s \in SUBSET group : IsFiniteSet(s) /\ Cardinality(s) \in Nat
  BY FS_Subset, FS_CardinalityType
<1>2. \A s \in SUBSET group : s # {} =>
        /\ one(s) \in s /\ s \ {one(s)} \in SUBSET group
        /\ Cardinality(s \ {one(s)}) = Cardinality(s) - 1
  BY <1>1, FS_RemoveElement
<1>3. \A s \in SUBSET group : Cardinality(s) = 0 <=> s = {}
  BY <1>1, FS_EmptySet
<1> HIDE DEF one
<1>4. Undefined = {}
  <2> SUFFICES ASSUME Undefined # {} PROVE FALSE
    OBVIOUS
  <2>1. PICK n \in Undefined : \A k \in Undefined : n <= k
    BY Least
  <2>2. CASE n = 0
    <3> DEFINE g == [s \in SUBSET group |-> 0]
    <3>1. \A s \in Small(0) : g[s] = 0 /\ s = {}
      BY <1>1, <1>3
    <3>2. Defined(0)
      BY <3>1
    <3> QED BY <2>2, <3>2
  <2>3. CASE n # 0
    <3>1. n - 1 \in Nat /\ Defined(n - 1)
      <4> HIDE DEF Defined
      <4>1. n \in Nat
        OBVIOUS
      <4>2. n - 1 \in Nat /\ ~(n <= n - 1)
        BY <2>3, <4>1
      <4> QED BY <2>1, <4>2
    <3>2. PICK g : \A s \in Small(n - 1) :
             g[s] = IF s = {} THEN 0 ELSE w[one(s)].confidence + g[s \ {one(s)}]
      BY <3>1
    <3> DEFINE h == [s \in SUBSET group |->
                        IF s \in Small(n - 1) THEN g[s]
                        ELSE w[one(s)].confidence + g[s \ {one(s)}]]
    <3>3. \A s \in Small(n) : s # {} => s \ {one(s)} \in Small(n - 1)
      BY <1>1, <1>2
    <3>4. \A s \in Small(n) : s = {} => s \in Small(n - 1)
      BY <1>3, <3>1
    <3>5. \A s \in Small(n) :
             h[s] = IF s = {} THEN 0 ELSE w[one(s)].confidence + h[s \ {one(s)}]
      <4> SUFFICES ASSUME NEW s \in Small(n)
                   PROVE  h[s] = IF s = {} THEN 0
                                 ELSE w[one(s)].confidence + h[s \ {one(s)}]
        OBVIOUS
      <4>1. s \in SUBSET group /\ (s # {} => s \ {one(s)} \in SUBSET group)
        BY <1>2
      <4> HIDE DEF Small
      <4>2. CASE s = {}
        BY <3>2, <3>4, <4>1, <4>2
      <4>3. CASE s # {}
        <5>1. h[s \ {one(s)}] = g[s \ {one(s)}]
          BY <3>3, <4>1, <4>3
        <5>2. h[s] = w[one(s)].confidence + g[s \ {one(s)}]
          BY <3>2, <4>1, <4>3
        <5> QED BY <4>3, <5>1, <5>2
      <4> QED BY <4>2, <4>3
    <3> HIDE DEF h, Small
    <3>6. Defined(n)
      BY <3>5
    <3> QED BY <3>6
  <2> QED BY <2>2, <2>3
<1>5. Cardinality(group) \in Nat
  BY <1>1
<1>6. SUBSET group \subseteq Small(Cardinality(group))
  BY FS_Subset
<1>7. PICK g : \A s \in SUBSET group :
         g[s] = IF s = {} THEN 0 ELSE w[one(s)].confidence + g[s \ {one(s)}]
  <2>1. Defined(Cardinality(group))
    <3> HIDE DEF Defined
    <3> QED BY <1>4, <1>5
  <2> HIDE DEF Small
  <2> QED BY <1>6, <2>1
<1> DEFINE iter == [s \in SUBSET group |-> g[s]]
<1>8. \A s \in SUBSET group :
         iter[s] = IF s = {} THEN 0 ELSE w[one(s)].confidence + iter[s \ {one(s)}]
  BY <1>2, <1>7
<1>9. iter = [s \in SUBSET group |->
                 IF s = {} THEN 0 ELSE w[one(s)].confidence + iter[s \ {one(s)}]]
  BY <1>8
<1> QED BY <1>9 DEF one, Folds

LEMMA TotalType ==
    ASSUME NEW w, NEW group, IsFiniteSet(group),
           \A i \in group : w[i].confidence \in Nat
    PROVE  Total(w, group) \in Nat
<1> DEFINE one(s) == CHOOSE x \in s : TRUE
           iter == Partial(w, group)
           Bad == {s \in SUBSET group : iter[s] \notin Nat}
<1>1. iter = [s \in SUBSET group |->
                 IF s = {} THEN 0 ELSE w[one(s)].confidence + iter[s \ {one(s)}]]
  <2>1. Folds(iter, w, group)
    BY PartialExists DEF Partial
  <2> HIDE DEF iter
  <2> QED BY <2>1 DEF Folds
<1>2. \A s \in SUBSET group : s # {} => one(s) \in s
  OBVIOUS
<1> HIDE DEF iter, one
<1>3. \A s \in SUBSET group :
         iter[s] = IF s = {} THEN 0 ELSE w[one(s)].confidence + iter[s \ {one(s)}]
  BY <1>1
<1>4. ASSUME Bad # {} PROVE FALSE
  <2>1. Bad \subseteq FiniteSubsetsOf(group)
    BY FS_Subset DEF FiniteSubsetsOf
  <2>2. PICK s \in Bad : \A t \in Bad : <<t, s>> \notin StrictSubsetOrdering(group)
    BY <1>4, <2>1, FS_StrictSubsetOrderingWellFounded, WFMin
  <2>3. s \in SUBSET group /\ iter[s] \notin Nat
    OBVIOUS
  <2>4. s # {}
    BY <1>3, <2>3
  <2>5. one(s) \in s /\ one(s) \in group
    BY <1>2, <2>3, <2>4
  <2> DEFINE t == s \ {one(s)}
  <2>6. t \in SUBSET group /\ t \subseteq s /\ t # s
    BY <2>3, <2>5
  <2>7. t \notin Bad
    <3> HIDE DEF t, Bad
    <3> QED BY <2>2, <2>3, <2>6 DEF StrictSubsetOrdering
  <2>8. iter[t] \in Nat
    BY <2>6, <2>7
  <2>9. iter[s] = w[one(s)].confidence + iter[t]
    BY <1>3, <2>3, <2>4
  <2> HIDE DEF t
  <2> QED BY <2>3, <2>5, <2>8, <2>9
<1> QED BY <1>4, TotalIsPartial DEF iter

-----------------------------------------------------------------------------
(* The best of the groups of a window.                                     *)

Named(order) == {order[i] : i \in DOMAIN order}

LEMMA Ranks ==
    ASSUME NEW order, NEW n \in Nat, DOMAIN order = 1..n
    PROVE  /\ IsFiniteSet(Named(order))
           /\ \A x \in Named(order) :
                 RankIn(order, x) \in Int /\ order[RankIn(order, x)] = x
<1>1. \A x \in Named(order) : RankIn(order, x) \in 1..n /\ order[RankIn(order, x)] = x
  BY DEF Named, RankIn
<1> DEFINE f == [i \in 1..n |-> order[i]]
<1>2. f \in Surjection(1..n, Named(order))
  BY DEF Surjection, Named
<1>3. IsFiniteSet(1..n)
  BY FS_Interval
<1>4. IsFiniteSet(Named(order))
  BY <1>2, <1>3, FS_Surjection
<1> QED BY <1>1, <1>4

LEMMA ConfidenceRange == Confidence \subseteq Nat /\ \E n \in Nat : Confidence = 0..n
<1> DEFINE top == 10000
<1>1. top \in Nat /\ Confidence = 0..top
  BY DEF Confidence
<1> HIDE DEF top
<1> QED BY <1>1

LEMMA SampleFields ==
    \A x \in Sample : /\ x.confidence \in Confidence /\ x.action \in Action
                      /\ x.at \in Time
  BY DEF Sample

LEMMA Window ==
    ASSUME NEW w \in Seq(Sample)
    PROVE  /\ Len(w) \in Nat /\ DOMAIN w = 1..Len(w)
           /\ IsFiniteSet(DOMAIN w) /\ Cardinality(DOMAIN w) = Len(w)
           /\ \A i \in DOMAIN w : /\ w[i] \in Sample /\ w[i].confidence \in Confidence
                                 /\ w[i].action \in Action /\ w[i].at \in Time
<1>1. Len(w) \in Nat /\ DOMAIN w = 1..Len(w)
  OBVIOUS
<1>2. \A i \in DOMAIN w : w[i] \in Sample
  OBVIOUS
<1>3. IsFiniteSet(DOMAIN w) /\ Cardinality(DOMAIN w) = Len(w)
  <2> DEFINE n == Len(w)
  <2> HIDE DEF n
  <2>1. n \in Nat /\ DOMAIN w = 1..n
    BY <1>1 DEF n
  <2>2. IsFiniteSet(1..n) /\ Cardinality(1..n) = IF 1 > n THEN 0 ELSE n - 1 + 1
    BY <2>1, FS_Interval
  <2>3. Cardinality(1..n) = n
    BY <2>1, <2>2
  <2> QED BY <2>1, <2>2, <2>3 DEF n
<1> QED BY <1>1, <1>2, <1>3, SampleFields

\* What groups are compared by are numbers.
LEMMA Measures ==
    ASSUME NEW w, NEW group, IsFiniteSet(group), group # {},
           \A i \in group : w[i].confidence \in Confidence
    PROVE  /\ Cardinality(group) \in Nat
           /\ Total(w, group) \in Nat /\ Highest(w, group) \in Int
<1>1. Cardinality(group) \in Nat
  BY FS_CardinalityType
<1>2. \A i \in group : w[i].confidence \in Nat
  BY ConfidenceRange
<1>3. Total(w, group) \in Nat
  BY <1>2, TotalType
<1> DEFINE known == {w[i].confidence : i \in group}
<1>4. PICK n \in Nat : Confidence = 0..n
  BY ConfidenceRange
<1>7. known \in SUBSET Confidence /\ known # {}
  OBVIOUS
<1>5. Highest(w, group) = Max(known)
  BY DEF Highest
<1> HIDE DEF known
<1>6. Highest(w, group) \in known
  BY <1>4, <1>5, <1>7, MaxOf
<1>8. Highest(w, group) \in Nat
  BY <1>6, <1>7, ConfidenceRange
<1> QED BY <1>1, <1>3, <1>8

LEMMA BestOfGroups ==
    ASSUME NEW w \in Seq(Sample), NEW order, NEW n \in Nat, DOMAIN order = 1..n,
           NEW D \in SUBSET Named(order), D # {},
           NEW group \in [D -> SUBSET DOMAIN w], \A x \in D : group[x] # {}
    PROVE  Best(w, group, order) \in D
<1> DEFINE count(x) == Cardinality(group[x])
           total(x) == Total(w, group[x])
           high(x) == Highest(w, group[x])
           rank(x) == RankIn(order, x)
           Beats(x, y) == \/ Outdoes(w, group[x], group[y])
                          \/ ~Outdoes(w, group[y], group[x]) /\ rank(x) < rank(y)
           R == {p \in D \X D : Beats(p[1], p[2])}
<1>1. \A x \in D : /\ count(x) \in Int /\ total(x) \in Int /\ high(x) \in Int
                   /\ rank(x) \in Int
  <2> SUFFICES ASSUME NEW x \in D
               PROVE  /\ count(x) \in Int /\ total(x) \in Int /\ high(x) \in Int
                      /\ rank(x) \in Int
    OBVIOUS
  <2>1. group[x] \in SUBSET DOMAIN w /\ group[x] # {}
    OBVIOUS
  <2>2. IsFiniteSet(group[x]) /\ \A i \in group[x] : w[i].confidence \in Confidence
    BY <2>1, Window, FS_Subset
  <2>3. count(x) \in Nat /\ total(x) \in Nat /\ high(x) \in Int
    BY <2>1, <2>2, Measures
  <2> QED BY <2>3, Ranks
<1>2. \A x, y \in D : x # y => rank(x) # rank(y)
  BY Ranks
<1>3. \A x, y \in D : Outdoes(w, group[x], group[y]) <=>
        \/ count(x) > count(y)
        \/ /\ count(x) = count(y)
           /\ total(x) > total(y) \/ (total(x) = total(y) /\ high(x) > high(y))
  BY DEF Outdoes
<1> HIDE DEF count, total, high, rank
<1>4. ASSUME NEW x \in D, NEW y \in D, NEW z \in D, Beats(x, y), Beats(y, z)
      PROVE  Beats(x, z)
  <2> DEFINE Over(a, b) == Outdoes(w, group[a], group[b])
             Level(a, b) == count(a) = count(b) /\ total(a) = total(b) /\ high(a) = high(b)
  <2>0. /\ count(x) \in Int /\ total(x) \in Int /\ high(x) \in Int
        /\ count(y) \in Int /\ total(y) \in Int /\ high(y) \in Int
        /\ count(z) \in Int /\ total(z) \in Int /\ high(z) \in Int
    BY <1>1
  <2>1. \A a, b \in D : ~Over(a, b) /\ ~Over(b, a) <=> Level(a, b)
    <3> TAKE a \in D, b \in D
    <3>1. /\ count(a) \in Int /\ total(a) \in Int /\ high(a) \in Int
          /\ count(b) \in Int /\ total(b) \in Int /\ high(b) \in Int
      BY <1>1
    <3>2. Over(a, b) <=>
            \/ count(a) > count(b)
            \/ /\ count(a) = count(b)
               /\ total(a) > total(b) \/ (total(a) = total(b) /\ high(a) > high(b))
      BY <1>3
    <3>3. Over(b, a) <=>
            \/ count(b) > count(a)
            \/ /\ count(b) = count(a)
               /\ total(b) > total(a) \/ (total(b) = total(a) /\ high(b) > high(a))
      BY <1>3
    <3> HIDE DEF Over
    <3> QED BY <3>1, <3>2, <3>3
  <2>2. Over(x, y) /\ Over(y, z) => Over(x, z)
    BY <1>3, <2>0
  <2>3. Level(x, y) /\ Over(y, z) => Over(x, z)
    BY <1>3
  <2>4. Over(x, y) /\ Level(y, z) => Over(x, z)
    BY <1>3
  <2>5. Level(x, y) /\ Level(y, z) => Level(x, z)
    OBVIOUS
  <2>6. rank(x) < rank(y) /\ rank(y) < rank(z) => rank(x) < rank(z)
    BY <1>1
  <2> HIDE DEF Over, Level
  <2>7. Over(x, y) \/ (Level(x, y) /\ rank(x) < rank(y))
    BY <1>4, <2>1 DEF Over
  <2>8. Over(y, z) \/ (Level(y, z) /\ rank(y) < rank(z))
    BY <1>4, <2>1 DEF Over
  <2>9. Over(x, z) \/ (~Over(z, x) /\ rank(x) < rank(z))
    BY <2>1, <2>2, <2>3, <2>4, <2>5, <2>6, <2>7, <2>8
  <2> QED BY <2>9 DEF Over
<1>5. \A x, y \in D : x # y => Beats(x, y) \/ Beats(y, x)
  BY <1>1, <1>2, <1>3
<1>6. IsFiniteSet(D)
  BY Ranks, FS_Subset
<1> HIDE DEF Beats
<1>7. /\ \A x, y, z \in D : <<x, y>> \in R /\ <<y, z>> \in R => <<x, z>> \in R
      /\ \A x, y \in D : x # y => <<x, y>> \in R \/ <<y, x>> \in R
      /\ \A x, y \in D : <<x, y>> \in R => Beats(x, y)
  BY <1>4, <1>5
<1>8. \E x \in D : \A y \in D \ {x} : <<x, y>> \in R
  <2> HIDE DEF R
  <2> QED BY <1>6, <1>7, First
<1>9. \E x \in D : \A y \in D \ {x} : Beats(x, y)
  BY <1>7, <1>8
<1> USE DEF Beats, rank
<1>10. DOMAIN group = D
  OBVIOUS
<1> QED BY <1>9, <1>10 DEF Best

LEMMA Lists ==
    /\ DOMAIN Actions = 1..16 /\ DOMAIN Behaviors = 1..8
    /\ Action = Named(Actions) /\ Behavior = Named(Behaviors)
    /\ "NORMAL" \in Behavior /\ Abnormal \subseteq Behavior
  BY DEF Actions, Behaviors, Action, Behavior, Named, Abnormal

-----------------------------------------------------------------------------
(* Readings of a window.                                                   *)

LEMMA GroupsInWindow ==
    ASSUME NEW w \in Seq(Sample)
    PROVE  /\ Eligible(w) \subseteq DOMAIN w
           /\ \A b : Hits(w, b) \subseteq Eligible(w)
           /\ \A b, a : HitsOfAction(w, b, a) \subseteq Hits(w, b)
           /\ \A b, c : b # c => Hits(w, b) \cap Hits(w, c) = {}
  BY DEF Eligible, Hits, HitsOfAction

LEMMA DominantSeen ==
    ASSUME NEW w \in Seq(Sample), SeenIn(w) # {}
    PROVE  Dominant(w) \in SeenIn(w)
<1> DEFINE group == [b \in SeenIn(w) |-> Hits(w, b)]
<1>1. SeenIn(w) \subseteq Named(Behaviors) /\ DOMAIN Behaviors = 1..8 /\ 8 \in Nat
  BY Lists DEF SeenIn
<1>2. group \in [SeenIn(w) -> SUBSET DOMAIN w] /\ \A b \in SeenIn(w) : group[b] # {}
  BY GroupsInWindow DEF SeenIn
<1> HIDE DEF group
<1>3. Best(w, group, Behaviors) \in SeenIn(w)
  BY <1>1, <1>2, BestOfGroups
<1> QED BY <1>3 DEF Dominant, group

LEMMA DominantActionSeen ==
    ASSUME NEW w \in Seq(Sample), NEW b, Hits(w, b) # {}
    PROVE  DominantAction(w, b) \in Action
<1> DEFINE seen == {w[i].action : i \in Hits(w, b)}
           group == [a \in seen |-> HitsOfAction(w, b, a)]
<1>1. Hits(w, b) \subseteq DOMAIN w
  BY GroupsInWindow
<1>2. seen \subseteq Named(Actions) /\ seen # {} /\ DOMAIN Actions = 1..16 /\ 16 \in Nat
  <2>1. \A i \in DOMAIN w : w[i].action \in Action
    BY Window
  <2> QED BY <1>1, <2>1, Lists
<1>3. group \in [seen -> SUBSET DOMAIN w] /\ \A a \in seen : group[a] # {}
  BY <1>1 DEF HitsOfAction
<1> HIDE DEF group, seen
<1>4. Best(w, group, Actions) \in seen
  BY <1>2, <1>3, BestOfGroups
<1>5. Best(w, group, Actions) \in Action
  BY <1>2, <1>4, Lists
<1> QED BY <1>5 DEF DominantAction, group, seen

\* The times of the hits of a behaviour.
LEMMA Seen ==
    ASSUME NEW w \in Seq(Sample), NEW b, Hits(w, b) # {}
    PROVE  /\ FirstSeen(w, b) \in Time /\ LastSeen(w, b) \in Time
           /\ \E i \in Hits(w, b) : FirstSeen(w, b) = w[i].at
           /\ \A i \in Hits(w, b) : FirstSeen(w, b) <= w[i].at /\ w[i].at <= LastSeen(w, b)
<1> DEFINE times == {w[i].at : i \in Hits(w, b)}
<1>1. \A i \in Hits(w, b) : w[i].at \in Time
  BY GroupsInWindow, Window
<1>2. times \in SUBSET Nat /\ times \in SUBSET (0..MaxTime) /\ times # {} /\ MaxTime \in Nat
  BY <1>1, InputAssumption DEF Time
<1>3. Min(times) \in times /\ \A k \in times : Min(times) <= k
  BY <1>2, MinOf
<1>4. Max(times) \in times /\ \A k \in times : Max(times) >= k
  BY <1>2, MaxOf
<1> QED BY <1>1, <1>2, <1>3, <1>4 DEF FirstSeen, LastSeen

-----------------------------------------------------------------------------
(* What a reading makes of what is active.                                 *)

Episode == [behavior : Abnormal, action : Action, since : Time]

Reading(e) == ~(e.clears /\ e.starts) /\ (e.starts => e.summary \in Episode)

\* Clearing and starting take a majority each: a window that starts has too
\* few normal hits to clear.
LEMMA FewNormal ==
    ASSUME NEW w \in Seq(Sample), Len(w) <= WindowSize, MeetsStartThreshold(w)
    PROVE  Cardinality(Hits(w, "NORMAL")) < ClearHitCount
<1> DEFINE normal == Hits(w, "NORMAL")
           other == Hits(w, Dominant(w))
<1>1. Dominant(w) # "NORMAL"
  BY DominantSeen DEF MeetsStartThreshold, SeenIn, Abnormal
<1>2. normal \subseteq DOMAIN w /\ other \subseteq DOMAIN w /\ normal \cap other = {}
  BY <1>1, GroupsInWindow
<1>3. Cardinality(other) >= MinHitCount
  BY DEF MeetsStartThreshold, Reaches
<1>4. IsFiniteSet(DOMAIN w) /\ Cardinality(DOMAIN w) = Len(w) /\ Len(w) \in Nat
  BY Window
<1>5. Cardinality(normal) \in Nat /\ Cardinality(other) \in Nat
  BY <1>2, <1>4, FS_Subset, FS_CardinalityType
<1> HIDE DEF normal, other
<1>6. Cardinality(normal) >= ClearHitCount =>
         Cardinality(normal) + Cardinality(other) > Cardinality(DOMAIN w)
  BY <1>3, <1>4, <1>5, ConfigAssumption
<1>7. ~(Cardinality(normal) >= ClearHitCount)
  BY <1>2, <1>4, <1>6, FS_MajoritiesIntersect
<1> QED BY <1>5, <1>7, ConfigAssumption DEF normal

LEMMA NotBoth ==
    ASSUME NEW w \in Seq(Sample), Len(w) <= WindowSize,
           MeetsClearThreshold(w), MeetsStartThreshold(w)
    PROVE  FALSE
<1>1. Cardinality(Hits(w, "NORMAL")) >= ClearHitCount
  BY DEF MeetsClearThreshold, Reaches
<1>2. Cardinality(Hits(w, "NORMAL")) < ClearHitCount
  BY FewNormal
<1>3. Cardinality(Hits(w, "NORMAL")) \in Nat
  BY GroupsInWindow, Window, FS_Subset, FS_CardinalityType
<1> QED BY <1>1, <1>2, <1>3, ConfigAssumption

LEMMA EvidenceReading ==
    ASSUME NEW w \in Seq(Sample), Len(w) <= WindowSize
    PROVE  LET e == Evidence(w)
           IN  /\ Reading(e)
               /\ e.clears = MeetsClearThreshold(w) /\ e.starts = MeetsStartThreshold(w)
               /\ e.starts =>
                     /\ e.summary = Summary(w)
                     /\ Hits(w, Dominant(w)) # {} /\ Dominant(w) \in Abnormal
<1> DEFINE e == Evidence(w)
<1>1. e.clears = MeetsClearThreshold(w) /\ e.starts = MeetsStartThreshold(w)
  BY DEF Evidence
<1>2. ASSUME e.starts
      PROVE  /\ e.summary = Summary(w) /\ e.summary \in Episode
             /\ Hits(w, Dominant(w)) # {} /\ Dominant(w) \in Abnormal
  <2>1. SeenIn(w) # {} /\ e.summary = Summary(w)
    BY <1>1, <1>2 DEF MeetsStartThreshold, Evidence
  <2>2. Dominant(w) \in Abnormal /\ Hits(w, Dominant(w)) # {}
    BY <2>1, DominantSeen DEF SeenIn
  <2>3. /\ DominantAction(w, Dominant(w)) \in Action
        /\ FirstSeen(w, Dominant(w)) \in Time
    BY <2>2, DominantActionSeen, Seen
  <2> QED BY <2>1, <2>2, <2>3 DEF Summary, Episode
<1> HIDE DEF e
<1> QED BY <1>1, <1>2, NotBoth DEF Reading, e

\* The cases of a reading exclude each other.
LEMMA ActiveAfterIs ==
    ASSUME NEW e, NEW a
    PROVE  /\ Clears(e, a) => ActiveAfter(e, a) = Idle
           /\ Starts(e, a) \/ Turns(e, a) => ActiveAfter(e, a) = e.summary
           /\ ChangesAction(e, a) => ActiveAfter(e, a) = [a EXCEPT !.action = e.summary.action]
           /\ \/ Clears(e, a) \/ Starts(e, a) \/ Turns(e, a) \/ ChangesAction(e, a)
              \/ ActiveAfter(e, a) = a
<1>1. Clears(e, a) => ~Starts(e, a) /\ ~Turns(e, a) /\ ~ChangesAction(e, a)
  BY DEF Clears, Starts, Turns, ChangesAction
<1>2. Starts(e, a) \/ Turns(e, a) => ~ChangesAction(e, a)
  BY DEF Starts, Turns, ChangesAction
<1> QED BY <1>1, <1>2, Zenon DEF ActiveAfter

LEMMA TransitionIs ==
    ASSUME NEW e, NEW a
    PROVE  LET told == TransitionType(e, a)
           IN  /\ told \in {"NONE", "STARTED", "UPDATED", "CLEARED"}
               /\ told = "CLEARED" <=> Clears(e, a)
               /\ told = "STARTED" <=> Starts(e, a)
               /\ told = "UPDATED" <=> AllowUpdate /\ (Turns(e, a) \/ ChangesAction(e, a))
<1> DEFINE updates == AllowUpdate /\ (Turns(e, a) \/ ChangesAction(e, a))
           told == TransitionType(e, a)
<1>1. Clears(e, a) => ~Starts(e, a) /\ ~updates
  BY DEF Clears, Starts, Turns, ChangesAction
<1>2. Starts(e, a) => ~updates
  BY DEF Starts, Turns, ChangesAction
<1>3. told = CASE Clears(e, a) -> "CLEARED" [] Starts(e, a) -> "STARTED"
                [] updates -> "UPDATED" [] OTHER -> "NONE"
  BY Zenon DEF TransitionType
<1> HIDE DEF updates, told
<1>4. /\ Clears(e, a) => told = "CLEARED"
      /\ Starts(e, a) => told = "STARTED"
      /\ updates => told = "UPDATED"
      /\ ~Clears(e, a) /\ ~Starts(e, a) /\ ~updates => told = "NONE"
  BY <1>1, <1>2, <1>3, Zenon
<1> QED BY <1>1, <1>2, <1>4 DEF told, updates

LEMMA ReadingHeeded ==
    ASSUME NEW e, Reading(e), NEW a \in {Idle} \cup Episode
    PROVE  LET b == ActiveAfter(e, a)
           IN  /\ b \in {Idle} \cup Episode
               /\ ~Clears(e, b) /\ ~Starts(e, b) /\ ~Turns(e, b) /\ ~ChangesAction(e, b)
               /\ b = Idle <=> Clears(e, a) \/ (a = Idle /\ ~Starts(e, a))
<1> DEFINE b == ActiveAfter(e, a)
<1>0. \A x \in Episode : x # Idle
  BY ConfigAssumption DEF Episode, Idle, Abnormal
<1>1. CASE Clears(e, a)
  BY <1>1, ActiveAfterIs DEF Reading, Clears, Starts, Turns, ChangesAction
<1>2. CASE Starts(e, a) \/ Turns(e, a)
  <2>1. b = e.summary /\ e.starts /\ ~e.clears /\ b \in Episode
    BY <1>2, ActiveAfterIs DEF Reading, Starts, Turns
  <2>2. Starts(e, a) \/ a # Idle
    BY <1>2 DEF Turns
  <2>3. ~Clears(e, a)
    BY <2>1 DEF Clears
  <2> HIDE DEF b
  <2> QED BY <1>0, <2>1, <2>2, <2>3 DEF Clears, Starts, Turns, ChangesAction, b
<1>3. CASE ChangesAction(e, a)
  <2>1. /\ b = [a EXCEPT !.action = e.summary.action] /\ a # Idle /\ e.starts
        /\ ~e.clears /\ e.summary.behavior = a.behavior
    BY <1>3, ActiveAfterIs DEF Reading, ChangesAction
  <2>2. a \in Episode /\ e.summary \in Episode
    BY <2>1 DEF Reading
  <2>3. b \in Episode /\ b.behavior = a.behavior /\ b.action = e.summary.action
    BY <2>1, <2>2 DEF Episode
  <2> HIDE DEF b
  <2> QED BY <1>0, <2>1, <2>3 DEF Clears, Starts, Turns, ChangesAction, b
<1>4. CASE ~Clears(e, a) /\ ~Starts(e, a) /\ ~Turns(e, a) /\ ~ChangesAction(e, a)
  <2>1. b = a
    BY <1>4, ActiveAfterIs
  <2> HIDE DEF b
  <2> QED BY <1>4, <2>1 DEF b
<1> QED BY <1>1, <1>2, <1>3, <1>4

-----------------------------------------------------------------------------
(* The window after a sample.                                              *)

Dropped(w) == IF Len(w) >= WindowSize THEN 1 ELSE 0

LEMMA AppendedIs ==
    ASSUME NEW w \in Seq(Sample), Len(w) <= WindowSize, NEW sample \in Sample
    PROVE  LET v == Appended(w, sample)
           IN  /\ v \in Seq(Sample) /\ Len(v) = Len(w) + 1 - Dropped(w)
               /\ Len(v) <= WindowSize /\ Len(v) >= 1 /\ v[Len(v)] = sample
               /\ \A i \in 1..(Len(v) - 1) :
                     /\ v[i] = w[i + Dropped(w)] /\ i + Dropped(w) \in DOMAIN w
<1> DEFINE kept == IF Len(w) >= WindowSize THEN Tail(w) ELSE w
           v == Appended(w, sample)
<1>1. WindowSize \in Nat \ {0} /\ Len(w) \in Nat
  BY ConfigAssumption
<1>2. /\ kept \in Seq(Sample) /\ Len(kept) = Len(w) - Dropped(w)
      /\ \A i \in 1..Len(kept) : kept[i] = w[i + Dropped(w)] /\ i + Dropped(w) \in 1..Len(w)
  <2>1. CASE Len(w) >= WindowSize
    <3>1. w # <<>> /\ Len(w) >= 1
      BY <1>1, <2>1
    <3>2. /\ Tail(w) \in Seq(Sample) /\ Len(Tail(w)) = Len(w) - 1
          /\ \A i \in 1..Len(Tail(w)) : Tail(w)[i] = w[i + 1]
      BY <3>1, HeadTailProperties
    <3> QED BY <1>1, <2>1, <3>2 DEF Dropped
  <2>2. CASE ~(Len(w) >= WindowSize)
    BY <1>1, <2>2 DEF Dropped
  <2> QED BY <2>1, <2>2
<1>3. v = Append(kept, sample)
  BY DEF Appended
<1> HIDE DEF kept, v
<1>4. /\ v \in Seq(Sample) /\ Len(v) = Len(kept) + 1 /\ v[Len(kept) + 1] = sample
      /\ \A i \in 1..Len(kept) : v[i] = kept[i]
  BY <1>2, <1>3, AppendProperties
<1>5. Len(kept) \in Nat /\ Dropped(w) \in {0, 1} /\ Len(kept) + 1 <= WindowSize
  BY <1>1, <1>2 DEF Dropped
<1>6. Len(v) - 1 = Len(kept) /\ DOMAIN w = 1..Len(w)
  BY <1>4, <1>5
<1> QED BY <1>1, <1>2, <1>4, <1>5, <1>6 DEF v

LEMMA DistinctAfter ==
    ASSUME samples \in Seq(Sample), Len(samples) <= WindowSize,
           WindowOfDistinctFrames,
           NEW sample \in Sample, sample.frame \notin frameIds,
           samples' = Appended(samples, sample),
           frameIds' = IdsAfter(samples, sample.frame)
    PROVE  WindowOfDistinctFrames'
<1> DEFINE n == Len(samples)
           k == Dropped(samples)
           m == Len(samples')
           F(i) == samples[i].frame
           G(i) == samples'[i].frame
<1>1. /\ n \in Nat /\ k \in {0, 1} /\ m = n + 1 - k /\ m >= 1
      /\ k = 1 <=> n >= WindowSize
      /\ DOMAIN samples = 1..n /\ DOMAIN samples' = 1..m
  <2>1. /\ samples' \in Seq(Sample) /\ Len(samples') = Len(samples) + 1 - Dropped(samples)
        /\ Len(samples') >= 1
    BY AppendedIs
  <2>2. n \in Nat /\ DOMAIN samples = 1..n /\ DOMAIN samples' = 1..m
    BY <2>1
  <2> HIDE DEF m
  <2> QED BY <2>1, <2>2, ConfigAssumption DEF Dropped, m
<1>2. G(m) = sample.frame /\ \A i \in 1..(m - 1) : G(i) = F(i + k) /\ i + k \in 1..n
  BY <1>1, AppendedIs
<1>3. frameIds = {F(i) : i \in 1..n} /\ \A i, j \in 1..n : F(i) = F(j) => i = j
  BY <1>1 DEF WindowOfDistinctFrames
<1>4. frameIds' = (frameIds \ (IF k = 1 THEN {F(1)} ELSE {})) \cup {sample.frame}
  <2>1. k = 1 => Head(samples).frame = F(1)
    BY <1>1, ConfigAssumption
  <2> HIDE DEF F
  <2> QED BY <1>1, <2>1 DEF IdsAfter
<1> HIDE DEF n, k, m, F, G
<1>5. k = 1 => n >= 1
  BY <1>1, ConfigAssumption
<1>6. \A j \in 1..n : j # 1 \/ k = 0 => j - k \in 1..(m - 1) /\ G(j - k) = F(j)
  <2> SUFFICES ASSUME NEW j \in 1..n, j # 1 \/ k = 0
               PROVE  j - k \in 1..(m - 1) /\ G(j - k) = F(j)
    OBVIOUS
  <2>1. j - k \in 1..(m - 1) /\ (j - k) + k = j
    BY <1>1
  <2> QED BY <1>2, <2>1
<1>7. {G(i) : i \in 1..m} = (frameIds \ (IF k = 1 THEN {F(1)} ELSE {})) \cup {sample.frame}
  <2>1. ASSUME NEW i \in 1..m
        PROVE  G(i) \in (frameIds \ (IF k = 1 THEN {F(1)} ELSE {})) \cup {sample.frame}
    <3>1. CASE i = m
      BY <1>2, <3>1
    <3>2. CASE i # m
      <4>1. i \in 1..(m - 1) /\ i + k \in 1..n /\ G(i) = F(i + k)
        BY <1>1, <1>2, <3>2
      <4>2. k = 1 => i + k # 1 /\ 1 \in 1..n
        BY <1>1, <1>5, <4>1
      <4> QED BY <1>3, <4>1, <4>2
    <3> QED BY <3>1, <3>2
  <2>2. ASSUME NEW x \in (frameIds \ (IF k = 1 THEN {F(1)} ELSE {})) \cup {sample.frame}
        PROVE  \E i \in 1..m : G(i) = x
    <3>1. CASE x = sample.frame
      BY <1>1, <1>2, <3>1
    <3>2. CASE x # sample.frame
      <4>1. PICK j \in 1..n : x = F(j) /\ (k = 1 => j # 1)
        BY <1>3, <2>2, <3>2
      <4>2. j # 1 \/ k = 0
        BY <1>1, <4>1
      <4>3. j - k \in 1..(m - 1) /\ G(j - k) = F(j)
        BY <1>6, <4>2
      <4>4. j - k \in 1..m
        BY <1>1, <4>3
      <4> QED BY <4>1, <4>3, <4>4
    <3> QED BY <3>1, <3>2
  <2> QED BY <2>1, <2>2
<1>8. ASSUME NEW i \in 1..m, NEW j \in 1..m, G(i) = G(j) PROVE i = j
  <2>1. \A l \in 1..m : l = m \/ (l \in 1..(m - 1) /\ l + k \in 1..n /\ G(l) = F(l + k)
                                    /\ G(l) \in frameIds)
    BY <1>1, <1>2, <1>3
  <2>2. G(m) \notin frameIds
    BY <1>2
  <2>3. CASE i = m \/ j = m
    BY <1>8, <2>1, <2>2, <2>3
  <2>4. CASE i # m /\ j # m
    <3>1. F(i + k) = F(j + k) /\ i + k \in 1..n /\ j + k \in 1..n
      BY <1>8, <2>1, <2>4
    <3> QED BY <1>1, <1>3, <3>1
  <2> QED BY <2>3, <2>4
<1>9. frameIds' = {G(i) : i \in 1..m} /\ DOMAIN samples' = 1..m
  BY <1>1, <1>4, <1>7
<1> QED BY <1>8, <1>9 DEF WindowOfDistinctFrames, G

\* A sample no older than t adds nothing to what came before t.
LEMMA FewerBefore ==
    ASSUME NEW w \in Seq(Sample), Len(w) <= WindowSize, NEW sample \in Sample,
           NEW t \in Time, t <= sample.at
    PROVE  LET v == Appended(w, sample)
           IN  /\ Cardinality(NormalBefore(v, t)) \in Nat
               /\ Cardinality(NormalBefore(w, t)) \in Nat
               /\ Cardinality(NormalBefore(v, t)) <= Cardinality(NormalBefore(w, t))
<1> DEFINE v == Appended(w, sample)
           k == Dropped(w)
           old == NormalBefore(w, t)
           new == NormalBefore(v, t)
<1>1. /\ v \in Seq(Sample) /\ v[Len(v)] = sample
      /\ \A i \in 1..(Len(v) - 1) : v[i] = w[i + k] /\ i + k \in DOMAIN w
  BY AppendedIs
<1>2. Len(v) \in Nat /\ DOMAIN v = 1..Len(v) /\ k \in Int
  BY <1>1 DEF Dropped
<1> HIDE DEF v, k
<1>3. sample.at \in Int /\ t \in Int
  BY SampleFields, InputAssumption DEF Time
<1>4. ASSUME NEW j \in new PROVE j \in Int /\ j + k \in old
  <2>1. j \in 1..Len(v) /\ v[j].at < t /\ v[j].confidence >= MinConfidence
        /\ BehaviorOf(v[j].action) = "NORMAL"
    BY <1>2 DEF NormalBefore, Hits, Eligible
  <2>2. j # Len(v)
    BY <1>1, <1>3, <2>1
  <2>3. j \in 1..(Len(v) - 1)
    <3> DEFINE n == Len(v)
    <3>1. j \in 1..n /\ n \in Nat /\ j # n
      BY <1>2, <2>1, <2>2
    <3> HIDE DEF n
    <3>2. j \in 1..(n - 1)
      BY <3>1
    <3> QED BY <3>2 DEF n
  <2>4. v[j] = w[j + k] /\ j + k \in DOMAIN w
    BY <1>1, <2>3
  <2> QED BY <2>1, <2>3, <2>4 DEF NormalBefore, Hits, Eligible
<1>5. IsFiniteSet(old) /\ IsFiniteSet(new)
  <2>1. old \subseteq DOMAIN w /\ new \subseteq DOMAIN v
    BY DEF NormalBefore, Hits, Eligible
  <2> QED BY <1>1, <2>1, Window, FS_Subset
<1> DEFINE f == [j \in new |-> j + k]
<1>6. f \in Injection(new, old)
  <2>1. f \in [new -> old]
    BY <1>4
  <2>2. \A i, j \in new : f[i] = f[j] => i = j
    BY <1>2, <1>4
  <2> QED BY <2>1, <2>2 DEF Injection, IsInjective
<1> HIDE DEF f, old, new
<1>7. Cardinality(new) <= Cardinality(old)
  BY <1>5, <1>6, FS_Injection
<1> QED BY <1>5, <1>7, FS_CardinalityType DEF v, old, new

\* What a transition tells of is the active episode after it.
LEMMA TransitionOfActive ==
    ASSUME NEW e, Reading(e), NEW a \in {Idle} \cup Episode,
           ~Clears(e, a), Starts(e, a) \/ Turns(e, a) \/ ChangesAction(e, a)
    PROVE  Transition(e, a) = ActiveAfter(e, a)
<1>1. e.summary \in Episode
  BY DEF Reading, Starts, Turns, ChangesAction
<1>2. CASE ChangesAction(e, a)
  <2>1. a \in Episode /\ e.summary.behavior = a.behavior
    BY <1>2 DEF ChangesAction
  <2>2. ActiveAfter(e, a) = [a EXCEPT !.action = e.summary.action]
    BY <1>2, ActiveAfterIs
  <2>3. Transition(e, a) = [e.summary EXCEPT !.since = a.since]
    BY <1>2, Zenon DEF Transition
  <2> QED BY <1>1, <2>1, <2>2, <2>3 DEF Episode
<1>3. CASE ~ChangesAction(e, a)
  <2>1. ActiveAfter(e, a) = e.summary
    BY <1>3, ActiveAfterIs
  <2>2. Transition(e, a) = [e.summary EXCEPT !.since = e.summary.since]
    BY <1>3 DEF Transition
  <2> QED BY <1>1, <2>1, <2>2 DEF Episode
<1> QED BY <1>2, <1>3

\* The record the runtime keeps of a transition.
LEMMA RecordedIs ==
    ASSUME NEW w, NEW e, Reading(e), NEW a \in {Idle} \cup Episode
    PROVE  LET told == TransitionType(e, a)
               r == Recorded(w, e, a)
               b == ActiveAfter(e, a)
           IN  /\ told = "NONE" => r = runtime
               /\ told # "NONE" =>
                     /\ r.told = told /\ r.behavior = b.behavior
                     /\ r.action = b.action /\ r.since = b.since
               /\ told = "CLEARED" => r.seen = LastSeen(w, "NORMAL")
<1> DEFINE told == TransitionType(e, a)
           b == ActiveAfter(e, a)
           c == IF told = "CLEARED" THEN Idle ELSE Transition(e, a)
           of == IF told = "CLEARED" THEN "NORMAL" ELSE c.behavior
           r == Recorded(w, e, a)
<1>1. r = IF told = "NONE" THEN runtime
          ELSE [told |-> told, behavior |-> c.behavior, action |-> c.action,
                since |-> c.since, seen |-> LastSeen(w, of)]
  BY Zenon DEF Recorded
<1>2. told = "CLEARED" => of = "NORMAL" /\ told # "NONE"
  OBVIOUS
<1>3. told # "NONE" => c = b
  <2>1. CASE told = "CLEARED"
    <3>1. Clears(e, a)
      BY <2>1, TransitionIs
    <3> QED BY <2>1, <3>1, ActiveAfterIs
  <2>2. CASE told # "CLEARED" /\ told # "NONE"
    <3>1. ~Clears(e, a) /\ (Starts(e, a) \/ Turns(e, a) \/ ChangesAction(e, a))
      BY <2>2, TransitionIs
    <3>2. c = Transition(e, a)
      BY <2>2
    <3> HIDE DEF b, c, told
    <3> QED BY <3>1, <3>2, TransitionOfActive DEF b
  <2> QED BY <2>1, <2>2
<1> HIDE DEF told, b, c, of, r
<1> QED BY <1>1, <1>2, <1>3 DEF told, b, r

-----------------------------------------------------------------------------
(* A step preserves the invariant.                                         *)

Taken(f, d, t) == [frame |-> f, action |-> d.action,
                   confidence |-> d.confidence, at |-> t]

LEMMA TakenType ==
    ASSUME NEW f \in Frame, NEW d \in Detection, NEW t \in Time
    PROVE  Taken(f, d, t) \in Sample
  BY InputAssumption DEF Taken, Sample

LEMMA WindowKept ==
    ASSUME IInv
    PROVE  /\ samples \in Seq(Sample) /\ Len(samples) <= WindowSize
           /\ active \in {Idle} \cup Episode
  BY DEF IInv, CopiesAgree, TypeOK, Episode

\* What an observation leaves behind, in terms of the reading of its window.
LEMMA Observed ==
    ASSUME IInv, NEW f \in Frame, NEW d \in Detection, NEW t \in Time, Observe(f, d, t)
    PROVE  LET e == Evidence(samples')
           IN  /\ samples' \in Seq(Sample) /\ Len(samples') <= WindowSize
               /\ samples' = Appended(samples, Taken(f, d, t))
               /\ Reading(e)
               /\ active' = ActiveAfter(e, active) /\ active' \in {Idle} \cup Episode
               /\ runtime' = Recorded(samples', e, active)
               /\ opened' = (IF Starts(e, active) THEN e.summary.since ELSE opened)
<1>1. samples' = Appended(samples, Taken(f, d, t))
  BY DEF Observe, Taken
<1>2. samples' \in Seq(Sample) /\ Len(samples') <= WindowSize
  BY <1>1, WindowKept, TakenType, AppendedIs
<1>3. Reading(Evidence(samples'))
  BY <1>2, EvidenceReading
<1>4. /\ active' = ActiveAfter(Evidence(samples'), active)
      /\ runtime' = Recorded(samples', Evidence(samples'), active)
      /\ opened' = (IF Starts(Evidence(samples'), active)
                    THEN Evidence(samples').summary.since ELSE opened)
  BY DEF Observe
<1>5. active' \in {Idle} \cup Episode
  BY <1>3, <1>4, WindowKept, ReadingHeeded
<1> QED BY <1>1, <1>2, <1>3, <1>4, <1>5

LEMMA TypeKept ==
    ASSUME IInv, NEW f \in Frame, NEW d \in Detection, NEW t \in Time, Observe(f, d, t)
    PROVE  TypeOK'
<1> DEFINE e == Evidence(samples')
<1>1. samples' \in Seq(Sample) /\ Len(samples') <= WindowSize
  BY Observed
<1>2. frameIds' \subseteq Frame
  BY DEF Observe, IdsAfter, IInv, CopiesAgree, TypeOK
<1>3. active' \in {Idle} \cup Episode
  BY Observed
<1>4. runtime'.told \in {"NONE", "STARTED", "UPDATED", "CLEARED"}
  <2>1. /\ runtime' = Recorded(samples', e, active)
        /\ Reading(e) /\ active \in {Idle} \cup Episode
    BY Observed, WindowKept
  <2>2. runtime.told \in {"NONE", "STARTED", "UPDATED", "CLEARED"}
    BY DEF IInv, CopiesAgree, TypeOK
  <2> HIDE DEF e
  <2> QED BY <2>1, <2>2, RecordedIs, TransitionIs
<1>5. opened' \in Time \cup {None}
  <2>1. opened \in Time \cup {None}
    BY DEF IInv, CopiesAgree, TypeOK
  <2>2. opened' = (IF Starts(e, active) THEN e.summary.since ELSE opened) /\ Reading(e)
    BY Observed
  <2> HIDE DEF e
  <2> QED BY <2>1, <2>2 DEF Starts, Reading, Episode
<1>6. clock' \in Time /\ steppedBack' \in BOOLEAN
  BY DEF Observe, IInv, CopiesAgree, TypeOK
<1> QED BY <1>1, <1>2, <1>3, <1>4, <1>5, <1>6 DEF TypeOK, Episode

LEMMA MirrorKept ==
    ASSUME IInv, NEW f \in Frame, NEW d \in Detection, NEW t \in Time, Observe(f, d, t)
    PROVE  RuntimeMirrorsPolicy' /\ RuntimeFollows'
<1> DEFINE e == Evidence(samples')
           told == TransitionType(e, active)
           b == ActiveAfter(e, active)
<1>1. /\ runtime' = Recorded(samples', e, active) /\ active' = b
      /\ Reading(e) /\ active \in {Idle} \cup Episode /\ b \in {Idle} \cup Episode
  BY Observed, WindowKept
<1>2. /\ told = "NONE" => runtime' = runtime
      /\ told # "NONE" => /\ runtime'.told = told /\ runtime'.behavior = b.behavior
                          /\ runtime'.action = b.action /\ runtime'.since = b.since
  BY <1>1, RecordedIs
<1>3. /\ told = "CLEARED" <=> Clears(e, active)
      /\ told = "STARTED" <=> Starts(e, active)
      /\ told = "UPDATED" <=> AllowUpdate /\ (Turns(e, active) \/ ChangesAction(e, active))
  BY TransitionIs
<1>4. b = Idle <=> Clears(e, active) \/ (active = Idle /\ ~Starts(e, active))
  BY <1>1, ReadingHeeded
<1>5. told = "NONE" /\ AllowUpdate => b = active
  <2>1. told = "NONE" /\ AllowUpdate =>
          ~Clears(e, active) /\ ~Starts(e, active) /\ ~Turns(e, active) /\ ~ChangesAction(e, active)
    BY <1>3
  <2> HIDE DEF e, told
  <2> QED BY <2>1, ActiveAfterIs
<1>6. /\ b.behavior \in Abnormal \cup {None}
      /\ b.behavior = None <=> b = Idle
  BY <1>1, ConfigAssumption DEF Idle, Episode, Abnormal
<1> HIDE DEF e, told, b
<1>7. RuntimeMirrorsPolicy'
  BY <1>1, <1>2, <1>5 DEF RuntimeMirrorsPolicy, IInv, CopiesAgree
<1>8. RuntimeFollows'
  <2>1. CASE told = "NONE"
    <3>1. b = Idle <=> active = Idle
      BY <1>3, <1>4, <2>1 DEF Clears
    <3> QED BY <1>1, <1>2, <2>1, <3>1 DEF RuntimeFollows, IInv
  <2>2. CASE told # "NONE"
    BY <1>1, <1>2, <1>3, <1>4, <1>6, <2>2 DEF RuntimeFollows
  <2> QED BY <2>1, <2>2
<1> QED BY <1>7, <1>8

LEMMA HeededKept ==
    ASSUME IInv, NEW f \in Frame, NEW d \in Detection, NEW t \in Time, Observe(f, d, t)
    PROVE  Heeded'
<1> DEFINE e == Evidence(samples')
<1>1. Reading(e) /\ active' = ActiveAfter(e, active) /\ active \in {Idle} \cup Episode
  BY Observed, WindowKept
<1>2. ~Clears(e, active') /\ ~Starts(e, active') /\ ~Turns(e, active') /\ ~ChangesAction(e, active')
  <2> HIDE DEF e
  <2> QED BY <1>1, ReadingHeeded
<1>3. Evidence(samples)' = e
  OBVIOUS
<1> QED BY <1>2 DEF Heeded, Clears, Starts, Turns, ChangesAction

LEMMA DistinctKept ==
    ASSUME IInv, NEW f \in Frame, NEW d \in Detection, NEW t \in Time, Observe(f, d, t)
    PROVE  WindowOfDistinctFrames'
<1>1. /\ samples' = Appended(samples, Taken(f, d, t)) /\ Taken(f, d, t).frame = f
      /\ frameIds' = IdsAfter(samples, f) /\ f \notin frameIds
  BY Observed DEF Observe, Taken
<1>2. WindowOfDistinctFrames
  BY DEF IInv, CopiesAgree
<1> QED BY <1>1, <1>2, WindowKept, TakenType, DistinctAfter

\* The clock has not gone back: what is in the window came before, and what
\* came before the episode is still too little to end it.
LEMMA EarlierKept ==
    ASSUME IInv, NEW f \in Frame, NEW d \in Detection, NEW t \in Time, Observe(f, d, t),
           ~steppedBack'
    PROVE  /\ ~steppedBack /\ clock <= t
           /\ \A i \in DOMAIN samples' : samples'[i].at <= t
           /\ opened # None => opened \in Time /\ opened <= t
           /\ active # Idle =>
                 /\ opened \in Time
                 /\ Cardinality(NormalBefore(samples', opened)) < ClearHitCount
<1>1. ~steppedBack /\ ~(t < clock) /\ clock \in Time /\ opened \in Time \cup {None}
  BY DEF Observe, IInv, CopiesAgree, TypeOK
<1>2. clock \in Int /\ t \in Int /\ clock <= t /\ (opened # None => opened \in Int)
  BY <1>1, InputAssumption DEF Time
<1>3. /\ \A i \in DOMAIN samples : samples[i].at <= clock
      /\ opened # None => opened <= clock
      /\ active # Idle => /\ opened # None
                          /\ Cardinality(NormalBefore(samples, opened)) < ClearHitCount
  BY <1>1 DEF IInv, InTime
<1> DEFINE sample == Taken(f, d, t)
<1>4. /\ samples \in Seq(Sample) /\ Len(samples) <= WindowSize /\ sample \in Sample
      /\ samples' = Appended(samples, sample) /\ sample.at = t
  BY WindowKept, Observed, TakenType DEF Taken
<1> HIDE DEF sample
<1>5. opened # None => opened \in Time /\ opened <= t
  BY <1>1, <1>2, <1>3
<1>6. ASSUME NEW i \in DOMAIN samples' PROVE samples'[i].at <= t
  <2> DEFINE n == Len(samples')
             k == Dropped(samples)
  <2>1. /\ samples' \in Seq(Sample) /\ samples'[n] = sample
        /\ \A j \in 1..(n - 1) : samples'[j] = samples[j + k] /\ j + k \in DOMAIN samples
    BY <1>4, AppendedIs
  <2>2. n \in Nat /\ DOMAIN samples' = 1..n
    BY <2>1
  <2> HIDE DEF n, k
  <2>3. CASE i = n
    BY <1>2, <1>4, <2>1, <2>3
  <2>4. CASE i # n
    <3>1. i \in 1..(n - 1)
      BY <2>2, <2>4
    <3>2. samples'[i] = samples[i + k] /\ i + k \in DOMAIN samples
      BY <2>1, <3>1
    <3>3. samples[i + k].at \in Int /\ samples[i + k].at <= clock
      BY <1>3, <1>4, <3>2, Window, InputAssumption DEF Time
    <3> QED BY <1>2, <3>2, <3>3
  <2> QED BY <2>3, <2>4
<1>7. ASSUME active # Idle
      PROVE  /\ opened \in Time
             /\ Cardinality(NormalBefore(samples', opened)) < ClearHitCount
  <2>1. opened \in Time /\ opened <= sample.at
    BY <1>3, <1>4, <1>5, <1>7
  <2>2. /\ Cardinality(NormalBefore(samples', opened)) \in Nat
        /\ Cardinality(NormalBefore(samples, opened)) \in Nat
        /\ Cardinality(NormalBefore(samples', opened)) <= Cardinality(NormalBefore(samples, opened))
    BY <1>4, <2>1, FewerBefore
  <2> QED BY <1>3, <1>7, <2>1, <2>2, ConfigAssumption
<1> QED BY <1>1, <1>2, <1>5, <1>6, <1>7

LEMMA InTimeKept ==
    ASSUME IInv, NEW f \in Frame, NEW d \in Detection, NEW t \in Time, Observe(f, d, t)
    PROVE  InTime'
<1> SUFFICES ASSUME ~steppedBack'
             PROVE  /\ \A i \in DOMAIN samples' : samples'[i].at <= t
                    /\ opened' # None => opened' <= t
                    /\ active' # Idle =>
                         /\ opened' # None
                         /\ Cardinality(NormalBefore(samples', opened')) < ClearHitCount
  BY DEF Observe, InTime, NormalBefore, Hits, Eligible
<1> DEFINE e == Evidence(samples')
<1>1. /\ \A i \in DOMAIN samples' : samples'[i].at <= t
      /\ opened # None => opened \in Time /\ opened <= t
      /\ active # Idle => /\ opened \in Time
                          /\ Cardinality(NormalBefore(samples', opened)) < ClearHitCount
  BY EarlierKept
<1>2. /\ samples' \in Seq(Sample) /\ Len(samples') <= WindowSize
      /\ opened' = (IF Starts(e, active) THEN e.summary.since ELSE opened)
      /\ active' = ActiveAfter(e, active) /\ Reading(e) /\ active \in {Idle} \cup Episode
  BY Observed, WindowKept
<1>3. \A x \in Time : x # None
  BY ConfigAssumption, InputAssumption DEF Time
<1>4. CASE Starts(e, active)
  <2> DEFINE b == Dominant(samples')
  <2>1. e.starts
    BY <1>4 DEF Starts
  <2>2. MeetsStartThreshold(samples') /\ e.summary = Summary(samples') /\ Hits(samples', b) # {}
    BY <1>2, <2>1, EvidenceReading
  <2>3. opened' = FirstSeen(samples', b)
    BY <1>2, <1>4, <2>2 DEF Summary
  <2>4. PICK i \in Hits(samples', b) : opened' = samples'[i].at
    BY <1>2, <2>2, <2>3, Seen
  <2>5. opened' \in Time /\ opened' <= t
    <3>1. i \in DOMAIN samples'
      BY <1>2, <2>4, GroupsInWindow
    <3> QED BY <1>1, <1>2, <2>4, <3>1, Window
  <2>6. Cardinality(NormalBefore(samples', opened')) < ClearHitCount
    <3> DEFINE normal == Hits(samples', "NORMAL")
               before == NormalBefore(samples', opened')
    <3>1. Cardinality(normal) < ClearHitCount
      BY <1>2, <2>2, FewNormal
    <3>2. before \subseteq normal /\ IsFiniteSet(normal)
      <4>1. IsFiniteSet(DOMAIN samples') /\ normal \subseteq DOMAIN samples'
        BY <1>2, Window, GroupsInWindow
      <4>2. IsFiniteSet(normal)
        BY <4>1, FS_Subset
      <4> QED BY <4>2 DEF NormalBefore
    <3> HIDE DEF normal, before
    <3>3. /\ Cardinality(before) <= Cardinality(normal)
          /\ Cardinality(before) \in Nat /\ Cardinality(normal) \in Nat
      BY <3>2, FS_Subset, FS_CardinalityType
    <3>4. Cardinality(before) < ClearHitCount
      BY <3>1, <3>3, ConfigAssumption
    <3> QED BY <3>4 DEF before
  <2> QED BY <1>1, <1>3, <2>5, <2>6
<1>5. CASE ~Starts(e, active)
  <2>1. opened' = opened
    BY <1>2, <1>5
  <2>2. active' # Idle => active # Idle
    <3> HIDE DEF e
    <3> QED BY <1>2, <1>5, ReadingHeeded
  <2> QED BY <1>1, <1>3, <2>1, <2>2
<1> QED BY <1>4, <1>5

\* A window without samples says nothing.
LEMMA NothingSeen == ~Evidence(<<>>).clears /\ ~Evidence(<<>>).starts
<1>1. \A b : Hits(<<>>, b) = {}
  BY DEF Hits, Eligible
<1>2. SeenIn(<<>>) = {}
  BY <1>1 DEF SeenIn
<1>3. Cardinality(Hits(<<>>, "NORMAL")) = 0
  BY <1>1, FS_EmptySet
<1>4. ~MeetsClearThreshold(<<>>)
  BY <1>3, ConfigAssumption DEF MeetsClearThreshold, Reaches
<1>5. ~MeetsStartThreshold(<<>>)
  BY <1>2 DEF MeetsStartThreshold
<1> QED BY <1>4, <1>5 DEF Evidence

\* The window of a new connection satisfies the invariant.
LEMMA InitIInv == Init => IInv
<1> SUFFICES ASSUME Init PROVE IInv
  OBVIOUS
<1>1. /\ samples = <<>> /\ frameIds = {} /\ active = Idle /\ runtime = NoTransition
      /\ clock = 0 /\ opened = None /\ steppedBack = FALSE
  BY DEF Init
<1>2. TypeOK
  <2>1. <<>> \in Seq(Sample) /\ Len(<<>>) <= WindowSize
    BY ConfigAssumption
  <2>2. clock \in Time
    BY <1>1, InputAssumption DEF Time
  <2> QED BY <1>1, <2>1, <2>2 DEF TypeOK, NoTransition
<1>3. WindowOfDistinctFrames
  BY <1>1 DEF WindowOfDistinctFrames
<1>4. RuntimeMirrorsPolicy /\ RuntimeFollows
  BY <1>1 DEF RuntimeMirrorsPolicy, RuntimeFollows, NoTransition, Idle
<1>5. Heeded
  BY <1>1, NothingSeen DEF Heeded, Clears, Starts, Turns, ChangesAction
<1>6. InTime
  BY <1>1 DEF InTime
<1> QED BY <1>2, <1>3, <1>4, <1>5, <1>6 DEF IInv, CopiesAgree

\* An observation, a duplicate and a new connection preserve the invariant.
LEMMA NextIInv == IInv /\ [Next]_vars => IInv'
<1> SUFFICES ASSUME IInv, [Next]_vars PROVE IInv'
  OBVIOUS
<1>1. CASE UNCHANGED vars
  BY <1>1 DEF vars, IInv, CopiesAgree, TypeOK, WindowOfDistinctFrames, RuntimeMirrorsPolicy,
              Heeded, RuntimeFollows, InTime
<1>2. ASSUME NEW f \in Frame, Duplicate(f) PROVE IInv'
  <2>1. UNCHANGED vars
    BY <1>2 DEF Duplicate
  <2> QED BY <1>1, <2>1
<1>3. ASSUME NEW f \in Frame, NEW d \in Detection, NEW t \in Time, Observe(f, d, t)
      PROVE  IInv'
  BY <1>3, TypeKept, DistinctKept, MirrorKept, HeededKept, InTimeKept DEF IInv, CopiesAgree
<1>4. ASSUME Reset PROVE IInv'
  <2>1. /\ samples' = <<>> /\ frameIds' = {} /\ active' = Idle /\ runtime' = NoTransition
        /\ clock' = 0 /\ opened' = None /\ steppedBack' = FALSE
    BY <1>4 DEF Reset
  <2>2. TypeOK'
    <3>1. <<>> \in Seq(Sample) /\ Len(<<>>) <= WindowSize
      BY ConfigAssumption
    <3>2. clock' \in Time
      BY <2>1, InputAssumption DEF Time
    <3> QED BY <2>1, <3>1, <3>2 DEF TypeOK, NoTransition
  <2>3. WindowOfDistinctFrames'
    BY <2>1 DEF WindowOfDistinctFrames
  <2>4. RuntimeMirrorsPolicy' /\ RuntimeFollows'
    BY <2>1 DEF RuntimeMirrorsPolicy, RuntimeFollows, NoTransition, Idle
  <2>5. Heeded'
    BY <2>1, NothingSeen DEF Heeded, Clears, Starts, Turns, ChangesAction
  <2>6. InTime'
    BY <2>1 DEF InTime
  <2> QED BY <2>2, <2>3, <2>4, <2>5, <2>6 DEF IInv, CopiesAgree
<1> QED BY <1>1, <1>2, <1>3, <1>4 DEF Next

\* The inductive invariant of the policy and of the runtime that hands it its
\* detections: types, distinct frames, an answered window, and a copy that
\* follows (SlidingWindowBehaviorPolicy.observe, observe_behavior_result).
THEOREM Invariance == Spec => []IInv
  BY InitIInv, NextIInv, PTL DEF Spec

\* The window, the frame ids beside it, the policy's active behaviour and the
\* runtime's copy of it always agree (observe and _append_sample of the policy,
\* _record_behavior_transition_locked of the runtime).
THEOREM CopiesAlwaysAgree == Spec => []CopiesAgree
<1>1. IInv => CopiesAgree
  BY DEF IInv
<1> QED BY <1>1, Invariance, PTL

-----------------------------------------------------------------------------
(* What is active is what the window shows.                                *)

LEMMA SettledHolds == ASSUME IInv PROVE Settled
<1> DEFINE e == Evidence(samples)
<1>1. ~Clears(e, active) /\ ~Starts(e, active) /\ ~Turns(e, active) /\ ~ChangesAction(e, active)
  BY DEF IInv, Heeded
<1> HIDE DEF e
<1>2. TransitionType(e, active) = "NONE"
  BY <1>1, TransitionIs
<1> QED BY <1>2 DEF Settled, e

LEMMA FullReaches ==
    ASSUME NEW w, NEW b, NEW count \in 1..WindowSize, NEW percent \in 0..100,
           Hits(w, b) = Eligible(w), Cardinality(Hits(w, b)) = WindowSize
    PROVE  Reaches(w, b, count, percent)
<1> DEFINE n == Cardinality(Hits(w, b))
<1>1. n \in Nat /\ n >= count
  BY ConfigAssumption
<1> HIDE DEF n
<1>2. 100 * n >= percent * n
  <2>1. (100 - percent) * n \in Nat
    <3>1. 100 - percent \in Nat
      OBVIOUS
    <3> QED BY <1>1, <3>1
  <2>2. (100 - percent) * n = 100 * n - percent * n
    BY <1>1
  <2> QED BY <1>1, <2>1, <2>2
<1> QED BY <1>1, <1>2 DEF Reaches, n

LEMMA AgreementHolds == ASSUME IInv PROVE AgreementIsHeeded
<1> SUFFICES ASSUME NEW b \in Behavior, Cardinality(Hits(samples, b)) = WindowSize
             PROVE  active.behavior = (IF b = "NORMAL" THEN None ELSE b)
  <2>1. \A b \in Behavior :
          {i \in DOMAIN samples : /\ BehaviorOf(samples[i].action) = b
                                  /\ samples[i].confidence >= MinConfidence}
            = Hits(samples, b)
    BY DEF Hits, Eligible
  <2> QED BY <2>1 DEF AgreementIsHeeded
<1> DEFINE w == samples
           e == Evidence(w)
<1>1. w \in Seq(Sample) /\ Len(w) <= WindowSize
  BY WindowKept
<1>2. ~Clears(e, active) /\ ~Starts(e, active) /\ ~Turns(e, active)
  BY DEF IInv, Heeded
<1>3. Hits(w, b) = DOMAIN w /\ Eligible(w) = DOMAIN w
  <2>1. /\ IsFiniteSet(DOMAIN w) /\ Cardinality(DOMAIN w) = Len(w) /\ Len(w) \in Nat
        /\ Hits(w, b) \subseteq Eligible(w) /\ Eligible(w) \subseteq DOMAIN w
    BY <1>1, Window, GroupsInWindow
  <2>2. Hits(w, b) \subseteq DOMAIN w
    BY <2>1
  <2>3. Cardinality(Hits(w, b)) <= Cardinality(DOMAIN w)
    BY <2>1, <2>2, FS_Subset
  <2>4. Cardinality(Hits(w, b)) = Cardinality(DOMAIN w)
    BY <1>1, <2>1, <2>3, ConfigAssumption
  <2>5. Hits(w, b) = DOMAIN w
    BY <2>1, <2>2, <2>4, FS_Subset
  <2> QED BY <2>1, <2>5
<1>4. Reaches(w, b, ClearHitCount, ClearHitPercent) /\ Reaches(w, b, MinHitCount, MinHitPercent)
  <2>1. /\ ClearHitCount \in 1..WindowSize /\ ClearHitPercent \in 0..100
        /\ MinHitCount \in 1..WindowSize /\ MinHitPercent \in 0..100
    BY ConfigAssumption
  <2> QED BY <1>3, <2>1, FullReaches
<1>5. /\ e.clears = MeetsClearThreshold(w) /\ e.starts = MeetsStartThreshold(w)
      /\ e.starts => e.summary = Summary(w)
  BY <1>1, EvidenceReading
<1>6. CASE b = "NORMAL"
  <2>1. e.clears
    BY <1>4, <1>5, <1>6 DEF MeetsClearThreshold
  <2>2. active = Idle
    BY <1>2, <2>1 DEF Clears
  <2> QED BY <1>6, <2>2 DEF Idle
<1>7. CASE b # "NORMAL"
  <2>1. Hits(w, b) # {}
    BY FS_EmptySet, ConfigAssumption
  <2>2. \A c \in Abnormal : c # b => Hits(w, c) = {}
    <3>1. \A c : c # b => Hits(w, c) \subseteq Hits(w, b) /\ Hits(w, c) \cap Hits(w, b) = {}
      BY <1>1, <1>3, GroupsInWindow
    <3> QED BY <3>1
  <2>3. SeenIn(w) = {b}
    BY <1>7, <2>1, <2>2 DEF SeenIn, Abnormal
  <2>4. Dominant(w) = b
    BY <1>1, <2>3, DominantSeen
  <2>5. e.starts /\ e.summary.behavior = b
    BY <1>4, <1>5, <2>3, <2>4 DEF MeetsStartThreshold, Summary
  <2> HIDE DEF e
  <2> QED BY <1>2, <1>7, <2>5 DEF Starts, Turns
<1> QED BY <1>6, <1>7

\* A window has one reading, which has been acted on, and a full window that
\* agrees on a behaviour has it active (observe of the policy).
THEOREM WindowAlwaysDecides == Spec => []WindowDecides
<1>1. IInv => WindowDecides
  BY SettledHolds, AgreementHolds DEF WindowDecides
<1> QED BY <1>1, Invariance, PTL

-----------------------------------------------------------------------------
(* The reaction to what is active.                                         *)

LEMMA Clamped ==
    ASSUME NEW m \in Int, NEW n \in Int
    PROVE  /\ Clamp(1, n, 3) \in 1..3
           /\ m <= n => Clamp(1, m, 3) <= Clamp(1, n, 3)
           /\ m \in 1..3 => Clamp(1, m, 3) = m
           /\ m \in 1..3 /\ m <= n => m <= Clamp(1, n, 3)
  BY DEF Clamp

LEMMA Boosts ==
    ASSUME NEW p \in BOOLEAN, NEW q \in BOOLEAN
    PROVE  Boost(p) \in 0..1 /\ (p => q) => Boost(p) <= Boost(q)
  BY DEF Boost

\* A driver who is faster is as much in motion.
LEMMA FasterIsMoving ==
    ASSUME NEW s1 \in Int, NEW s2 \in Int, s1 <= s2, NEW accuracy,
           DrivingState(s1, accuracy, "ACTIVE") = "MOVING"
    PROVE  DrivingState(s2, accuracy, "ACTIVE") = "MOVING"
  BY PolicyAssumption DEF DrivingState

LEMMA RiskInRange ==
    ASSUME NEW behavior, NEW c \in Int, NEW driving, NEW s \in Int, NEW r \in Int
    PROVE  RiskLevel(behavior, c, driving, s, r) \in 1..3
<1> DEFINE b1 == Boost(behavior \in HighRisk)
           b2 == Boost(driving = "MOVING")
           b3 == Boost(s # Unset /\ s >= 60)
           b4 == Boost(c >= 8500)
           b5 == Boost(r >= 2)
           b6 == Boost(driving = "PARKED")
<1>1. /\ b1 \in 0..1 /\ b2 \in 0..1 /\ b3 \in 0..1 /\ b4 \in 0..1 /\ b5 \in 0..1 /\ b6 \in 0..1
  BY DEF Boost
<1>2. RiskLevel(behavior, c, driving, s, r) = Clamp(1, 1 + b1 + b2 + b3 + b4 + b5 - b6, 3)
  BY DEF RiskLevel
<1> HIDE DEF b1, b2, b3, b4, b5, b6
<1>3. 1 + b1 + b2 + b3 + b4 + b5 - b6 \in Int
  BY <1>1
<1> QED BY <1>2, <1>3, Clamped

LEMMA RiskRises ==
    ASSUME NEW behavior, NEW accuracy,
           NEW s1 \in Int, NEW s2 \in Int, s1 <= s2,
           NEW c1 \in Int, NEW c2 \in Int, c1 <= c2,
           NEW r1 \in Int, NEW r2 \in Int, r1 <= r2
    PROVE  RiskLevel(behavior, c1, DrivingState(s1, accuracy, "ACTIVE"), s1, r1)
             <= RiskLevel(behavior, c2, DrivingState(s2, accuracy, "ACTIVE"), s2, r2)
<1> DEFINE driving1 == DrivingState(s1, accuracy, "ACTIVE")
           driving2 == DrivingState(s2, accuracy, "ACTIVE")
<1>1. /\ driving1 # "PARKED" /\ driving2 # "PARKED"
      /\ driving1 = "MOVING" => driving2 = "MOVING"
  BY FasterIsMoving DEF DrivingState
<1> HIDE DEF driving1, driving2
<1> DEFINE base == Boost(behavior \in HighRisk)
           moving1 == Boost(driving1 = "MOVING")
           moving2 == Boost(driving2 = "MOVING")
           fast1 == Boost(s1 # Unset /\ s1 >= 60)
           fast2 == Boost(s2 # Unset /\ s2 >= 60)
           sure1 == Boost(c1 >= 8500)
           sure2 == Boost(c2 >= 8500)
           again1 == Boost(r1 >= 2)
           again2 == Boost(r2 >= 2)
           parked1 == Boost(driving1 = "PARKED")
           parked2 == Boost(driving2 = "PARKED")
           points1 == 1 + base + moving1 + fast1 + sure1 + again1 - parked1
           points2 == 1 + base + moving2 + fast2 + sure2 + again2 - parked2
<1>2. RiskLevel(behavior, c1, driving1, s1, r1) = Clamp(1, points1, 3)
  BY DEF RiskLevel
<1>3. RiskLevel(behavior, c2, driving2, s2, r2) = Clamp(1, points2, 3)
  BY DEF RiskLevel
<1>4. /\ base \in 0..1 /\ moving1 \in 0..1 /\ moving2 \in 0..1 /\ moving1 <= moving2
      /\ parked1 = 0 /\ parked2 = 0
  BY <1>1 DEF Boost
<1>5. /\ fast1 \in 0..1 /\ fast2 \in 0..1 /\ fast1 <= fast2
      /\ sure1 \in 0..1 /\ sure2 \in 0..1 /\ sure1 <= sure2
      /\ again1 \in 0..1 /\ again2 \in 0..1 /\ again1 <= again2
  BY PolicyAssumption DEF Boost
<1> HIDE DEF base, moving1, moving2, fast1, fast2, sure1, sure2, again1, again2,
             parked1, parked2
<1>6. points1 \in Int /\ points2 \in Int /\ points1 <= points2
  BY <1>4, <1>5
<1> HIDE DEF points1, points2
<1>7. Clamp(1, points1, 3) <= Clamp(1, points2, 3)
  BY <1>6, Clamped
<1> QED BY <1>2, <1>3, <1>7 DEF driving1, driving2

LEMMA Interventions ==
    ASSUME NEW k1 \in 1..3, NEW k2 \in 1..3, NEW n1 \in Int, NEW n2 \in Int,
           NEW high \in BOOLEAN, NEW c \in Int
    PROVE  LET level1 == InterventionLevel(k1, n1, 1, high, c)
               level2 == InterventionLevel(k2, n2, 1, high, c)
           IN  /\ level1 \in 1..3 /\ level2 \in 1..3 /\ level1 >= k1
               /\ k1 <= k2 /\ n1 <= n2 => level1 <= level2
<1> DEFINE asked(n) == Boost(n >= 9)
           rest == Boost(1 >= 2) + Boost(high) + Boost(c >= 8500)
           Points(k, n) == k + asked(n) + rest
<1>1. asked(n1) \in 0..1 /\ asked(n2) \in 0..1 /\ (n1 <= n2 => asked(n1) <= asked(n2))
  BY DEF Boost
<1>2. rest \in Nat
  BY DEF Boost
<1>3. \A k \in 1..3, n \in Int : InterventionLevel(k, n, 1, high, c)
                          = Clamp(1, k + asked(n) + Boost(1 >= 2) + Boost(high)
                                       + Boost(c >= 8500), 3)
  BY Clamped DEF InterventionLevel
<1>4. Boost(1 >= 2) \in Int /\ Boost(high) \in Int /\ Boost(c >= 8500) \in Int
  BY DEF Boost
<1>5. /\ InterventionLevel(k1, n1, 1, high, c) = Clamp(1, Points(k1, n1), 3)
      /\ InterventionLevel(k2, n2, 1, high, c) = Clamp(1, Points(k2, n2), 3)
  <2> DEFINE x == Boost(1 >= 2)
             y == Boost(high)
             z == Boost(c >= 8500)
  <2>1. rest = x + y + z /\ x \in Int /\ y \in Int /\ z \in Int
    BY <1>4
  <2>2. \A k \in 1..3, n \in Int :
           InterventionLevel(k, n, 1, high, c) = Clamp(1, k + asked(n) + x + y + z, 3)
    BY <1>3
  <2> HIDE DEF x, y, z, rest, asked
  <2>3. /\ k1 + asked(n1) + x + y + z = Points(k1, n1)
        /\ k2 + asked(n2) + x + y + z = Points(k2, n2)
    BY <1>1, <2>1
  <2> HIDE DEF Points
  <2> QED BY <2>2, <2>3
<1> HIDE DEF asked, rest
<1>6. /\ Points(k1, n1) \in Int /\ Points(k2, n2) \in Int
      /\ k1 <= Points(k1, n1)
      /\ k1 <= k2 /\ n1 <= n2 => Points(k1, n1) <= Points(k2, n2)
  BY <1>1, <1>2
<1> HIDE DEF Points
<1>7. /\ Clamp(1, Points(k1, n1), 3) \in 1..3 /\ Clamp(1, Points(k2, n2), 3) \in 1..3
      /\ k1 <= Clamp(1, Points(k1, n1), 3)
      /\ Points(k1, n1) <= Points(k2, n2)
           => Clamp(1, Points(k1, n1), 3) <= Clamp(1, Points(k2, n2), 3)
  BY <1>6, Clamped
<1> QED BY <1>5, <1>6, <1>7

\* The stronger an intervention, the sooner the next look.
LEMMA SoonerWhenStronger ==
    ASSUME NEW k \in 1..3, NEW l \in 1..3, k <= l
    PROVE  NextCheckAfterMs(k) >= NextCheckAfterMs(l)
<1>1. /\ NextCheckAfterMs(1) = 5000 /\ NextCheckAfterMs(2) = 3500
      /\ NextCheckAfterMs(3) = 2000
  BY DEF NextCheckAfterMs
<1>2. (k = 1 \/ k = 2 \/ k = 3) /\ (l = 1 \/ l = 2 \/ l = 3)
  OBVIOUS
<1> QED BY <1>1, <1>2

LEMMA MonotoneHolds == ASSUME IInv PROVE ReactionIsMonotone
<1> USE DEF IInv, CopiesAgree
<1>1. \A i \in DOMAIN samples : samples[i].confidence \in Int
  BY WindowKept, Window, ConfidenceRange
<1>2. RiskIsMonotone
  <2> SUFFICES ASSUME NEW accuracy \in {Unset, MaxAccuracy + 1},
                      NEW r1 \in 1..2, NEW r2 \in 1..2,
                      NEW s1 \in {0, MovingSpeed, 60}, NEW s2 \in {0, MovingSpeed, 60},
                      NEW c1 \in {samples[i].confidence : i \in DOMAIN samples},
                      NEW c2 \in {samples[i].confidence : i \in DOMAIN samples}
               PROVE  LET Risk(s, c, r) ==
                            RiskLevel(active.behavior, c,
                                      DrivingState(s, accuracy, "ACTIVE"), s, r)
                      IN  /\ RiskLevel(active.behavior, c1, "PARKED", s1, r1) \in 1..3
                          /\ Risk(s1, c1, r1) \in 1..3
                          /\ s1 <= s2 /\ c1 <= c2 /\ r1 <= r2
                               => Risk(s1, c1, r1) <= Risk(s2, c2, r2)
    BY Zenon DEF RiskIsMonotone
  <2>1. /\ s1 \in Int /\ s2 \in Int /\ r1 \in Int /\ r2 \in Int /\ c1 \in Int /\ c2 \in Int
    BY <1>1, PolicyAssumption
  <2> QED BY <2>1, RiskInRange, RiskRises
<1>3. InterventionFollowsRisk
  <2> SUFFICES ASSUME NEW i \in DOMAIN samples, NEW k1 \in 1..3, NEW k2 \in 1..3,
                      NEW n1 \in 8..9, NEW n2 \in 8..9, NEW high \in BOOLEAN
               PROVE  LET Level(k, n) ==
                            InterventionLevel(k, n, 1, high, samples[i].confidence)
                      IN  /\ Level(k1, n1) >= k1
                          /\ k1 <= k2 /\ n1 <= n2 =>
                               /\ Level(k1, n1) <= Level(k2, n2)
                               /\ NextCheckAfterMs(Level(k1, n1))
                                    >= NextCheckAfterMs(Level(k2, n2))
    BY Zenon DEF InterventionFollowsRisk
  <2> DEFINE level1 == InterventionLevel(k1, n1, 1, high, samples[i].confidence)
             level2 == InterventionLevel(k2, n2, 1, high, samples[i].confidence)
  <2>1. /\ level1 \in 1..3 /\ level2 \in 1..3 /\ level1 >= k1
        /\ k1 <= k2 /\ n1 <= n2 => level1 <= level2
    <3>1. samples[i].confidence \in Int /\ n1 \in Int /\ n2 \in Int
      BY <1>1
    <3> QED BY <3>1, Interventions
  <2>2. level1 <= level2 => NextCheckAfterMs(level1) >= NextCheckAfterMs(level2)
    BY <2>1, SoonerWhenStronger
  <2> QED BY <2>1, <2>2
<1> QED BY <1>2, <1>3 DEF ReactionIsMonotone

\* The risk of what is active and the intervention that follows never fall
\* when the danger rises (calculate_behavior_risk_level and
\* plan_intervention_for_behavior).
THEOREM ReactionAlwaysMonotone == Spec => []ReactionIsMonotone
  BY MonotoneHolds, Invariance, PTL

-----------------------------------------------------------------------------
(* Episodes.                                                               *)

\* The hits that end an episode are not all from before it began.
LEMMA EndObserved ==
    ASSUME IInv, NEW f \in Frame, NEW d \in Detection, NEW t \in Time, Observe(f, d, t),
           runtime'.told = "CLEARED", active # active', ~steppedBack'
    PROVE  runtime'.seen >= opened
<1> DEFINE e == Evidence(samples')
           w == samples'
           hits == Hits(w, "NORMAL")
           before == NormalBefore(w, opened)
<1>1. /\ w \in Seq(Sample) /\ Len(w) <= WindowSize
      /\ active' = ActiveAfter(e, active) /\ runtime' = Recorded(w, e, active)
      /\ Reading(e) /\ active \in {Idle} \cup Episode
  BY Observed, WindowKept
<1>2. Clears(e, active)
  <2> DEFINE told == TransitionType(e, active)
  <2>1. /\ told = "NONE" => runtime' = runtime
        /\ told # "NONE" => runtime'.told = told
        /\ told = "CLEARED" <=> Clears(e, active)
        /\ told = "STARTED" <=> Starts(e, active)
    BY <1>1, RecordedIs, TransitionIs
  <2> HIDE DEF e, told
  <2>2. CASE told = "NONE"
    <3>1. active = Idle
      BY <2>1, <2>2 DEF IInv, RuntimeFollows
    <3>2. ~Starts(e, active) /\ ~Turns(e, active) /\ ~ChangesAction(e, active)
      BY <2>1, <2>2, <3>1 DEF Turns, ChangesAction
    <3> QED BY <1>1, <3>2, ActiveAfterIs
  <2>3. CASE told # "NONE"
    BY <2>1, <2>3
  <2> QED BY <2>2, <2>3
<1>3. runtime'.seen = LastSeen(w, "NORMAL")
  <2>1. TransitionType(e, active) = "CLEARED"
    BY <1>2, TransitionIs
  <2> QED BY <1>1, <2>1, RecordedIs
<1>4. opened \in Time /\ Cardinality(before) < ClearHitCount
  <2>1. active # Idle
    BY <1>2 DEF Clears
  <2> QED BY <2>1, EarlierKept
<1>5. Cardinality(hits) >= ClearHitCount
  BY <1>2 DEF Clears, Evidence, MeetsClearThreshold, Reaches
<1>6. before \subseteq hits /\ IsFiniteSet(hits) /\ hits \subseteq DOMAIN w
  <2>1. IsFiniteSet(DOMAIN w) /\ hits \subseteq DOMAIN w
    BY <1>1, Window, GroupsInWindow
  <2>2. IsFiniteSet(hits)
    BY <2>1, FS_Subset
  <2> QED BY <2>1, <2>2 DEF NormalBefore
<1>7. hits # before
  <2>1. Cardinality(hits) \in Nat
    BY <1>6, FS_CardinalityType
  <2> HIDE DEF hits, before
  <2> QED BY <1>4, <1>5, <2>1, ConfigAssumption
<1>8. PICK i \in hits : ~(w[i].at < opened)
  BY <1>6, <1>7 DEF NormalBefore
<1>9. LastSeen(w, "NORMAL") \in Time /\ w[i].at \in Time /\ w[i].at <= LastSeen(w, "NORMAL")
  BY <1>1, <1>6, <1>8, Seen, Window
<1>10. \A x \in Time : x \in Int
  BY InputAssumption DEF Time
<1> HIDE DEF w
<1> QED BY <1>3, <1>4, <1>8, <1>9, <1>10

\* While the client's clock does not go back an episode ends no earlier than it
\* began (ended_at of the transition against started_at).
THEOREM EpisodesEndAfterStart == Spec => EndsAfterStart
<1>1. ASSUME IInv, [Next]_vars
      PROVE  [runtime'.told = "CLEARED" /\ active # active' /\ ~steppedBack' =>
                runtime'.seen >= opened]_vars
  <2>1. CASE UNCHANGED vars
    BY <2>1
  <2>2. ASSUME NEW f \in Frame, Duplicate(f) PROVE UNCHANGED vars
    BY <2>2 DEF Duplicate
  <2>3. ASSUME NEW f \in Frame, NEW d \in Detection, NEW t \in Time, Observe(f, d, t)
        PROVE  runtime'.told = "CLEARED" /\ active # active' /\ ~steppedBack' =>
                 runtime'.seen >= opened
    BY <1>1, <2>3, EndObserved
  <2>4. CASE Reset
    BY <2>4 DEF Reset, NoTransition
  <2> QED BY <1>1, <2>1, <2>2, <2>3, <2>4 DEF Next
<1> QED BY <1>1, Invariance, PTL DEF Spec, EndsAfterStart

LEMMA ObservingTells ==
    ASSUME IInv, NEW f \in Frame, NEW d \in Detection, NEW t \in Time, Observe(f, d, t)
    PROVE  Episodes!Next \/ UNCHANGED <<runtime.behavior, runtime.told>>
<1> DEFINE e == Evidence(samples')
           told == TransitionType(e, active)
           b == ActiveAfter(e, active)
<1>1. /\ runtime' = Recorded(samples', e, active) /\ active' = b /\ Reading(e)
      /\ active \in {Idle} \cup Episode
  BY Observed, WindowKept
<1>2. /\ told = "NONE" => runtime' = runtime
      /\ told # "NONE" => runtime'.told = told /\ runtime'.behavior = b.behavior
      /\ told \in {"NONE", "STARTED", "UPDATED", "CLEARED"}
      /\ told = "CLEARED" <=> Clears(e, active)
      /\ told = "STARTED" <=> Starts(e, active)
      /\ told = "UPDATED" <=> AllowUpdate /\ (Turns(e, active) \/ ChangesAction(e, active))
  BY RecordedIs, TransitionIs, <1>1
<1>3. /\ b = Idle <=> Clears(e, active) \/ (active = Idle /\ ~Starts(e, active))
      /\ b \in {Idle} \cup Episode
  BY <1>1, ReadingHeeded
<1>4. runtime.behavior = None <=> active = Idle
  BY DEF IInv, RuntimeFollows
<1>5. (b # Idle => b.behavior \in Abnormal) /\ (b = Idle => b.behavior = None)
  BY <1>3 DEF Episode, Idle
<1> HIDE DEF e, told, b
<1>6. CASE told = "NONE"
  BY <1>2, <1>6
<1>7. CASE told = "STARTED"
  <2>1. active = Idle /\ b # Idle
    BY <1>2, <1>3, <1>7 DEF Starts, Clears
  <2> QED BY <1>2, <1>4, <1>5, <1>7, <2>1 DEF Episodes!Next, Episodes!Start
<1>8. CASE told = "UPDATED"
  <2>1. active # Idle /\ b # Idle
    BY <1>2, <1>3, <1>8 DEF Turns, ChangesAction, Clears
  <2> QED BY <1>2, <1>4, <1>5, <1>8, <2>1 DEF Episodes!Next, Episodes!Turn
<1>9. CASE told = "CLEARED"
  <2>1. active # Idle /\ b = Idle
    BY <1>2, <1>3, <1>9 DEF Clears
  <2> QED BY <1>2, <1>4, <1>5, <1>9, <2>1 DEF Episodes!Next, Episodes!Clear
<1> QED BY <1>2, <1>6, <1>7, <1>8, <1>9

\* Every step of the window is a step, or a stutter, of BehaviorEpisodes:
\* episodes start, turn and clear one after the other (observe of the policy).
THEOREM ImplementsEpisodes == Spec => EpisodesSpec
<1>1. Init => Episodes!Init
  BY DEF Init, Episodes!Init, NoTransition
<1>2. ASSUME IInv, [Next]_vars
      PROVE  [Episodes!Next]_<<runtime.behavior, runtime.told>>
  <2>1. CASE UNCHANGED vars
    BY <2>1 DEF vars
  <2>2. ASSUME NEW f \in Frame, Duplicate(f)
        PROVE  UNCHANGED <<runtime.behavior, runtime.told>>
    BY <2>2 DEF Duplicate, vars
  <2>3. CASE Reset
    BY <2>3 DEF Reset, NoTransition, Episodes!Next, Episodes!Forget
  <2> QED BY <1>2, <2>1, <2>2, <2>3, ObservingTells DEF Next
<1> QED BY <1>1, <1>2, Invariance, PTL DEF Spec, EpisodesSpec, Episodes!Spec

=============================================================================

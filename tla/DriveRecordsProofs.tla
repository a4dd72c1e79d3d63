--------------------------- MODULE DriveRecordsProofs ---------------------------
(***************************************************************************)
(* Proofs about what is stored of a drive and what is read of it, for any  *)
(* number of connections, requests, updates and rows.                      *)
(*                                                                         *)
(* RowSets: sums and orders of rows, by induction over finite sets.        *)
(* LocationUpdates: whoever writes holds the session's row; what is stored *)
(* apart follows from the order in which one runtime decides, although the *)
(* commits may come in another.  DrivingReports: a date leads back to its  *)
(* year, month and day, so that a period and the one before it meet; what  *)
(* is answered was read of one snapshot, so that its figures agree.        *)
(***************************************************************************)
EXTENDS LocationUpdates, DrivingReports, FiniteSetTheorems, FunctionTheorems,
        SequenceTheorems, WellFoundedInduction, TLAPS

-----------------------------------------------------------------------------
(* Induction.                                                              *)

\* Of the subsets of a finite set some are smallest.
LEMMA SmallestSubset ==
    ASSUME NEW S, IsFiniteSet(S), NEW C \in SUBSET (SUBSET S), C # {}
    PROVE  \E T \in C : \A U \in C : U \subseteq T => U = T
<1>1. IsWellFoundedOn(StrictSubsetOrdering(S), SUBSET S)
  BY FS_StrictSubsetOrderingWellFounded, FS_FiniteSubsetsOfFinite
<1>2. \E T \in C : \A U \in C : <<U, T>> \notin StrictSubsetOrdering(S)
  BY <1>1, WFMin
<1>3. PICK T \in C : \A U \in C : <<U, T>> \notin StrictSubsetOrdering(S)
  BY <1>2
<1>4. ASSUME NEW U \in C, U \subseteq T PROVE U = T
  BY <1>3, <1>4 DEF StrictSubsetOrdering
<1> QED BY <1>4

\* What holds of the empty set and goes on holding when an element is added
\* holds of a finite set.
LEMMA SetInduction ==
    ASSUME NEW S, IsFiniteSet(S), NEW C, {} \in C,
           \A T \in SUBSET S : \A x \in T : T \ {x} \in C => T \in C
    PROVE  S \in C
<1> SUFFICES ASSUME S \notin C PROVE FALSE
  OBVIOUS
<1> DEFINE F == {T \in SUBSET S : T \notin C}
<1>1. PICK T \in F : \A U \in F : U \subseteq T => U = T
  <2>1. F \in SUBSET (SUBSET S) /\ F # {}
    OBVIOUS
  <2> HIDE DEF F
  <2> QED BY <2>1, SmallestSubset
<1>2. T # {}
  OBVIOUS
<1>3. PICK x \in T : TRUE
  BY <1>2
<1>4. T \ {x} \in SUBSET S /\ T \ {x} # T
  BY <1>3
<1>5. T \ {x} \in C
  BY <1>1, <1>4
<1> QED BY <1>1, <1>5

LEMMA LeastNumber ==
    ASSUME NEW C \in SUBSET Nat, C # {}
    PROVE  \E n \in C : \A m \in C : n <= m
<1>1. PICK c \in C : TRUE
  OBVIOUS
<1> DEFINE F == {0..k : k \in {n \in C : n <= c}}
           I == 0..c
<1>2. IsFiniteSet(I)
  BY FS_Interval
<1>3. F \in SUBSET (SUBSET I) /\ F # {}
  <2>1. 0..c \in F
    BY <1>1
  <2> QED BY <2>1
<1>4. PICK T \in F : \A U \in F : U \subseteq T => U = T
  <2> HIDE DEF F, I
  <2> QED BY <1>2, <1>3, SmallestSubset
<1>5. PICK n \in C : n <= c /\ T = 0..n
  OBVIOUS
<1>6. ASSUME NEW m \in C, m < n PROVE FALSE
  <2>1. 0..m \in F
    BY <1>5, <1>6
  <2>2. 0..m \subseteq T /\ n \in T /\ n \notin 0..m
    BY <1>5, <1>6
  <2> QED BY <1>4, <2>1, <2>2
<1> QED BY <1>6

LEMMA NumberInduction ==
    ASSUME NEW C, 0 \in C, \A n \in Nat : n \in C => n + 1 \in C
    PROVE  Nat \subseteq C
<1> SUFFICES ASSUME NEW k \in Nat, k \notin C PROVE FALSE
  OBVIOUS
<1> DEFINE F == {n \in Nat : n \notin C}
<1>1. PICK n \in F : \A m \in F : n <= m
  <2>1. F \in SUBSET Nat /\ F # {}
    OBVIOUS
  <2> HIDE DEF F
  <2> QED BY <2>1, LeastNumber
<1>2. n # 0 /\ n \in Nat
  OBVIOUS
<1>3. n - 1 \in Nat /\ ~(n <= n - 1)
  BY <1>2
<1>4. n - 1 \in C
  BY <1>1, <1>3
<1>5. n - 1 + 1 = n
  BY <1>2
<1> QED BY <1>1, <1>3, <1>4, <1>5

-----------------------------------------------------------------------------
(* Sums.                                                                   *)

Pick(s) == CHOOSE x \in s : TRUE

\* One step of adding up f over the set s, h being the sums of its subsets.
Added(f, s, h) == IF s = {} THEN 0 ELSE f[Pick(s)] + h[s \ {Pick(s)}]

Adds(f, S, h) == h = [s \in SUBSET S |-> Added(f, s, h)]

LEMMA SumIs ==
    ASSUME NEW f
    PROVE  Sum(f) = (CHOOSE h : Adds(f, DOMAIN f, h))[DOMAIN f]
  BY DEF Sum, MapThenSumSet, MapThenFoldSet, Adds, Added, Pick

LEMMA AddsExists ==
    ASSUME NEW S, IsFiniteSet(S), NEW f
    PROVE  \E h : Adds(f, S, h)
<1> DEFINE Small(n) == {s \in SUBSET S : Cardinality(s) <= n}
           C == {n \in Nat : \E h : h = [s \in Small(n) |-> Added(f, s, h)]}
<1>0. \A s \in SUBSET S : IsFiniteSet(s) /\ Cardinality(s) \in Nat /\ Cardinality(s) <= Cardinality(S)
  BY FS_Subset, FS_CardinalityType
<1>1. 0 \in C
  <2> DEFINE h == [s \in Small(0) |-> 0]
  <2>1. \A s \in Small(0) : s = {}
    BY <1>0, FS_EmptySet
  <2>2. h = [s \in Small(0) |-> Added(f, s, h)]
    BY <2>1 DEF Added
  <2> QED BY <2>2
<1>2. ASSUME NEW n \in Nat, n \in C PROVE n + 1 \in C
  <2>1. PICK g : g = [s \in Small(n) |-> Added(f, s, g)]
    BY <1>2
  <2> DEFINE h == [s \in Small(n + 1) |-> Added(f, s, g)]
  <2>2. ASSUME NEW s \in Small(n + 1) PROVE Added(f, s, g) = Added(f, s, h)
    <3>1. CASE s = {}
      BY <3>1 DEF Added
    <3>2. CASE s # {}
      <4>1. Pick(s) \in s
        BY <3>2 DEF Pick
      <4>2. IsFiniteSet(s) /\ Cardinality(s) \in Nat /\ Cardinality(s) <= n + 1
        BY <1>0
      <4>3. Cardinality(s \ {Pick(s)}) = Cardinality(s) - 1
        BY <4>1, <4>2, FS_RemoveElement
      <4>4. s \ {Pick(s)} \in Small(n) /\ s \ {Pick(s)} \in Small(n + 1)
        BY <4>2, <4>3
      <4>5. h[s \ {Pick(s)}] = Added(f, s \ {Pick(s)}, g)
        BY <4>4
      <4>6. g[s \ {Pick(s)}] = Added(f, s \ {Pick(s)}, g)
        BY <2>1, <4>4
      <4> QED BY <4>5, <4>6 DEF Added
    <3> QED BY <3>1, <3>2
  <2>3. h = [s \in Small(n + 1) |-> Added(f, s, h)]
    <3>1. h = [s \in Small(n + 1) |-> Added(f, s, g)]
      OBVIOUS
    <3> HIDE DEF h, Small
    <3> QED BY <2>2, <3>1
  <2> HIDE DEF h, Small
  <2> QED BY <2>3
<1>3. Nat \subseteq C
  <2> HIDE DEF C
  <2> QED BY <1>1, <1>2, NumberInduction
<1>4. Cardinality(S) \in C
  BY <1>3, FS_CardinalityType
<1>5. Small(Cardinality(S)) = SUBSET S
  BY <1>0
<1> QED BY <1>4, <1>5 DEF Adds

Adding(f) == CHOOSE h : Adds(f, DOMAIN f, h)

\* h has the sums of f over the subsets of S.
AddsUp(f, S, h) ==
    /\ h[{}] = 0
    /\ \A T \in SUBSET S : h[T] \in Int
    /\ \A T \in SUBSET S : T # {} => Pick(T) \in T /\ h[T] = f[Pick(T)] + h[T \ {Pick(T)}]

LEMMA AddingIs ==
    ASSUME NEW S, IsFiniteSet(S), NEW f \in [S -> Int]
    PROVE  AddsUp(f, S, Adding(f)) /\ Sum(f) = Adding(f)[S]
<1> DEFINE h == Adding(f)
<1>0. DOMAIN f = S
  OBVIOUS
<1>1. Sum(f) = h[S]
  BY <1>0, SumIs DEF Adding
<1>2. Adds(f, S, h)
  BY <1>0, AddsExists DEF Adding
<1> HIDE DEF h
<1>3. \A T \in SUBSET S : h[T] = Added(f, T, h)
  BY <1>2 DEF Adds
<1>4. h[{}] = 0
  BY <1>3 DEF Added
<1>5. \A T \in SUBSET S : T # {} => Pick(T) \in T /\ h[T] = f[Pick(T)] + h[T \ {Pick(T)}]
  BY <1>3 DEF Added, Pick
<1>6. ASSUME NEW T \in SUBSET S, h[T] \notin Int PROVE FALSE
  <2> DEFINE F == {U \in SUBSET S : h[U] \notin Int}
  <2>1. F \in SUBSET (SUBSET S) /\ F # {}
    BY <1>6
  <2>2. PICK U \in F : \A V \in F : V \subseteq U => V = U
    <3> HIDE DEF F
    <3> QED BY <2>1, SmallestSubset
  <2>3. U # {} /\ U \in SUBSET S /\ h[U] \notin Int
    BY <1>4
  <2>4. U \ {Pick(U)} \notin F
    BY <1>5, <2>2, <2>3
  <2>5. h[U \ {Pick(U)}] \in Int /\ f[Pick(U)] \in Int
    BY <1>5, <2>3, <2>4
  <2> QED BY <1>5, <2>3, <2>5
<1> QED BY <1>1, <1>4, <1>5, <1>6 DEF AddsUp, h

\* Any element can be added last.
LEMMA AddingOne ==
    ASSUME NEW S, IsFiniteSet(S), NEW f \in [S -> Int], NEW T \in SUBSET S, NEW x \in T
    PROVE  Adding(f)[T] = f[x] + Adding(f)[T \ {x}]
<1> DEFINE h == Adding(f)
           F == {U \in SUBSET S : \E y \in U : h[U] # f[y] + h[U \ {y}]}
<1>0. AddsUp(f, S, h)
  BY AddingIs
<1> HIDE DEF h
<1>1. /\ \A U \in SUBSET S : U # {} => Pick(U) \in U /\ h[U] = f[Pick(U)] + h[U \ {Pick(U)}]
      /\ \A U \in SUBSET S : h[U] \in Int
  BY <1>0 DEF AddsUp
<1>2. SUFFICES ASSUME F # {} PROVE FALSE
  BY DEF h
<1>3. PICK U \in F : \A V \in F : V \subseteq U => V = U
  <2>1. F \in SUBSET (SUBSET S)
    OBVIOUS
  <2> HIDE DEF F
  <2> QED BY <1>2, <2>1, SmallestSubset
<1>4. PICK y \in U : h[U] # f[y] + h[U \ {y}]
  OBVIOUS
<1> DEFINE p == Pick(U)
<1>5. U \in SUBSET S /\ p \in U /\ h[U] = f[p] + h[U \ {p}]
  BY <1>1
<1>6. p # y
  BY <1>4, <1>5
<1>7. U \ {p} \notin F /\ U \ {y} \notin F
  BY <1>3, <1>5
<1>8. h[U \ {p}] = f[y] + h[(U \ {p}) \ {y}]
  BY <1>5, <1>6, <1>7
<1>9. h[U \ {y}] = f[p] + h[(U \ {y}) \ {p}]
  BY <1>5, <1>6, <1>7
<1>10. (U \ {y}) \ {p} = (U \ {p}) \ {y}
  OBVIOUS
<1>11. f[p] \in Int /\ f[y] \in Int /\ h[(U \ {p}) \ {y}] \in Int
  BY <1>1, <1>5
<1>12. h[U] = f[p] + (f[y] + h[(U \ {p}) \ {y}]) /\ h[U \ {y}] = f[p] + h[(U \ {p}) \ {y}]
  BY <1>5, <1>8, <1>9, <1>10
<1> HIDE DEF p, F
<1> QED BY <1>4, <1>11, <1>12

\* The sum over a part is what adding the whole has for that part.
LEMMA SumOfPart ==
    ASSUME NEW S, IsFiniteSet(S), NEW f \in [S -> Int], NEW T \in SUBSET S
    PROVE  Sum(Restrict(f, T)) = Adding(f)[T]
<1> DEFINE g == Restrict(f, T)
           F == {U \in SUBSET T : Adding(g)[U] # Adding(f)[U]}
<1>1. g \in [T -> Int] /\ \A x \in T : g[x] = f[x]
  BY DEF Restrict
<1>2. IsFiniteSet(T)
  BY FS_Subset
<1> HIDE DEF g
<1>3. Sum(g) = Adding(g)[T] /\ AddsUp(g, T, Adding(g)) /\ AddsUp(f, S, Adding(f))
  BY <1>1, <1>2, AddingIs
<1>4. /\ Adding(g)[{}] = Adding(f)[{}]
      /\ \A U \in SUBSET T : U # {} =>
           /\ Pick(U) \in U
           /\ Adding(f)[U] = f[Pick(U)] + Adding(f)[U \ {Pick(U)}]
           /\ Adding(g)[U] = g[Pick(U)] + Adding(g)[U \ {Pick(U)}]
  <2>1. \A U \in SUBSET T : U \in SUBSET S
    OBVIOUS
  <2> QED BY <1>3, <2>1 DEF AddsUp
<1>5. F = {}
  <2> SUFFICES ASSUME F # {} PROVE FALSE
    OBVIOUS
  <2>1. PICK U \in F : \A V \in F : V \subseteq U => V = U
    <3>1. F \in SUBSET (SUBSET T)
      OBVIOUS
    <3> HIDE DEF F
    <3> QED BY <1>2, <3>1, SmallestSubset
  <2>2. U # {} /\ U \in SUBSET T /\ Pick(U) \in U
    BY <1>4
  <2>3. U \ {Pick(U)} \notin F
    BY <2>1, <2>2
  <2>4. Adding(g)[U \ {Pick(U)}] = Adding(f)[U \ {Pick(U)}]
    BY <2>2, <2>3
  <2> QED BY <1>1, <1>4, <2>2, <2>4
<1> QED BY <1>3, <1>5 DEF g

LEMMA SumEmpty ==
    ASSUME NEW f, DOMAIN f = {}, f \in [{} -> Int]
    PROVE  Sum(f) = 0
  BY FS_EmptySet, AddingIs DEF AddsUp

\* A sum without one of its terms.
LEMMA SumWithout ==
    ASSUME NEW S, IsFiniteSet(S), NEW f \in [S -> Int], NEW x \in S
    PROVE  /\ Sum(f) = f[x] + Sum(Restrict(f, S \ {x}))
           /\ Sum(f) \in Int /\ Sum(Restrict(f, S \ {x})) \in Int
<1>1. Sum(f) = Adding(f)[S] /\ Adding(f)[S] \in Int /\ Adding(f)[S \ {x}] \in Int
  BY AddingIs DEF AddsUp
<1>2. Sum(Restrict(f, S \ {x})) = Adding(f)[S \ {x}]
  BY SumOfPart
<1>3. Adding(f)[S] = f[x] + Adding(f)[S \ {x}]
  BY AddingOne
<1> QED BY <1>1, <1>2, <1>3

\* Counted by one key or another, things are as many as they are.
LEMMA CountsAddUp ==
    ASSUME NEW D, IsFiniteSet(D), NEW K, IsFiniteSet(K), NEW key \in [D -> K]
    PROVE  Sum([k \in K |-> Cardinality({d \in D : key[d] = k})]) = Cardinality(D)
<1> DEFINE n(k) == Cardinality({d \in D : key[d] = k})
           g(T) == [k \in T |-> n(k)]
           C == {T \in SUBSET K : Sum(g(T)) = Cardinality({d \in D : key[d] \in T})}
<1>1. {} \in C
  <2>1. g({}) \in [{} -> Int] /\ DOMAIN g({}) = {}
    OBVIOUS
  <2>2. Sum(g({})) = 0
    <3> HIDE DEF g
    <3> QED BY <2>1, SumEmpty
  <2>3. {d \in D : key[d] \in {}} = {}
    OBVIOUS
  <2> QED BY <2>2, <2>3, FS_EmptySet
<1>2. ASSUME NEW T \in SUBSET K, NEW x \in T, T \ {x} \in C PROVE T \in C
  <2> DEFINE A == {d \in D : key[d] \in T \ {x}}
             B == {d \in D : key[d] = x}
  <2>1. IsFiniteSet(T) /\ \A k \in K : n(k) \in Nat
    BY FS_Subset, FS_CardinalityType
  <2>2. g(T) \in [T -> Int] /\ Restrict(g(T), T \ {x}) = g(T \ {x}) /\ g(T)[x] = Cardinality(B)
    BY <2>1 DEF Restrict
  <2>3. Sum(g(T)) = g(T)[x] + Sum(Restrict(g(T), T \ {x}))
    <3> HIDE DEF g
    <3> QED BY <2>1, <2>2, SumWithout
  <2>4. Sum(g(T \ {x})) = Cardinality(A)
    BY <1>2
  <2>5. Cardinality(A \cup B) = Cardinality(A) + Cardinality(B)
    <3>1. IsFiniteSet(A) /\ IsFiniteSet(B) /\ A \cap B = {}
      BY FS_Subset
    <3>2. Cardinality(A) \in Nat /\ Cardinality(B) \in Nat /\ Cardinality({}) = 0
      BY <3>1, FS_CardinalityType, FS_EmptySet
    <3> HIDE DEF A, B
    <3>3. Cardinality(A \cup B) = Cardinality(A) + Cardinality(B) - Cardinality(A \cap B)
      BY <3>1, FS_Union
    <3>4. Cardinality(A \cap B) = 0
      BY <3>1, <3>2
    <3> QED BY <3>2, <3>3, <3>4
  <2>6. Cardinality(A \cup B) = Cardinality({d \in D : key[d] \in T})
    <3>1. A \cup B = {d \in D : key[d] \in T}
      OBVIOUS
    <3> HIDE DEF A, B
    <3> QED BY <3>1
  <2>7. Cardinality(A) \in Nat /\ Cardinality(B) \in Nat
    BY FS_Subset, FS_CardinalityType
  <2> HIDE DEF g, A, B, n
  <2>8. Sum(g(T)) = Cardinality(B) + Cardinality(A)
    BY <2>2, <2>3, <2>4
  <2>9. Sum(g(T)) = Cardinality({d \in D : key[d] \in T})
    BY <2>5, <2>6, <2>7, <2>8
  <2> QED BY <2>9
<1>3. K \in C
  <2> HIDE DEF C
  <2> QED BY <1>1, <1>2, SetInduction
<1>4. {d \in D : key[d] \in K} = D
  OBVIOUS
<1> QED BY <1>3, <1>4

-----------------------------------------------------------------------------
(* Orders.                                                                 *)

\* Of two elements of the set one comes before the other.
Ordered(S, R) ==
    /\ \A x \in S : <<x, x>> \notin R
    /\ \A x, y \in S : x # y => <<x, y>> \in R \/ <<y, x>> \in R
    /\ \A x, y, z \in S : <<x, y>> \in R /\ <<y, z>> \in R => <<x, z>> \in R

Below(S, R, x) == {y \in S : <<y, x>> \in R}

LEMMA RanksDiffer ==
    ASSUME NEW S, IsFiniteSet(S), NEW R, Ordered(S, R), NEW x \in S, NEW y \in S, <<x, y>> \in R
    PROVE  /\ Cardinality(Below(S, R, x)) \in Nat /\ Cardinality(Below(S, R, y)) \in Nat
           /\ Cardinality(Below(S, R, x)) + 1 <= Cardinality(Below(S, R, y))
<1> DEFINE A == Below(S, R, x)
           B == Below(S, R, y)
<1>1. A \in SUBSET S /\ B \in SUBSET S /\ x \notin A /\ A \cup {x} \in SUBSET B
  BY DEF Below, Ordered
<1> HIDE DEF A, B
<1>2. IsFiniteSet(A) /\ IsFiniteSet(B)
  BY <1>1, FS_Subset
<1>3. Cardinality(A \cup {x}) = Cardinality(A) + 1
  BY <1>1, <1>2, FS_AddElement
<1>4. Cardinality(A \cup {x}) <= Cardinality(B)
  BY <1>1, <1>2, FS_Subset
<1> QED BY <1>2, <1>3, <1>4, FS_CardinalityType DEF A, B

\* Each place is taken.
LEMMA PlacesTaken ==
    ASSUME NEW S, IsFiniteSet(S), NEW R, Ordered(S, R), NEW n \in 1..Cardinality(S)
    PROVE  \E x \in S : Cardinality(Below(S, R, x)) = n - 1
<1> DEFINE N == Cardinality(S)
           places == 0..(N - 1)
           rank == [x \in S |-> Cardinality(Below(S, R, x))]
<1>1. N \in Nat
  BY FS_CardinalityType
<1>2. ASSUME NEW x \in S
      PROVE  Cardinality(Below(S, R, x)) \in 0..(N - 1)
  <2>1. Below(S, R, x) \in SUBSET (S \ {x}) /\ IsFiniteSet(S \ {x})
    BY FS_RemoveElement DEF Below, Ordered
  <2>2. Cardinality(S \ {x}) = N - 1
    BY FS_RemoveElement
  <2>3. /\ IsFiniteSet(Below(S, R, x))
        /\ Cardinality(Below(S, R, x)) <= Cardinality(S \ {x})
    BY <2>1, FS_Subset
  <2>4. Cardinality(Below(S, R, x)) \in Nat
    BY <2>3, FS_CardinalityType
  <2> HIDE DEF N
  <2> QED BY <1>1, <2>2, <2>3, <2>4
<1>3. rank \in [S -> places]
  BY <1>2
<1>4. ASSUME NEW x \in S, NEW y \in S, rank[x] = rank[y] PROVE x = y
  <2> SUFFICES ASSUME x # y PROVE FALSE
    OBVIOUS
  <2>1. <<x, y>> \in R \/ <<y, x>> \in R
    BY DEF Ordered
  <2>2. CASE <<x, y>> \in R
    BY <1>4, <2>2, RanksDiffer
  <2>3. CASE <<y, x>> \in R
    BY <1>4, <2>3, RanksDiffer
  <2> QED BY <2>1, <2>2, <2>3
<1>5. rank \in Injection(S, places)
  BY <1>3, <1>4 DEF Injection, IsInjective
<1>6. IsFiniteSet(places) /\ Cardinality(places) = N
  <2>1. 0 \in Int /\ N - 1 \in Int
    BY <1>1
  <2>2. IsFiniteSet(places) /\ Cardinality(places) = IF 0 > N - 1 THEN 0 ELSE N - 1 - 0 + 1
    BY <2>1, FS_Interval
  <2> HIDE DEF N
  <2> QED BY <1>1, <2>2
<1>7. rank \in Surjection(S, places)
  <2> HIDE DEF rank, places, N
  <2> QED BY <1>5, <1>6, FS_Injection DEF N
<1>8. n - 1 \in places
  <2> HIDE DEF N
  <2> QED BY <1>1 DEF N
<1> QED BY <1>7, <1>8 DEF Surjection

\* The rows in their order: each of them once, the first first.
IsOrder(S, R, list) ==
    /\ list \in [1..Cardinality(S) -> S] /\ Cardinality(S) \in Nat
    /\ \A x \in S : \E n \in 1..Cardinality(S) : list[n] = x
    /\ \A j, k \in 1..Cardinality(S) : j < k <=> <<list[j], list[k]>> \in R
    /\ \A n \in 1..Cardinality(S) : Cardinality(Below(S, R, list[n])) = n - 1

LEMMA OrderByIs ==
    ASSUME NEW S, IsFiniteSet(S), NEW R, Ordered(S, R)
    PROVE  IsOrder(S, R, OrderBy(S, R))
<1> DEFINE N == Cardinality(S)
           list == OrderBy(S, R)
           rank(x) == Cardinality(Below(S, R, x))
<1>1. list = [n \in 1..N |-> CHOOSE x \in S : rank(x) = n - 1]
  BY DEF OrderBy, Below
<1>2. N \in Nat
  BY FS_CardinalityType
<1> HIDE DEF N, list, rank
<1>3. \A n \in 1..N : list[n] \in S /\ rank(list[n]) = n - 1
  BY <1>1, PlacesTaken DEF N, rank
<1>4. list \in [1..N -> S]
  BY <1>1, <1>3
<1>5. \A x, y \in S : <<x, y>> \in R => rank(x) \in Nat /\ rank(y) \in Nat /\ rank(x) + 1 <= rank(y)
  BY RanksDiffer DEF rank
<1>6. \A x, y \in S : x # y => <<x, y>> \in R \/ <<y, x>> \in R
  BY DEF Ordered
<1>7. ASSUME NEW x \in S PROVE \E n \in 1..N : list[n] = x
  <2>1. IsFiniteSet(S) /\ Below(S, R, x) \in SUBSET (S \ {x})
    BY DEF Below, Ordered
  <2>2. IsFiniteSet(S \ {x}) /\ Cardinality(S \ {x}) = N - 1
    BY <2>1, FS_RemoveElement DEF N
  <2>3. rank(x) \in Nat /\ rank(x) <= N - 1
    <3>1. IsFiniteSet(Below(S, R, x)) /\ Cardinality(Below(S, R, x)) <= Cardinality(S \ {x})
      BY <2>1, <2>2, FS_Subset
    <3> QED BY <2>2, <3>1, FS_CardinalityType DEF rank
  <2>4. rank(x) + 1 \in 1..N /\ rank(list[rank(x) + 1]) = rank(x) /\ list[rank(x) + 1] \in S
    BY <1>2, <1>3, <2>3
  <2>5. list[rank(x) + 1] = x
    <3> DEFINE y == list[rank(x) + 1]
    <3>1. y \in S /\ rank(y) = rank(x)
      BY <2>4
    <3> HIDE DEF y
    <3>2. <<x, y>> \notin R /\ <<y, x>> \notin R
      BY <1>5, <2>3, <3>1
    <3>3. y = x
      BY <1>6, <3>1, <3>2
    <3> QED BY <3>3 DEF y
  <2> QED BY <2>4, <2>5
<1>8. ASSUME NEW j \in 1..N, NEW k \in 1..N PROVE j < k <=> <<list[j], list[k]>> \in R
  <2>1. ASSUME <<list[j], list[k]>> \in R PROVE j < k
    BY <1>2, <1>3, <1>5, <2>1
  <2>2. ASSUME j < k PROVE <<list[j], list[k]>> \in R
    <3>1. list[j] # list[k]
      BY <1>2, <1>3, <2>2
    <3>2. <<list[k], list[j]>> \notin R
      BY <1>2, <1>3, <1>5, <2>2
    <3> QED BY <1>3, <1>6, <3>1, <3>2
  <2> QED BY <2>1, <2>2
<1> QED BY <1>2, <1>3, <1>4, <1>7, <1>8 DEF IsOrder, N, list, rank

-----------------------------------------------------------------------------
(* Numbers.                                                                *)

\* What is divided.
LEMMA Division ==
    ASSUME NEW a \in Int, NEW b \in Nat \ {0}
    PROVE  a \div b \in Int /\ b * (a \div b) <= a /\ a < b * (a \div b) + b
  OBVIOUS

\* What is multiplied.
LEMMA Larger ==
    ASSUME NEW b \in Nat \ {0}, NEW x \in Int, NEW y \in Int, x < y
    PROVE  b * x + b <= b * y
<1>1. PICK k \in Nat : y = x + 1 + k
  <2>1. y - x - 1 \in Nat /\ y = x + 1 + (y - x - 1)
    OBVIOUS
  <2> QED BY <2>1
<1>2. b * (x + 1 + k) = b * x + b + b * k /\ b * k >= 0 /\ b * k \in Int /\ b * x \in Int
  OBVIOUS
<1> QED BY <1>1, <1>2

-----------------------------------------------------------------------------
(* Updates.                                                                *)

LEMMA NoUpdateIsNoRow == NoUpdate \notin Row
  BY LocationAssumption DEF NoUpdate, Row

\* What the orders compare.
LEMMA RecordTypes ==
    ASSUME TypeOK, NEW y \in samples \cup Handled
    PROVE  /\ y.at \in Time /\ y.at \in Int /\ y.life \in Nat /\ y.decided \in Nat
           /\ y.alone \in BOOLEAN
<1>1. Handled \subseteq Row
  BY DEF TypeOK, Handled
<1>0. \A t \in Time : t \in Int
  BY LocationAssumption
<1>2. CASE y \in samples
  <2>1. y \in Sample
    BY <1>2 DEF TypeOK
  <2> QED BY <1>0, <2>1 DEF Sample
<1>3. CASE y \in Handled
  <2>1. y \in Row
    BY <1>1, <1>3
  <2> QED BY <1>0, <2>1 DEF Row
<1> QED BY <1>2, <1>3

\* A step that decides on nothing new, and stores nothing, keeps the orders.
LEMMA OrdersKept ==
    ASSUME TypeOK, Orders, samples' = samples, Handled' \subseteq Handled,
           now' \in Nat, now' >= now, life' \in Nat, life' >= life,
           runtime'.life \in 1..life => runtime'.life = runtime.life,
           runtime'.life \in 1..life /\ runtime.at # None =>
              runtime'.at # None /\ \A t \in Int : t <= runtime.at => t <= runtime'.at
    PROVE  Orders'
<1>1. now \in Nat /\ life \in Nat
  <2>1. Cardinality(Conn) \in Nat
    BY LocationAssumption, FS_CardinalityType
  <2> QED BY <2>1, LocationAssumption DEF TypeOK
<1>2. ASSUME NEW y \in samples' \cup Handled'
      PROVE  Decided(y)'
  <2>1. y \in samples \cup Handled
    BY <1>2
  <2>2. Decided(y)
    BY <2>1 DEF Orders
  <2> QED BY <1>1, <2>1, <2>2, RecordTypes DEF Decided
<1>3. ASSUME NEW x \in samples' \cup Handled', NEW y \in samples' \cup Handled'
      PROVE  InOrderOf(x, y)'
  BY DEF Orders, InOrderOf
<1>4. ASSUME NEW x \in samples', NEW y \in samples' \cup Handled'
      PROVE  Apart(x, y)'
  BY DEF Orders, Apart
<1>5. ASSUME NEW u \in Handled', NEW y \in samples' \cup Handled'
      PROVE  AloneIsLast(u, y)'
  BY DEF Orders, AloneIsLast
<1> QED BY <1>2, <1>3, <1>4, <1>5 DEF Orders

LEMMA Numbers ==
    ASSUME TypeOK
    PROVE  /\ now \in Nat /\ life \in Nat /\ sent \in Nat
           /\ IsFiniteSet(Conn) /\ Cardinality(Conn) \in Nat
           /\ None \notin Nat /\ None \notin Time /\ \A t \in Time : t \in Nat
<1>1. IsFiniteSet(Conn) /\ Cardinality(Conn) \in Nat
  BY LocationAssumption, FS_CardinalityType
<1>2. None \notin Nat /\ None \notin Time /\ \A t \in Time : t \in Nat
  <2>1. None \notin Int
    BY LocationAssumption
  <2>2. Time \subseteq Nat
    BY LocationAssumption
  <2>3. \A t \in Time : t \in Nat
    BY <2>2
  <2>4. None \notin Nat
    BY <2>1
  <2>5. None \notin Time
    BY <2>3, <2>4
  <2> QED BY <2>3, <2>4, <2>5
<1>3. MaxNow \in Nat /\ MaxUpdates \in Nat
  BY LocationAssumption
<1> QED BY <1>1, <1>2, <1>3 DEF TypeOK

\* Handlers that were served stay served, and each is counted once.
LEMMA ServedGrows ==
    ASSUME Served \subseteq Served'
    PROVE  /\ Cardinality(Served) <= Cardinality(Served')
           /\ Cardinality(Served) \in Nat /\ Cardinality(Served') \in Nat
<1>1. Served \subseteq Conn /\ Served' \subseteq Conn
  BY DEF Served
<1>2. IsFiniteSet(Conn)
  BY LocationAssumption
<1>3. IsFiniteSet(Served) /\ IsFiniteSet(Served')
  BY <1>1, <1>2, FS_Subset
<1> QED BY <1>3, FS_Subset, FS_CardinalityType

LEMMA OneMoreServed ==
    ASSUME NEW c \in Conn, c \notin Served, Served' = Served \cup {c}
    PROVE  Cardinality(Served') = Cardinality(Served) + 1
<1>1. IsFiniteSet(Served)
  BY LocationAssumption, FS_Subset DEF Served
<1> QED BY <1>1, FS_AddElement

LEMMA ServedOfAll ==
    Cardinality(Served) <= Cardinality(Conn) /\ Cardinality(Served) \in Nat
<1>1. Served \subseteq Conn /\ IsFiniteSet(Conn)
  BY LocationAssumption DEF Served
<1> QED BY <1>1, FS_Subset, FS_CardinalityType

LEMMA PrimedServedOfAll ==
    Cardinality(Served') <= Cardinality(Conn) /\ Cardinality(Served') \in Nat
<1>1. Served' \subseteq Conn /\ IsFiniteSet(Conn)
  BY LocationAssumption DEF Served
<1> QED BY <1>1, FS_Subset, FS_CardinalityType

\* Handlers that go on with an update go on with the one they had.
LEMMA HandledShrinks ==
    ASSUME \A d \in Conn : Busy(d)' => Busy(d) /\ update'[d] = update[d]
    PROVE  Handled' \subseteq Handled
  BY DEF Handled

LEMMA RuntimesKept ==
    ASSUME Runtimes, runtime' = runtime, life' = life, life \in Nat,
           Served \subseteq Served'
    PROVE  Runtimes'
<1>1. life' <= Cardinality(Served')
  BY ServedGrows DEF Runtimes
<1> QED BY <1>1 DEF Runtimes

\* The marks do not change unless a handler begins or ends to mark.
LEMMA MarksKept ==
    ASSUME TypeOK, Marks, MarkedIsStored, samples' = samples, runtime'.life = runtime.life,
           runtime'.persistedAt = runtime.persistedAt,
           runtime'.persisted = runtime.persisted,
           Runtimes, now' \in Nat, now' >= now,
           \A c \in Conn : phase'[c] = "marking" <=> phase[c] = "marking",
           \A c \in Conn : phase[c] = "marking" => update'[c] = update[c]
    PROVE  Marks' /\ MarkedIsStored'
<1>1. now \in Nat /\ runtime.persisted \in Nat \cup {None}
  BY Numbers DEF Runtimes
<1>2. MarkedIsStored'
  BY DEF MarkedIsStored, ExistsAt
<1>3. \A c \in Conn : phase'[c] = "marking" => ExistsAt(update[c].at)'
  BY DEF Marks, ExistsAt
<1>4. runtime'.persisted # None => runtime'.persisted <= now'
  BY <1>1, Numbers DEF Marks
<1> QED BY <1>2, <1>3, <1>4 DEF Marks, ExistsAt

\* A runtime that is new, or gone, has marked nothing; there is no sample of it.
LEMMA MarksOfNew ==
    ASSUME TypeOK, Orders, Marks, samples' = samples, now' = now,
           runtime'.persisted = None, runtime'.persistedAt = None,
           runtime'.life \notin 1..life,
           \A c \in Conn : phase'[c] = "marking" =>
              phase[c] = "marking" /\ update'[c] = update[c]
    PROVE  Marks' /\ MarkedIsStored'
<1>1. \A x \in samples : x.life \in 1..life
  BY DEF Orders, Decided
<1>2. \A c \in Conn : phase'[c] = "marking" => ExistsAt(update[c].at)'
  BY DEF Marks, ExistsAt
<1> QED BY <1>1, <1>2 DEF Marks, MarkedIsStored, ExistsAt

-----------------------------------------------------------------------------
(* Connections.                                                            *)

LEMMA InitInv == Init => IInv
<1> SUFFICES ASSUME Init PROVE IInv
  OBVIOUS
<1>1. Cardinality(Conn) \in Nat /\ MaxNow \in Nat /\ MaxUpdates \in Nat
  BY LocationAssumption, FS_CardinalityType
<1>2. TypeOK
  BY <1>1, NoUpdateIsNoRow DEF Init, TypeOK, NoRuntime, Busy, Persisting
<1>3. Runtimes
  BY ServedOfAll DEF Init, Runtimes, NoRuntime
<1>4. WritersHold /\ MarkedIsStored
  BY DEF Init, WritersHold, MarkedIsStored, NoRuntime
<1>5. Handled = {}
  BY DEF Init, Handled, Busy, Persisting
<1>6. Orders /\ Marks
  BY <1>5 DEF Init, Orders, Marks, NoRuntime
<1> QED BY <1>2, <1>3, <1>4, <1>6 DEF IInv

\* A handler that goes on without an update, and touches nothing else.
LEMMA HandlerStep ==
    ASSUME IInv, NEW c \in Conn, NEW p \in {"admitted", "receiving", "gone", "replacing", "closing"},
           ~Busy(c), Goes(c, p), c \in Served => p \notin {"admitted", "replacing"},
           UNCHANGED <<now, rows, lock, update, requests, sent>>
    PROVE  /\ WritersHold'
           /\ Handled' \subseteq Handled
           /\ \A d \in Conn : phase'[d] = "marking" <=> phase[d] = "marking"
           /\ \A d \in Conn : Busy(d)' <=> Busy(d)
           /\ phase' \in [Conn -> {"away", "admitted", "replacing", "receiving", "closing",
                           "gone"} \cup Persisting]
           /\ Served \subseteq Served'
<1>1. \A d \in Conn : phase'[d] = IF d = c THEN p ELSE phase[d]
  BY DEF IInv, TypeOK, Goes
<1>2. \A d \in Conn : Busy(d)' <=> Busy(d)
  BY <1>1 DEF Busy, Persisting
<1>3. WritersHold'
  BY <1>1 DEF IInv, WritersHold, rows, requests
<1>4. Handled' \subseteq Handled
  BY <1>2, HandledShrinks
<1>5. \A d \in Conn : phase'[d] = "marking" <=> phase[d] = "marking"
  BY <1>1 DEF Busy, Persisting
<1>6. phase' \in [Conn -> {"away", "admitted", "replacing", "receiving", "closing",
                           "gone"} \cup Persisting]
  BY DEF IInv, TypeOK, Goes
<1>7. Served \subseteq Served'
  BY <1>1 DEF Served
<1> QED BY <1>2, <1>3, <1>4, <1>5, <1>6, <1>7

LEMMA AdmitStep ==
    ASSUME IInv, NEW c \in Conn, Admit(c)
    PROVE  IInv'
<1>1. PICK p \in {"admitted", "gone"} : Goes(c, p)
  BY DEF Admit
<1>2. ~Busy(c) /\ c \notin Served
  BY DEF Admit, At, Busy, Persisting, Served
<1>3. UNCHANGED <<now, rows, lock, runtime, current, update, requests, sent, life>>
  BY DEF Admit
<1>4. /\ WritersHold'
      /\ Handled' \subseteq Handled
      /\ \A d \in Conn : phase'[d] = "marking" <=> phase[d] = "marking"
      /\ \A d \in Conn : Busy(d)' <=> Busy(d)
      /\ phase' \in [Conn -> {"away", "admitted", "replacing", "receiving", "closing",
                           "gone"} \cup Persisting]
      /\ Served \subseteq Served'
  BY <1>1, <1>2, <1>3, HandlerStep
<1>5. TypeOK'
  BY <1>3, <1>4 DEF IInv, TypeOK, rows, requests
<1>6. now \in Nat /\ life \in Nat
  BY Numbers DEF IInv
<1>7. Orders'
  BY <1>3, <1>4, <1>6, OrdersKept DEF IInv, rows
<1>8. Runtimes'
  BY <1>3, <1>4, <1>6, RuntimesKept DEF IInv
<1>9. Marks' /\ MarkedIsStored'
  BY <1>3, <1>4, <1>6, MarksKept DEF IInv, rows
<1> QED BY <1>4, <1>5, <1>7, <1>8, <1>9 DEF IInv

\* Whoever is the first to be served makes the runtime.
LEMMA ServeStep ==
    ASSUME IInv, NEW c \in Conn, phase[c] \in {"admitted", "replacing"},
           GetOrCreate, Goes(c, "receiving"), current' \in Conn \cup {None},
           UNCHANGED <<now, rows, lock, update, requests, sent>>
    PROVE  IInv'
<1>1. ~Busy(c) /\ c \notin Served
  BY DEF Busy, Persisting, Served
<1>2. /\ WritersHold'
      /\ Handled' \subseteq Handled
      /\ \A d \in Conn : phase'[d] = "marking" <=> phase[d] = "marking"
      /\ \A d \in Conn : Busy(d)' <=> Busy(d)
      /\ phase' \in [Conn -> {"away", "admitted", "replacing", "receiving", "closing",
                           "gone"} \cup Persisting]
      /\ Served \subseteq Served'
  BY <1>1, HandlerStep
<1>3. now \in Nat /\ life \in Nat
  BY Numbers DEF IInv
<1>4. Served' = Served \cup {c}
  BY DEF Served, Goes, IInv, TypeOK
<1>5. Cardinality(Served') = Cardinality(Served) + 1
  BY <1>1, <1>4, OneMoreServed
<1>6. CASE runtime = NoRuntime
  <2>1. runtime' = [NoRuntime EXCEPT !.life = life + 1] /\ life' = life + 1
    BY <1>6 DEF GetOrCreate
  <2>2. life + 1 <= Cardinality(Served') /\ Cardinality(Served') <= Cardinality(Conn)
    BY <1>3, <1>5, ServedOfAll, PrimedServedOfAll DEF IInv, Runtimes
  <2>3. life' \in 0..Cardinality(Conn)
    BY <1>3, <2>1, <2>2, Numbers, PrimedServedOfAll DEF IInv
  <2>4. /\ runtime'.life = life + 1 /\ runtime'.at = None /\ runtime'.pos = None
        /\ runtime'.state = "UNKNOWN" /\ runtime'.persistedAt = None
        /\ runtime'.persisted = None
    BY <2>1 DEF NoRuntime
  <2>5. TypeOK'
    BY <1>2, <2>3, <2>4 DEF IInv, TypeOK, rows, requests
  <2>6. runtime'.life \notin 1..life /\ runtime'.life # 0
    BY <1>3, <2>4
  <2>7. Runtimes'
    BY <2>1, <2>2, <2>6 DEF Runtimes, NoRuntime
  <2>8. Orders'
    BY <1>2, <1>3, <2>1, <2>6, OrdersKept DEF IInv, rows
  <2>9. Marks' /\ MarkedIsStored'
    BY <1>2, <2>4, <2>6, MarksOfNew DEF IInv, rows
  <2> QED BY <1>2, <2>5, <2>7, <2>8, <2>9 DEF IInv
<1>7. CASE runtime # NoRuntime
  <2>1. UNCHANGED <<runtime, life>>
    BY <1>7 DEF GetOrCreate
  <2>2. TypeOK'
    BY <1>2, <2>1 DEF IInv, TypeOK, rows, requests
  <2>3. Runtimes'
    BY <1>2, <1>3, <2>1, RuntimesKept DEF IInv
  <2>4. Orders'
    BY <1>2, <1>3, <2>1, OrdersKept DEF IInv, rows
  <2>5. Marks' /\ MarkedIsStored'
    BY <1>2, <1>3, <2>1, MarksKept DEF IInv, rows
  <2> QED BY <1>2, <2>2, <2>3, <2>4, <2>5 DEF IInv
<1> QED BY <1>6, <1>7

LEMMA RegisterStep ==
    ASSUME IInv, NEW c \in Conn, Register(c)
    PROVE  IInv'
<1>1. CASE current = None
  BY <1>1, ServeStep DEF Register, At
<1>2. CASE current # None
  <2>1. Goes(c, "replacing") /\ UNCHANGED <<runtime, life>> /\ current' = c
    BY <1>2 DEF Register
  <2>2. UNCHANGED <<now, rows, lock, update, requests, sent>>
    BY DEF Register
  <2>3. ~Busy(c) /\ c \notin Served
    BY DEF Register, At, Busy, Persisting, Served
  <2>4. /\ WritersHold'
        /\ Handled' \subseteq Handled
        /\ \A d \in Conn : phase'[d] = "marking" <=> phase[d] = "marking"
        /\ \A d \in Conn : Busy(d)' <=> Busy(d)
        /\ phase' \in [Conn -> {"away", "admitted", "replacing", "receiving", "closing",
                             "gone"} \cup Persisting]
        /\ Served \subseteq Served'
    BY <2>1, <2>2, <2>3, HandlerStep
  <2>5. TypeOK'
    BY <2>1, <2>2, <2>4 DEF IInv, TypeOK, rows, requests
  <2>6. now \in Nat /\ life \in Nat
    BY Numbers DEF IInv
  <2>7. Orders'
    BY <2>1, <2>2, <2>4, <2>6, OrdersKept DEF IInv, rows
  <2>8. Runtimes'
    BY <2>1, <2>4, <2>6, RuntimesKept DEF IInv
  <2>9. Marks' /\ MarkedIsStored'
    BY <2>1, <2>2, <2>4, <2>6, MarksKept DEF IInv, rows
  <2> QED BY <2>4, <2>5, <2>7, <2>8, <2>9 DEF IInv
<1> QED BY <1>1, <1>2

LEMMA ReplacedStep ==
    ASSUME IInv, NEW c \in Conn, Replaced(c)
    PROVE  IInv'
<1>1. current' \in Conn \cup {None}
  BY DEF Replaced, IInv, TypeOK
<1> QED BY <1>1, ServeStep DEF Replaced, At

LEMMA LeaveStep ==
    ASSUME IInv, NEW c \in Conn, Leave(c)
    PROVE  IInv'
<1>1. UNCHANGED <<now, rows, lock, update, requests, sent, life>> /\ Goes(c, "gone")
  BY DEF Leave
<1>2. ~Busy(c)
  BY DEF Leave, Busy, Persisting
<1>3. /\ WritersHold'
      /\ Handled' \subseteq Handled
      /\ \A d \in Conn : phase'[d] = "marking" <=> phase[d] = "marking"
      /\ \A d \in Conn : Busy(d)' <=> Busy(d)
      /\ phase' \in [Conn -> {"away", "admitted", "replacing", "receiving", "closing",
                           "gone"} \cup Persisting]
      /\ Served \subseteq Served'
  BY <1>1, <1>2, HandlerStep
<1>4. now \in Nat /\ life \in Nat
  BY Numbers DEF IInv
<1>5. CASE current = c
  <2>1. runtime' = NoRuntime /\ current' = None
    BY <1>5 DEF Leave
  <2>2. TypeOK'
    BY <1>1, <1>3, <2>1 DEF IInv, TypeOK, rows, requests, NoRuntime
  <2>3. runtime'.life \notin 1..life /\ runtime'.persistedAt = None /\ runtime'.persisted = None
    BY <2>1 DEF NoRuntime
  <2>4. Runtimes'
    BY <1>1, <1>3, <1>4, <2>1, ServedGrows DEF IInv, Runtimes, NoRuntime
  <2>5. Orders'
    BY <1>1, <1>3, <1>4, <2>3, OrdersKept DEF IInv, rows
  <2>6. Marks' /\ MarkedIsStored'
    BY <1>1, <1>3, <2>3, MarksOfNew DEF IInv, rows
  <2> QED BY <1>3, <2>2, <2>4, <2>5, <2>6 DEF IInv
<1>6. CASE current # c
  <2>1. UNCHANGED <<current, runtime>>
    BY <1>6 DEF Leave
  <2>2. TypeOK'
    BY <1>1, <1>3, <2>1 DEF IInv, TypeOK, rows, requests
  <2>3. Runtimes'
    BY <1>1, <1>3, <1>4, <2>1, RuntimesKept DEF IInv
  <2>4. Orders'
    BY <1>1, <1>3, <1>4, <2>1, OrdersKept DEF IInv, rows
  <2>5. Marks' /\ MarkedIsStored'
    BY <1>1, <1>3, <1>4, <2>1, MarksKept DEF IInv, rows
  <2> QED BY <1>3, <2>2, <2>3, <2>4, <2>5 DEF IInv
<1> QED BY <1>5, <1>6

-----------------------------------------------------------------------------
(* An update.                                                              *)

\* A new update is the last of its runtime, and so far from what is marked as
\* it has to be; when nobody else is under way, all that is stored is marked.
LEMMA OrdersExtended ==
    ASSUME IInv, NEW y \in Row, samples' = samples, Handled' \subseteq Handled \cup {y},
           now' = now, life' = life, runtime.life # 0, runtime'.life = runtime.life,
           runtime'.at = y.at, runtime.at # None => y.at > runtime.at,
           y.decided = now, y.life = runtime.life, ShouldPersist,
           y.alone => Handled' \subseteq {y} /\ \A c \in Conn : phase[c] # "marking"
    PROVE  Orders'
<1>1. /\ now \in Nat /\ life \in Nat /\ runtime.life = life /\ life # 0
      /\ y.at \in Int /\ y.at # None
  BY Numbers DEF IInv, Runtimes, Row
<1>2. \A x \in samples \cup Handled :
         Decided(x) /\ x.at \in Int /\ x.life \in Nat /\ x.decided \in Nat
  BY RecordTypes DEF IInv, Orders
<1>3. \A x \in samples \cup Handled : x.life = y.life => x.at < y.at
  <2>1. \A x \in samples \cup Handled : x.life = y.life => runtime.at # None /\ x.at <= runtime.at
    BY <1>2 DEF Decided
  <2>2. runtime.at \in Int \cup {None}
    BY Numbers DEF IInv, TypeOK
  <2> QED BY <1>1, <1>2, <2>1, <2>2
<1>4. ASSUME NEW x \in samples' \cup Handled'
      PROVE  Decided(x)'
  <2>1. CASE x = y
    BY <1>1, <2>1 DEF Decided
  <2>2. CASE x \in samples \cup Handled
    BY <1>1, <1>2, <1>3, <2>2 DEF Decided
  <2> QED BY <1>4, <2>1, <2>2
<1>5. ASSUME NEW x \in samples' \cup Handled', NEW z \in samples' \cup Handled'
      PROVE  InOrderOf(x, z)'
  <2>1. CASE x = y
    <3>1. z = y \/ (z.life = y.life => z.at < y.at /\ z.at \in Int)
      BY <1>2, <1>3, <1>5
    <3> QED BY <1>1, <2>1, <3>1 DEF InOrderOf
  <2>2. CASE x # y /\ z = y
    <3>1. x.decided <= now
      BY <1>2, <1>5, <2>2 DEF Decided
    <3> QED BY <2>2, <3>1 DEF InOrderOf
  <2>3. CASE x # y /\ z # y
    BY <1>5, <2>3 DEF IInv, Orders, InOrderOf
  <2> QED BY <2>1, <2>2, <2>3
<1>6. ASSUME NEW x \in samples', NEW z \in samples' \cup Handled'
      PROVE  Apart(x, z)'
  <2>1. CASE z = y /\ y.alone /\ x.confirmed /\ x.life = y.life
    <3>1. runtime.persisted # None /\ x.decided <= runtime.persisted
      BY <1>6, <2>1 DEF IInv, Marks
    <3>2. now - runtime.persisted >= Interval
      BY <3>1 DEF ShouldPersist
    <3>3. runtime.persisted \in Nat /\ x.decided \in Nat /\ Interval \in Nat
      BY <1>2, <1>6, <3>1, LocationAssumption DEF IInv, Runtimes
    <3>4. now - x.decided >= Interval
      BY <1>1, <3>1, <3>2, <3>3
    <3> QED BY <2>1, <3>4 DEF Apart
  <2>2. CASE z = y /\ ~(y.alone /\ x.confirmed /\ x.life = y.life)
    BY <2>2 DEF Apart
  <2>3. CASE z # y
    BY <1>6, <2>3 DEF IInv, Orders, Apart
  <2> QED BY <2>1, <2>2, <2>3
<1>7. ASSUME NEW u \in Handled', NEW z \in samples' \cup Handled'
      PROVE  AloneIsLast(u, z)'
  <2>1. CASE z = y /\ u = y
    BY <1>1, <2>1 DEF AloneIsLast
  <2>2. CASE z = y /\ u # y
    BY <1>7, <2>2 DEF AloneIsLast
  <2>3. CASE z # y /\ u = y
    <3>1. z.life = y.life => z.at < y.at /\ z.at \in Int
      BY <1>2, <1>3, <1>7, <2>3
    <3> QED BY <1>1, <2>3, <3>1 DEF AloneIsLast
  <2>4. CASE z # y /\ u # y
    BY <1>7, <2>4 DEF IInv, Orders, AloneIsLast
  <2> QED BY <2>1, <2>2, <2>3, <2>4
<1> QED BY <1>4, <1>5, <1>6, <1>7 DEF Orders

LEMMA ReceiveStep ==
    ASSUME IInv, NEW c \in Conn, NEW at \in Time, NEW x \in Reading, Receive(c, at, x)
    PROVE  IInv'
<1>1. UNCHANGED <<now, rows, lock, current, requests, life>>
  BY DEF Receive
<1>2. phase[c] = "receiving" /\ ~Busy(c)
  BY DEF Receive, At, Busy, Persisting
<1>3. /\ now \in Nat /\ life \in Nat /\ at \in Nat /\ at # None
      /\ runtime.at \in Int \cup {None}
  BY Numbers DEF IInv, TypeOK
<1>4. sent' \in 0..MaxUpdates
  BY Numbers, LocationAssumption DEF IInv, TypeOK, Receive
<1>5. CASE ~(runtime # NoRuntime /\ IsNewer(at))
  <2>1. UNCHANGED <<runtime, phase, update>>
    BY <1>5 DEF Receive
  <2>2. Served' = Served /\ Handled' = Handled
    BY <2>1 DEF Served, Handled, Busy
  <2>3. TypeOK'
    BY <1>1, <1>4, <2>1 DEF IInv, TypeOK, rows, requests, Busy
  <2>4. Runtimes' /\ WritersHold'
    BY <1>1, <1>3, <2>1, <2>2, RuntimesKept DEF IInv, WritersHold, rows, requests
  <2>5. Orders'
    BY <1>1, <1>3, <2>1, <2>2, OrdersKept DEF IInv, rows
  <2>6. Marks' /\ MarkedIsStored'
    BY <1>1, <1>3, <2>1, MarksKept DEF IInv, rows
  <2> QED BY <2>3, <2>4, <2>5, <2>6 DEF IInv
<1>6. CASE runtime # NoRuntime /\ IsNewer(at)
  <2>1. runtime' = [runtime EXCEPT !.at = at, !.pos = x.pos, !.state = StateOf(x)]
    BY <1>6 DEF Receive
  <2>2. StateOf(x) \in {"MOVING", "TEMPORARY_STOP", "UNKNOWN"}
    BY DEF StateOf, DrivingState
  <2>3. /\ runtime'.life = runtime.life /\ runtime'.at = at /\ runtime'.state = StateOf(x)
        /\ runtime'.persistedAt = runtime.persistedAt
        /\ runtime'.persisted = runtime.persisted
    BY <2>1 DEF IInv, Runtimes
  <2>4. runtime.at # None => at > runtime.at
    BY <1>6 DEF IsNewer
  <2>5. runtime.life # 0 /\ runtime.life = life
    BY <1>6 DEF IInv, Runtimes
  <2>6. ASSUME Served \subseteq Served'
        PROVE  Runtimes'
    <3>1. life' <= Cardinality(Served')
      BY <1>1, <1>3, <2>6, ServedGrows DEF IInv, Runtimes
    <3> QED BY <1>1, <2>1, <2>2, <2>5, <3>1 DEF IInv, Runtimes
  <2>7. CASE ~ShouldPersist
    <3>1. UNCHANGED <<phase, update>>
      BY <1>6, <2>7 DEF Receive
    <3>2. Served' = Served /\ Handled' = Handled
      BY <3>1 DEF Served, Handled, Busy
    <3>3. TypeOK'
      BY <1>1, <1>4, <2>2, <2>3, <3>1 DEF IInv, TypeOK, rows, requests, Busy
    <3>4. Runtimes' /\ WritersHold'
      BY <1>1, <2>6, <3>1, <3>2 DEF IInv, WritersHold, rows, requests
    <3>5. Orders'
      BY <1>1, <1>3, <2>3, <2>4, <3>2, OrdersKept DEF IInv, rows
    <3>6. Marks' /\ MarkedIsStored'
      BY <1>1, <1>3, <2>3, <3>1, MarksKept DEF IInv, rows
    <3> QED BY <3>3, <3>4, <3>5, <3>6 DEF IInv
  <2>8. CASE ShouldPersist
    <3> DEFINE y == [at |-> at, pos |-> x.pos, state |-> StateOf(x),
                     life |-> runtime.life, decided |-> now,
                     alone |-> \A d \in Conn \ {c} : ~Busy(d)]
    <3>1. Goes(c, "locking") /\ update' = [update EXCEPT ![c] = y]
      BY <1>6, <2>8 DEF Receive
    <3>2. y \in Row
      BY <1>3, <2>2, <2>5 DEF Row
    <3>3. \A d \in Conn : phase'[d] = IF d = c THEN "locking" ELSE phase[d]
      BY <3>1 DEF IInv, TypeOK, Goes
    <3>4. \A d \in Conn : Busy(d)' <=> d = c \/ Busy(d)
      BY <3>3 DEF Busy, Persisting
    <3>5. Served \subseteq Served'
      BY <3>3 DEF Served
    <3>6. PICK z \in Row : /\ z.at = at /\ z.life = runtime.life /\ z.decided = now
                           /\ z.alone <=> \A d \in Conn \ {c} : ~Busy(d)
                           /\ update' = [update EXCEPT ![c] = z]
      BY <3>1, <3>2
    <3> HIDE DEF y
    <3>7. TypeOK'
      <4>1. phase' \in [Conn -> {"away", "admitted", "replacing", "receiving", "closing",
                             "gone"} \cup Persisting]
        BY <3>1 DEF IInv, TypeOK, Goes, Persisting
      <4> QED BY <1>1, <1>4, <2>2, <2>3, <3>4, <3>6, <4>1 DEF IInv, TypeOK, rows, requests
    <3>8. Runtimes'
      BY <2>6, <3>5
    <3>9. WritersHold'
      BY <1>1, <1>2, <3>3 DEF IInv, WritersHold, rows, requests
    <3> DEFINE new(d) == IF d = c THEN z ELSE update[d]
    <3>16. \A d \in Conn : update'[d] = new(d)
      BY <3>6 DEF IInv, TypeOK
    <3>10. Handled' \subseteq Handled \cup {z}
      BY <3>4, <3>16 DEF Handled
    <3>11. z.alone => Handled' \subseteq {z} /\ \A d \in Conn : phase[d] # "marking"
      <4>1. \A d \in Conn : phase[d] = "marking" => Busy(d)
        BY DEF Busy, Persisting
      <4>2. z.alone => \A d \in Conn : ~Busy(d)
        BY <1>2, <3>6
      <4>3. z.alone => \A d \in Conn : Busy(d)' => update'[d] = z
        BY <3>4, <3>16, <4>2
      <4> QED BY <4>1, <4>2, <4>3 DEF Handled
    <3>12. Orders'
      BY <1>1, <2>3, <2>4, <2>5, <2>8, <3>6, <3>10, <3>11, OrdersExtended DEF rows
    <3>13. \A d \in Conn : phase'[d] = "marking" <=> phase[d] = "marking"
      BY <1>2, <3>3
    <3>14. \A d \in Conn : phase[d] = "marking" => update'[d] = update[d]
      BY <1>2, <3>6
    <3>15. Marks' /\ MarkedIsStored'
      BY <1>1, <1>3, <2>3, <3>13, <3>14, MarksKept DEF IInv, rows
    <3> QED BY <3>7, <3>8, <3>9, <3>12, <3>15 DEF IInv
  <2> QED BY <2>7, <2>8
<1> QED BY <1>5, <1>6

\* A handler that is done with its update, stored or not.
LEMMA DoneStep ==
    ASSUME IInv, NEW c \in Conn, Busy(c), NEW p \in {"receiving", "closing"}, Answered(c, p),
           phase[c] # "marking", lock' = Holder(c, p),
           UNCHANGED <<now, rows, runtime, current, requests, sent, life>>
    PROVE  IInv'
<1>1. \A d \in Conn : phase'[d] = IF d = c THEN p ELSE phase[d]
  BY DEF IInv, TypeOK, Answered, Goes
<1>2. \A d \in Conn : update'[d] = IF d = c THEN NoUpdate ELSE update[d]
  BY DEF IInv, TypeOK, Answered
<1>3. \A d \in Conn : Busy(d)' <=> Busy(d) /\ d # c
  BY <1>1 DEF Busy, Persisting
<1>4. TypeOK'
  <2>1. phase' \in [Conn -> {"away", "admitted", "replacing", "receiving", "closing",
                         "gone"} \cup Persisting]
    BY DEF IInv, TypeOK, Answered, Goes
  <2>2. update' \in [Conn -> Row \cup {NoUpdate}]
    BY DEF IInv, TypeOK, Answered
  <2>3. \A d \in Conn : Busy(d)' <=> update'[d] \in Row
    BY <1>2, <1>3, NoUpdateIsNoRow DEF IInv, TypeOK
  <2>4. lock' \in Conn \cup Request \cup {None}
    BY DEF IInv, TypeOK, Holder
  <2> QED BY <2>1, <2>2, <2>3, <2>4 DEF IInv, TypeOK, rows, requests
<1>5. Served \subseteq Served'
  BY <1>1 DEF Served
<1>6. now \in Nat /\ life \in Nat
  BY Numbers DEF IInv
<1>7. Runtimes'
  BY <1>5, <1>6, RuntimesKept DEF IInv
<1>8. WritersHold'
  <2>1. c \notin Request
    BY LocationAssumption
  <2> QED BY <1>1, <2>1 DEF IInv, WritersHold, Holder, rows, requests
<1>9. Orders'
  <2>1. Handled' \subseteq Handled
    BY <1>2, <1>3, HandledShrinks
  <2> QED BY <1>6, <2>1, OrdersKept DEF IInv, rows
<1>10. Marks' /\ MarkedIsStored'
  <2>1. \A d \in Conn : phase'[d] = "marking" <=> phase[d] = "marking"
    BY <1>1
  <2>2. \A d \in Conn : phase[d] = "marking" => update'[d] = update[d]
    BY <1>2
  <2> QED BY <1>6, <2>1, <2>2, MarksKept DEF IInv, rows
<1> QED BY <1>4, <1>7, <1>8, <1>9, <1>10 DEF IInv

\* A handler that goes on with its update, to store it or to mark it.
LEMMA GoesOnStep ==
    ASSUME IInv, NEW c \in Conn, Busy(c), NEW p \in {"storing", "marking"}, Goes(c, p),
           phase[c] # "marking", p = "marking" => ExistsAt(update[c].at),
           p = "storing" => lock = None /\ IsActive,
           lock' = Holder(c, p),
           UNCHANGED <<now, rows, runtime, current, update, requests, sent, life>>
    PROVE  IInv'
<1>1. \A d \in Conn : phase'[d] = IF d = c THEN p ELSE phase[d]
  BY DEF IInv, TypeOK, Goes
<1>2. \A d \in Conn : Busy(d)' <=> Busy(d)
  BY <1>1 DEF Busy, Persisting
<1>3. TypeOK'
  <2>1. phase' \in [Conn -> {"away", "admitted", "replacing", "receiving", "closing",
                         "gone"} \cup Persisting]
    BY DEF IInv, TypeOK, Goes, Persisting
  <2>2. lock' \in Conn \cup Request \cup {None}
    BY DEF IInv, TypeOK, Holder
  <2> QED BY <1>2, <2>1, <2>2 DEF IInv, TypeOK, rows, requests
<1>4. Served \subseteq Served'
  BY <1>1 DEF Served
<1>5. now \in Nat /\ life \in Nat
  BY Numbers DEF IInv
<1>6. Runtimes'
  BY <1>4, <1>5, RuntimesKept DEF IInv
<1>7. WritersHold'
  <2>1. None \notin Conn \cup Request /\ c \notin Request
    BY LocationAssumption
  <2> QED BY <1>1, <2>1 DEF IInv, WritersHold, Holder, IsActive, rows, requests
<1>8. Orders'
  <2>1. Handled' \subseteq Handled
    BY <1>2, HandledShrinks
  <2> QED BY <1>5, <2>1, OrdersKept DEF IInv, rows
<1>9. Marks' /\ MarkedIsStored'
  <2>1. \A d \in Conn : phase'[d] = "marking" => ExistsAt(update[d].at)
    BY <1>1 DEF IInv, Marks
  <2>2. \A d \in Conn : phase'[d] = "marking" => ExistsAt(update[d].at)'
    BY <2>1 DEF ExistsAt, rows
  <2>3. \A d \in Conn : phase[d] = "marking" => phase'[d] = "marking"
    BY <1>1
  <2>4. MarkedIsStored'
    BY DEF IInv, MarkedIsStored, ExistsAt, rows
  <2> QED BY <2>2, <2>3, <2>4 DEF IInv, Marks, rows
<1> QED BY <1>3, <1>6, <1>7, <1>8, <1>9 DEF IInv

LEMMA LockSessionStep ==
    ASSUME IInv, NEW c \in Conn, LockSession(c)
    PROVE  IInv'
<1>1. Busy(c) /\ phase[c] # "marking"
  BY DEF LockSession, At, Busy, Persisting
<1>2. CASE IsActive
  BY <1>1, <1>2, GoesOnStep DEF LockSession
<1>3. CASE ~IsActive
  BY <1>1, <1>3, DoneStep DEF LockSession
<1> QED BY <1>2, <1>3

LEMMA FindStoredStep ==
    ASSUME IInv, NEW c \in Conn, FindStored(c)
    PROVE  IInv'
<1>1. Busy(c) /\ phase[c] # "marking"
  BY DEF FindStored, At, Busy, Persisting
<1> QED BY <1>1, GoesOnStep DEF FindStored

LEMMA FailToStoreStep ==
    ASSUME IInv, NEW c \in Conn, FailToStore(c)
    PROVE  IInv'
<1>1. Busy(c) /\ phase[c] # "marking"
  BY DEF FailToStore, Busy, Persisting
<1> QED BY <1>1, DoneStep DEF FailToStore, Unmarked

\* A sample stands where its update stood.
LEMMA OrdersStored ==
    ASSUME TypeOK, Orders, NEW u \in Handled, NEW z \in Sample,
           z.at = u.at, z.life = u.life, z.decided = u.decided, z.alone = u.alone,
           samples' = samples \cup {z}, Handled' \subseteq Handled,
           UNCHANGED <<now, life, runtime>>
    PROVE  Orders'
<1>1. \A y \in samples \cup Handled : y.at \in Int /\ y.life \in Nat /\ y.decided \in Nat
  BY RecordTypes
<1>2. ASSUME NEW y \in samples' \cup Handled'
      PROVE  Decided(y)'
  BY <1>2 DEF Orders, Decided
<1>3. ASSUME NEW x \in samples' \cup Handled', NEW y \in samples' \cup Handled'
      PROVE  InOrderOf(x, y)'
  BY <1>1, <1>3 DEF Orders, InOrderOf
<1>4. ASSUME NEW x \in samples', NEW y \in samples' \cup Handled'
      PROVE  Apart(x, y)'
  <2>1. CASE x = z /\ y = z
    BY <1>1, <2>1 DEF Apart
  <2>2. CASE x = z /\ y # z
    <3>1. y \in samples \cup Handled
      BY <1>4, <2>2
    <3>2. AloneIsLast(u, y)
      BY <3>1 DEF Orders
    <3> QED BY <1>1, <2>2, <3>1, <3>2 DEF Apart, AloneIsLast
  <2>3. CASE x # z /\ y = z
    <3>1. Apart(x, u)
      BY <1>4, <2>3 DEF Orders
    <3> QED BY <2>3, <3>1 DEF Apart
  <2>4. CASE x # z /\ y # z
    BY <1>4, <2>4 DEF Orders, Apart
  <2> QED BY <2>1, <2>2, <2>3, <2>4
<1>5. ASSUME NEW v \in Handled', NEW y \in samples' \cup Handled'
      PROVE  AloneIsLast(v, y)'
  <2>1. CASE y = z
    <3>1. AloneIsLast(v, u)
      BY <1>5 DEF Orders
    <3> QED BY <2>1, <3>1 DEF AloneIsLast
  <2>2. CASE y # z
    BY <1>5, <2>2 DEF Orders, AloneIsLast
  <2> QED BY <2>1, <2>2
<1> QED BY <1>2, <1>3, <1>4, <1>5 DEF Orders

LEMMA StoreStep ==
    ASSUME IInv, NEW c \in Conn, NEW confirmed \in BOOLEAN, Store(c, confirmed)
    PROVE  IInv'
<1> DEFINE z == Stored(c, confirmed)
           p == IF confirmed THEN "marking" ELSE "receiving"
<1>1. /\ phase[c] = "storing" /\ samples' = samples \cup {z} /\ Goes(c, p)
      /\ UNCHANGED <<now, status, summary, runtime, current, requests, sent, life>>
      /\ lock' = Holder(c, "marking")
  BY DEF Store, At, Answered
<1>2. Busy(c) /\ update[c] \in Row /\ update[c] \in Handled
  BY <1>1 DEF IInv, TypeOK, Busy, Persisting, Handled
<1>3. /\ z \in Sample /\ z.at = update[c].at /\ z.life = update[c].life
      /\ z.decided = update[c].decided /\ z.alone = update[c].alone
      /\ z.confirmed = confirmed
  BY <1>2 DEF Stored, Row, Sample
<1> HIDE DEF z
<1>4. \A d \in Conn : phase'[d] = IF d = c THEN p ELSE phase[d]
  BY <1>1 DEF IInv, TypeOK, Goes
<1>5. \A d \in Conn : update'[d] = IF d = c /\ ~confirmed THEN NoUpdate ELSE update[d]
  BY DEF IInv, TypeOK, Store, Answered
<1>6. \A d \in Conn : Busy(d)' <=> Busy(d) /\ (d # c \/ confirmed)
  BY <1>2, <1>4 DEF Busy, Persisting
<1>7. TypeOK'
  <2>1. phase' \in [Conn -> {"away", "admitted", "replacing", "receiving", "closing",
                         "gone"} \cup Persisting]
    BY <1>1 DEF IInv, TypeOK, Goes, Persisting
  <2>2. update' \in [Conn -> Row \cup {NoUpdate}]
    BY DEF IInv, TypeOK, Store, Answered
  <2>3. \A d \in Conn : Busy(d)' <=> update'[d] \in Row
    BY <1>5, <1>6, NoUpdateIsNoRow DEF IInv, TypeOK
  <2>4. lock' \in Conn \cup Request \cup {None}
    BY <1>1 DEF IInv, TypeOK, Holder
  <2> QED BY <1>1, <1>3, <2>1, <2>2, <2>3, <2>4 DEF IInv, TypeOK, requests
<1>8. Served \subseteq Served'
  BY <1>4 DEF Served
<1>9. now \in Nat /\ life \in Nat
  BY Numbers DEF IInv
<1>10. Runtimes'
  BY <1>1, <1>8, <1>9, RuntimesKept DEF IInv
<1>11. WritersHold'
  <2>1. c \notin Request
    BY LocationAssumption
  <2> QED BY <1>1, <1>4, <2>1 DEF IInv, WritersHold, Holder, requests
<1>12. Orders'
  <2>1. Handled' \subseteq Handled
    BY <1>5, <1>6, HandledShrinks
  <2> QED BY <1>1, <1>2, <1>3, <2>1, OrdersStored DEF IInv
<1>13. Marks' /\ MarkedIsStored'
  <2>1. MarkedIsStored'
    BY <1>1 DEF IInv, MarkedIsStored, ExistsAt
  <2>2. \A d \in Conn : phase'[d] = "marking" => ExistsAt(update[d].at)'
    BY <1>1, <1>3, <1>4, <1>5 DEF IInv, Marks, ExistsAt
  <2>3. \A d \in Conn : phase[d] = "marking" => phase'[d] = "marking"
    BY <1>1, <1>4
  <2>4. confirmed => phase'[c] = "marking"
    BY <1>4
  <2>5. \A x \in samples' : x.confirmed /\ x.life = runtime'.life =>
           \/ \E d \in Conn : phase'[d] = "marking"
           \/ runtime'.persisted # None /\ x.decided <= runtime'.persisted
    BY <1>1, <1>3, <2>3, <2>4 DEF IInv, Marks
  <2> QED BY <1>1, <2>1, <2>2, <2>5 DEF IInv, Marks
<1> QED BY <1>7, <1>10, <1>11, <1>12, <1>13 DEF IInv

LEMMA MarkStep ==
    ASSUME IInv, NEW c \in Conn, Mark(c)
    PROVE  IInv'
<1>1. /\ phase[c] = "marking" /\ Answered(c, "receiving")
      /\ UNCHANGED <<now, rows, lock, current, requests, sent, life>>
  BY DEF Mark, At
<1>2. Busy(c) /\ update[c].at \in Time /\ ExistsAt(update[c].at)
  BY <1>1 DEF IInv, TypeOK, Marks, Busy, Persisting, Row
<1>3. \A d \in Conn : phase'[d] = IF d = c THEN "receiving" ELSE phase[d]
  BY <1>1 DEF IInv, TypeOK, Answered, Goes
<1>4. \A d \in Conn : update'[d] = IF d = c THEN NoUpdate ELSE update[d]
  BY <1>1 DEF IInv, TypeOK, Answered
<1>5. \A d \in Conn : Busy(d)' <=> Busy(d) /\ d # c
  BY <1>3 DEF Busy, Persisting
<1>6. now \in Nat /\ life \in Nat
  BY Numbers DEF IInv
<1>7. \/ runtime = NoRuntime /\ runtime' = runtime
      \/ runtime' = [runtime EXCEPT !.persistedAt = update[c].at, !.persisted = now]
  BY DEF Mark
<1>8. /\ runtime'.life = runtime.life /\ runtime'.at = runtime.at
      /\ runtime'.state = runtime.state
      /\ \/ runtime.life = 0 /\ runtime'.persistedAt = None /\ runtime'.persisted = None
         \/ runtime'.persistedAt = update[c].at /\ runtime'.persisted = now
  <2>1. CASE runtime = NoRuntime /\ runtime' = runtime
    BY <2>1 DEF NoRuntime
  <2>2. CASE runtime' = [runtime EXCEPT !.persistedAt = update[c].at, !.persisted = now]
    BY <2>2 DEF IInv, Runtimes
  <2> QED BY <1>7, <2>1, <2>2
<1>9. TypeOK'
  <2>1. phase' \in [Conn -> {"away", "admitted", "replacing", "receiving", "closing",
                         "gone"} \cup Persisting]
    BY <1>1 DEF IInv, TypeOK, Answered, Goes
  <2>2. update' \in [Conn -> Row \cup {NoUpdate}]
    BY <1>1 DEF IInv, TypeOK, Answered
  <2>3. \A d \in Conn : Busy(d)' <=> update'[d] \in Row
    BY <1>4, <1>5, NoUpdateIsNoRow DEF IInv, TypeOK
  <2> QED BY <1>1, <1>2, <1>8, <2>1, <2>2, <2>3 DEF IInv, TypeOK, rows, requests
<1>10. Runtimes'
  <2>1. Served \subseteq Served'
    BY <1>3 DEF Served
  <2>2. life' <= Cardinality(Served')
    BY <1>1, <1>6, <2>1, ServedGrows DEF IInv, Runtimes
  <2>3. CASE runtime = NoRuntime /\ runtime' = runtime
    BY <1>1, <2>2, <2>3 DEF IInv, Runtimes
  <2>4. CASE runtime # NoRuntime
    BY <1>1, <1>2, <1>6, <1>7, <2>2, <2>4 DEF IInv, Runtimes
  <2>5. CASE runtime = NoRuntime
    BY <2>3, <2>5 DEF Mark
  <2> QED BY <2>4, <2>5
<1>11. WritersHold'
  BY <1>1, <1>3 DEF IInv, WritersHold, rows, requests
<1>12. Orders'
  <2>1. Handled' \subseteq Handled
    BY <1>4, <1>5, HandledShrinks
  <2> QED BY <1>1, <1>6, <1>8, <2>1, OrdersKept DEF IInv, rows
<1>13. MarkedIsStored'
  BY <1>1, <1>2, <1>8 DEF MarkedIsStored, ExistsAt, rows
<1>14. Marks'
  <2>1. \A d \in Conn : phase'[d] = "marking" => ExistsAt(update[d].at)'
    BY <1>1, <1>3, <1>4 DEF IInv, Marks, ExistsAt, rows
  <2>2. \A x \in samples' : x.life = runtime'.life =>
           runtime'.persisted # None /\ x.decided <= runtime'.persisted
    <3>1. \A x \in samples : x.life \in 1..life /\ x.decided <= now
      BY DEF IInv, Orders, Decided
    <3>2. None # now
      BY <1>6, Numbers DEF IInv
    <3> QED BY <1>1, <1>6, <1>8, <3>1, <3>2 DEF rows
  <2>3. runtime'.persisted # None => runtime'.persisted <= now'
    BY <1>1, <1>6, <1>8
  <2> QED BY <2>1, <2>2, <2>3 DEF Marks
<1> QED BY <1>9, <1>10, <1>11, <1>12, <1>13, <1>14 DEF IInv

-----------------------------------------------------------------------------
(* The end of the session, and the time.                                   *)

\* A step of a request, or of the clock, that is no handler's.
LEMMA OtherStep ==
    ASSUME IInv, UNCHANGED <<samples, runtime, conns, sent, life>>,
           now' \in 0..MaxNow, now' >= now, WritersHold',
           lock' \in Conn \cup Request \cup {None},
           status' \in {"ACTIVE", "COMPLETED", "ABORTED"},
           asked' \in [Request -> {"idle", "begun", "ending", "ended", "refused", "failed"}]
    PROVE  IInv'
<1>1. now \in Nat /\ life \in Nat /\ now' \in Nat
  BY Numbers, LocationAssumption DEF IInv
<1>2. Served' = Served /\ Handled' = Handled
  BY DEF conns, Served, Handled, Busy
<1>3. TypeOK'
  BY DEF IInv, TypeOK, conns, Busy
<1>4. Runtimes'
  BY <1>1, <1>2, RuntimesKept DEF IInv
<1>5. Orders'
  BY <1>1, <1>2, OrdersKept DEF IInv
<1>6. Marks' /\ MarkedIsStored'
  BY <1>1, MarksKept DEF IInv, conns
<1> QED BY <1>3, <1>4, <1>5, <1>6 DEF IInv

LEMMA BeginEndStep ==
    ASSUME IInv, NEW r \in Request, BeginEnd(r)
    PROVE  IInv'
<1>1. WritersHold'
  BY DEF IInv, TypeOK, WritersHold, BeginEnd, rows, conns
<1>2. now' \in 0..MaxNow /\ now' >= now
  BY Numbers DEF IInv, TypeOK, BeginEnd
<1> QED BY <1>1, <1>2, OtherStep DEF IInv, TypeOK, BeginEnd, rows

LEMMA LockToEndStep ==
    ASSUME IInv, NEW r \in Request, LockToEnd(r)
    PROVE  IInv'
<1>1. None \notin Conn \cup Request
  BY LocationAssumption
<1>2. WritersHold'
  BY <1>1 DEF IInv, TypeOK, WritersHold, LockToEnd, IsActive, rows, conns
<1>3. now' \in 0..MaxNow /\ now' >= now
  BY Numbers DEF IInv, TypeOK, LockToEnd
<1> QED BY <1>2, <1>3, OtherStep DEF IInv, TypeOK, LockToEnd, rows

LEMMA EndSessionStep ==
    ASSUME IInv, NEW r \in Request, NEW body \in Body, EndSession(r, body)
    PROVE  IInv'
<1>1. Conn \cap Request = {}
  BY LocationAssumption
<1>2. WritersHold'
  BY <1>1 DEF IInv, TypeOK, WritersHold, EndSession, conns
<1>3. now' \in 0..MaxNow /\ now' >= now
  BY Numbers DEF IInv, TypeOK, EndSession
<1> QED BY <1>2, <1>3, OtherStep DEF IInv, TypeOK, EndSession

LEMMA FailToEndStep ==
    ASSUME IInv, NEW r \in Request, FailToEnd(r)
    PROVE  IInv'
<1>1. Conn \cap Request = {}
  BY LocationAssumption
<1>2. WritersHold'
  BY <1>1 DEF IInv, TypeOK, WritersHold, FailToEnd, rows, conns
<1>3. now' \in 0..MaxNow /\ now' >= now
  BY Numbers DEF IInv, TypeOK, FailToEnd
<1> QED BY <1>2, <1>3, OtherStep DEF IInv, TypeOK, FailToEnd, rows

LEMMA TickStep == ASSUME IInv, Tick PROVE IInv'
<1>1. now' \in 0..MaxNow /\ now' >= now
  BY Numbers, LocationAssumption DEF IInv, TypeOK, Tick
<1>2. WritersHold'
  BY DEF IInv, WritersHold, Tick, rows, conns, requests
<1> QED BY <1>1, <1>2, OtherStep DEF IInv, TypeOK, Tick, rows, requests

LEMMA StepInv == IInv /\ [Next]_vars => IInv'
<1> SUFFICES ASSUME IInv, [Next]_vars PROVE IInv'
  OBVIOUS
<1>1. ASSUME NEW c \in Conn,
             \/ Admit(c) \/ Register(c) \/ Replaced(c) \/ Leave(c)
             \/ Handle(c) \/ Store(c, FALSE) \/ FailToStore(c)
             \/ \E at \in Time, x \in Reading : Receive(c, at, x)
      PROVE  IInv'
  BY <1>1, AdmitStep, RegisterStep, ReplacedStep, LeaveStep, LockSessionStep,
     FindStoredStep, StoreStep, MarkStep, FailToStoreStep, ReceiveStep
     DEF Handle
<1>2. ASSUME NEW r \in Request, BeginEnd(r) \/ Ending(r) \/ FailToEnd(r)
      PROVE  IInv'
  BY <1>2, BeginEndStep, LockToEndStep, EndSessionStep, FailToEndStep DEF Ending
<1>3. CASE UNCHANGED vars
  <2>1. now' \in 0..MaxNow /\ now' >= now
    BY <1>3, Numbers DEF IInv, TypeOK, vars
  <2>2. WritersHold'
    BY <1>3 DEF IInv, WritersHold, vars, rows, conns, requests
  <2> QED BY <1>3, <2>1, <2>2, OtherStep DEF IInv, TypeOK, vars, rows, requests
<1> QED BY <1>1, <1>2, <1>3, TickStep DEF Next

LEMMA AlwaysIInv == Spec => []IInv
  BY InitInv, StepInv, PTL DEF Spec

-----------------------------------------------------------------------------
(* What follows.                                                           *)

\* The samples of one runtime are as far apart as the setting says, and those
\* it takes for stored are, although the handlers of a session share it and
\* replaced ones mark it as well (LocationUpdateService._should_persist,
\* mark_location_persisted).
THEOREM IntervalsKept == Spec => []IntervalKept
<1>1. IInv => StoredApart
  BY DEF IInv, Orders, StoredApart, InOrderOf, Apart
<1>2. IInv => IntervalKept
  BY <1>1 DEF IInv, IntervalKept
<1> QED BY <1>2, AlwaysIInv, PTL

\* Whoever is in the middle of storing holds the session's row, and found it
\* active.
LEMMA OverStep ==
    ASSUME IInv, Next, status # "ACTIVE"
    PROVE  UNCHANGED <<samples, status, summary>>
<1>1. ASSUME NEW c \in Conn, NEW confirmed, Store(c, confirmed) PROVE FALSE
  BY <1>1 DEF IInv, WritersHold, Store, At
<1>2. ASSUME NEW r \in Request, NEW body, EndSession(r, body) PROVE FALSE
  BY <1>2 DEF IInv, WritersHold, EndSession
<1> QED BY <1>1, <1>2 DEF Next, Handle, Ending, Admit, Register, Replaced, Leave,
     LockSession, FindStored, Mark, FailToStore, Receive, BeginEnd, LockToEnd,
     FailToEnd, Tick, rows

\* Nothing is added to a session that is over, nor is its end changed, whatever
\* a handler or another request was in the middle of (handle of
\* LocationUpdateService, end_session).
THEOREM OverStaysOver == Spec => OverIsOver
<1> DEFINE Over == status # "ACTIVE" => UNCHANGED <<samples, status, summary>>
<1>1. IInv /\ [Next]_vars => [Over]_vars
  BY OverStep
<1> QED BY <1>1, AlwaysIInv, PTL DEF Spec, OverIsOver

-----------------------------------------------------------------------------
(* The samples in their order.                                             *)

\* Samples of one session: their times differ.
Dated(S) ==
    /\ IsFiniteSet(S)
    /\ \A x \in S : x.at \in Int /\ x.pos \in Int
    /\ \A x, y \in S : x.at = y.at => x = y

Earlier(S, x) == {y \in S : y.at < x.at}

LEMMA PartDated ==
    ASSUME NEW S, Dated(S), NEW T \in SUBSET S
    PROVE  Dated(T) /\ IsFiniteSet(T) /\ Cardinality(T) \in Nat /\ Cardinality(T) <= Cardinality(S)
<1>1. IsFiniteSet(S)
  BY DEF Dated
<1>2. IsFiniteSet(T) /\ Cardinality(T) \in Nat /\ Cardinality(T) <= Cardinality(S)
  BY <1>1, FS_Subset, FS_CardinalityType
<1> QED BY <1>2 DEF Dated

\* A list of the samples, the earliest first.
InTime(S, list) ==
    /\ list \in [1..Cardinality(S) -> S] /\ Cardinality(S) \in Nat
    /\ \A x \in S : \E n \in 1..Cardinality(S) : list[n] = x
    /\ \A j, k \in 1..Cardinality(S) : j < k <=> list[j].at < list[k].at
    /\ \A n \in 1..Cardinality(S) : Cardinality(Earlier(S, list[n])) = n - 1

LEMMA InOrderIs ==
    ASSUME NEW S, Dated(S)
    PROVE  InTime(S, InOrder(S))
<1> DEFINE R == {xy \in S \X S : xy[1].at < xy[2].at}
           list == InOrder(S)
<1>1. \A x, y \in S : <<x, y>> \in R <=> x.at < y.at
  OBVIOUS
<1>2. list = OrderBy(S, R)
  BY DEF InOrder
<1> HIDE DEF R, list
<1>3. IsFiniteSet(S) /\ Ordered(S, R)
  BY <1>1 DEF Ordered, Dated
<1>4. IsOrder(S, R, list)
  BY <1>2, <1>3, OrderByIs
<1>5. \A x \in S : Below(S, R, x) = Earlier(S, x)
  BY <1>1 DEF Below, Earlier
<1>6. /\ list \in [1..Cardinality(S) -> S] /\ Cardinality(S) \in Nat
      /\ \A x \in S : \E n \in 1..Cardinality(S) : list[n] = x
      /\ \A j, k \in 1..Cardinality(S) : j < k <=> <<list[j], list[k]>> \in R
      /\ \A n \in 1..Cardinality(S) : Cardinality(Below(S, R, list[n])) = n - 1
  BY <1>4 DEF IsOrder
<1>7. ASSUME NEW n \in 1..Cardinality(S) PROVE Cardinality(Earlier(S, list[n])) = n - 1
  <2>1. list[n] \in S
    BY <1>6
  <2> QED BY <1>5, <1>6, <2>1
<1>8. \A j, k \in 1..Cardinality(S) : j < k <=> list[j].at < list[k].at
  <2>1. \A j \in 1..Cardinality(S) : list[j] \in S
    BY <1>6
  <2> QED BY <1>1, <1>6, <2>1
<1> QED BY <1>6, <1>7, <1>8 DEF InTime, list

\* A sample's place is after those of the earlier ones.
LEMMA PlaceOf ==
    ASSUME NEW S, Dated(S), NEW x \in S, NEW n \in Int, Cardinality(Earlier(S, x)) = n - 1
    PROVE  n \in 1..Cardinality(S) /\ InOrder(S)[n] = x
<1>1. InTime(S, InOrder(S))
  BY InOrderIs
<1>2. PICK k \in 1..Cardinality(S) : InOrder(S)[k] = x
  BY <1>1 DEF InTime
<1>3. Cardinality(Earlier(S, x)) = k - 1
  BY <1>1, <1>2 DEF InTime
<1> QED BY <1>2, <1>3

\* What is earlier comes first.
LEMMA JoinInOrder ==
    ASSUME NEW A, NEW B, Dated(A \cup B), \A a \in A, b \in B : a.at < b.at
    PROVE  InOrder(A \cup B) = InOrder(A) \o InOrder(B)
<1> DEFINE S == A \cup B
           a == Cardinality(A)
           b == Cardinality(B)
           whole == InOrder(S)
           first == InOrder(A)
           second == InOrder(B)
<1>1. /\ Dated(S) /\ Dated(A) /\ Dated(B) /\ IsFiniteSet(A) /\ IsFiniteSet(B)
      /\ a \in Nat /\ b \in Nat
  BY PartDated
<1>2. A \cap B = {}
  BY <1>1 DEF Dated
<1>3. Cardinality(S) = a + b
  <2>1. Cardinality(S) = a + b - Cardinality(A \cap B)
    BY <1>1, FS_Union
  <2>2. Cardinality(A \cap B) = 0
    BY <1>2, FS_EmptySet
  <2> QED BY <1>1, <2>1, <2>2
<1>4. InTime(S, whole) /\ InTime(A, first) /\ InTime(B, second)
  BY <1>1, InOrderIs
<1>5. ASSUME NEW n \in 1..a PROVE whole[n] = first[n]
  <2>1. first[n] \in A /\ first[n] \in S /\ Cardinality(Earlier(A, first[n])) = n - 1
    BY <1>4, <1>5 DEF InTime
  <2>2. Earlier(S, first[n]) = Earlier(A, first[n])
    <3>1. \A y \in B : first[n].at < y.at /\ first[n].at \in Int /\ y.at \in Int
      BY <1>1, <2>1 DEF Dated
    <3> QED BY <3>1 DEF Earlier
  <2> HIDE DEF S, whole, first
  <2> QED BY <1>1, <2>1, <2>2, PlaceOf DEF whole
<1>6. ASSUME NEW k \in 1..b PROVE whole[a + k] = second[k]
  <2>1. second[k] \in B /\ second[k] \in S /\ Cardinality(Earlier(B, second[k])) = k - 1
    BY <1>4, <1>6 DEF InTime
  <2>2. Earlier(S, second[k]) = A \cup Earlier(B, second[k]) /\ A \cap Earlier(B, second[k]) = {}
    BY <1>2, <2>1 DEF Earlier
  <2>3. Cardinality(Earlier(S, second[k])) = a + (k - 1)
    <3> DEFINE E == Earlier(B, second[k])
    <3>1. E \in SUBSET B
      BY DEF Earlier
    <3>2. IsFiniteSet(E)
      BY <1>1, <3>1, FS_Subset
    <3>3. Cardinality(A \cap E) = 0
      BY <2>2, FS_EmptySet
    <3>4. Cardinality(A \cup E) = a + Cardinality(E) - Cardinality(A \cap E)
      <4> HIDE DEF E, a
      <4> QED BY <1>1, <3>2, FS_Union DEF a
    <3>5. Cardinality(Earlier(S, second[k])) = Cardinality(A \cup E)
      BY <2>2
    <3> HIDE DEF E, a, S
    <3> QED BY <1>1, <2>1, <3>3, <3>4, <3>5 DEF E
  <2> HIDE DEF S, whole, second, a
  <2>4. a + k \in Int /\ Cardinality(Earlier(S, second[k])) = (a + k) - 1
    BY <1>1, <2>3
  <2> QED BY <1>1, <2>1, <2>4, PlaceOf DEF whole
<1>7. /\ whole \in [1..(a + b) -> S] /\ first \in [1..a -> A] /\ second \in [1..b -> B]
  BY <1>3, <1>4 DEF InTime
<1>8. whole \in Seq(S) /\ first \in Seq(S) /\ second \in Seq(S)
      /\ Len(whole) = a + b /\ Len(first) = a /\ Len(second) = b
  <2> HIDE DEF whole, first, second, a, b
  <2> QED BY <1>1, <1>7
<1> HIDE DEF S, whole, first, second, a, b
<1>9. first \o second \in Seq(S) /\ Len(first \o second) = a + b
  BY <1>1, <1>8
<1>10. ASSUME NEW n \in 1..(a + b) PROVE whole[n] = (first \o second)[n]
  <2>1. CASE n \in 1..a
    BY <1>1, <1>5, <1>8, <2>1
  <2>2. CASE n \notin 1..a
    <3>1. n - a \in 1..b /\ a + (n - a) = n
      BY <1>1, <2>2
    <3>2. n \in 1..(Len(first) + Len(second)) /\ ~(n <= Len(first)) /\ Len(first) = a
      BY <1>1, <1>8, <2>2
    <3>3. (first \o second)[n] = second[n - a]
      BY <1>8, <3>2, ConcatProperties
    <3> QED BY <1>6, <3>1, <3>3
  <2> QED BY <2>1, <2>2
<1>11. whole = first \o second
  BY <1>8, <1>9, <1>10, SeqEqual
<1> QED BY <1>11 DEF S, whole, first, second

LEMMA OneInOrder ==
    ASSUME NEW x, x.at \in Int, x.pos \in Int
    PROVE  InOrder({x}) = <<x>>
<1>1. Dated({x}) /\ Cardinality({x}) = 1
  BY FS_Singleton DEF Dated
<1>2. InOrder({x}) \in [1..1 -> {x}]
  BY <1>1, InOrderIs DEF InTime
<1> QED BY <1>2

\* The earliest is the head of the list.
LEMMA HeadInOrder ==
    ASSUME NEW x, NEW B, Dated({x} \cup B), \A b \in B : x.at < b.at
    PROVE  /\ InOrder({x} \cup B) = <<x>> \o InOrder(B)
           /\ Tail(InOrder({x} \cup B)) = InOrder(B)
<1>1. x.at \in Int /\ x.pos \in Int
  BY DEF Dated
<1>2. InOrder({x} \cup B) = <<x>> \o InOrder(B)
  <2>1. \A a \in {x}, b \in B : a.at < b.at
    OBVIOUS
  <2>2. InOrder({x} \cup B) = InOrder({x}) \o InOrder(B)
    BY <2>1, JoinInOrder
  <2> QED BY <1>1, <2>2, OneInOrder
<1>3. InOrder(B) \in Seq(B)
  <2>1. InTime(B, InOrder(B))
    BY PartDated, InOrderIs
  <2>2. Cardinality(B) \in Nat /\ InOrder(B) \in [1..Cardinality(B) -> B]
    BY <2>1 DEF InTime
  <2> QED BY <2>2
<1>4. Tail(<<x>> \o InOrder(B)) = InOrder(B)
  <2> DEFINE s == InOrder(B)
             t == <<x>> \o s
  <2> HIDE DEF s
  <2>1. s \in Seq(B)
    BY <1>3 DEF s
  <2>2. <<x>> \in Seq({x} \cup B) /\ s \in Seq({x} \cup B)
    BY <2>1
  <2>3. t \in Seq({x} \cup B) /\ Len(t) = Len(s) + 1 /\ \A n \in 1..Len(s) : t[n + 1] = s[n]
    BY <2>2
  <2> HIDE DEF t
  <2>4. Tail(t) \in Seq({x} \cup B) /\ Len(Tail(t)) = Len(s)
        /\ \A n \in 1..Len(s) : Tail(t)[n] = t[n + 1]
    BY <2>2, <2>3
  <2>5. Tail(t) = s
    BY <2>2, <2>3, <2>4, SeqEqual
  <2> QED BY <2>5 DEF s, t
<1> QED BY <1>2, <1>4

\* The invariant: the samples of a session have different times; a request
\* that ends it adds up those of its snapshot, and is the only one to.
SampleInv ==
    /\ IsFiniteSet(samples)
    /\ \A x, y \in samples : x.at = y.at => x = y
    /\ snapshot \in [Request -> SUBSET samples]
    /\ status = "ACTIVE" => summary = NoSummary /\ \A r \in Request : asked[r] # "ended"
    /\ summary.to \in Int \cup {None} /\ summary.distance \in Nat /\ summary.speed \in Nat
    /\ \A r \in Request : asked[r] = "ended" =>
          summary.distance = Distance(snapshot[r], summary.to)

LEMMA SamplesDated ==
    ASSUME TypeOK, SampleInv
    PROVE  Dated(samples)
<1>1. \A x \in samples : x \in Sample
  BY DEF TypeOK
<1>2. \A x \in samples : x.at \in Time /\ x.pos \in {y.pos : y \in Reading}
  BY <1>1 DEF Sample
<1>3. \A t \in Time : t \in Int
  BY LocationAssumption
<1>4. \A p \in {y.pos : y \in Reading} : p \in Int
  BY LocationAssumption
<1> QED BY <1>2, <1>3, <1>4 DEF Dated, SampleInv

Until(S, t) == {s \in S : s.at <= t}

Since(S, t) == {s \in S : s.at >= t}

\* The rows that LIMIT leaves of the list.
Limited(list, limit) == [i \in {n \in DOMAIN list : n <= limit} |-> list[i]]

\* A list within the limit is whole.
LEMMA WithinLimit ==
    ASSUME NEW S, Dated(S), NEW limit \in Nat, Cardinality(S) <= limit
    PROVE  Limited(InOrder(S), limit) = InOrder(S)
<1> DEFINE list == InOrder(S)
           N == Cardinality(S)
<1>1. list \in [1..N -> S] /\ N \in Nat
  BY InOrderIs DEF InTime
<1> HIDE DEF list, N
<1>2. {n \in DOMAIN list : n <= limit} = 1..N
  BY <1>1 DEF N
<1>3. [i \in 1..N |-> list[i]] = list
  BY <1>1
<1> QED BY <1>2, <1>3 DEF list, Limited

\* What is read up to a time, and what from it on.
LEMMA TwoWindows ==
    ASSUME NEW S, Dated(S), NEW t \in Int
    PROVE  InOrder(S) = InOrder(Until(S, t)) \o
              (IF \E s \in S : s.at = t THEN Tail(InOrder(Since(S, t))) ELSE InOrder(Since(S, t)))
<1> DEFINE before == Until(S, t)
           after == Since(S, t)
<1>0. before = {s \in S : s.at <= t} /\ after = {s \in S : s.at >= t}
  BY DEF Until, Since
<1> HIDE DEF before, after
<1>1. \A s \in S : s.at \in Int
  BY DEF Dated
<1>2. CASE ~\E s \in S : s.at = t
  <2>1. S = before \cup after /\ \A a \in before, b \in after : a.at < b.at
    BY <1>0, <1>1, <1>2
  <2> QED BY <1>2, <2>1, JoinInOrder DEF before, after
<1>3. CASE \E s \in S : s.at = t
  <2>1. PICK x \in S : x.at = t
    BY <1>3
  <2> DEFINE B == {s \in S : s.at > t}
  <2>2. /\ S = before \cup B /\ after = {x} \cup B
        /\ \A a \in before, b \in B : a.at < b.at
        /\ \A b \in B : x.at < b.at
    BY <1>0, <1>1, <2>1 DEF Dated
  <2>3. Dated(after)
    BY <1>0, PartDated
  <2> HIDE DEF B
  <2>4. Tail(InOrder(after)) = InOrder(B)
    BY <2>2, <2>3, HeadInOrder
  <2>5. InOrder(S) = InOrder(before) \o InOrder(B)
    BY <2>2, JoinInOrder
  <2> QED BY <1>3, <2>4, <2>5 DEF before, after
<1> QED BY <1>2, <1>3

\* A page, and what there is from its last row on.
LEMMA NextPage ==
    ASSUME NEW S, Dated(S), S # {}, NEW limit \in Nat \ {0}
    PROVE  LET page == Limited(InOrder(S), limit)
           IN  /\ page[Len(page)] \in S
               /\ InOrder(S) = page \o Tail(InOrder(Since(S, page[Len(page)].at)))
<1> DEFINE list == InOrder(S)
           page == Limited(list, limit)
           N == Cardinality(S)
           m == IF N <= limit THEN N ELSE limit
<1>1. list \in [1..N -> S] /\ N \in Nat /\ N # 0 /\ InTime(S, list)
  <2>1. N # 0
    BY FS_EmptySet DEF Dated
  <2> QED BY <2>1, InOrderIs DEF InTime
<1> HIDE DEF list, N
<1>2. m \in 1..N /\ {n \in DOMAIN list : n <= limit} = 1..m
  BY <1>1
<1>3. page = [i \in 1..m |-> list[i]]
  BY <1>2 DEF Limited
<1> HIDE DEF m, page
<1>4. page \in Seq(S) /\ Len(page) = m
  BY <1>1, <1>2, <1>3
<1> DEFINE x == page[Len(page)]
           A == {s \in S : s.at <= x.at}
           B == {s \in S : s.at > x.at}
<1>5. x = list[m] /\ x \in S /\ Cardinality(Earlier(S, x)) = m - 1
  <2>1. m \in 1..m /\ x = list[m]
    BY <1>1, <1>2, <1>3, <1>4
  <2>2. m \in 1..N
    BY <1>2
  <2> QED BY <1>1, <2>1, <2>2 DEF InTime, N
<1>6. \A s \in S : s.at \in Int
  BY DEF Dated
<1> HIDE DEF x
<1>7. InOrder(S) = InOrder(A) \o InOrder(B)
  <2>1. S = A \cup B /\ \A a \in A, b \in B : a.at < b.at
    BY <1>5, <1>6
  <2> HIDE DEF A, B
  <2> QED BY <2>1, JoinInOrder
<1>8. Tail(InOrder(Since(S, x.at))) = InOrder(B)
  <2>1. Since(S, x.at) = {x} \cup B
    BY <1>5, <1>6 DEF Dated, Since
  <2>2. \A b \in B : x.at < b.at
    BY <1>5, <1>6
  <2>3. Dated(Since(S, x.at))
    BY PartDated DEF Since
  <2> HIDE DEF B
  <2> QED BY <2>1, <2>2, <2>3, HeadInOrder
<1>9. Cardinality(A) = m /\ Dated(A)
  <2>1. A = Earlier(S, x) \cup {x} /\ x \notin Earlier(S, x)
    BY <1>5, <1>6 DEF Dated, Earlier
  <2>2. IsFiniteSet(Earlier(S, x)) /\ Dated(A)
    <3>1. Earlier(S, x) \in SUBSET S /\ A \in SUBSET S
      BY DEF Earlier
    <3> HIDE DEF A
    <3> QED BY <3>1, PartDated
  <2> HIDE DEF A
  <2>3. Cardinality(A) = Cardinality(Earlier(S, x)) + 1
    BY <2>1, <2>2, FS_AddElement
  <2> QED BY <1>2, <1>1, <1>5, <2>2, <2>3
<1>10. page = InOrder(A)
  <2> DEFINE first == InOrder(A)
             second == InOrder(B)
  <2>1. first \in [1..m -> A] /\ m \in Nat
    BY <1>9, InOrderIs DEF InTime
  <2>2. second \in Seq(B)
    <3>1. Dated(B)
      BY PartDated
    <3>2. second \in [1..Cardinality(B) -> B] /\ Cardinality(B) \in Nat
      BY <3>1, InOrderIs DEF InTime
    <3> HIDE DEF second, B
    <3> QED BY <3>2
  <2>3. A \in SUBSET S /\ B \in SUBSET S
    OBVIOUS
  <2> HIDE DEF first, second, A, B
  <2>4. first \in Seq(S) /\ second \in Seq(S) /\ Len(first) = m
    BY <2>1, <2>2, <2>3
  <2>5. \A n \in 1..m : (first \o second)[n] = first[n]
    <3>1. \A n \in 1..m : n \in 1..(Len(first) + Len(second)) /\ n <= Len(first)
      BY <2>4
    <3> QED BY <2>4, <3>1, ConcatProperties
  <2>6. \A n \in 1..m : list[n] = first[n]
    BY <1>7, <2>5 DEF list, first, second
  <2>7. first = [n \in 1..m |-> first[n]]
    BY <2>1
  <2> QED BY <1>3, <2>6, <2>7 DEF first
<1>11. InOrder(S) = page \o Tail(InOrder(Since(S, x.at)))
  BY <1>7, <1>8, <1>10
<1> QED BY <1>5, <1>11 DEF x, page, list

\* What is read in windows is the samples, however they are cut.
LEMMA WindowsHold == TypeOK /\ SampleInv => WindowsCover
<1> SUFFICES ASSUME TypeOK, SampleInv PROVE WindowsCover
  OBVIOUS
<1> DEFINE List(from, to) == ListBySession(from, to, MaxLocationSampleLimit)
           Rest(from) == InOrder(Between(from, None))
<1>1. Dated(samples)
  BY SamplesDated
<1>2. MaxLocationSampleLimit \in Nat \ {0} /\ 2 \in Nat \ {0}
  BY DEF MaxLocationSampleLimit
<1>3. None \notin Time /\ None \notin Int /\ \A t \in Time : t \in Int
  <2>1. Time \subseteq Nat
    BY LocationAssumption
  <2>2. \A t \in Time : t \in Int
    BY <2>1
  <2>3. None \notin Int
    BY LocationAssumption
  <2>4. None \notin Time
    BY <2>2, <2>3
  <2> QED BY <2>2, <2>3, <2>4
<1>4. \A s \in samples : s.at \in Time /\ s.at \in Int
  BY <1>1 DEF Dated, TypeOK, Sample
<1>5. ASSUME NEW t \in Time, Cardinality(samples) <= MaxLocationSampleLimit
      PROVE  List(None, None)
                = List(None, t) \o (IF ExistsAt(t) THEN Tail(List(t, None)) ELSE List(t, None))
  <2> DEFINE before == Until(samples, t)
             after == Since(samples, t)
  <2>1. /\ Between(None, None) = samples
        /\ Between(None, t) = before /\ Between(t, None) = after
    BY <1>3 DEF Between, Until, Since
  <2>2. \A S \in SUBSET samples : Dated(S) /\ Cardinality(S) <= MaxLocationSampleLimit
    <3> SUFFICES ASSUME NEW S \in SUBSET samples
                 PROVE  Dated(S) /\ Cardinality(S) <= MaxLocationSampleLimit
      OBVIOUS
    <3>1. /\ Dated(S) /\ Cardinality(S) \in Nat
          /\ Cardinality(S) <= Cardinality(samples)
      BY <1>1, PartDated
    <3>2. Cardinality(samples) \in Nat
      BY <1>1, PartDated
    <3> QED BY <1>2, <1>5, <3>1, <3>2
  <2>3. \A S \in SUBSET samples :
           Limited(InOrder(S), MaxLocationSampleLimit) = InOrder(S)
    BY <1>2, <2>2, WithinLimit
  <2>4. samples \in SUBSET samples /\ before \in SUBSET samples /\ after \in SUBSET samples
    BY DEF Until, Since
  <2>5. ExistsAt(t) <=> \E s \in samples : s.at = t
    BY DEF ExistsAt
  <2> HIDE DEF before, after
  <2>6. /\ List(None, None) = InOrder(samples)
        /\ List(None, t) = InOrder(before) /\ List(t, None) = InOrder(after)
    BY <2>1, <2>3, <2>4 DEF ListBySession, Limited
  <2>7. InOrder(samples) = InOrder(before) \o
           (IF \E s \in samples : s.at = t THEN Tail(InOrder(after)) ELSE InOrder(after))
    BY <1>1, <1>3, TwoWindows DEF before, after
  <2> HIDE DEF List
  <2> QED BY <2>5, <2>6, <2>7
<1>6. ASSUME NEW from \in Time \cup {None}, NEW limit \in {2, MaxLocationSampleLimit}
      PROVE  LET page == ListBySession(from, None, limit)
             IN  page # << >> => Rest(from) = page \o Tail(Rest(page[Len(page)].at))
  <2> DEFINE S == Between(from, None)
             list == InOrder(S)
             page == ListBySession(from, None, limit)
             x == page[Len(page)]
  <2>1. S \in SUBSET samples /\ \A s \in S : from = None \/ s.at >= from
    BY DEF Between
  <2>2. Dated(S)
    BY <1>1, <2>1, PartDated
  <2>3. page = Limited(InOrder(S), limit)
    BY DEF ListBySession, Limited
  <2>4. limit \in Nat \ {0}
    BY <1>2
  <2> HIDE DEF S, page
  <2> SUFFICES ASSUME page # << >>
               PROVE  InOrder(S) = page \o Tail(Rest(x.at))
    BY DEF S, page
  <2>5. S # {}
    <3> SUFFICES ASSUME S = {} PROVE FALSE
      OBVIOUS
    <3>1. Cardinality(S) = 0 /\ list \in [1..Cardinality(S) -> S]
      BY <2>2, FS_EmptySet, InOrderIs DEF InTime
    <3>2. DOMAIN list = {}
      BY <3>1
    <3>3. page = [i \in {} |-> list[i]]
      BY <2>3, <3>2 DEF Limited
    <3>4. page = << >>
      BY <3>3
    <3> QED BY <3>4
  <2>6. x \in S /\ InOrder(S) = page \o Tail(InOrder(Since(S, x.at)))
    BY <2>2, <2>3, <2>4, <2>5, NextPage
  <2>7. Since(S, x.at) = Between(x.at, None)
    <3>1. x \in samples /\ x.at \in Time /\ x.at \in Int /\ (from = None \/ x.at >= from)
      BY <1>4, <2>1, <2>6
    <3>2. from # None => from \in Int
      BY <1>3
    <3>3. x.at # None
      BY <1>3, <3>1
    <3>4. \A s \in samples : s.at >= x.at => from = None \/ s.at >= from
      BY <1>4, <3>1, <3>2
    <3> HIDE DEF x
    <3> QED BY <3>1, <3>3, <3>4 DEF Between, Since, S
  <2> QED BY <2>6, <2>7
<1> QED BY <1>5, <1>6 DEF WindowsCover

-----------------------------------------------------------------------------
(* The way over the samples.                                               *)

\* Where the last of the samples is.
LastPos(S) == IF S = {} THEN Start ELSE (CHOOSE y \in S : \A z \in S : z.at <= y.at).pos

Legs(S) == [x \in S |-> Metres(LastPos(Earlier(S, x)), x.pos)]

LastLeg(S, to) == IF to = None THEN 0 ELSE Metres(LastPos(S), to)

LEMMA WayIs ==
    ASSUME NEW S, NEW to
    PROVE  Way(S, to) = Sum(Legs(S)) + LastLeg(S, to)
  BY DEF Way, Legs, LastLeg, LastPos, Earlier

LEMMA LatestIs ==
    ASSUME NEW S, Dated(S), NEW x \in S, \A z \in S : z.at <= x.at
    PROVE  LastPos(S) = x.pos
<1> DEFINE y == CHOOSE y \in S : \A z \in S : z.at <= y.at
<1>1. y \in S /\ \A z \in S : z.at <= y.at
  OBVIOUS
<1>2. LastPos(S) = y.pos
  BY DEF LastPos
<1> HIDE DEF y
<1>3. y = x
  BY <1>1 DEF Dated
<1> QED BY <1>2, <1>3

\* There is a last one, and a first.
LEMMA LastAndFirst ==
    ASSUME NEW S, Dated(S), S # {}
    PROVE  /\ \E x \in S : \A z \in S : z.at <= x.at
           /\ \E x \in S : \A z \in S : x.at <= z.at
<1> DEFINE list == InOrder(S)
           N == Cardinality(S)
<1>1. InTime(S, list)
  BY InOrderIs
<1>2. N \in Nat /\ N # 0
  BY <1>1, FS_EmptySet DEF Dated, InTime
<1> HIDE DEF list
<1>3. /\ \A n \in 1..N : list[n] \in S
      /\ \A x \in S : \E n \in 1..N : list[n] = x
      /\ \A j, k \in 1..N : j < k <=> list[j].at < list[k].at
  BY <1>1 DEF InTime
<1> HIDE DEF N
<1>4. 1 \in 1..N /\ N \in 1..N
  BY <1>2
<1>5. \A x \in S : x.at \in Int
  BY DEF Dated
<1>6. ASSUME NEW z \in S PROVE z.at <= list[N].at /\ list[1].at <= z.at
  <2>1. PICK n \in 1..N : list[n] = z
    BY <1>3
  <2>2. ~(list[N].at < list[n].at) /\ ~(list[n].at < list[1].at)
    <3>1. ~(N < n) /\ ~(n < 1)
      BY <1>2
    <3> QED BY <1>3, <1>4, <3>1
  <2> QED BY <1>3, <1>4, <1>5, <2>1, <2>2
<1> QED BY <1>3, <1>4, <1>6

LEMMA Positions ==
    ASSUME NEW S, Dated(S)
    PROVE  LastPos(S) \in Int
<1>1. CASE S = {}
  BY <1>1, LocationAssumption DEF LastPos
<1>2. CASE S # {}
  <2>1. PICK x \in S : \A z \in S : z.at <= x.at
    BY <1>2, LastAndFirst
  <2> QED BY <2>1, LatestIs DEF Dated
<1> QED BY <1>1, <1>2

LEMMA MetresAre ==
    ASSUME NEW a \in Int, NEW b \in Int, NEW c \in Int
    PROVE  /\ Metres(a, b) \in Nat
           /\ Metres(a, c) <= Metres(a, b) + Metres(b, c)
  BY DEF Metres

LEMMA LegsAre ==
    ASSUME NEW S, Dated(S), NEW to \in Int \cup {None}
    PROVE  Legs(S) \in [S -> Int] /\ LastLeg(S, to) \in Nat
<1>1. ASSUME NEW x \in S PROVE Metres(LastPos(Earlier(S, x)), x.pos) \in Int
  <2>1. Earlier(S, x) \in SUBSET S
    BY DEF Earlier
  <2>2. LastPos(Earlier(S, x)) \in Int
    BY <2>1, PartDated, Positions
  <2>3. x.pos \in Int
    BY DEF Dated
  <2>4. \A a, b \in Int : Metres(a, b) \in Int
    BY DEF Metres
  <2> QED BY <2>2, <2>3, <2>4
<1>2. LastLeg(S, to) \in Nat
  BY Positions, MetresAre DEF LastLeg
<1> QED BY <1>1, <1>2 DEF Legs

\* A sum is the same whatever its terms are called.
LEMMA Reindexed ==
    ASSUME NEW T, IsFiniteSet(T), NEW S, NEW f \in [S -> Int], NEW g \in [T -> S],
           \A a, b \in T : g[a] = g[b] => a = b, \A x \in S : \E a \in T : g[a] = x
    PROVE  Sum([a \in T |-> f[g[a]]]) = Sum(f)
<1> DEFINE F(U) == [a \in U |-> f[g[a]]]
           Image(U) == {g[a] : a \in U}
           C == {U \in SUBSET T : Sum(F(U)) = Sum(Restrict(f, Image(U)))}
<1>1. {} \in C
  <2>1. F({}) \in [{} -> Int] /\ Restrict(f, Image({})) \in [{} -> Int]
    BY DEF Restrict
  <2>2. Sum(F({})) = 0
    <3> HIDE DEF F
    <3> QED BY <2>1, SumEmpty
  <2>3. Sum(Restrict(f, Image({}))) = 0
    <3> DEFINE e == Restrict(f, Image({}))
    <3>1. e \in [{} -> Int] /\ DOMAIN e = {}
      BY <2>1
    <3> HIDE DEF e
    <3>2. Sum(e) = 0
      BY <3>1, SumEmpty
    <3> QED BY <3>2 DEF e
  <2> QED BY <2>2, <2>3
<1>2. ASSUME NEW U \in SUBSET T, NEW a \in U, U \ {a} \in C PROVE U \in C
  <2> DEFINE I == Image(U)
             h == Restrict(f, I)
             V == U \ {a}
  <2>1. IsFiniteSet(U) /\ IsFiniteSet(I)
    <3>1. IsFiniteSet(U)
      BY FS_Subset
    <3>2. [b \in U |-> g[b]] \in Surjection(U, I)
      BY DEF Surjection
    <3> HIDE DEF I
    <3> QED BY <3>1, <3>2, FS_Surjection
  <2>2. I \in SUBSET S /\ g[a] \in I /\ I \ {g[a]} = Image(V)
    OBVIOUS
  <2>3. h \in [I -> Int] /\ h[g[a]] = f[g[a]]
    BY <2>2 DEF Restrict
  <2>4. Restrict(h, I \ {g[a]}) = Restrict(f, Image(V))
    BY <2>2 DEF Restrict
  <2>5. F(U) \in [U -> Int] /\ F(U)[a] = f[g[a]] /\ Restrict(F(U), V) = F(V)
    BY DEF Restrict
  <2>6. Sum(F(U)) = F(U)[a] + Sum(Restrict(F(U), U \ {a}))
    <3> HIDE DEF F
    <3> QED BY <2>1, <2>5, SumWithout
  <2>7. Sum(h) = h[g[a]] + Sum(Restrict(h, I \ {g[a]}))
    <3> HIDE DEF h, I
    <3> QED BY <2>1, <2>2, <2>3, SumWithout
  <2>8. Sum(F(V)) = Sum(Restrict(f, Image(V)))
    BY <1>2
  <2>9. Sum(F(U)) = Sum(h)
    <3> HIDE DEF F, h, I, Image
    <3> QED BY <2>3, <2>4, <2>5, <2>6, <2>7, <2>8
  <2> HIDE DEF F
  <2> QED BY <2>9
<1>3. T \in C
  <2> HIDE DEF C
  <2> QED BY <1>1, <1>2, SetInduction
<1>4. Restrict(f, Image(T)) = f
  <2>1. Image(T) = S
    OBVIOUS
  <2> HIDE DEF Image
  <2> QED BY <2>1 DEF Restrict
<1> QED BY <1>3, <1>4

\* _calculate_distance adds up the way over the samples it is given.
LEMMA DistanceIsWay ==
    ASSUME NEW S, Dated(S), NEW to \in Int \cup {None}
    PROVE  Distance(S, to) = Way(S, to)
<1> DEFINE list == InOrder(S)
           N == Cardinality(S)
           found == [i \in 1..Len(list) |-> list[i].pos]
           start == <<Start>> \o found
           points == IF to = None THEN start ELSE Append(start, to)
           leg == [i \in 2..Len(points) |-> Metres(points[i - 1], points[i])]
           legs == [i \in 2..(N + 1) |-> Legs(S)[list[i - 1]]]
<1>1. InTime(S, list) /\ N \in Nat /\ list \in [1..N -> S] /\ Len(list) = N
  <2>1. InTime(S, list)
    BY InOrderIs
  <2>2. N \in Nat /\ list \in [1..N -> S]
    BY <2>1 DEF InTime
  <2> HIDE DEF list, N
  <2> QED BY <2>1, <2>2
<1>2. Distance(S, to) = Sum(leg)
  BY DEF Distance, TotalDistance
<1>3. \A x \in S : x.at \in Int /\ x.pos \in Int
  BY DEF Dated
<1> HIDE DEF list, N
<1>4. found = [i \in 1..N |-> list[i].pos] /\ found \in Seq(Int) /\ Len(found) = N
  BY <1>1, <1>3
<1> HIDE DEF found
<1>5. /\ start \in Seq(Int) /\ Len(start) = N + 1 /\ start[1] = Start
      /\ \A i \in 1..N : start[i + 1] = list[i].pos
  <2>1. Start \in Int /\ <<Start>> \in Seq(Int) /\ Len(<<Start>>) = 1
    BY LocationAssumption
  <2>2. /\ start \in Seq(Int) /\ Len(start) = N + 1
        /\ \A i \in 1..(N + 1) : start[i] = IF i <= 1 THEN <<Start>>[i] ELSE found[i - 1]
    BY <1>1, <1>4, <2>1, ConcatProperties
  <2> HIDE DEF start
  <2>3. start[1] = Start
    BY <1>1, <2>2
  <2>4. ASSUME NEW i \in 1..N PROVE start[i + 1] = list[i].pos
    <3>1. i + 1 \in 1..(N + 1) /\ ~(i + 1 <= 1) /\ (i + 1) - 1 = i
      BY <1>1
    <3> QED BY <1>4, <2>2, <3>1
  <2> QED BY <2>2, <2>3, <2>4
<1> HIDE DEF start
<1>6. ASSUME NEW T \in SUBSET S, NEW n \in 0..N, \A z \in S : z \in T <=> \E k \in 1..n : list[k] = z
      PROVE  LastPos(T) = start[n + 1]
  <2>1. CASE n = 0
    <3>1. T = {}
      BY <1>6, <2>1
    <3> QED BY <1>5, <2>1, <3>1 DEF LastPos
  <2>2. CASE n # 0
    <3>1. n \in 1..n /\ n \in 1..N
      BY <1>1, <2>2
    <3>2. list[n] \in S /\ list[n] \in T
      BY <1>1, <1>6, <3>1
    <3>3. ASSUME NEW z \in T PROVE z.at <= list[n].at
      <4>1. PICK k \in 1..n : list[k] = z
        BY <1>6
      <4>2. ~(n < k) /\ k \in 1..N
        BY <1>1, <3>1
      <4>3. ~(list[n].at < list[k].at)
        BY <1>1, <3>1, <4>2 DEF InTime, N
      <4> QED BY <1>3, <3>2, <4>1, <4>3
    <3>4. LastPos(T) = list[n].pos
      BY <3>2, <3>3, PartDated, LatestIs
    <3> QED BY <1>5, <3>1, <3>4
  <2> QED BY <2>1, <2>2
<1>7. LastPos(S) = start[N + 1]
  <2>1. \A z \in S : z \in S <=> \E k \in 1..N : list[k] = z
    BY <1>1 DEF InTime, N
  <2> QED BY <1>1, <1>6, <2>1
<1>8. ASSUME NEW i \in 1..N PROVE Legs(S)[list[i]] = Metres(start[i], start[i + 1])
  <2> DEFINE T == Earlier(S, list[i])
  <2>1. list[i] \in S /\ i - 1 \in 0..N /\ (i - 1) + 1 = i
    BY <1>1
  <2>2. T \in SUBSET S
    BY DEF Earlier
  <2>3. ASSUME NEW z \in S PROVE z \in T <=> \E k \in 1..(i - 1) : list[k] = z
    <3>1. PICK k \in 1..N : list[k] = z
      BY <1>1 DEF InTime, N
    <3>2. z \in T <=> list[k].at < list[i].at
      BY <3>1 DEF Earlier
    <3>3. list[k].at < list[i].at <=> k < i
      BY <1>1 DEF InTime, N
    <3>4. k < i <=> k \in 1..(i - 1)
      BY <1>1
    <3>5. ASSUME NEW j \in 1..(i - 1), list[j] = z PROVE j = k
      <4>1. j \in 1..N
        BY <1>1
      <4>2. ~(list[j].at < list[k].at) /\ ~(list[k].at < list[j].at)
        BY <1>3, <3>1, <3>5
      <4>3. ~(j < k) /\ ~(k < j)
        BY <1>1, <4>1, <4>2 DEF InTime, N
      <4> QED BY <1>1, <4>1, <4>3
    <3> QED BY <3>1, <3>2, <3>3, <3>4, <3>5
  <2> HIDE DEF T
  <2>4. LastPos(T) = start[i]
    BY <1>6, <2>1, <2>2, <2>3
  <2>5. Legs(S)[list[i]] = Metres(LastPos(T), list[i].pos)
    BY <2>1 DEF Legs, T
  <2> QED BY <1>5, <2>4, <2>5
<1>9. Sum(legs) = Sum(Legs(S))
  <2> DEFINE T == 2..(N + 1)
             g == [i \in T |-> list[i - 1]]
             f == Legs(S)
  <2>1. IsFiniteSet(T)
    BY <1>1, FS_Interval
  <2>2. f \in [S -> Int]
    BY LegsAre
  <2>3. \A i \in T : i - 1 \in 1..N
    BY <1>1
  <2>4. g \in [T -> S]
    BY <1>1, <2>3
  <2>5. ASSUME NEW a \in T, NEW b \in T, g[a] = g[b] PROVE a = b
    <3>1. list[a - 1] = list[b - 1] /\ a - 1 \in 1..N /\ b - 1 \in 1..N
      BY <2>3, <2>5
    <3>2. list[a - 1].at \in Int
      BY <1>1, <1>3, <3>1
    <3>3. ~(a - 1 < b - 1) /\ ~(b - 1 < a - 1)
      BY <1>1, <3>1, <3>2 DEF InTime, N
    <3> QED BY <1>1, <3>3
  <2>6. ASSUME NEW x \in S PROVE \E a \in T : g[a] = x
    <3>1. PICK n \in 1..N : list[n] = x
      BY <1>1 DEF InTime, N
    <3>2. n + 1 \in T /\ (n + 1) - 1 = n
      BY <1>1
    <3>3. g[n + 1] = x
      BY <3>1, <3>2
    <3> QED BY <3>2, <3>3
  <2>7. legs = [a \in T |-> f[g[a]]]
    OBVIOUS
  <2> HIDE DEF T, g, f, legs
  <2> QED BY <2>1, <2>2, <2>4, <2>5, <2>6, <2>7, Reindexed DEF f
<1>10. \A i \in 2..(N + 1) : legs[i] = Metres(start[i - 1], start[i])
  <2> SUFFICES ASSUME NEW i \in 2..(N + 1) PROVE legs[i] = Metres(start[i - 1], start[i])
    OBVIOUS
  <2>1. i - 1 \in 1..N /\ (i - 1) + 1 = i
    BY <1>1
  <2> QED BY <1>8, <2>1
<1>11. CASE to = None
  <2>1. points = start /\ Len(points) = N + 1
    BY <1>5, <1>11
  <2>2. leg = [i \in 2..(N + 1) |-> legs[i]]
    BY <1>10, <2>1
  <2>3. leg = legs
    BY <2>2
  <2>4. LastLeg(S, to) = 0 /\ Sum(Legs(S)) + 0 = Sum(Legs(S))
    <3>1. Sum(Legs(S)) \in Int
      BY LegsAre, AddingIs DEF AddsUp, Dated
    <3> QED BY <1>11, <3>1 DEF LastLeg
  <2> HIDE DEF leg, legs
  <2> QED BY <1>2, <1>9, <2>3, <2>4, WayIs
<1>12. CASE to # None
  <2> DEFINE T == 2..(N + 2)
             rest == Restrict(leg, T \ {N + 2})
  <2>1. /\ points \in Seq(Int) /\ Len(points) = N + 2 /\ points[N + 2] = to
        /\ \A i \in 1..(N + 1) : points[i] = start[i]
    <3>1. points = Append(start, to) /\ to \in Int
      BY <1>12
    <3> QED BY <1>1, <1>5, <3>1
  <2> HIDE DEF points
  <2>2. leg \in [T -> Int]
    <3>1. \A i \in T : points[i] \in Int /\ points[i - 1] \in Int
      BY <1>1, <2>1
    <3>2. \A i \in T : Metres(points[i - 1], points[i]) \in Int
      BY <3>1 DEF Metres
    <3> QED BY <2>1, <3>2
  <2>3. IsFiniteSet(T) /\ N + 2 \in T /\ T \ {N + 2} = 2..(N + 1)
    <3>1. IsFiniteSet(T)
      BY <1>1, FS_Interval
    <3> QED BY <1>1, <3>1
  <2>4. leg[N + 2] = Metres(start[N + 1], to)
    <3>1. (N + 2) - 1 = N + 1 /\ N + 1 \in 1..(N + 1)
      BY <1>1
    <3> QED BY <2>1, <2>3, <3>1
  <2>5. rest = legs
    <3>1. ASSUME NEW i \in 2..(N + 1) PROVE leg[i] = legs[i]
      <4>1. i \in 1..(N + 1) /\ i - 1 \in 1..(N + 1) /\ i \in T
        BY <1>1
      <4>2. leg[i] = Metres(points[i - 1], points[i])
        BY <2>1, <4>1
      <4> HIDE DEF leg, legs
      <4> QED BY <1>10, <2>1, <4>1, <4>2
    <3>2. rest = [i \in 2..(N + 1) |-> leg[i]]
      <4> HIDE DEF leg
      <4> QED BY <2>3 DEF Restrict
    <3>3. legs = [i \in 2..(N + 1) |-> legs[i]]
      OBVIOUS
    <3> HIDE DEF rest, leg, legs
    <3> QED BY <3>1, <3>2, <3>3
  <2>6. Sum(leg) = leg[N + 2] + Sum(rest) /\ Sum(rest) \in Int
    <3> HIDE DEF leg, T
    <3> QED BY <2>2, <2>3, SumWithout
  <2>7. LastLeg(S, to) = Metres(start[N + 1], to) /\ LastLeg(S, to) \in Int
    BY <1>7, <1>12, LegsAre DEF LastLeg
  <2> HIDE DEF leg, legs, rest
  <2> QED BY <1>2, <1>9, <2>4, <2>5, <2>6, <2>7, WayIs
<1> QED BY <1>11, <1>12

\* A sample that is not the last does not change where the last one is.
LEMMA LastKept ==
    ASSUME NEW T, Dated(T), NEW x \in T, NEW u \in T, x.at < u.at
    PROVE  LastPos(T) = LastPos(T \ {x})
<1> DEFINE S == T \ {x}
<1>1. \A z \in T : z.at \in Int
  BY DEF Dated
<1>2. Dated(S) /\ u \in S
  BY <1>1, PartDated
<1>3. PICK w \in S : \A z \in S : z.at <= w.at
  BY <1>2, LastAndFirst
<1>4. w \in T /\ \A z \in T : z.at <= w.at
  BY <1>1, <1>2, <1>3
<1> HIDE DEF S
<1>5. LastPos(S) = w.pos /\ LastPos(T) = w.pos
  BY <1>2, <1>3, <1>4, LatestIs
<1> QED BY <1>5 DEF S

\* A sample more makes the way no shorter.
LEMMA WayGrows ==
    ASSUME NEW T, Dated(T), NEW x \in T, NEW to \in Int \cup {None}
    PROVE  Way(T \ {x}, to) <= Way(T, to) /\ Way(T \ {x}, to) \in Int /\ Way(T, to) \in Int
<1> DEFINE S == T \ {x}
           P == Earlier(T, x)
           L == {y \in S : y.at > x.at}
           legs == Legs(T)
           rest == Restrict(Legs(T), S)
<1>1. /\ Dated(S) /\ Dated(P) /\ Dated(L) /\ IsFiniteSet(T) /\ IsFiniteSet(S)
      /\ P \in SUBSET S /\ x \notin S /\ \A z \in T : z.at \in Int /\ z.pos \in Int
  <2>1. P \in SUBSET S /\ \A z \in T : z.at \in Int /\ z.pos \in Int
    BY DEF Earlier, Dated
  <2>2. P \in SUBSET T /\ L \in SUBSET T /\ S \in SUBSET T
    BY DEF Earlier
  <2> HIDE DEF P, L, S
  <2>3. Dated(S) /\ Dated(P) /\ Dated(L) /\ IsFiniteSet(S)
    BY <2>2, PartDated
  <2> QED BY <2>1, <2>3 DEF Dated, S
<1>2. /\ legs \in [T -> Int] /\ Legs(S) \in [S -> Int]
      /\ LastLeg(T, to) \in Int /\ LastLeg(S, to) \in Int
  <2> HIDE DEF S
  <2> QED BY <1>1, LegsAre
<1>3. /\ Sum(legs) = legs[x] + Sum(rest) /\ Sum(rest) \in Int
      /\ rest \in [S -> Int] /\ \A y \in S : rest[y] = legs[y]
  <2>1. Sum(legs) = legs[x] + Sum(rest) /\ Sum(rest) \in Int
    <3> HIDE DEF legs
    <3> QED BY <1>1, <1>2, SumWithout DEF legs
  <2>2. rest \in [S -> Int] /\ \A y \in S : rest[y] = legs[y]
    <3> HIDE DEF legs
    <3> QED BY <1>2 DEF Restrict, legs
  <2> QED BY <2>1, <2>2
<1>4. Sum(Legs(S)) \in Int
  <2> DEFINE f == Legs(S)
  <2> HIDE DEF f, S
  <2>1. Sum(f) = Adding(f)[S] /\ AddsUp(f, S, Adding(f))
    BY <1>1, <1>2, AddingIs DEF f
  <2> QED BY <2>1 DEF AddsUp, f
<1>5. /\ Way(T, to) = legs[x] + Sum(rest) + LastLeg(T, to)
      /\ Way(S, to) = Sum(Legs(S)) + LastLeg(S, to)
      /\ legs[x] \in Int
  <2> HIDE DEF S, rest
  <2> QED BY <1>2, <1>3, WayIs DEF legs
<1>6. legs[x] = Metres(LastPos(P), x.pos)
  BY DEF Legs
<1>7. /\ \A z \in S : z.at < x.at => Earlier(T, z) = Earlier(S, z)
      /\ \A z \in S : z.at > x.at => Earlier(T, z) \ {x} = Earlier(S, z) /\ x \in Earlier(T, z)
      /\ \A z \in S : z.at < x.at \/ z.at > x.at
  BY <1>1 DEF Earlier, Dated
<1>8. \A z \in T : legs[z] = Metres(LastPos(Earlier(T, z)), z.pos)
  BY DEF Legs
<1>9. \A z \in S : Legs(S)[z] = Metres(LastPos(Earlier(S, z)), z.pos)
  BY DEF Legs
<1>10. S \in SUBSET T /\ x.pos \in Int /\ LastPos(P) \in Int
  BY <1>1, Positions
<1>11. CASE L = {}
  <2>1. P = S /\ \A z \in S : z.at < x.at
    <3>1. \A z \in S : z.at < x.at
      BY <1>7, <1>11
    <3> QED BY <1>1, <3>1 DEF Earlier
  <2>2. rest = Legs(S)
    <3>1. \A z \in S : rest[z] = Legs(S)[z]
      BY <1>3, <1>7, <1>8, <1>9, <1>10, <2>1
    <3> HIDE DEF rest, S
    <3> QED BY <1>2, <1>3, <3>1
  <2>3. LastPos(T) = x.pos
    <3>1. \A z \in T : z.at <= x.at
      BY <1>1, <2>1
    <3> QED BY <3>1, LatestIs
  <2>4. LastLeg(S, to) <= legs[x] + LastLeg(T, to)
    <3>1. CASE to = None
      <4>1. legs[x] \in Nat
        BY <1>6, <1>10, MetresAre
      <4> QED BY <3>1, <4>1 DEF LastLeg
    <3>2. CASE to # None
      <4>1. Metres(LastPos(P), to) <= Metres(LastPos(P), x.pos) + Metres(x.pos, to)
        BY <1>10, <3>2, MetresAre
      <4>2. /\ LastLeg(S, to) = Metres(LastPos(P), to)
            /\ LastLeg(T, to) = Metres(x.pos, to)
        BY <2>1, <2>3, <3>2 DEF LastLeg
      <4> HIDE DEF S, P, legs
      <4> QED BY <1>6, <4>1, <4>2
    <3> QED BY <3>1, <3>2
  <2> HIDE DEF legs, rest, S
  <2>5. /\ Way(T, to) = legs[x] + Sum(rest) + LastLeg(T, to)
        /\ Way(S, to) = Sum(rest) + LastLeg(S, to)
    BY <1>5, <2>2
  <2>6. Way(S, to) <= Way(T, to) /\ Way(S, to) \in Int /\ Way(T, to) \in Int
    BY <1>2, <1>3, <1>5, <2>4, <2>5
  <2> QED BY <2>6 DEF S
<1>12. CASE L # {}
  <2>1. PICK y \in L : \A z \in L : y.at <= z.at
    BY <1>1, <1>12, LastAndFirst
  <2>2. y \in S /\ y.at > x.at /\ y \in T /\ y.pos \in Int
    BY <1>1, <2>1
  <2> DEFINE others == S \ {y}
  <2>3. Earlier(S, y) = P
    <3>1. \A z \in S : z.at < y.at => z.at < x.at
      BY <1>1, <1>7, <2>1, <2>2
    <3>2. \A z \in S : z.at < x.at => z.at < y.at
      BY <1>1, <2>2
    <3> QED BY <1>1, <3>1, <3>2 DEF Earlier
  <2>4. LastPos(Earlier(T, y)) = x.pos
    <3>1. Earlier(T, y) \in SUBSET T /\ x \in Earlier(T, y)
      BY <1>7, <2>2 DEF Earlier
    <3>2. \A z \in Earlier(T, y) : z.at <= x.at
      <4>1. \A z \in Earlier(T, y) : z = x \/ z \in P
        BY <1>7, <2>2, <2>3
      <4> QED BY <1>1, <4>1 DEF Earlier
    <3> QED BY <3>1, <3>2, PartDated, LatestIs
  <2>5. ASSUME NEW z \in others PROVE rest[z] = Legs(S)[z]
    <3>1. CASE z.at < x.at
      BY <1>3, <1>7, <1>8, <1>9, <1>10, <3>1
    <3>2. CASE z.at > x.at
      <4>1. z \in L /\ y.at <= z.at /\ z # y
        BY <2>1, <3>2
      <4>2. y.at < z.at
        BY <1>1, <2>2, <4>1 DEF Dated
      <4>3. y \in Earlier(T, z) /\ x \in Earlier(T, z) /\ Earlier(T, z) \in SUBSET T
        BY <1>7, <2>2, <3>2, <4>2 DEF Earlier
      <4>4. x.at < y.at
        BY <1>1, <2>2
      <4>5. LastPos(Earlier(T, z)) = LastPos(Earlier(T, z) \ {x})
        BY <4>3, <4>4, PartDated, LastKept
      <4>6. Earlier(T, z) \ {x} = Earlier(S, z)
        BY <1>7, <3>2
      <4> QED BY <1>3, <1>8, <1>9, <1>10, <4>5, <4>6
    <3> QED BY <1>7, <3>1, <3>2
  <2>6. LastLeg(T, to) = LastLeg(S, to)
    <3>1. LastPos(T) = LastPos(S)
      <4>1. x.at < y.at
        BY <1>1, <2>2
      <4> QED BY <2>2, <4>1, LastKept
    <3> QED BY <3>1 DEF LastLeg
  <2>7. Restrict(rest, others) = Restrict(Legs(S), others)
    <3> HIDE DEF rest
    <3> QED BY <2>5 DEF Restrict
  <2>8. /\ Sum(rest) = rest[y] + Sum(Restrict(rest, others))
        /\ Sum(Legs(S)) = Legs(S)[y] + Sum(Restrict(Legs(S), others))
        /\ Sum(Restrict(Legs(S), others)) \in Int
    <3> DEFINE f == Legs(S)
    <3> HIDE DEF f, rest, S
    <3> QED BY <1>1, <1>2, <1>3, <2>2, SumWithout DEF f
  <2>9. rest[y] = Metres(x.pos, y.pos) /\ Legs(S)[y] = Metres(LastPos(P), y.pos)
    BY <1>3, <1>8, <1>9, <2>2, <2>3, <2>4
  <2>10. Metres(LastPos(P), y.pos) <= Metres(LastPos(P), x.pos) + Metres(x.pos, y.pos)
    BY <1>10, <2>2, MetresAre
  <2>11. rest[y] \in Int /\ Legs(S)[y] \in Int
    <3> HIDE DEF rest, S
    <3> QED BY <1>2, <1>3, <2>2
  <2> DEFINE sum == Sum(Restrict(Legs(S), others))
             f == Legs(S)
  <2>12. Sum(rest) = rest[y] + sum /\ Sum(f) = f[y] + sum /\ sum \in Int
    BY <2>7, <2>8
  <2>13. f[y] <= legs[x] + rest[y] /\ f[y] \in Int
    BY <1>6, <2>9, <2>10, <2>11
  <2>14. Way(S, to) = Sum(f) + LastLeg(S, to)
    BY <1>5
  <2> HIDE DEF legs, rest, S, sum, f
  <2>15. Way(S, to) <= Way(T, to) /\ Way(S, to) \in Int /\ Way(T, to) \in Int
    BY <1>2, <1>5, <2>6, <2>11, <2>12, <2>13, <2>14
  <2> QED BY <2>15 DEF S
<1> QED BY <1>11, <1>12

\* The way over some of the samples is no longer than over all of them.
LEMMA WayOfPart ==
    ASSUME NEW T, Dated(T), NEW S \in SUBSET T, NEW to \in Int \cup {None}
    PROVE  Way(S, to) <= Way(T, to) /\ Way(S, to) \in Int /\ Way(T, to) \in Int
<1> DEFINE D == T \ S
           C == {U \in SUBSET D : Way(S, to) <= Way(S \cup U, to)}
<1>1. \A U \in SUBSET D : Dated(S \cup U) /\ Way(S \cup U, to) \in Int
  <2> SUFFICES ASSUME NEW U \in SUBSET D
               PROVE  Dated(S \cup U) /\ Way(S \cup U, to) \in Int
    OBVIOUS
  <2>1. Dated(S \cup U)
    BY PartDated
  <2> DEFINE V == S \cup U
  <2>2. Legs(V) \in [V -> Int] /\ LastLeg(V, to) \in Int /\ IsFiniteSet(V)
    <3>1. Dated(V)
      BY <2>1
    <3> HIDE DEF V
    <3> QED BY <3>1, LegsAre DEF Dated
  <2>3. Sum(Legs(V)) \in Int
    <3> DEFINE f == Legs(V)
    <3> HIDE DEF f, V
    <3>1. Sum(f) = Adding(f)[V] /\ AddsUp(f, V, Adding(f))
      BY <2>2, AddingIs DEF f
    <3> QED BY <3>1 DEF AddsUp, f
  <2>4. Way(V, to) = Sum(Legs(V)) + LastLeg(V, to)
    BY WayIs
  <2> HIDE DEF V
  <2>5. Way(V, to) \in Int
    BY <2>2, <2>3, <2>4
  <2> QED BY <2>1, <2>5 DEF V
<1>2. {} \in C
  <2>1. {} \in SUBSET D /\ S \cup {} = S
    OBVIOUS
  <2>2. Way(S \cup {}, to) \in Int
    <3> HIDE DEF D
    <3> QED BY <1>1, <2>1
  <2>3. Way(S, to) <= Way(S \cup {}, to)
    BY <2>1, <2>2
  <2> QED BY <2>1, <2>3
<1>3. ASSUME NEW U \in SUBSET D, NEW x \in U, U \ {x} \in C PROVE U \in C
  <2> DEFINE V == S \cup U
  <2>1. V \ {x} = S \cup (U \ {x}) /\ x \in V /\ U \ {x} \in SUBSET D
    OBVIOUS
  <2>2. Dated(V) /\ Way(V, to) \in Int /\ Way(S \cup (U \ {x}), to) \in Int
    <3> HIDE DEF D
    <3> QED BY <1>1, <2>1
  <2> HIDE DEF V
  <2>3. Way(V \ {x}, to) <= Way(V, to)
    BY <2>1, <2>2, WayGrows
  <2>4. Way(S, to) <= Way(V \ {x}, to) /\ Way(S, to) \in Int
    <3>1. Way(S, to) <= Way(S \cup (U \ {x}), to)
      BY <1>3
    <3>2. {} \in SUBSET D /\ S \cup {} = S
      OBVIOUS
    <3>3. Way(S, to) \in Int
      <4> HIDE DEF D
      <4> QED BY <1>1, <3>2
    <3> QED BY <2>1, <3>1, <3>3
  <2>5. Way(S, to) <= Way(V, to)
    BY <2>1, <2>2, <2>3, <2>4
  <2> QED BY <2>5 DEF V
<1>4. D \in C
  <2>1. IsFiniteSet(D)
    <3>1. D \in SUBSET T
      OBVIOUS
    <3> HIDE DEF D
    <3> QED BY <3>1, PartDated
  <2> HIDE DEF C, D
  <2> QED BY <1>2, <1>3, <2>1, SetInduction
<1>5. S \cup D = T /\ D \in SUBSET D /\ {} \in SUBSET D /\ S \cup {} = S
  OBVIOUS
<1>6. Way(S, to) \in Int /\ Way(T, to) \in Int
  <2> HIDE DEF D
  <2> QED BY <1>1, <1>5
<1>7. Way(S, to) <= Way(S \cup D, to)
  BY <1>4
<1> QED BY <1>5, <1>6, <1>7

\* No way is shorter than the straight one.
LEMMA WayIsLong ==
    ASSUME NEW S, Dated(S), NEW to \in Int \cup {None}
    PROVE  Way(S, to) \in Nat /\ (to # None => Way(S, to) >= Metres(Start, to))
<1>1. Way({}, to) <= Way(S, to) /\ Way(S, to) \in Int
  BY WayOfPart
<1>2. Way({}, to) = IF to = None THEN 0 ELSE Metres(Start, to)
  <2> DEFINE f == Legs({})
  <2>1. f \in [{} -> Int] /\ DOMAIN f = {}
    BY DEF Legs
  <2>2. Way({}, to) = Sum(f) + LastLeg({}, to)
    BY WayIs
  <2>3. LastLeg({}, to) = IF to = None THEN 0 ELSE Metres(Start, to)
    BY DEF LastLeg, LastPos
  <2>4. to # None => Metres(Start, to) \in Int
    BY LocationAssumption, MetresAre
  <2> HIDE DEF f
  <2>5. Sum(f) = 0
    BY <2>1, SumEmpty
  <2> QED BY <2>2, <2>3, <2>4, <2>5
<1>3. to # None => Metres(Start, to) \in Nat
  BY LocationAssumption, MetresAre
<1> QED BY <1>1, <1>2, <1>3

-----------------------------------------------------------------------------
(* What is read of the samples.                                            *)

LEMMA SampleInitInv == Init => SampleInv
<1> SUFFICES ASSUME Init PROVE SampleInv
  OBVIOUS
<1>1. snapshot \in [Request -> SUBSET samples] /\ IsFiniteSet(samples)
  BY FS_EmptySet DEF Init
<1>2. summary = NoSummary /\ \A r \in Request : asked[r] # "ended"
  BY DEF Init
<1>3. /\ summary.to \in Int \cup {None} /\ summary.distance \in Nat
      /\ summary.speed \in Nat
  BY <1>2 DEF NoSummary
<1> QED BY <1>1, <1>2, <1>3 DEF Init, SampleInv

\* Whoever leaves the rows and the requests alone.
LEMMA SamplesAside ==
    ASSUME SampleInv, UNCHANGED <<samples, status, summary, asked, snapshot>>
    PROVE  SampleInv'
  BY DEF SampleInv

LEMMA StoreSamples ==
    ASSUME IInv, SampleInv, NEW c \in Conn, NEW confirmed, Store(c, confirmed)
    PROVE  SampleInv'
<1> DEFINE x == Stored(c, confirmed)
<1>1. /\ samples' = samples \cup {x} /\ x.at = update[c].at /\ ~ExistsAt(x.at)
      /\ UNCHANGED <<status, summary, asked, snapshot>>
  BY DEF Store, Stored, requests
<1>2. status = "ACTIVE"
  BY DEF Store, At, IInv, WritersHold
<1> HIDE DEF x
<1>3. IsFiniteSet(samples')
  BY <1>1, FS_AddElement DEF SampleInv
<1>4. \A y, z \in samples' : y.at = z.at => y = z
  BY <1>1 DEF SampleInv, ExistsAt
<1>5. snapshot' \in [Request -> SUBSET samples']
  <2>1. SUBSET samples \subseteq SUBSET samples'
    BY <1>1
  <2> QED BY <1>1, <2>1 DEF SampleInv
<1> QED BY <1>1, <1>2, <1>3, <1>4, <1>5 DEF SampleInv

LEMMA BeginEndSamples ==
    ASSUME IInv, SampleInv, NEW r \in Request, BeginEnd(r)
    PROVE  SampleInv'
<1>1. /\ UNCHANGED <<samples, status, summary>>
      /\ asked' = [asked EXCEPT ![r] = "begun"]
      /\ snapshot' = [snapshot EXCEPT ![r] = samples]
  BY DEF BeginEnd, rows
<1>2. \A q \in Request : asked'[q] = "ended" => asked[q] = "ended" /\ snapshot'[q] = snapshot[q]
  BY <1>1 DEF IInv, TypeOK, SampleInv
<1>3. snapshot' \in [Request -> SUBSET samples']
  BY <1>1 DEF SampleInv
<1> QED BY <1>1, <1>2, <1>3 DEF SampleInv

\* A request that does not end the session.
LEMMA AskedSamples ==
    ASSUME IInv, SampleInv, NEW r \in Request, LockToEnd(r) \/ FailToEnd(r)
    PROVE  SampleInv'
<1>1. UNCHANGED <<samples, status, summary, snapshot>>
  BY DEF LockToEnd, FailToEnd, rows
<1>2. \A q \in Request : asked'[q] = "ended" => asked[q] = "ended"
  BY DEF LockToEnd, FailToEnd, IInv, TypeOK
<1> QED BY <1>1, <1>2 DEF SampleInv

LEMMA SpeedIs ==
    ASSUME NEW distance \in Nat, NEW duration \in Nat
    PROVE  AverageSpeed(distance, duration) \in Nat
<1>1. CASE duration = 0
  BY <1>1 DEF AverageSpeed
<1>2. CASE duration # 0
  <2> DEFINE a == 720 * distance + duration
             b == 2 * duration
             c == a \div b
  <2>1. a \in Nat /\ b \in Nat \ {0}
    BY <1>2
  <2>2. AverageSpeed(distance, duration) = c
    BY <1>2 DEF AverageSpeed
  <2> HIDE DEF a, b
  <2>3. c \in Int /\ a < b * c + b
    BY <2>1, Division
  <2> HIDE DEF c
  <2>4. ASSUME c < 0 PROVE FALSE
    <3>1. b * c + b <= b * 0
      BY <2>1, <2>3, <2>4, Larger
    <3>2. b * 0 = 0 /\ b * c \in Int
      BY <2>1, <2>3
    <3> QED BY <2>1, <2>3, <3>1, <3>2
  <2> QED BY <2>2, <2>3, <2>4
<1> QED BY <1>1, <1>2

LEMMA EndSamples ==
    ASSUME IInv, SampleInv, NEW r \in Request, NEW body \in Body, EndSession(r, body)
    PROVE  SampleInv'
<1> DEFINE distance == Distance(snapshot[r], body.to)
<1>1. status = "ACTIVE" /\ \A q \in Request : asked[q] # "ended"
  BY DEF EndSession, IInv, WritersHold, SampleInv
<1>2. /\ summary' = [distance |-> distance, duration |-> now,
                     speed |-> AverageSpeed(distance, now), to |-> body.to]
      /\ status' # "ACTIVE" /\ asked' = [asked EXCEPT ![r] = "ended"]
      /\ UNCHANGED <<samples, snapshot>>
  BY DEF EndSession
<1>3. body.to \in Int \cup {None}
  BY LocationAssumption
<1>4. Dated(snapshot[r])
  <2>1. snapshot[r] \in SUBSET samples
    BY DEF SampleInv
  <2> QED BY <2>1, SamplesDated, PartDated DEF IInv
<1>5. distance \in Nat
  BY <1>3, <1>4, DistanceIsWay, WayIsLong
<1>6. AverageSpeed(distance, now) \in Nat
  <2>1. now \in Nat
    BY Numbers DEF IInv
  <2> HIDE DEF distance
  <2> QED BY <1>5, <2>1, SpeedIs
<1>7. \A q \in Request : asked'[q] = "ended" => q = r
  BY <1>1, <1>2 DEF IInv, TypeOK
<1> HIDE DEF distance
<1>8. /\ summary'.distance = distance /\ summary'.to = body.to
      /\ summary'.speed = AverageSpeed(distance, now)
  BY <1>2
<1>9. \A q \in Request : asked'[q] = "ended" => summary'.distance = Distance(snapshot'[q], summary'.to)
  BY <1>2, <1>7, <1>8 DEF distance
<1> QED BY <1>2, <1>3, <1>5, <1>6, <1>8, <1>9 DEF SampleInv

LEMMA SampleStepInv == IInv /\ SampleInv /\ [Next]_vars => SampleInv'
<1> SUFFICES ASSUME IInv, SampleInv, [Next]_vars PROVE SampleInv'
  OBVIOUS
<1>1. ASSUME NEW c \in Conn, NEW confirmed, Store(c, confirmed) PROVE SampleInv'
  BY <1>1, StoreSamples
<1>2. ASSUME NEW c \in Conn,
             \/ Admit(c) \/ Register(c) \/ Replaced(c) \/ Leave(c)
             \/ LockSession(c) \/ FindStored(c) \/ Mark(c) \/ FailToStore(c)
             \/ \E at \in Time, x \in Reading : Receive(c, at, x)
      PROVE  SampleInv'
  BY <1>2, SamplesAside DEF Admit, Register, Replaced, Leave, LockSession, FindStored, Mark,
     FailToStore, Receive, rows, requests
<1>3. ASSUME NEW r \in Request, BeginEnd(r) \/ Ending(r) \/ FailToEnd(r)
      PROVE  SampleInv'
  BY <1>3, BeginEndSamples, AskedSamples, EndSamples DEF Ending
<1>4. CASE Tick \/ UNCHANGED vars
  BY <1>4, SamplesAside DEF Tick, vars, rows, requests
<1> QED BY <1>1, <1>2, <1>3, <1>4 DEF Next, Handle

LEMMA DistancesHold == TypeOK /\ SampleInv => DistanceOfSamples
<1> SUFFICES ASSUME TypeOK, SampleInv, NEW r \in Request, asked[r] = "ended"
             PROVE  /\ summary.distance <= Way(samples, summary.to)
                    /\ samples = snapshot[r] => summary.distance = Way(samples, summary.to)
                    /\ summary.to # None => summary.distance >= Metres(Start, summary.to)
  BY DEF DistanceOfSamples, SampleInv
<1>1. /\ summary.distance = Distance(snapshot[r], summary.to)
      /\ summary.to \in Int \cup {None} /\ snapshot[r] \in SUBSET samples
  BY DEF SampleInv
<1>2. Dated(samples) /\ Dated(snapshot[r])
  BY <1>1, SamplesDated, PartDated
<1>3. summary.distance = Way(snapshot[r], summary.to)
  BY <1>1, <1>2, DistanceIsWay
<1>4. Way(snapshot[r], summary.to) <= Way(samples, summary.to)
  BY <1>1, <1>2, WayOfPart
<1>5. summary.to # None => Way(snapshot[r], summary.to) >= Metres(Start, summary.to)
  BY <1>1, <1>2, WayIsLong
<1> QED BY <1>3, <1>4, <1>5

\* What is read of the samples of a drive is all of them, in order: in two
\* intervals or page by page, and as the length that its end stores, which
\* is that of the way over the samples of its snapshot, no longer than the
\* one over all of them and no shorter than the straight one
\* (LocationSampleRepository.list_by_session, _calculate_distance,
\* total_distance_meters).
THEOREM SamplesAreReadWhole == Spec => []SamplesReadWhole
<1>1. Spec => [](IInv /\ SampleInv)
  <2>1. Init => IInv /\ SampleInv
    BY InitInv, SampleInitInv
  <2>2. (IInv /\ SampleInv) /\ [Next]_vars => (IInv /\ SampleInv)'
    BY StepInv, SampleStepInv
  <2> QED BY <2>1, <2>2, PTL DEF Spec
<1>2. IInv /\ SampleInv => SamplesReadWhole
  BY WindowsHold, DistancesHold DEF IInv, SamplesReadWhole
<1> QED BY <1>1, <1>2, PTL

-----------------------------------------------------------------------------
(* The calendar of the reports, for any set of years.                      *)

LEMMA Quotients ==
    ASSUME NEW a \in Int, NEW b \in Int, a <= b, NEW k \in {4, 100, 400}
    PROVE  0 <= (b \div k) - (a \div k) /\ (b \div k) - (a \div k) <= b - a
<1>1. CASE k = 4 BY <1>1
<1>2. CASE k = 100 BY <1>2
<1>3. CASE k = 400 BY <1>3
<1> QED BY <1>1, <1>2, <1>3

LEMMA YearsGrow ==
    ASSUME NEW x \in Int, NEW y \in Int, x <= y
    PROVE  DaysBeforeYear(x) <= DaysBeforeYear(y) /\ DaysBeforeYear(x) \in Int
<1>1. \A k \in {4, 100, 400} :
        /\ (x - 1) \div k \in Int /\ (y - 1) \div k \in Int
        /\ 0 <= ((y - 1) \div k) - ((x - 1) \div k)
        /\ ((y - 1) \div k) - ((x - 1) \div k) <= y - x
  BY Quotients
<1> QED BY <1>1 DEF DaysBeforeYear

Leap(y) == IF IsLeap(y) THEN 1 ELSE 0

LEMMA YearLength ==
    ASSUME NEW y \in Int
    PROVE  DaysBeforeYear(y + 1) = DaysBeforeYear(y) + 365 + Leap(y)
<1>1. (y \div 4) - ((y - 1) \div 4) = IF y % 4 = 0 THEN 1 ELSE 0
  OBVIOUS
<1>2. (y \div 100) - ((y - 1) \div 100) = IF y % 100 = 0 THEN 1 ELSE 0
  OBVIOUS
<1>3. (y \div 400) - ((y - 1) \div 400) = IF y % 400 = 0 THEN 1 ELSE 0
  OBVIOUS
<1>4. (y % 400 = 0 => y % 100 = 0) /\ (y % 100 = 0 => y % 4 = 0)
  OBVIOUS
<1>5. DaysBeforeYear(y + 1) = 365 * y + (y \div 4) - (y \div 100) + (y \div 400)
  BY DEF DaysBeforeYear
<1> QED BY <1>1, <1>2, <1>3, <1>4, <1>5 DEF DaysBeforeYear, Leap, IsLeap

LEMMA MonthTable ==
    ASSUME NEW y \in Int
    PROVE  LET b == DaysBeforeMonth(y)
               l == Leap(y)
           IN  /\ b[1] = 0 /\ b[2] = 31 /\ b[3] = 59 + l /\ b[4] = 90 + l
               /\ b[5] = 120 + l /\ b[6] = 151 + l /\ b[7] = 181 + l
               /\ b[8] = 212 + l /\ b[9] = 243 + l /\ b[10] = 273 + l
               /\ b[11] = 304 + l /\ b[12] = 334 + l /\ b[13] = 365 + l
  BY DEF DaysBeforeMonth, Leap

\* The months of a year follow one another without gap.
LEMMA MonthsGrow ==
    ASSUME NEW y \in Int
    PROVE  LET b == DaysBeforeMonth(y) IN
           /\ Leap(y) \in {0, 1}
           /\ \A m \in 1..13 : b[m] \in Nat
           /\ \A m \in 1..12 : b[m] < b[m + 1] /\ DaysIn(y, m) = b[m + 1] - b[m]
           /\ \A m, k \in 1..13 : m <= k => b[m] <= b[k]
           /\ \A d \in 1..(365 + Leap(y)) : \E m \in 1..12 : b[m] < d /\ d <= b[m + 1]
           /\ b[1] = 0 /\ b[13] = 365 + Leap(y)
<1> DEFINE b == DaysBeforeMonth(y)
           l == Leap(y)
<1>1. l \in {0, 1}
  BY DEF Leap
<1>2. /\ b[1] = 0 /\ b[2] = 31 /\ b[3] = 59 + l /\ b[4] = 90 + l
      /\ b[5] = 120 + l /\ b[6] = 151 + l /\ b[7] = 181 + l
      /\ b[8] = 212 + l /\ b[9] = 243 + l /\ b[10] = 273 + l
      /\ b[11] = 304 + l /\ b[12] = 334 + l /\ b[13] = 365 + l
  BY MonthTable
<1>3. \A m \in 1..12 : DaysIn(y, m) = b[m + 1] - b[m]
  BY DEF DaysIn
<1> HIDE DEF b, l
<1>4. \A m \in 1..13 : m \in {1, 2, 3, 4, 5, 6, 7, 8, 9, 10, 11, 12, 13}
  OBVIOUS
<1>5. \A m \in 1..13 : b[m] \in Nat
  BY <1>1, <1>2, <1>4
<1>6. \A m \in 1..12 : b[m] < b[m + 1]
  BY <1>1, <1>2, <1>4
<1>7. \A m, k \in 1..13 : m <= k => b[m] <= b[k]
  <2> SUFFICES ASSUME NEW m \in 1..13, NEW k \in 1..13, m < k PROVE b[m] <= b[k]
    BY <1>5
  <2>1. \A k1 \in 1..13 : k1 >= 1 /\ k1 <= 13
    OBVIOUS
  <2> QED BY <1>1, <1>2, <1>4
<1>8. ASSUME NEW d \in 1..(365 + l)
      PROVE  \E m \in 1..12 : b[m] < d /\ d <= b[m + 1]
  <2>1. SUFFICES ASSUME \A m \in 1..12 : ~(b[m] < d /\ d <= b[m + 1]) PROVE FALSE
    OBVIOUS
  <2>2. \A m \in 1..12 : b[m] < d => b[m + 1] < d
    BY <1>1, <1>5, <2>1
  <2>3. b[1] < d
    BY <1>1, <1>2
  <2>4. b[5] < d
    BY <2>2, <2>3
  <2>5. b[9] < d
    BY <2>2, <2>4
  <2>6. b[13] < d
    BY <2>2, <2>5
  <2> QED BY <1>1, <1>2, <2>6
<1> QED BY <1>1, <1>2, <1>3, <1>5, <1>6, <1>7, <1>8 DEF b, l

\* A day has one year and one month.
LEMMA OneYear ==
    ASSUME NEW y \in Year, NEW n \in Int,
           DaysBeforeYear(y) < n, n <= DaysBeforeYear(y + 1)
    PROVE  YearOf(n) = y
<1>1. \A x \in Year : x # y => ~(DaysBeforeYear(x) < n /\ n <= DaysBeforeYear(x + 1))
  <2> SUFFICES ASSUME NEW x \in Year, x # y,
                      DaysBeforeYear(x) < n, n <= DaysBeforeYear(x + 1)
               PROVE  FALSE
    OBVIOUS
  <2>1. x \in Int /\ y \in Int /\ (x + 1 <= y \/ y + 1 <= x)
    BY YearAssumption
  <2>2. x + 1 <= y => DaysBeforeYear(x + 1) <= DaysBeforeYear(y)
    BY <2>1, YearsGrow
  <2>3. y + 1 <= x => DaysBeforeYear(y + 1) <= DaysBeforeYear(x)
    BY <2>1, YearsGrow
  <2>4. /\ DaysBeforeYear(x) \in Int /\ DaysBeforeYear(x + 1) \in Int
        /\ DaysBeforeYear(y) \in Int /\ DaysBeforeYear(y + 1) \in Int
    BY <2>1, YearsGrow
  <2> QED BY <2>1, <2>2, <2>3, <2>4
<1> QED BY <1>1 DEF YearOf

\* The day d of month m in year y is one of the calendar.
IsDate(y, m, d) == y \in Year /\ m \in 1..12 /\ d \in 1..DaysIn(y, m)

\* The number of a day leads back to its year, month and day.
LEMMA DateOfDay ==
    ASSUME NEW y, NEW m, NEW d, IsDate(y, m, d)
    PROVE  /\ Day(y, m, d) \in Int
           /\ YearOf(Day(y, m, d)) = y /\ MonthOf(Day(y, m, d)) = m
           /\ DayOfMonth(Day(y, m, d)) = d
<1> DEFINE n == Day(y, m, d)
           b == DaysBeforeMonth(y)
<1>1. y \in Year /\ y \in Int /\ m \in 1..12 /\ d \in 1..DaysIn(y, m)
  BY YearAssumption DEF IsDate
<1>2. /\ \A k \in 1..13 : b[k] \in Nat
      /\ \A k \in 1..12 : b[k] < b[k + 1] /\ DaysIn(y, k) = b[k + 1] - b[k]
      /\ \A k, j \in 1..13 : k <= j => b[k] <= b[j]
      /\ b[1] = 0 /\ b[13] = 365 + Leap(y) /\ Leap(y) \in {0, 1}
  BY <1>1, MonthsGrow
<1>3. DaysBeforeYear(y) \in Int /\ DaysBeforeYear(y + 1) = DaysBeforeYear(y) + 365 + Leap(y)
  BY <1>1, YearLength, YearsGrow
<1>4. n = DaysBeforeYear(y) + b[m] + d
  BY DEF Day
<1> HIDE DEF n, b
<1>5. d \in Nat \ {0} /\ b[m] < b[m] + d /\ b[m] + d <= b[m + 1]
      /\ b[m] \in Nat /\ b[m + 1] \in Nat /\ b[m + 1] <= b[13]
  BY <1>1, <1>2
<1>6. n \in Int /\ DaysBeforeYear(y) < n /\ n <= DaysBeforeYear(y + 1)
  <2>1. /\ b[m] + d \in Nat \ {0} /\ b[m] + d <= 365 + Leap(y)
        /\ n = DaysBeforeYear(y) + (b[m] + d) /\ Leap(y) \in Int
    BY <1>2, <1>3, <1>4, <1>5
  <2> QED BY <1>3, <2>1
<1>7. YearOf(n) = y
  BY <1>1, <1>6, OneYear
<1>8. MonthOf(n) = m
  <2> DEFINE k == n - DaysBeforeYear(y)
  <2>1. k \in Int /\ b[m] < k /\ k <= b[m + 1]
    BY <1>3, <1>4, <1>5
  <2> HIDE DEF k
  <2>2. \A j \in 1..12 : j # m => ~(b[j] < k /\ k <= b[j + 1])
    <3> SUFFICES ASSUME NEW j \in 1..12, j # m, b[j] < k, k <= b[j + 1] PROVE FALSE
      OBVIOUS
    <3>1. j + 1 <= m \/ m + 1 <= j
      BY <1>1
    <3>2. j + 1 <= m => b[j + 1] <= b[m]
      BY <1>1, <1>2
    <3>3. m + 1 <= j => b[m + 1] <= b[j]
      BY <1>1, <1>2
    <3>4. b[j] \in Nat /\ b[j + 1] \in Nat /\ b[m] \in Nat /\ b[m + 1] \in Nat
      BY <1>1, <1>2
    <3> QED BY <2>1, <3>1, <3>2, <3>3, <3>4
  <2>3. m = CHOOSE j \in 1..12 : b[j] < k /\ k <= b[j + 1]
    BY <1>1, <2>1, <2>2
  <2> QED BY <1>7, <2>3 DEF MonthOf, k, b
<1>9. DayOfMonth(n) = d
  <2>1. Day(y, m, 1) = DaysBeforeYear(y) + b[m] + 1
    BY DEF Day, b
  <2> QED BY <1>3, <1>4, <1>5, <1>7, <1>8, <2>1 DEF DayOfMonth
<1> QED BY <1>6, <1>7, <1>8, <1>9 DEF n

LEMMA DayOfDate ==
    ASSUME NEW n \in Int, InCalendar(n)
    PROVE  /\ IsDate(YearOf(n), MonthOf(n), DayOfMonth(n))
           /\ n = Day(YearOf(n), MonthOf(n), DayOfMonth(n))
<1>1. PICK y \in Year : DaysBeforeYear(y) < n /\ n <= DaysBeforeYear(y + 1)
  BY DEF InCalendar
<1>2. YearOf(n) = y
  BY <1>1, OneYear
<1> DEFINE b == DaysBeforeMonth(y)
           k == n - DaysBeforeYear(y)
           m == MonthOf(n)
<1>3. y \in Int /\ DaysBeforeYear(y) \in Int
      /\ DaysBeforeYear(y + 1) = DaysBeforeYear(y) + 365 + Leap(y)
  BY YearAssumption, YearLength, YearsGrow
<1>4. /\ Leap(y) \in {0, 1}
      /\ \A j \in 1..13 : b[j] \in Nat
      /\ \A j \in 1..12 : DaysIn(y, j) = b[j + 1] - b[j]
      /\ \A j \in 1..(365 + Leap(y)) : \E i \in 1..12 : b[i] < j /\ j <= b[i + 1]
  BY <1>3, MonthsGrow
<1>5. k \in 1..(365 + Leap(y))
  BY <1>1, <1>3, <1>4
<1>6. m = CHOOSE j \in 1..12 : b[j] < k /\ k <= b[j + 1]
  BY <1>2 DEF MonthOf
<1> HIDE DEF b, k, m
<1>7. \E j \in 1..12 : b[j] < k /\ k <= b[j + 1]
  BY <1>4, <1>5
<1>8. m \in 1..12 /\ b[m] < k /\ k <= b[m + 1]
  BY <1>6, <1>7
<1>9. DayOfMonth(n) = k - b[m]
  <2>1. Day(y, m, 1) = DaysBeforeYear(y) + b[m] + 1
    BY DEF Day, b
  <2>2. DayOfMonth(n) = n - Day(y, m, 1) + 1
    BY <1>2 DEF DayOfMonth, m
  <2>3. b[m] \in Nat /\ k = n - DaysBeforeYear(y)
    BY <1>4, <1>8 DEF k
  <2> QED BY <1>3, <2>1, <2>2, <2>3
<1>10. k \in Int /\ b[m] \in Nat /\ b[m + 1] \in Nat /\ DaysIn(y, m) = b[m + 1] - b[m]
  BY <1>4, <1>5, <1>8
<1>11. IsDate(y, m, DayOfMonth(n))
  BY <1>8, <1>9, <1>10 DEF IsDate
<1>12. n = Day(y, m, DayOfMonth(n))
  BY <1>3, <1>9, <1>10 DEF Day, b, k
<1> QED BY <1>2, <1>11, <1>12 DEF m

\* A year later is 365 or 366 days later.
LEMMA YearLater ==
    ASSUME NEW n \in Int, InCalendar(n)
    PROVE  AddOneYear(n) \in {n + 365, n + 366}
<1> DEFINE y == YearOf(n)
           m == MonthOf(n)
           d == DayOfMonth(n)
           b == DaysBeforeMonth(y)
           c == DaysBeforeMonth(y + 1)
           l == Leap(y)
           k == Leap(y + 1)
<1>1. /\ y \in Int /\ m \in 1..12 /\ d \in 1..DaysIn(y, m) /\ n = Day(y, m, d)
  BY YearAssumption, DayOfDate DEF IsDate
<1>2. /\ DaysBeforeYear(y) \in Int /\ DaysBeforeYear(y + 1) = DaysBeforeYear(y) + 365 + l
  BY <1>1, YearLength, YearsGrow
<1>3. AddOneYear(n) = IF d <= DaysIn(y + 1, m) THEN Day(y + 1, m, d) ELSE Day(y + 1, 3, 1)
  BY DEF AddOneYear
<1>4. /\ n = DaysBeforeYear(y) + b[m] + d
      /\ Day(y + 1, m, d) = DaysBeforeYear(y + 1) + c[m] + d
      /\ Day(y + 1, 3, 1) = DaysBeforeYear(y + 1) + c[3] + 1
  BY <1>1 DEF Day
<1>5. l \in {0, 1} /\ k \in {0, 1}
  BY DEF Leap
<1>6. /\ b[1] = 0 /\ b[2] = 31 /\ b[3] = 59 + l /\ b[4] = 90 + l
      /\ b[5] = 120 + l /\ b[6] = 151 + l /\ b[7] = 181 + l
      /\ b[8] = 212 + l /\ b[9] = 243 + l /\ b[10] = 273 + l
      /\ b[11] = 304 + l /\ b[12] = 334 + l /\ b[13] = 365 + l
  BY <1>1, MonthTable
<1>7. /\ c[1] = 0 /\ c[2] = 31 /\ c[3] = 59 + k /\ c[4] = 90 + k
      /\ c[5] = 120 + k /\ c[6] = 151 + k /\ c[7] = 181 + k
      /\ c[8] = 212 + k /\ c[9] = 243 + k /\ c[10] = 273 + k
      /\ c[11] = 304 + k /\ c[12] = 334 + k /\ c[13] = 365 + k
  <2>1. y + 1 \in Int
    BY <1>1
  <2> QED BY <2>1, MonthTable
<1>8. DaysIn(y, m) = b[m + 1] - b[m] /\ DaysIn(y + 1, m) = c[m + 1] - c[m]
  BY DEF DaysIn
<1> HIDE DEF y, m, d, b, c, l, k
<1>9. m \in {1, 2, 3, 4, 5, 6, 7, 8, 9, 10, 11, 12}
  BY <1>1
<1>10. CASE m = 1
  BY <1>1, <1>2, <1>3, <1>4, <1>5, <1>6, <1>7, <1>8, <1>10
<1>11. CASE m = 2
  <2>1. d \in 1..(28 + l) /\ DaysIn(y + 1, m) = 28 + k
    BY <1>1, <1>5, <1>6, <1>7, <1>8, <1>11
  <2> QED BY <1>2, <1>3, <1>4, <1>5, <1>6, <1>7, <1>11, <2>1
<1>12. CASE m \in {3, 4, 5, 6, 7, 8, 9, 10, 11, 12}
  <2>1. /\ DaysIn(y + 1, m) = DaysIn(y, m)
        /\ c[m] = b[m] - l + k /\ b[m] \in Int
    BY <1>5, <1>6, <1>7, <1>8, <1>12
  <2>2. d \in Int /\ d <= DaysIn(y + 1, m)
    <3>1. DaysIn(y, m) \in Int
      BY <1>5, <1>6, <1>8, <1>12
    <3> QED BY <1>1, <2>1, <3>1
  <2>3. AddOneYear(n) = DaysBeforeYear(y) + 365 + l + (b[m] - l + k) + d
    BY <1>2, <1>3, <1>4, <2>1, <2>2
  <2> QED BY <1>2, <1>4, <1>5, <2>1, <2>2, <2>3
<1> QED BY <1>9, <1>10, <1>11, <1>12

\* The limit of validate_summary_period_length: a year, leap or not.
LEMMA YearLimit ==
    ASSUME NEW s \in Int, NEW e \in Int, s <= e,
           \A n \in s..e : InCalendar(n)
    PROVE  LET p == [start |-> s, end |-> e] IN
           /\ TooLong(p) => Length(p) >= 366
           /\ ~TooLong(p) =>
                 /\ Length(p) <= 366
                 /\ \A n \in s..e : ~TooLong([p EXCEPT !.start = n])
<1> DEFINE p == [start |-> s, end |-> e]
<1>1. Length(p) = e - s + 1 /\ (TooLong(p) <=> e >= AddOneYear(s))
  BY DEF Length, TooLong
<1>2. \A n \in s..e : AddOneYear(n) \in {n + 365, n + 366}
  BY YearLater
<1>3. \A n \in s..e : TooLong([p EXCEPT !.start = n]) <=> e >= AddOneYear(n)
  BY DEF TooLong
<1> HIDE DEF p
<1>4. s \in s..e
  OBVIOUS
<1>5. AddOneYear(s) \in {s + 365, s + 366}
  BY <1>2, <1>4
<1>6. ASSUME ~TooLong(p), NEW n \in s..e PROVE ~TooLong([p EXCEPT !.start = n])
  <2>1. e < AddOneYear(s)
    BY <1>1, <1>5, <1>6
  <2>2. AddOneYear(n) \in {n + 365, n + 366}
    BY <1>2
  <2>3. AddOneYear(s) <= AddOneYear(n)
    BY <1>5, <2>2
  <2>4. e < AddOneYear(n)
    BY <1>5, <2>1, <2>2, <2>3
  <2> QED BY <1>3, <2>2, <2>4
<1> QED BY <1>1, <1>5, <1>6 DEF p

\* The period before a month is a month, and any other has as many days.
LEMMA PreviousPeriod ==
    ASSUME NEW s \in Int, NEW e \in Int, s <= e,
           InCalendar(s), InCalendar(s - 1)
    PROVE  LET p == [start |-> s, end |-> e]
               before == Previous(p)
           IN  /\ before.start \in Int /\ before.start <= before.end
               /\ before.end = s - 1
               /\ Length(before) = Length(p) \/ (IsFullMonth(before) /\ IsFullMonth(p))
<1> DEFINE p == [start |-> s, end |-> e]
           before == Previous(p)
<1>1. CASE ~IsFullMonth(p)
  <2>1. before = [start |-> s - (e - s + 1), end |-> s - 1]
    BY <1>1 DEF Previous, Length
  <2> HIDE DEF before
  <2>2. Length(before) = (s - 1) - (s - (e - s + 1)) + 1 /\ Length(p) = e - s + 1
    BY <2>1 DEF Length
  <2> QED BY <2>1, <2>2 DEF before
<1>2. CASE IsFullMonth(p)
  <2> DEFINE y == YearOf(s - 1)
             m == MonthOf(s - 1)
             d == DayOfMonth(s - 1)
             first == s - DayOfMonth(s - 1)
  <2>1. before = [start |-> first, end |-> s - 1]
    BY <1>2 DEF Previous
  <2>2. IsDate(y, m, d) /\ s - 1 = Day(y, m, d)
    BY DayOfDate
  <2> HIDE DEF before, first, p, y, m, d
  <2>3. /\ y \in Int /\ m \in 1..12 /\ d \in 1..DaysIn(y, m)
        /\ DaysIn(y, m) \in Int
    <3>1. y \in Int /\ m \in 1..12 /\ d \in 1..DaysIn(y, m)
      BY YearAssumption, <2>2 DEF IsDate
    <3>2. /\ DaysIn(y, m) = DaysBeforeMonth(y)[m + 1] - DaysBeforeMonth(y)[m]
          /\ DaysBeforeMonth(y)[m + 1] \in Nat /\ DaysBeforeMonth(y)[m] \in Nat
      BY <3>1, MonthsGrow
    <3> QED BY <3>1, <3>2
  <2>4. DaysBeforeYear(y) \in Int /\ DaysBeforeMonth(y)[m] \in Nat
    <3>1. \A k \in 1..13 : DaysBeforeMonth(y)[k] \in Nat
      BY <2>3, MonthsGrow
    <3>2. DaysBeforeYear(y) \in Int
      BY <2>3, YearsGrow
    <3> QED BY <2>3, <3>1, <3>2
  <2>5. \A k \in Int : Day(y, m, k) = DaysBeforeYear(y) + DaysBeforeMonth(y)[m] + k
    BY DEF Day
  <2>6. first = Day(y, m, 1)
    <3>1. first = s - d
      BY DEF first, d
    <3>2. Day(y, m, 1) = DaysBeforeYear(y) + DaysBeforeMonth(y)[m] + 1
      BY <2>5
    <3>3. s - 1 = DaysBeforeYear(y) + DaysBeforeMonth(y)[m] + d /\ d \in Int
      BY <2>2, <2>3, <2>5
    <3> QED BY <2>4, <3>1, <3>2, <3>3
  <2>7. IsDate(y, m, 1)
    BY <2>2, <2>3 DEF IsDate
  <2>8. YearOf(first) = y /\ MonthOf(first) = m /\ DayOfMonth(first) = 1
    BY <2>6, <2>7, DateOfDay
  <2>9. d = DaysIn(y, m)
    <3> SUFFICES ASSUME d # DaysIn(y, m) PROVE FALSE
      OBVIOUS
    <3>1. d + 1 \in 1..DaysIn(y, m)
      BY <2>3
    <3>2. IsDate(y, m, d + 1)
      BY <2>2, <3>1 DEF IsDate
    <3>3. Day(y, m, d + 1) = s
      <4>1. d \in Int /\ d + 1 \in Int
        BY <2>3
      <4> QED BY <2>2, <2>4, <2>5, <4>1
    <3>4. DayOfMonth(s) = d + 1
      BY <3>2, <3>3, DateOfDay
    <3>5. DayOfMonth(s) = 1
      BY <1>2 DEF IsFullMonth, p
    <3> QED BY <2>3, <3>4, <3>5
  <2>10. LastDayOfMonth(first) = s - 1
    BY <2>2, <2>8, <2>9 DEF LastDayOfMonth
  <2>11. IsFullMonth(before)
    BY <2>1, <2>8, <2>10 DEF IsFullMonth
  <2>12. first \in Int /\ first <= s - 1
    <3>1. first = s - d /\ d \in Nat \ {0}
      BY <2>3 DEF first, d
    <3> QED BY <3>1
  <2> QED BY <1>2, <2>1, <2>11, <2>12 DEF before, p
<1> QED BY <1>1, <1>2

-----------------------------------------------------------------------------
(* The reports.                                                            *)

\* What a query returns on the snapshot, whichever came before it.
Answer(name, v, q) ==
    LET es == EventsOf(v, {q.session}) IN
    Result(name, v, q, [events |-> Restrict(v.events, es),
                        itsInterventions |-> Restrict(v.interventions, InterventionsOf(v, es))])

\* The names of the first n queries.
FirstOf(names, n) == {names[k] : k \in 1..n}

\* The first n queries were made, each on the snapshot.
Made(n) ==
    /\ DOMAIN parts = FirstOf(Queries(request.kind), n)
    /\ IsFiniteSet(DOMAIN parts) /\ Cardinality(DOMAIN parts) = n
    /\ \A name \in DOMAIN parts : parts[name] = Answer(name, seen, request)

Begun == answer \in {"reading", "done"}

\* The invariant: what is answered was let in, and has been read of one
\* snapshot, by one query after another.
ReportInv ==
    /\ IsDatabase(db) /\ IsDatabase(seen) /\ writes \in 0..MaxWrites
    /\ request \in Asks \cup {Idle}
    /\ answer \in {"none", "reading", "done", "INVALID", "NOT_FOUND"}
    /\ answer = "none" => request = Idle
    /\ answer = "INVALID" => Refused(request)
    /\ answer \notin {"none", "INVALID"} => request \in Asks /\ ~Refused(request)
    /\ ~Begun => parts = << >>
    /\ answer = "reading" => \E n \in Nat : n < Len(Queries(request.kind)) /\ Made(n)
    /\ answer = "done" => Made(Len(Queries(request.kind)))

-----------------------------------------------------------------------------
(* Rows.                                                                   *)

LEMMA NothingIsDatabase == IsDatabase(Nothing)
<1>1. /\ Nothing.profile = FALSE /\ Nothing.sessions = << >> /\ Nothing.events = << >>
      /\ Nothing.interventions = << >> /\ Nothing.responses = << >>
  BY DEF Nothing
<1>2. DOMAIN << >> = {}
  OBVIOUS
<1> QED BY <1>1, <1>2 DEF IsDatabase

\* What a step of one table leaves of the others.
LEMMA Tables ==
    ASSUME NEW v, IsDatabase(v)
    PROVE  /\ DOMAIN v = {"profile", "sessions", "events", "interventions", "responses"}
           /\ DOMAIN v.sessions \subseteq Session /\ DOMAIN v.events \subseteq Event
           /\ DOMAIN v.interventions \subseteq Intervention
           /\ DOMAIN v.responses \subseteq Response
  BY DEF IsDatabase, Nothing

\* A session that ends, an event that is cleared.
LEMMA ClosedEvents ==
    ASSUME NEW v, IsDatabase(v), NEW es, NEW e \in DOMAIN v.events
    PROVE  /\ DOMAIN Closed(v.events, es) = DOMAIN v.events
           /\ Closed(v.events, es)[e] \in [session : DOMAIN v.sessions, type : Type, risk : 0..3,
                                           duration : Nat \cup {Null}, started : Int]
<1>1. v.events[e] \in [session : DOMAIN v.sessions, type : Type, risk : 0..3,
                       duration : Nat \cup {Null}, started : Int]
  BY DEF IsDatabase
<1> QED BY <1>1 DEF Closed

LEMMA CompleteSessionKeeps ==
    ASSUME IsDatabase(db), NEW s \in Session, NEW es \in SUBSET Event, CompleteSession(s, es)
    PROVE  IsDatabase(db')
<1>1. db' = [db EXCEPT !.sessions[s].status = "COMPLETED",
                       !.sessions[s].seconds = 60, !.sessions[s].metres = 500,
                       !.events = Closed(@, es)]
  BY DEF CompleteSession, Writes
<1>2. db.profile /\ s \in DOMAIN db.sessions
  BY DEF CompleteSession, Writes
<1>3. /\ DOMAIN db' = DOMAIN db /\ db'.profile /\ DOMAIN db'.sessions = DOMAIN db.sessions
      /\ db'.events = Closed(db.events, es)
      /\ db'.interventions = db.interventions /\ db'.responses = db.responses
  BY <1>1, <1>2, Tables
<1>4. ASSUME NEW t \in DOMAIN db.sessions
      PROVE  db'.sessions[t] \in [status : {"ACTIVE", "COMPLETED", "ABORTED"}, started : Int,
                                  seconds : Nat, metres : Nat]
  <2>1. db.sessions[t] \in [status : {"ACTIVE", "COMPLETED", "ABORTED"}, started : Int,
                            seconds : Nat, metres : Nat]
    BY DEF IsDatabase
  <2> DEFINE d1 == [db EXCEPT !.sessions[s].status = "COMPLETED"]
             d2 == [d1 EXCEPT !.sessions[s].seconds = 60]
             d3 == [d2 EXCEPT !.sessions[s].metres = 500]
             Columns == [status : {"ACTIVE", "COMPLETED", "ABORTED"}, started : Int,
                         seconds : Nat, metres : Nat]
  <2>2. DOMAIN d1 = DOMAIN db /\ DOMAIN d1.sessions = DOMAIN db.sessions /\ d1.sessions[t] \in Columns
    BY <1>2, <2>1, Tables
  <2> HIDE DEF d1
  <2>3. DOMAIN d2 = DOMAIN db /\ DOMAIN d2.sessions = DOMAIN db.sessions /\ d2.sessions[t] \in Columns
    BY <1>2, <2>2, Tables
  <2> HIDE DEF d2
  <2>4. DOMAIN d3 = DOMAIN db /\ d3.sessions[t] \in Columns
    BY <1>2, <2>3, Tables
  <2>5. db' = [d3 EXCEPT !.events = Closed(db.events, es)]
    BY <1>1, Tables DEF d1, d2
  <2> HIDE DEF d3
  <2> QED BY <2>4, <2>5, Tables
<1>5. DOMAIN db'.events = DOMAIN db.events
  BY <1>3 DEF Closed
<1>6. \A e \in DOMAIN db.events :
        db'.events[e] \in [session : DOMAIN db.sessions, type : Type, risk : 0..3,
                           duration : Nat \cup {Null}, started : Int]
  BY <1>3, ClosedEvents
<1> QED BY <1>2, <1>3, <1>4, <1>5, <1>6 DEF IsDatabase

LEMMA StartEventKeeps ==
    ASSUME IsDatabase(db), NEW e \in Event, NEW s \in Session, NEW t \in Type, StartEvent(e, s, t)
    PROVE  IsDatabase(db')
<1> DEFINE row == [session |-> s, type |-> t, risk |-> 1, duration |-> Null,
                   started |-> db.sessions[s].started + 1]
<1>1. db' = [db EXCEPT !.events = With(@, e, row)] /\ db.profile /\ s \in DOMAIN db.sessions
  BY DEF StartEvent, Writes
<1>2. row \in [session : DOMAIN db.sessions, type : Type, risk : 0..3,
               duration : Nat \cup {Null}, started : Int]
  <2>1. db.sessions[s].started \in Int
    BY <1>1 DEF IsDatabase
  <2> QED BY <1>1, <2>1
<1> HIDE DEF row
<1>3. /\ DOMAIN db' = DOMAIN db /\ db'.profile /\ db'.sessions = db.sessions
      /\ db'.events = With(db.events, e, row)
      /\ db'.interventions = db.interventions /\ db'.responses = db.responses
  BY <1>1, Tables
<1>4. /\ DOMAIN db'.events = DOMAIN db.events \cup {e}
      /\ \A x \in DOMAIN db'.events : db'.events[x] = IF x = e THEN row ELSE db.events[x]
  BY <1>3 DEF With
<1>5. ASSUME NEW x \in DOMAIN db'.events
      PROVE  /\ x \in Event
             /\ db'.events[x] \in [session : DOMAIN db'.sessions, type : Type, risk : 0..3,
                                   duration : Nat \cup {Null}, started : Int]
  BY <1>2, <1>3, <1>4 DEF IsDatabase
<1>6. \A x \in DOMAIN db'.interventions :
        x \in Intervention /\ db'.interventions[x] \in DOMAIN db'.events
  BY <1>3, <1>4 DEF IsDatabase
<1> QED BY <1>1, <1>3, <1>5, <1>6 DEF IsDatabase

LEMMA ClearEventKeeps ==
    ASSUME IsDatabase(db), NEW e \in Event, ClearEvent(e)
    PROVE  IsDatabase(db')
<1>1. db' = [db EXCEPT !.events = Closed(@, {e})] /\ db.profile
  BY DEF ClearEvent, Writes
<1>2. /\ DOMAIN db' = DOMAIN db /\ db'.profile /\ db'.sessions = db.sessions
      /\ db'.events = Closed(db.events, {e})
      /\ db'.interventions = db.interventions /\ db'.responses = db.responses
  BY <1>1, Tables
<1>3. DOMAIN db'.events = DOMAIN db.events
  BY <1>2 DEF Closed
<1>4. \A x \in DOMAIN db.events :
        db'.events[x] \in [session : DOMAIN db.sessions, type : Type, risk : 0..3,
                           duration : Nat \cup {Null}, started : Int]
  BY <1>2, ClosedEvents
<1> QED BY <1>1, <1>2, <1>3, <1>4 DEF IsDatabase

LEMMA InterveneKeeps ==
    ASSUME IsDatabase(db), NEW i \in Intervention, NEW e \in Event, Intervene(i, e)
    PROVE  IsDatabase(db')
<1>1. db' = [db EXCEPT !.interventions = With(@, i, e)] /\ db.profile /\ e \in DOMAIN db.events
  BY DEF Intervene, Writes
<1>2. /\ DOMAIN db' = DOMAIN db /\ db'.profile /\ db'.sessions = db.sessions
      /\ db'.interventions = With(db.interventions, i, e)
      /\ db'.events = db.events /\ db'.responses = db.responses
  BY <1>1, Tables
<1>3. /\ DOMAIN db'.interventions = DOMAIN db.interventions \cup {i}
      /\ \A x \in DOMAIN db'.interventions :
            db'.interventions[x] = IF x = i THEN e ELSE db.interventions[x]
  BY <1>2 DEF With
<1>4. ASSUME NEW r \in DOMAIN db'.responses
      PROVE  /\ r \in Response
             /\ db'.responses[r] \in [intervention : DOMAIN db'.interventions, corrected : BOOLEAN,
                                      latency : Nat \cup {Null}]
  <2>1. r \in Response
        /\ db.responses[r] \in [intervention : DOMAIN db.interventions, corrected : BOOLEAN,
                                latency : Nat \cup {Null}]
    BY <1>2 DEF IsDatabase
  <2> HIDE DEF IsDatabase
  <2>2. DOMAIN db.interventions \subseteq DOMAIN db'.interventions
    BY <1>3
  <2> QED BY <1>2, <2>1, <2>2
<1>5. \A x \in DOMAIN db'.interventions :
        x \in Intervention /\ db'.interventions[x] \in DOMAIN db'.events
  BY <1>1, <1>2, <1>3 DEF IsDatabase
<1> QED BY <1>1, <1>2, <1>4, <1>5 DEF IsDatabase

LEMMA RespondKeeps ==
    ASSUME IsDatabase(db), NEW r \in Response, NEW i \in Intervention, NEW corrected \in BOOLEAN,
           NEW latency \in {Null, 5}, Respond(r, i, corrected, latency)
    PROVE  IsDatabase(db')
<1> DEFINE row == [intervention |-> i, corrected |-> corrected, latency |-> latency]
<1>1. db' = [db EXCEPT !.responses = With(@, r, row)] /\ db.profile /\ i \in DOMAIN db.interventions
  BY DEF Respond, Writes
<1>2. row \in [intervention : DOMAIN db.interventions, corrected : BOOLEAN,
               latency : Nat \cup {Null}]
  BY <1>1
<1> HIDE DEF row
<1>3. /\ DOMAIN db' = DOMAIN db /\ db'.profile /\ db'.sessions = db.sessions
      /\ db'.responses = With(db.responses, r, row)
      /\ db'.events = db.events /\ db'.interventions = db.interventions
  BY <1>1, Tables
<1>4. /\ DOMAIN db'.responses = DOMAIN db.responses \cup {r}
      /\ \A x \in DOMAIN db'.responses : db'.responses[x] = IF x = r THEN row ELSE db.responses[x]
  BY <1>3 DEF With
<1>5. ASSUME NEW x \in DOMAIN db'.responses
      PROVE  /\ x \in Response
             /\ db'.responses[x] \in [intervention : DOMAIN db'.interventions, corrected : BOOLEAN,
                                      latency : Nat \cup {Null}]
  BY <1>2, <1>3, <1>4 DEF IsDatabase
<1> QED BY <1>1, <1>3, <1>5 DEF IsDatabase

\* A step of whoever writes.
Wrote ==
    /\ IsDatabase(db') /\ writes' \in 0..MaxWrites
    /\ UNCHANGED <<request, seen, parts, answer>>

LEMMA WritersCount ==
    ASSUME writes \in 0..MaxWrites, NEW new, Writes(new), IsDatabase(db')
    PROVE  Wrote
<1>1. writes' = writes + 1 /\ writes < MaxWrites /\ MaxWrites \in Nat
  BY ReportAssumption DEF Writes
<1> QED BY <1>1 DEF Writes, Wrote

\* Whoever writes leaves a database, and the request as it is.
LEMMA WritersKeep ==
    ASSUME IsDatabase(db), writes \in 0..MaxWrites, ReportNext
    PROVE  (\E q \in Asks : Ask(q)) \/ NotFound \/ Query \/ Wrote
<1>1. ASSUME NEW s \in Session, NEW es \in SUBSET Event, CompleteSession(s, es) PROVE Wrote
  BY <1>1, WritersCount, CompleteSessionKeeps DEF CompleteSession
<1>2. ASSUME NEW e \in Event, NEW s \in Session, NEW t \in Type, StartEvent(e, s, t)
      PROVE  Wrote
  BY <1>2, WritersCount, StartEventKeeps DEF StartEvent
<1>3. ASSUME NEW e \in Event, ClearEvent(e) PROVE Wrote
  BY <1>3, WritersCount, ClearEventKeeps DEF ClearEvent
<1>4. ASSUME NEW i \in Intervention, NEW e \in Event, Intervene(i, e) PROVE Wrote
  BY <1>4, WritersCount, InterveneKeeps DEF Intervene
<1>5. ASSUME NEW r \in Response, NEW i \in Intervention, NEW corrected \in BOOLEAN,
             NEW latency \in {Null, 5}, Respond(r, i, corrected, latency)
      PROVE  Wrote
  BY <1>5, WritersCount, RespondKeeps DEF Respond
<1>6. ASSUME DeleteProfile PROVE Wrote
  <2>1. db' = Nothing /\ Writes(Nothing)
    BY <1>6 DEF DeleteProfile, Writes, Deleted
  <2> QED BY <2>1, WritersCount, NothingIsDatabase
<1> QED BY <1>1, <1>2, <1>3, <1>4, <1>5, <1>6 DEF ReportNext

-----------------------------------------------------------------------------
(* Queries.                                                                *)

Independent == {"overview", "byType", "byRisk", "byHour", "interventions", "phoneUse",
                "phoneUseBefore", "statistics", "correctedByType", "total", "page", "eventCount",
                "interventionCount", "correctedCount", "latency", "events"}

\* No query is made twice, and each depends on none or on the two before it.
LEMMA QueryNames ==
    ASSUME NEW q \in Asks
    PROVE  LET names == Queries(q.kind) IN
           /\ Len(names) \in 2..6 /\ DOMAIN names = 1..Len(names)
           /\ \A j, k \in 1..Len(names) : names[j] = names[k] => j = k
           /\ \A k \in 1..Len(names) : names[k] \in Independent \cup {"itsInterventions", "itsResponses"}
           /\ \A k \in 1..Len(names) : /\ names[k] = "itsInterventions" => k = 2 /\ names[1] = "events"
                                       /\ names[k] = "itsResponses" => k = 3 /\ names[2] = "itsInterventions"
<1>1. q.kind \in {"summary", "behaviors", "sessions", "history", "detail", "timeline"}
  BY DEF Asks, AskedReports, AskedSessions, AskedHistories, AskedDrives
<1>2. CASE q.kind = "summary"
  BY <1>2 DEF Queries, SummaryQueries, Independent
<1>3. CASE q.kind = "behaviors"
  BY <1>3 DEF Queries, BehaviorQueries, Independent
<1>4. CASE q.kind \in {"sessions", "history"}
  <2>1. Queries(q.kind) = <<"total", "page">>
    BY <1>4 DEF Queries, ListQueries
  <2> QED BY <2>1 DEF Independent
<1>5. CASE q.kind = "detail"
  BY <1>5 DEF Queries, DetailQueries, Independent
<1>6. CASE q.kind = "timeline"
  BY <1>6 DEF Queries, TimelineQueries, Independent
<1> QED BY <1>1, <1>2, <1>3, <1>4, <1>5, <1>6

\* What the timeline's queries return.
LEMMA DependentAnswers ==
    ASSUME NEW v, NEW q
    PROVE  /\ Answer("events", v, q) = Restrict(v.events, EventsOf(v, {q.session}))
           /\ Answer("itsInterventions", v, q)
                 = Restrict(v.interventions, InterventionsOf(v, EventsOf(v, {q.session})))
           /\ Answer("itsResponses", v, q)
                 = Restrict(v.responses,
                            ResponsesOf(v, InterventionsOf(v, EventsOf(v, {q.session}))))
<1> DEFINE es == EventsOf(v, {q.session})
           is == InterventionsOf(v, es)
           found == [events |-> Restrict(v.events, es), itsInterventions |-> Restrict(v.interventions, is)]
<1>1. found.events = Restrict(v.events, es) /\ found.itsInterventions = Restrict(v.interventions, is)
  OBVIOUS
<1>2. /\ Answer("events", v, q) = Restrict(v.events, es)
      /\ Answer("itsInterventions", v, q)
            = Restrict(v.interventions, InterventionsOf(v, DOMAIN found.events))
      /\ Answer("itsResponses", v, q)
            = Restrict(v.responses, ResponsesOf(v, DOMAIN found.itsInterventions))
  BY DEF Answer, Result
<1> HIDE DEF found, es, is
<1>3. DOMAIN found.events = es /\ DOMAIN found.itsInterventions = is
  BY <1>1 DEF Restrict
<1> QED BY <1>2, <1>3 DEF es, is

LEMMA EventsOfSession ==
    ASSUME NEW v, NEW q
    PROVE  /\ DOMAIN Answer("events", v, q) = EventsOf(v, {q.session})
           /\ DOMAIN Answer("itsInterventions", v, q)
                 = InterventionsOf(v, EventsOf(v, {q.session}))
<1>1. \A f, s : DOMAIN Restrict(f, s) = s
  BY DEF Restrict
<1> QED BY <1>1, DependentAnswers

\* Most queries look at nothing but the rows.
LEMMA IndependentQueries ==
    ASSUME NEW name \in Independent, NEW v, NEW q, NEW f, NEW g
    PROVE  Result(name, v, q, f) = Result(name, v, q, g)
  BY DEF Result, Independent

\* What the next query returns depends on the snapshot alone.
LEMMA NextResult ==
    ASSUME request \in Asks, NEW n \in Nat, n < Len(Queries(request.kind)), Made(n)
    PROVE  LET name == Queries(request.kind)[n + 1]
           IN  Result(name, seen, request, parts) = Answer(name, seen, request)
<1> DEFINE names == Queries(request.kind)
           name == names[n + 1]
           es == EventsOf(seen, {request.session})
<1>1. /\ n + 1 \in 1..Len(names)
      /\ name = "itsInterventions" => n = 1 /\ names[1] = "events"
      /\ name = "itsResponses" => n = 2 /\ names[2] = "itsInterventions"
  <2>1. Len(names) \in 2..6
    BY QueryNames
  <2>2. n + 1 \in 1..Len(names)
    BY <2>1
  <2>3. \A k \in 1..Len(names) : /\ names[k] = "itsInterventions" => k = 2 /\ names[1] = "events"
                                 /\ names[k] = "itsResponses" => k = 3 /\ names[2] = "itsInterventions"
    BY QueryNames
  <2> HIDE DEF names
  <2> QED BY <2>2, <2>3
<1>2. \A k \in 1..n : names[k] \in DOMAIN parts /\ parts[names[k]] = Answer(names[k], seen, request)
  BY DEF Made, FirstOf
<1>3. name \in Independent \cup {"itsInterventions", "itsResponses"}
  <2>1. \A k \in 1..Len(names) : names[k] \in Independent \cup {"itsInterventions", "itsResponses"}
    BY QueryNames
  <2> HIDE DEF names
  <2> QED BY <1>1, <2>1
<1> SUFFICES Result(name, seen, request, parts) = Answer(name, seen, request)
  OBVIOUS
<1> HIDE DEF names, name
<1>4. CASE name \in Independent
  <2>1. \A f, g : Result(name, seen, request, f) = Result(name, seen, request, g)
    BY <1>4, IndependentQueries
  <2> QED BY <2>1 DEF Answer
<1>5. CASE name = "itsInterventions"
  <2>1. parts["events"] = Answer("events", seen, request)
    BY <1>1, <1>2, <1>5
  <2>2. DOMAIN parts.events = es
    BY <2>1, EventsOfSession
  <2>3. Result("itsInterventions", seen, request, parts) = Restrict(seen.interventions, InterventionsOf(seen, es))
    BY <2>2 DEF Result
  <2>4. Answer("itsInterventions", seen, request) = Restrict(seen.interventions, InterventionsOf(seen, es))
    BY DependentAnswers
  <2> QED BY <1>5, <2>3, <2>4
<1>6. CASE name = "itsResponses"
  <2>1. parts["itsInterventions"] = Answer("itsInterventions", seen, request)
    BY <1>1, <1>2, <1>6
  <2>2. DOMAIN parts.itsInterventions = InterventionsOf(seen, es)
    BY <2>1, EventsOfSession
  <2>3. Result("itsResponses", seen, request, parts)
           = Restrict(seen.responses, ResponsesOf(seen, InterventionsOf(seen, es)))
    BY <2>2 DEF Result
  <2>4. Answer("itsResponses", seen, request)
           = Restrict(seen.responses, ResponsesOf(seen, InterventionsOf(seen, es)))
    BY DependentAnswers
  <2> QED BY <1>6, <2>3, <2>4
<1> QED BY <1>3, <1>4, <1>5, <1>6

\* One more query.
LEMMA OneMoreMade ==
    ASSUME ReportInv, Query
    PROVE  \E n \in Nat :
              /\ n < Len(Queries(request.kind)) /\ Made(n + 1)'
              /\ answer' = IF n + 1 = Len(Queries(request.kind)) THEN "done" ELSE "reading"
<1> DEFINE names == Queries(request.kind)
<1>1. PICK n \in Nat : n < Len(names) /\ Made(n)
  BY DEF Query, ReportInv
<1> DEFINE name == names[n + 1]
<1>2. request \in Asks /\ request' = request /\ seen' = seen
  BY DEF Query, ReportInv
<1>3. /\ DOMAIN parts = FirstOf(names, n)
      /\ IsFiniteSet(DOMAIN parts) /\ Cardinality(DOMAIN parts) = n
  BY <1>1 DEF Made
<1>4. /\ parts' = With(parts, name, Result(name, seen, request, parts))
      /\ answer' = IF n + 1 = Len(names) THEN "done" ELSE "reading"
  BY <1>3 DEF Query, View
<1>5. Result(name, seen, request, parts) = Answer(name, seen, request)
  BY <1>1, <1>2, NextResult
<1>6. Len(names) \in 2..6 /\ \A j, k \in 1..Len(names) : names[j] = names[k] => j = k
  BY <1>2, QueryNames
<1> HIDE DEF names
<1>7. name \notin DOMAIN parts /\ DOMAIN parts \cup {name} = FirstOf(names, n + 1)
  BY <1>1, <1>3, <1>6 DEF FirstOf
<1>8. /\ DOMAIN parts' = DOMAIN parts \cup {name}
      /\ \A x \in DOMAIN parts' : parts'[x] = IF x = name THEN Answer(name, seen, request) ELSE parts[x]
  BY <1>4, <1>5 DEF With
<1>9. IsFiniteSet(DOMAIN parts') /\ Cardinality(DOMAIN parts') = n + 1
  <2>2. IsFiniteSet(DOMAIN parts \cup {name}) /\ Cardinality(DOMAIN parts \cup {name}) = n + 1
    BY <1>3, <1>7, FS_AddElement
  <2> QED BY <1>8, <2>2
<1>10. \A x \in DOMAIN parts' : parts'[x] = Answer(x, seen, request)
  BY <1>1, <1>7, <1>8 DEF Made
<1>11. Made(n + 1)'
  BY <1>2, <1>7, <1>8, <1>9, <1>10 DEF Made, names
<1> QED BY <1>1, <1>4, <1>11 DEF names

LEMMA ReportInitInv == ReportInit => ReportInv
<1> SUFFICES ASSUME ReportInit PROVE ReportInv
  OBVIOUS
<1>1. IsDatabase(db) /\ 0 \in 0..MaxWrites
  BY ReportAssumption DEF ReportInit
<1> QED BY <1>1, NothingIsDatabase DEF ReportInit, ReportInv, Begun

LEMMA ReportStepInv == ReportInv /\ [ReportNext]_reportVars => ReportInv'
<1> SUFFICES ASSUME ReportInv, [ReportNext]_reportVars PROVE ReportInv'
  OBVIOUS
<1>1. CASE UNCHANGED reportVars
  BY <1>1 DEF ReportInv, reportVars, IsDatabase, Refused, Begun, Made
<1>2. ASSUME NEW q \in Asks, Ask(q) PROVE ReportInv'
  <2>1. /\ request' = q /\ seen' = db /\ answer' = IF Refused(q) THEN "INVALID" ELSE "reading"
        /\ parts = << >> /\ UNCHANGED <<db, writes, parts>>
    BY <1>2 DEF Ask, ReportInv, Begun
  <2>2. Made(0)' /\ 0 < Len(Queries(q.kind))
    <3>1. Len(Queries(q.kind)) \in 2..6
      BY QueryNames
    <3>2. DOMAIN << >> = {} /\ FirstOf(Queries(q.kind), 0) = {}
      BY DEF FirstOf
    <3> QED BY <2>1, <3>1, <3>2, FS_EmptySet DEF Made
  <2>3. IsDatabase(db') /\ IsDatabase(seen') /\ writes' \in 0..MaxWrites
    BY <2>1 DEF ReportInv
  <2> QED BY <2>1, <2>2, <2>3 DEF ReportInv, Begun
<1>3. CASE NotFound
  <2>1. IsDatabase(db') /\ IsDatabase(seen')
    BY <1>3 DEF NotFound, ReportInv
  <2> QED BY <1>3, <2>1 DEF NotFound, ReportInv, Begun
<1>4. CASE Query
  <2>1. PICK n \in Nat :
              /\ n < Len(Queries(request.kind)) /\ Made(n + 1)'
              /\ answer' = IF n + 1 = Len(Queries(request.kind)) THEN "done" ELSE "reading"
    BY <1>4, OneMoreMade
  <2>2. /\ UNCHANGED <<db, writes, request, seen>> /\ answer = "reading"
    BY <1>4 DEF Query
  <2>3. Len(Queries(request.kind)) \in 2..6
    BY <2>2, QueryNames DEF ReportInv
  <2>4. IsDatabase(db') /\ IsDatabase(seen') /\ writes' \in 0..MaxWrites /\ request' \in Asks
        /\ ~Refused(request')
    BY <2>2 DEF ReportInv
  <2>5. answer' = "done" => Made(Len(Queries(request.kind)))'
    BY <2>1, <2>2, <2>3
  <2>6. answer' = "reading" => \E k \in Nat : k < Len(Queries(request'.kind)) /\ Made(k)'
    BY <2>1, <2>2, <2>3
  <2>7. answer' \in {"reading", "done"}
    BY <2>1
  <2> QED BY <2>2, <2>4, <2>5, <2>6, <2>7 DEF ReportInv, Begun
<1>5. CASE Wrote
  <2>1. IsDatabase(db') /\ IsDatabase(seen') /\ writes' \in 0..MaxWrites
    BY <1>5 DEF Wrote, ReportInv
  <2> QED BY <1>5, <2>1 DEF Wrote, ReportInv, Begun, Made
<1> QED BY <1>1, <1>2, <1>3, <1>4, <1>5, WritersKeep DEF ReportInv

\* An answer that is done has the result of each of its queries.
LEMMA AllMade ==
    ASSUME ReportInv, answer = "done"
    PROVE  /\ request \in Asks /\ IsDatabase(seen) /\ ~Refused(request)
           /\ DOMAIN parts = ToSet(Queries(request.kind))
           /\ \A name \in ToSet(Queries(request.kind)) : parts[name] = Answer(name, seen, request)
<1>1. request \in Asks /\ Made(Len(Queries(request.kind))) /\ IsDatabase(seen) /\ ~Refused(request)
  BY DEF ReportInv
<1>2. DOMAIN Queries(request.kind) = 1..Len(Queries(request.kind))
  BY <1>1, QueryNames
<1>3. FirstOf(Queries(request.kind), Len(Queries(request.kind))) = ToSet(Queries(request.kind))
  BY <1>2 DEF FirstOf, ToSet
<1> QED BY <1>1, <1>3 DEF Made

LEMMA TypesHold == ReportInv => ReportTypes
<1> SUFFICES ASSUME ReportInv PROVE ReportTypes
  OBVIOUS
<1>1. CASE answer = "done"
  BY <1>1, AllMade DEF ReportInv, ReportTypes
<1>2. CASE answer = "reading"
  <2>1. PICK n \in Nat : n < Len(Queries(request.kind)) /\ Made(n)
    BY <1>2 DEF ReportInv
  <2>2. request \in Asks
    BY <1>2 DEF ReportInv
  <2>3. DOMAIN Queries(request.kind) = 1..Len(Queries(request.kind))
        /\ Len(Queries(request.kind)) \in 2..6
    BY <2>2, QueryNames
  <2>4. DOMAIN parts \subseteq ToSet(Queries(request.kind))
    BY <2>1, <2>3 DEF Made, FirstOf, ToSet
  <2> QED BY <1>2, <2>4 DEF ReportInv, ReportTypes
<1>3. CASE ~Begun
  <2>1. DOMAIN parts = {}
    BY <1>3 DEF ReportInv
  <2> QED BY <1>3, <2>1 DEF ReportInv, ReportTypes, Begun
<1> QED BY <1>1, <1>2, <1>3 DEF Begun

-----------------------------------------------------------------------------
(* Figures.                                                                *)

\* The rows of a table are finitely many, and so are those counted.
LEMMA FiniteRows ==
    ASSUME NEW v, IsDatabase(v)
    PROVE  /\ IsFiniteSet(DOMAIN v.sessions) /\ IsFiniteSet(DOMAIN v.events)
           /\ IsFiniteSet(DOMAIN v.interventions) /\ IsFiniteSet(DOMAIN v.responses)
           /\ IsFiniteSet(Type)
<1>1. /\ IsFiniteSet(Session) /\ IsFiniteSet(Event) /\ IsFiniteSet(Intervention)
      /\ IsFiniteSet(Response) /\ IsFiniteSet(Type)
  BY ReportAssumption
<1> QED BY <1>1, Tables, FS_Subset

LEMMA CountsOfParts ==
    ASSUME NEW S, IsFiniteSet(S), NEW T \in SUBSET S
    PROVE  /\ IsFiniteSet(T) /\ Count(T) \in Nat /\ Count(S) \in Nat /\ Count(T) <= Count(S)
           /\ (Count(T) = 0 <=> T = {})
  BY FS_Subset, FS_CardinalityType, FS_EmptySet DEF Count

\* Things grouped by a key are as many as they are.
LEMMA GroupsAddUp ==
    ASSUME NEW D, IsFiniteSet(D), NEW K, IsFiniteSet(K), NEW key \in [D -> K], NEW g \in [K -> Nat],
           \A k \in K : g[k] = Count({d \in D : key[d] = k})
    PROVE  Sum(g) = Count(D)
<1> DEFINE h == [k \in K |-> Cardinality({d \in D : key[d] = k})]
<1>1. g = h
  BY DEF Count
<1>2. Sum(h) = Cardinality(D)
  BY CountsAddUp
<1> QED BY <1>1, <1>2 DEF Count

LEMMA KeysAddUp ==
    ASSUME NEW D, IsFiniteSet(D), NEW K, IsFiniteSet(K), NEW key \in [D -> K]
    PROVE  /\ CountsBy(key, K) \in [K -> Nat] /\ Sum(CountsBy(key, K)) = Count(D)
           /\ \A k \in K : CountsBy(key, K)[k] = Count({d \in D : key[d] = k})
<1>1. \A k \in K : Count({d \in D : key[d] = k}) \in Nat
  BY CountsOfParts
<1>2. DOMAIN key = D
  OBVIOUS
<1> DEFINE g == CountsBy(key, K)
<1>3. g \in [K -> Nat] /\ \A k \in K : g[k] = Count({d \in D : key[d] = k})
  BY <1>1, <1>2 DEF CountsBy
<1> HIDE DEF g
<1>4. Sum(g) = Count(D)
  BY <1>3, GroupsAddUp
<1> QED BY <1>3, <1>4 DEF g

\* An average is right to half of its last digit.
LEMMA AverageIs ==
    ASSUME NEW total \in Int, NEW n \in Nat \ {0}
    PROVE  /\ Average(total, n) \in Int
           /\ 2 * (n * Average(total, n)) - 2 * total <= n
           /\ 2 * total - 2 * (n * Average(total, n)) <= n
<1> DEFINE a == (2 * total + n) \div (2 * n)
<1>1. Average(total, n) = a
  BY DEF Average
<1>2. 2 * n \in Nat \ {0} /\ 2 * total + n \in Int
  OBVIOUS
<1>3. a \in Int /\ (2 * n) * a <= 2 * total + n /\ 2 * total + n < (2 * n) * a + 2 * n
  BY <1>2, Division
<1> HIDE DEF a
<1>4. (2 * n) * a = 2 * (n * a) /\ n * a \in Int
  BY <1>3
<1> QED BY <1>1, <1>3, <1>4

\* A share of no more than the whole is from 0 to 100 percent.
LEMMA RateIs ==
    ASSUME NEW n \in Nat, NEW d \in Nat, n <= d
    PROVE  Rate(n, d) \in 0..Whole
<1>0. Whole \in Nat /\ Whole * n \in Nat
  BY DEF Whole
<1>1. CASE d = 0
  BY <1>0, <1>1 DEF Rate
<1>2. CASE d # 0
  <2> DEFINE a == Average(Whole * n, d)
  <2>1. /\ a \in Int /\ 2 * (d * a) - 2 * (Whole * n) <= d /\ 2 * (Whole * n) - 2 * (d * a) <= d
    BY <1>0, <1>2, AverageIs
  <2>2. Rate(n, d) = a
    BY <1>2 DEF Rate
  <2> HIDE DEF a
  <2>3. ASSUME a < 0 PROVE FALSE
    <3>1. d * a + d <= d * 0
      BY <1>2, <2>1, <2>3, Larger
    <3>2. d * a \in Int /\ d * 0 = 0
      BY <2>1
    <3> QED BY <1>0, <1>2, <2>1, <3>1, <3>2
  <2>4. ASSUME a > Whole PROVE FALSE
    <3>1. d * Whole + d <= d * a
      BY <1>0, <1>2, <2>1, <2>4, Larger
    <3>2. d * a \in Int
      BY <2>1
    <3> QED BY <1>2, <2>1, <3>1, <3>2 DEF Whole
  <2> QED BY <1>0, <2>1, <2>2, <2>3, <2>4
<1> QED BY <1>1, <1>2

\* So is a change.
LEMMA ChangeIs ==
    ASSUME NEW recent \in Nat, NEW previous \in Nat,
           ChangePercent(recent, previous) # Null
    PROVE  LET off == previous * ChangePercent(recent, previous) - Whole * (recent - previous)
           IN  2 * off \in -previous..previous
<1> DEFINE change == ChangePercent(recent, previous)
<1>1. CASE previous = 0
  <2>1. recent = 0 /\ change = 0
    BY <1>1 DEF ChangePercent
  <2> QED BY <1>1, <2>1 DEF Whole
<1>2. CASE previous # 0 /\ recent >= previous
  <2> DEFINE t == Whole * (recent - previous)
             a == Average(t, previous)
  <2>1. t \in Int /\ change = a
    BY <1>2 DEF ChangePercent, Whole
  <2> HIDE DEF t, a
  <2>2. a \in Int /\ 2 * (previous * a) - 2 * t <= previous /\ 2 * t - 2 * (previous * a) <= previous
    BY <1>2, <2>1, AverageIs DEF a
  <2>3. previous * a \in Int
    BY <2>2
  <2>4. 2 * (previous * a - t) \in -previous..previous
    BY <2>1, <2>2, <2>3
  <2> QED BY <2>1, <2>4 DEF t
<1>3. CASE previous # 0 /\ recent < previous
  <2> DEFINE t == Whole * (previous - recent)
             a == Average(t, previous)
  <2>1. t \in Int /\ change = -a
    BY <1>3 DEF ChangePercent, Whole
  <2> HIDE DEF t, a
  <2>2. a \in Int /\ 2 * (previous * a) - 2 * t <= previous /\ 2 * t - 2 * (previous * a) <= previous
    BY <1>3, <2>1, AverageIs DEF a
  <2>3. previous * a \in Int /\ previous * (-a) = -(previous * a)
    BY <2>2
  <2>4. 2 * (previous * (-a) + t) \in -previous..previous
    BY <2>1, <2>2, <2>3
  <2>5. Whole * (recent - previous) = -t
    BY DEF t, Whole
  <2>6. previous * change - Whole * (recent - previous) = previous * (-a) + t
    BY <2>1, <2>2, <2>3, <2>5
  <2> QED BY <2>4, <2>6
<1> QED BY <1>1, <1>2, <1>3

-----------------------------------------------------------------------------
(* The answers.                                                            *)

\* Everything counted is a part of a table.
LEMMA PartsOfTables ==
    ASSUME NEW v, NEW p, NEW types, NEW es
    PROVE  /\ EventsIn(v, p, types) \subseteq DOMAIN v.events
           /\ InterventionsOf(v, es) \subseteq DOMAIN v.interventions
           /\ CorrectedOf(v, es) \subseteq InterventionsOf(v, es)
           /\ SessionsIn(v, p) \subseteq DOMAIN v.sessions
  BY DEF EventsIn, EventsOf, InterventionsOf, CorrectedOf, SessionsIn

LEMMA EventRows ==
    ASSUME NEW v, IsDatabase(v), NEW e \in DOMAIN v.events
    PROVE  /\ v.events[e].session \in DOMAIN v.sessions /\ v.events[e].type \in Type
           /\ v.events[e].risk \in 0..3 /\ v.events[e].started \in Int
  BY DEF IsDatabase

\* What a request for the figures of a period asks for.
LEMMA AskedTypes ==
    ASSUME NEW q \in Asks, q.kind \in {"summary", "behaviors"}
    PROVE  q.period \in Period /\ q.types \subseteq Type /\ IsFiniteSet(q.types)
<1>1. q \in [kind : {"summary", "behaviors"}, period : Period, types : SUBSET Type]
  BY DEF Asks, AskedReports, AskedSessions, AskedHistories, AskedDrives
<1>2. q.types \subseteq Type /\ IsFiniteSet(Type)
  BY <1>1, ReportAssumption
<1> QED BY <1>1, <1>2, FS_Subset

\* Types, risks and hours count the same events.
CountTheSame(v, q) ==
    LET es == EventsIn(v, q.period, q.types) IN
    /\ IsFiniteSet(es) /\ Count(es) \in Nat
    /\ Sum(ByType(v, q)) = Count(es) /\ Sum(ByRisk(v, q)) = Count(es)
    /\ Sum(ByHour(v, q)) = Count(es)
    /\ \A t \in q.types : ByType(v, q)[t] = Count(EventsIn(v, q.period, {t}))
    /\ \A r \in 0..3 : ByRisk(v, q)[r] = Count({e \in es : v.events[e].risk = r})

LEMMA EventsCounted ==
    ASSUME NEW v, IsDatabase(v), NEW q, q.types \subseteq Type
    PROVE  CountTheSame(v, q)
<1> DEFINE es == EventsIn(v, q.period, q.types)
           type == [e \in es |-> v.events[e].type]
           risk == [e \in es |-> v.events[e].risk]
           hour == [e \in es |-> Hour(v.events[e].started)]
           Hours == {hour[e] : e \in es}
<1>1. IsFiniteSet(q.types) /\ IsFiniteSet(0..3) /\ IsFiniteSet(Hours) /\ IsFiniteSet(es)
  <2>1. 0 \in Int /\ 3 \in Int
    OBVIOUS
  <2>2. IsFiniteSet(Type) /\ IsFiniteSet(DOMAIN v.events) /\ es \subseteq DOMAIN v.events
    BY FiniteRows, PartsOfTables
  <2> HIDE DEF es
  <2>3. IsFiniteSet(q.types)
    BY <2>2, FS_Subset
  <2>4. IsFiniteSet(es)
    BY <2>2, FS_Subset
  <2>5. IsFiniteSet(0..3)
    BY <2>1, FS_Interval, Zenon
  <2>6. IsFiniteSet(Hours)
    <3>1. hour \in Surjection(es, Hours)
      BY DEF Surjection
    <3> HIDE DEF hour, Hours
    <3> QED BY <2>4, <3>1, FS_Surjection
  <2> QED BY <2>3, <2>4, <2>5, <2>6
<1>2. \A e \in es : v.events[e].type \in q.types /\ e \in DOMAIN v.events
  BY DEF EventsIn, EventsOf
<1>3. type \in [es -> q.types] /\ risk \in [es -> 0..3]
  <2> HIDE DEF es
  <2> QED BY <1>2, EventRows
<1>4. hour \in [es -> Hours]
  <2> HIDE DEF es
  <2> QED OBVIOUS
<1>5. ByType(v, q) = CountsBy(type, q.types) /\ ByRisk(v, q) = CountsBy(risk, 0..3)
      /\ ByHour(v, q) = CountsBy(hour, Hours)
  BY DEF ByType, ByRisk, ByHour
<1>6. \A e \in es : type[e] = v.events[e].type /\ risk[e] = v.events[e].risk
  OBVIOUS
<1>7. \A t \in q.types : EventsIn(v, q.period, {t}) = {e \in es : v.events[e].type = t}
  BY DEF EventsIn
<1> HIDE DEF es, type, risk, hour, Hours
<1>8. /\ Sum(CountsBy(type, q.types)) = Count(es)
      /\ \A t \in q.types : CountsBy(type, q.types)[t] = Count({e \in es : type[e] = t})
  BY <1>1, <1>3, KeysAddUp
<1>9. /\ Sum(CountsBy(risk, 0..3)) = Count(es)
      /\ \A r \in 0..3 : CountsBy(risk, 0..3)[r] = Count({e \in es : risk[e] = r})
  BY <1>1, <1>3, KeysAddUp
<1>10. Sum(CountsBy(hour, Hours)) = Count(es)
  BY <1>1, <1>4, KeysAddUp
<1>11. ASSUME NEW t \in q.types PROVE ByType(v, q)[t] = Count(EventsIn(v, q.period, {t}))
  <2>1. {e \in es : type[e] = t} = {e \in es : v.events[e].type = t}
    BY <1>6
  <2> QED BY <1>5, <1>7, <1>8, <2>1
<1>12. ASSUME NEW r \in 0..3 PROVE ByRisk(v, q)[r] = Count({e \in es : v.events[e].risk = r})
  <2>1. {e \in es : risk[e] = r} = {e \in es : v.events[e].risk = r}
    BY <1>6
  <2> QED BY <1>5, <1>9, <2>1
<1>13. Count(es) \in Nat
  BY <1>1, FS_CardinalityType DEF Count
<1> QED BY <1>1, <1>5, <1>8, <1>9, <1>10, <1>11, <1>12, <1>13 DEF CountTheSame, es

\* No more interventions are corrected than there were.
LEMMA InterventionsCounted ==
    ASSUME NEW v, IsDatabase(v), NEW es
    PROVE  /\ IsFiniteSet(InterventionsOf(v, es)) /\ IsFiniteSet(CorrectedOf(v, es))
           /\ Count(InterventionsOf(v, es)) \in Nat /\ Count(CorrectedOf(v, es)) \in Nat
           /\ Count(CorrectedOf(v, es)) <= Count(InterventionsOf(v, es))
<1>1. IsFiniteSet(DOMAIN v.interventions)
  BY FiniteRows
<1>2. InterventionsOf(v, es) \in SUBSET DOMAIN v.interventions
      /\ CorrectedOf(v, es) \in SUBSET InterventionsOf(v, es)
  BY PartsOfTables
<1>3. IsFiniteSet(InterventionsOf(v, es))
  BY <1>1, <1>2, CountsOfParts
<1> QED BY <1>2, <1>3, CountsOfParts

LEMMA CountNone == Count({}) = 0
  BY FS_EmptySet DEF Count

LEMMA SummaryHolds == ReportInv => SummaryAgrees
<1> SUFFICES ASSUME ReportInv, Is("summary") PROVE SummaryAgrees
  BY DEF SummaryAgrees
<1> DEFINE v == seen
           q == request
           p == q.period
           es == EventsIn(v, p, q.types)
           is == InterventionsOf(v, es)
           figures == Summary(parts)
<1>1. q \in Asks /\ IsDatabase(v) /\ q.kind = "summary" /\ answer = "done"
  BY AllMade DEF Is
<1>2. q.types \subseteq Type
  BY <1>1, AskedTypes
<1>3. /\ parts["overview"] = Overview(v, p) /\ parts["byType"] = ByType(v, q)
      /\ parts["byRisk"] = ByRisk(v, q) /\ parts["interventions"] = Interventions(v, q)
      /\ parts["phoneUse"] = PhoneUse(v, p) /\ parts["phoneUseBefore"] = PhoneUse(v, Previous(p))
  <2>1. Queries(q.kind) = <<"overview", "byType", "byRisk", "interventions", "phoneUse",
                            "phoneUseBefore">>
    BY <1>1 DEF Queries, SummaryQueries
  <2>2. ToSet(Queries(q.kind)) = {"overview", "byType", "byRisk", "interventions", "phoneUse",
                                  "phoneUseBefore"}
    BY <2>1 DEF ToSet
  <2>3. \A name \in ToSet(Queries(q.kind)) : parts[name] = Answer(name, v, q)
    BY <1>1, AllMade
  <2>4. /\ parts["overview"] = Answer("overview", v, q) /\ parts["byType"] = Answer("byType", v, q)
        /\ parts["byRisk"] = Answer("byRisk", v, q)
        /\ parts["interventions"] = Answer("interventions", v, q)
        /\ parts["phoneUse"] = Answer("phoneUse", v, q)
        /\ parts["phoneUseBefore"] = Answer("phoneUseBefore", v, q)
    BY <2>2, <2>3
  <2> HIDE DEF v, q
  <2> QED BY <2>4 DEF Answer, Result, p
<1>4. /\ figures.sessions = parts["overview"].sessions /\ figures.events = Sum(parts["byType"])
      /\ figures.interventions = parts["interventions"].count
      /\ figures.rate = Rate(parts["interventions"].corrected, parts["interventions"].count)
      /\ figures.phoneUseChange = ChangePercent(parts["phoneUse"], parts["phoneUseBefore"])
  BY DEF Summary
<1> HIDE DEF v, q, figures
<1>5. /\ IsFiniteSet(es) /\ Count(es) \in Nat
      /\ Sum(parts["byType"]) = Count(es) /\ Sum(parts["byRisk"]) = Count(es)
      /\ \A t \in q.types : parts["byType"][t] = Count(EventsIn(v, p, {t}))
  <2>1. /\ IsFiniteSet(es) /\ Count(es) \in Nat
        /\ Sum(ByType(v, q)) = Count(es) /\ Sum(ByRisk(v, q)) = Count(es)
        /\ \A t \in q.types : ByType(v, q)[t] = Count(EventsIn(v, p, {t}))
    <3>1. CountTheSame(v, q)
      BY <1>1, <1>2, EventsCounted
    <3> QED BY <3>1 DEF CountTheSame
  <2> HIDE DEF es, p
  <2> QED BY <1>3, <2>1
<1>6. /\ parts["overview"].sessions = Count(SessionsIn(v, p))
      /\ parts["interventions"].count = Count(is)
      /\ parts["interventions"].corrected = Count(CorrectedOf(v, es))
  BY <1>3 DEF Overview, Interventions
<1>7. ASSUME "PHONE_USE" \in q.types
      PROVE  parts["phoneUse"] = parts["byType"]["PHONE_USE"]
  BY <1>3, <1>5, <1>7 DEF PhoneUse
<1>8. ASSUME figures.sessions = 0 PROVE figures.events = 0
  <2>1. IsFiniteSet(SessionsIn(v, p))
    BY <1>1, FiniteRows, PartsOfTables, FS_Subset
  <2>2. SessionsIn(v, p) = {}
    BY <1>4, <1>6, <1>8, <2>1, CountsOfParts
  <2>3. es = {}
    BY <2>2 DEF EventsIn, EventsOf
  <2> QED BY <1>4, <1>5, <2>3, CountNone
<1>9. ASSUME figures.events = 0 PROVE figures.interventions = 0
  <2>1. es = {}
    <3> HIDE DEF es
    <3> QED BY <1>4, <1>5, <1>9, CountsOfParts
  <2>2. is = {}
    BY <2>1 DEF InterventionsOf
  <2> QED BY <1>4, <1>6, <2>2, CountNone
<1>10. figures.rate \in 0..Whole
  <2>1. /\ Count(is) \in Nat /\ Count(CorrectedOf(v, es)) \in Nat
        /\ Count(CorrectedOf(v, es)) <= Count(is)
    BY <1>1, InterventionsCounted
  <2>2. Rate(Count(CorrectedOf(v, es)), Count(is)) \in 0..Whole
    <3> DEFINE n == Count(CorrectedOf(v, es))
               d == Count(is)
    <3>1. n \in Nat /\ d \in Nat /\ n <= d
      BY <2>1
    <3> HIDE DEF n, d
    <3>2. Rate(n, d) \in 0..Whole
      BY <3>1, RateIs
    <3> QED BY <3>2 DEF n, d
  <2> HIDE DEF es, is
  <2> QED BY <1>4, <1>6, <2>2
<1>11. parts["phoneUse"] \in Nat /\ parts["phoneUseBefore"] \in Nat
  <2>1. \A b : IsFiniteSet(EventsIn(v, b, {"PHONE_USE"}))
    BY <1>1, FiniteRows, PartsOfTables, FS_Subset
  <2>2. \A b : PhoneUse(v, b) \in Nat
    BY <2>1, FS_CardinalityType DEF PhoneUse, Count
  <2> QED BY <1>3, <2>2
<1>12. ASSUME figures.phoneUseChange # Null
       PROVE  LET before == parts["phoneUseBefore"]
                  off == before * figures.phoneUseChange - Whole * (parts["phoneUse"] - before)
              IN  2 * off \in -before..before
  BY <1>4, <1>11, <1>12, ChangeIs
<1> HIDE DEF es, is, p
<1> QED BY <1>4, <1>5, <1>7, <1>8, <1>9, <1>10, <1>12 DEF SummaryAgrees, q, figures

LEMMA WorstRisk ==
    ASSUME NEW s \in SUBSET (0..3), s # {}
    PROVE  Max(s) \in s
<1>1. \E x \in s : \A y \in s : x >= y
  <2>1. s \subseteq {0, 1, 2, 3}
    OBVIOUS
  <2>2. CASE 3 \in s
    BY <2>1, <2>2
  <2>3. CASE 3 \notin s /\ 2 \in s
    BY <2>1, <2>3
  <2>4. CASE 3 \notin s /\ 2 \notin s /\ 1 \in s
    BY <2>1, <2>4
  <2>5. CASE 3 \notin s /\ 2 \notin s /\ 1 \notin s
    <3>1. s = {0}
      BY <2>1, <2>5
    <3> QED BY <3>1
  <2> QED BY <2>2, <2>3, <2>4, <2>5
<1> QED BY <1>1 DEF Max

LEMMA BehaviorsHold == ReportInv => BehaviorsAgree
<1> SUFFICES ASSUME ReportInv, Is("behaviors") PROVE BehaviorsAgree
  BY DEF BehaviorsAgree
<1> DEFINE v == seen
           q == request
           p == q.period
           es == EventsIn(v, p, q.types)
           g == [t \in q.types |-> Statistic(parts, t).count]
           of(t) == EventsIn(v, p, {t})
           ByRisks == parts["byRisk"]
           Corrected == parts["correctedByType"]
           Figures == parts["statistics"]
<1>1. q \in Asks /\ IsDatabase(v) /\ q.kind = "behaviors" /\ answer = "done"
  BY AllMade DEF Is
<1>2. q.types \subseteq Type /\ IsFiniteSet(q.types)
  BY <1>1, AskedTypes
<1>3. /\ Figures = Statistics(v, q) /\ Corrected = CorrectedByType(v, q)
      /\ ByRisks = ByRisk(v, q) /\ parts["byHour"] = ByHour(v, q)
  <2>1. Queries(q.kind) = <<"statistics", "correctedByType", "byRisk", "byHour">>
    BY <1>1 DEF Queries, BehaviorQueries
  <2>2. ToSet(Queries(q.kind)) = {"statistics", "correctedByType", "byRisk", "byHour"}
    BY <2>1 DEF ToSet
  <2>3. \A name \in ToSet(Queries(q.kind)) : parts[name] = Answer(name, v, q)
    BY <1>1, AllMade
  <2>4. /\ parts["statistics"] = Answer("statistics", v, q)
        /\ parts["correctedByType"] = Answer("correctedByType", v, q)
        /\ parts["byRisk"] = Answer("byRisk", v, q) /\ parts["byHour"] = Answer("byHour", v, q)
    BY <2>2, <2>3
  <2> HIDE DEF v, q
  <2> QED BY <2>4 DEF Answer, Result
<1>4. ASSUME NEW t
      PROVE  /\ Statistic(parts, t).count = Figures[t].count
             /\ Statistic(parts, t).risk = Figures[t].risk
             /\ Statistic(parts, t).rate = Rate(Corrected[t], Figures[t].count)
  BY DEF Statistic
<1> HIDE DEF v, q, Figures, Corrected, ByRisks
<1>5. CountTheSame(v, q)
  BY <1>1, <1>2, EventsCounted
<1>6. ASSUME NEW t \in q.types
      PROVE  /\ Figures[t].count = Count(of(t)) /\ Corrected[t] = Count(CorrectedEvents(v, of(t)))
             /\ Figures[t].risk = IF of(t) = {} THEN Null ELSE Max({v.events[e].risk : e \in of(t)})
  BY <1>3 DEF Statistics, CorrectedByType
<1>7. ASSUME NEW t \in q.types
      PROVE  /\ of(t) \in SUBSET es /\ of(t) \in SUBSET DOMAIN v.events
             /\ IsFiniteSet(of(t)) /\ Count(of(t)) \in Nat /\ (Count(of(t)) = 0 <=> of(t) = {})
             /\ Count(CorrectedEvents(v, of(t))) \in Nat
             /\ Count(CorrectedEvents(v, of(t))) <= Count(of(t))
  <2>1. of(t) \in SUBSET es /\ of(t) \in SUBSET DOMAIN v.events
        /\ CorrectedEvents(v, of(t)) \in SUBSET of(t)
    BY <1>7 DEF EventsIn, EventsOf, CorrectedEvents
  <2>2. IsFiniteSet(DOMAIN v.events)
    BY <1>1, FiniteRows
  <2> HIDE DEF of, es
  <2>3. IsFiniteSet(of(t)) /\ Count(of(t)) \in Nat /\ (Count(of(t)) = 0 <=> of(t) = {})
    BY <2>1, <2>2, CountsOfParts
  <2>4. Count(CorrectedEvents(v, of(t))) \in Nat /\ Count(CorrectedEvents(v, of(t))) <= Count(of(t))
    BY <2>1, <2>3, CountsOfParts
  <2> QED BY <2>1, <2>3, <2>4
<1>8. Sum(g) = Sum(ByRisks) /\ Sum(ByRisks) = Sum(parts["byHour"])
  <2>1. g = ByType(v, q)
    <3>1. ByType(v, q) = [t \in q.types |-> ByType(v, q)[t]]
      BY DEF ByType, CountsBy
    <3>2. \A t \in q.types : ByType(v, q)[t] = Statistic(parts, t).count
      BY <1>4, <1>5, <1>6 DEF CountTheSame
    <3> QED BY <3>1, <3>2
  <2> HIDE DEF g
  <2> QED BY <1>3, <1>5, <2>1 DEF CountTheSame
<1>9. ASSUME NEW t \in q.types
      PROVE  LET one == Statistic(parts, t) IN
             /\ one.rate \in 0..Whole
             /\ (one.risk = Null) <=> (one.count = 0)
             /\ one.risk # Null => ByRisks[one.risk] > 0
  <2> DEFINE risks == {v.events[e].risk : e \in of(t)}
  <2>1. Rate(Corrected[t], Figures[t].count) \in 0..Whole
    <3> DEFINE n == Count(CorrectedEvents(v, of(t)))
               d == Count(of(t))
    <3>1. Figures[t].count = d /\ Corrected[t] = n
      BY <1>6
    <3>2. n \in Nat /\ d \in Nat /\ n <= d
      BY <1>7
    <3> HIDE DEF n, d
    <3>3. Rate(n, d) \in 0..Whole
      BY <3>2, RateIs
    <3> QED BY <3>1, <3>3
  <2>2. ASSUME of(t) # {}
        PROVE  /\ Figures[t].risk \in 0..3
               /\ \E e \in es : v.events[e].risk = Figures[t].risk
    <3>1. risks \in SUBSET (0..3) /\ risks # {}
      <4>1. \A e \in of(t) : v.events[e].risk \in 0..3
        <5> HIDE DEF of, es
        <5> QED BY <1>1, <1>7, EventRows
      <4> HIDE DEF of
      <4> QED BY <2>2, <4>1
    <3>2. Max(risks) \in risks
      <4> HIDE DEF risks
      <4> QED BY <3>1, WorstRisk
    <3>3. Figures[t].risk = Max(risks)
      BY <1>6, <2>2
    <3> HIDE DEF of, es
    <3> QED BY <1>7, <3>1, <3>2, <3>3
  <2>3. ASSUME of(t) # {} PROVE ByRisks[Figures[t].risk] > 0
    <3> DEFINE r == Figures[t].risk
               same == {e \in es : v.events[e].risk = r}
    <3>1. r \in 0..3 /\ same # {}
      BY <2>2, <2>3
    <3>2. ByRisks[r] = Count(same)
      <4>1. \A x \in 0..3 : ByRisk(v, q)[x] = Count({e \in es : v.events[e].risk = x})
        BY <1>5 DEF CountTheSame
      <4> HIDE DEF es, r
      <4> QED BY <1>3, <3>1, <4>1
    <3>3. IsFiniteSet(es) /\ same \in SUBSET es
      BY <1>5 DEF CountTheSame
    <3> HIDE DEF es, same, r
    <3>4. Count(same) \in Nat /\ Count(same) # 0
      BY <3>1, <3>3, CountsOfParts
    <3> QED BY <3>2, <3>4 DEF r
  <2>4. Null \notin 0..3
    BY ReportAssumption
  <2>5. of(t) = {} => Figures[t].risk = Null
    BY <1>6
  <2>6. Figures[t].count = 0 <=> of(t) = {}
    <3> HIDE DEF of, es
    <3> QED BY <1>6, <1>7
  <2>7. of(t) # {} => Figures[t].risk # Null
    BY <2>2, <2>4
  <2> HIDE DEF of, es
  <2> QED BY <1>4, <2>1, <2>3, <2>5, <2>6, <2>7
<1> HIDE DEF g, of, es
<1>10. Sum([t \in q.types |-> Statistic(parts, t).count]) = Sum(ByRisks)
  BY <1>8 DEF g
<1> QED BY <1>8, <1>9, <1>10 DEF BehaviorsAgree, q, ByRisks

\* Events, interventions and corrections belong to one session each.
LEMMA SessionCounts ==
    ASSUME NEW v, IsDatabase(v), NEW ss \in SUBSET DOMAIN v.sessions,
           NEW g, NEW f \in {"events", "interventions", "corrected"},
           g = [s \in ss |-> CountsOf(v, s)[f]]
    PROVE  LET es == EventsOf(v, ss) IN
           Sum(g) = CASE f = "events" -> Count(es)
                      [] f = "interventions" -> Count(InterventionsOf(v, es))
                      [] f = "corrected" -> Count(CorrectedOf(v, es))
<1> DEFINE es == EventsOf(v, ss)
           is == InterventionsOf(v, es)
           cs == CorrectedOf(v, es)
           ofEvent == [e \in es |-> v.events[e].session]
           ofOne(i) == v.events[v.interventions[i]].session
           ofIntervention == [i \in is |-> ofOne(i)]
           ofCorrected == [i \in cs |-> ofOne(i)]
<1>1. IsFiniteSet(ss) /\ IsFiniteSet(DOMAIN v.events) /\ IsFiniteSet(DOMAIN v.interventions)
  BY FiniteRows, FS_Subset
<1>2. es \in SUBSET DOMAIN v.events /\ is \in SUBSET DOMAIN v.interventions /\ cs \in SUBSET is
  BY DEF EventsOf, InterventionsOf, CorrectedOf
<1>3. IsFiniteSet(es) /\ IsFiniteSet(is) /\ IsFiniteSet(cs)
  <2> HIDE DEF es, is, cs
  <2>1. IsFiniteSet(es) /\ IsFiniteSet(is)
    BY <1>1, <1>2, FS_Subset
  <2> QED BY <1>2, <2>1, FS_Subset
<1>4. ofEvent \in [es -> ss] /\ ofIntervention \in [is -> ss] /\ ofCorrected \in [cs -> ss]
  <2>1. \A e \in es : v.events[e].session \in ss
    BY DEF EventsOf
  <2>2. \A i \in is : ofOne(i) \in ss
    BY <2>1 DEF InterventionsOf
  <2> QED BY <1>2, <2>1, <2>2
<1>5. ASSUME NEW s \in ss
      PROVE  /\ EventsOf(v, {s}) = {e \in es : ofEvent[e] = s}
             /\ InterventionsOf(v, EventsOf(v, {s})) = {i \in is : ofIntervention[i] = s}
             /\ CorrectedOf(v, EventsOf(v, {s})) = {i \in cs : ofCorrected[i] = s}
  <2>1. EventsOf(v, {s}) = {e \in es : ofEvent[e] = s}
    BY DEF EventsOf
  <2>2. InterventionsOf(v, EventsOf(v, {s})) = {i \in is : ofIntervention[i] = s}
    BY DEF EventsOf, InterventionsOf
  <2>3. CorrectedOf(v, EventsOf(v, {s})) = {i \in cs : ofCorrected[i] = s}
    <3>1. \A i \in InterventionsOf(v, EventsOf(v, {s})) : i \in is /\ ofOne(i) = s
      BY <2>2
    <3>2. \A i \in is : ofOne(i) = s => i \in InterventionsOf(v, EventsOf(v, {s}))
      BY <2>2
    <3> QED BY <3>1, <3>2 DEF CorrectedOf
  <2> QED BY <2>1, <2>2, <2>3
<1>6. ASSUME NEW s \in ss
      PROVE  /\ CountsOf(v, s)["events"] = Count({e \in es : ofEvent[e] = s})
             /\ CountsOf(v, s)["interventions"] = Count({i \in is : ofIntervention[i] = s})
             /\ CountsOf(v, s)["corrected"] = Count({i \in cs : ofCorrected[i] = s})
  <2> HIDE DEF es, is, cs, ofEvent, ofIntervention, ofCorrected
  <2>1. /\ CountsOf(v, s)["events"] = Count(EventsOf(v, {s}))
        /\ CountsOf(v, s)["interventions"] = Count(InterventionsOf(v, EventsOf(v, {s})))
        /\ CountsOf(v, s)["corrected"] = Count(CorrectedOf(v, EventsOf(v, {s})))
    BY DEF CountsOf
  <2> QED BY <1>5, <2>1
<1> SUFFICES Sum(g) = CASE f = "events" -> Count(es)
                        [] f = "interventions" -> Count(is)
                        [] f = "corrected" -> Count(cs)
  OBVIOUS
<1> HIDE DEF es, is, cs, ofEvent, ofIntervention, ofCorrected, ofOne
<1>7. ASSUME NEW D, IsFiniteSet(D), NEW key \in [D -> ss],
             \A s \in ss : CountsOf(v, s)[f] = Count({d \in D : key[d] = s})
      PROVE  Sum(g) = Count(D)
  <2>1. \A s \in ss : Count({d \in D : key[d] = s}) \in Nat
    BY <1>7, CountsOfParts
  <2>2. g \in [ss -> Nat] /\ \A s \in ss : g[s] = Count({d \in D : key[d] = s})
    BY <1>7, <2>1
  <2> QED BY <1>1, <1>7, <2>2, GroupsAddUp
<1>8. CASE f = "events"
  <2>1. Sum(g) = Count(es)
    BY <1>3, <1>4, <1>6, <1>7, <1>8
  <2> QED BY <1>8, <2>1
<1>9. CASE f = "interventions"
  <2>1. Sum(g) = Count(is)
    BY <1>3, <1>4, <1>6, <1>7, <1>9
  <2> QED BY <1>9, <2>1
<1>10. CASE f = "corrected"
  <2>1. Sum(g) = Count(cs)
    BY <1>3, <1>4, <1>6, <1>7, <1>10
  <2> QED BY <1>10, <2>1
<1> QED BY <1>8, <1>9, <1>10

LEMMA SessionsHold == ReportInv => SessionsAddUp
<1> SUFFICES ASSUME ReportInv, Is("sessions") PROVE SessionsAddUp
  BY DEF SessionsAddUp
<1> DEFINE v == seen
           p == request.period
           q == [period |-> p, types |-> Type]
           ss == SessionsIn(v, p)
           es == EventsOf(v, ss)
           interventions == Interventions(v, q)
           Listed1 == parts["page"]
<1>1. request \in Asks /\ IsDatabase(v) /\ request.kind = "sessions" /\ answer = "done"
  BY AllMade DEF Is
<1>2. Listed1 = Listing(v, request)
  <2>1. Queries(request.kind) = <<"total", "page">>
    BY <1>1 DEF Queries, ListQueries
  <2>2. "page" \in ToSet(Queries(request.kind))
    BY <2>1 DEF ToSet
  <2>3. parts["page"] = Answer("page", v, request)
    BY <1>1, <2>2, AllMade
  <2> HIDE DEF v
  <2> QED BY <2>3 DEF Answer, Result
<1>3. EventsIn(v, p, Type) = es
  <2>1. \A e \in DOMAIN v.events : v.events[e].type \in Type
    BY <1>1, EventRows
  <2> QED BY <2>1 DEF EventsIn, EventsOf
<1>4. CountTheSame(v, q)
  BY <1>1, EventsCounted
<1>5. Sum(ByType(v, q)) = Count(es)
  BY <1>3, <1>4 DEF CountTheSame
<1>6. interventions.count = Count(InterventionsOf(v, es))
      /\ interventions.corrected = Count(CorrectedOf(v, es))
  BY <1>3 DEF Interventions
<1>7. ss \in SUBSET DOMAIN v.sessions
  BY PartsOfTables
<1>8. ASSUME NEW f \in {"events", "interventions", "corrected"}
      PROVE  Sum([s \in ss |-> CountsOf(v, s)[f]])
                = CASE f = "events" -> Count(es)
                    [] f = "interventions" -> Count(InterventionsOf(v, es))
                    [] f = "corrected" -> Count(CorrectedOf(v, es))
  <2> HIDE DEF ss, v
  <2> QED BY <1>1, <1>7, SessionCounts
<1>9. /\ Sum([s \in ss |-> CountsOf(v, s)["events"]]) = Count(es)
      /\ Sum([s \in ss |-> CountsOf(v, s)["interventions"]]) = Count(InterventionsOf(v, es))
      /\ Sum([s \in ss |-> CountsOf(v, s)["corrected"]]) = Count(CorrectedOf(v, es))
  BY <1>8
<1>10. ASSUME NEW n \in DOMAIN Listed1
       PROVE  /\ Listed1[n].counts = CountsOf(v, Listed1[n].id)
              /\ Listed1[n].counts.corrected <= Listed1[n].counts.interventions
  <2>1. Listed1[n].counts = CountsOf(v, Listed1[n].id)
    BY <1>2 DEF Listing
  <2> DEFINE one == EventsOf(v, {Listed1[n].id})
  <2>2. Listed1[n].counts.corrected = Count(CorrectedOf(v, one))
        /\ Listed1[n].counts.interventions = Count(InterventionsOf(v, one))
    BY <2>1 DEF CountsOf
  <2>3. Count(CorrectedOf(v, one)) <= Count(InterventionsOf(v, one))
    BY <1>1, InterventionsCounted
  <2> QED BY <2>1, <2>2, <2>3
<1> HIDE DEF es, ss, interventions
<1> QED BY <1>5, <1>6, <1>9, <1>10 DEF SessionsAddUp, ss, interventions

LEMMA DetailHolds == ReportInv => DetailAgrees
<1> SUFFICES ASSUME ReportInv, Is("detail") PROVE DetailAgrees
  BY DEF DetailAgrees
<1> DEFINE v == seen
           q == request
           es == EventsOf(v, {q.session})
           is == InterventionsOf(v, es)
<1>1. q \in Asks /\ IsDatabase(v) /\ q.kind = "detail" /\ answer = "done"
  BY AllMade DEF Is
<1>2. /\ parts["eventCount"] = Count(es) /\ parts["interventionCount"] = Count(is)
      /\ parts["correctedCount"] = Count(CorrectedOf(v, es))
      /\ parts["latency"] = AverageLatency(v, is)
  <2>1. Queries(q.kind) = <<"eventCount", "interventionCount", "correctedCount", "latency">>
    BY <1>1 DEF Queries, DetailQueries
  <2>2. ToSet(Queries(q.kind)) = {"eventCount", "interventionCount", "correctedCount", "latency"}
    BY <2>1 DEF ToSet
  <2>3. \A name \in ToSet(Queries(q.kind)) : parts[name] = Answer(name, v, q)
    BY <1>1, AllMade
  <2>4. /\ parts["eventCount"] = Answer("eventCount", v, q)
        /\ parts["interventionCount"] = Answer("interventionCount", v, q)
        /\ parts["correctedCount"] = Answer("correctedCount", v, q)
        /\ parts["latency"] = Answer("latency", v, q)
    BY <2>2, <2>3
  <2> HIDE DEF v, q
  <2> QED BY <2>4 DEF Answer, Result, CountsOf
<1>3. Count(CorrectedOf(v, es)) <= Count(is)
  BY <1>1, InterventionsCounted
<1>4. IsFiniteSet(es) /\ IsFiniteSet(is)
  <2>1. IsFiniteSet(DOMAIN v.events) /\ es \subseteq DOMAIN v.events
    BY <1>1, FiniteRows DEF EventsOf
  <2>2. IsFiniteSet(is)
    BY <1>1, InterventionsCounted
  <2> HIDE DEF es
  <2> QED BY <2>1, <2>2, FS_Subset
<1>5. ASSUME Count(es) = 0 PROVE Count(is) = 0
  <2>1. es = {}
    <3> HIDE DEF es
    <3> QED BY <1>4, <1>5, CountsOfParts
  <2>2. is = {}
    BY <2>1 DEF InterventionsOf
  <2> QED BY <2>2, CountNone
<1>6. ASSUME Count(is) = 0 PROVE AverageLatency(v, is) = Null
  <2>1. is = {}
    <3> HIDE DEF is
    <3> QED BY <1>4, <1>6, CountsOfParts
  <2> HIDE DEF is
  <2>2. Latencies(v, is) = {}
    BY <2>1 DEF Latencies, ResponsesOf
  <2> QED BY <2>2 DEF AverageLatency
<1> HIDE DEF es, is
<1> QED BY <1>2, <1>3, <1>5, <1>6 DEF DetailAgrees

LEMMA TimelineHolds == ReportInv => TimelineWhole
<1> SUFFICES ASSUME ReportInv, Is("timeline") PROVE TimelineWhole
  BY DEF TimelineWhole
<1> DEFINE v == seen
           q == request
           es == EventsOf(v, {q.session})
           is == InterventionsOf(v, es)
           rs == ResponsesOf(v, is)
           cs == CorrectedOf(v, es)
           Es == parts["events"]
           Its == parts["itsInterventions"]
           Rs == parts["itsResponses"]
           line == Timeline(parts)
           shown(e) == DOMAIN line[e]
           corrected(e) == {i \in shown(e) : \E r \in line[e][i] : Rs[r].corrected}
           counts == CountsOf(v, q.session)
           g == [e \in DOMAIN line |-> Cardinality(shown(e))]
           h == [e \in DOMAIN line |-> Cardinality(corrected(e))]
           key == [i \in is |-> v.interventions[i]]
           keyOf == [i \in cs |-> v.interventions[i]]
<1>1. q \in Asks /\ IsDatabase(v) /\ q.kind = "timeline" /\ answer = "done"
  BY AllMade DEF Is
<1>2. /\ Es = Restrict(v.events, es) /\ Its = Restrict(v.interventions, is)
      /\ Rs = Restrict(v.responses, rs)
  <2>1. Queries(q.kind) = <<"events", "itsInterventions", "itsResponses">>
    BY <1>1 DEF Queries, TimelineQueries
  <2>2. ToSet(Queries(q.kind)) = {"events", "itsInterventions", "itsResponses"}
    BY <2>1 DEF ToSet
  <2>3. \A name \in ToSet(Queries(q.kind)) : parts[name] = Answer(name, v, q)
    BY <1>1, AllMade
  <2>4. /\ Es = Answer("events", v, q) /\ Its = Answer("itsInterventions", v, q)
        /\ Rs = Answer("itsResponses", v, q)
    BY <2>2, <2>3
  <2> HIDE DEF v, q
  <2> QED BY <2>4, DependentAnswers
<1>3. line = [e \in DOMAIN Es |->
                [i \in {x \in DOMAIN Its : Its[x] = e} |-> {r \in DOMAIN Rs : Rs[r].intervention = i}]]
  BY DEF Timeline
<1> HIDE DEF v, q, Es, Its, Rs
<1>4. /\ DOMAIN Es = es /\ DOMAIN Its = is /\ DOMAIN Rs = rs
      /\ \A i \in is : Its[i] = v.interventions[i] /\ v.interventions[i] \in es
      /\ \A r \in rs : Rs[r] = v.responses[r]
  BY <1>2 DEF Restrict, InterventionsOf
<1> HIDE DEF line
<1>5. DOMAIN line = es
  BY <1>3, <1>4
<1>6. ASSUME NEW e \in es
      PROVE  shown(e) = {i \in is : v.interventions[i] = e}
             /\ \A i \in shown(e) : line[e][i] = {r \in rs : Rs[r].intervention = i}
  <2> HIDE DEF es, is, rs
  <2>1. line[e] = [i \in {x \in is : Its[x] = e} |-> {r \in rs : Rs[r].intervention = i}]
    BY <1>3, <1>4, <1>6
  <2> QED BY <1>4, <2>1
<1>7. ASSUME NEW e \in es
      PROVE  corrected(e) = {i \in cs : v.interventions[i] = e}
  <2>1. ASSUME NEW i \in is
        PROVE  (\E r \in {r \in rs : Rs[r].intervention = i} : Rs[r].corrected) <=> i \in cs
    <3>1. i \in cs <=> \E r \in DOMAIN v.responses :
                          v.responses[r].intervention = i /\ v.responses[r].corrected
      BY <2>1 DEF CorrectedOf, ResponsesOf
    <3>2. \A r \in DOMAIN v.responses : v.responses[r].intervention = i => r \in rs
      BY <2>1 DEF ResponsesOf
    <3>3. rs \subseteq DOMAIN v.responses
      BY DEF ResponsesOf
    <3> HIDE DEF rs, is, cs
    <3> QED BY <1>4, <3>1, <3>2, <3>3
  <2>2. cs \subseteq is
    BY DEF CorrectedOf
  <2> HIDE DEF rs, is, cs, es
  <2> QED BY <1>6, <1>7, <2>1, <2>2
<1>8. IsFiniteSet(es) /\ IsFiniteSet(is) /\ IsFiniteSet(cs)
  <2>1. IsFiniteSet(DOMAIN v.events) /\ es \subseteq DOMAIN v.events
    BY <1>1, FiniteRows DEF EventsOf
  <2>2. IsFiniteSet(is) /\ IsFiniteSet(cs)
    BY <1>1, InterventionsCounted
  <2> HIDE DEF es
  <2> QED BY <2>1, <2>2, FS_Subset
<1>9. key \in [is -> es] /\ keyOf \in [cs -> es]
  <2>1. cs \subseteq is
    BY DEF CorrectedOf
  <2> HIDE DEF is, es, cs
  <2> QED BY <1>4, <2>1
<1>10. \A i \in is : key[i] = v.interventions[i]
  OBVIOUS
<1>11. \A i \in cs : keyOf[i] = v.interventions[i]
  OBVIOUS
<1> HIDE DEF es, is, rs, cs, shown, corrected, key, keyOf
<1>12. Sum(g) = Count(is)
  <2>1. ASSUME NEW e \in es PROVE g[e] = Count({i \in is : key[i] = e}) /\ g[e] \in Nat
    <3>1. {i \in is : key[i] = e} = shown(e) /\ shown(e) \in SUBSET is
      BY <1>6, <1>10, <2>1
    <3>2. g[e] = Cardinality(shown(e))
      BY <1>5, <2>1
    <3>3. Cardinality(shown(e)) = Cardinality({i \in is : key[i] = e})
      BY <3>1
    <3>4. Cardinality(shown(e)) \in Nat
      BY <1>8, <3>1, CountsOfParts DEF Count
    <3> QED BY <3>2, <3>3, <3>4 DEF Count
  <2>2. g \in [es -> Nat]
    BY <1>5, <2>1
  <2> HIDE DEF g
  <2> QED BY <1>8, <1>9, <2>1, <2>2, GroupsAddUp
<1>13. Sum(h) = Count(cs)
  <2>1. ASSUME NEW e \in es PROVE h[e] = Count({i \in cs : keyOf[i] = e}) /\ h[e] \in Nat
    <3>1. {i \in cs : keyOf[i] = e} = corrected(e) /\ corrected(e) \in SUBSET cs
      BY <1>7, <1>11, <2>1
    <3>2. h[e] = Cardinality(corrected(e))
      BY <1>5, <2>1
    <3>3. Cardinality(corrected(e)) = Cardinality({i \in cs : keyOf[i] = e})
      BY <3>1
    <3>4. Cardinality(corrected(e)) \in Nat
      BY <1>8, <3>1, CountsOfParts DEF Count
    <3> QED BY <3>2, <3>3, <3>4 DEF Count
  <2>2. h \in [es -> Nat]
    BY <1>5, <2>1
  <2> HIDE DEF h
  <2> QED BY <1>8, <1>9, <2>1, <2>2, GroupsAddUp
<1>14. counts.events = Count(es) /\ counts.interventions = Count(is) /\ counts.corrected = Count(cs)
  BY DEF CountsOf, es, is, cs
<1>15. Cardinality(DOMAIN line) = counts.events
  BY <1>5, <1>14 DEF Count
<1> HIDE DEF counts
<1> QED BY <1>12, <1>13, <1>14, <1>15 DEF TimelineWhole, line, counts, v, q, shown, corrected, Rs

LEMMA AnswersHold == ReportInv => AnswersAgree
  BY TypesHold, SummaryHolds, BehaviorsHold, SessionsHold, DetailHolds, TimelineHolds
     DEF AnswersAgree

-----------------------------------------------------------------------------
(* Pages.                                                                  *)

\* g is what there is after each of the sequences.
Grows(P, seqs, g) == g = [i \in 1..P |-> IF i = 1 THEN seqs[i] ELSE g[i - 1] \o seqs[i]]

\* Sequences one after the other.
LEMMA FlattenIs ==
    ASSUME NEW P \in Nat \ {0}, NEW seqs, Len(seqs) = P, NEW g, Grows(P, seqs, g)
    PROVE  FlattenSeq(seqs) = g[P]
<1> DEFINE After(f) == f = [i \in 1..P |-> IF i = 1 THEN seqs[i] ELSE f[i - 1] \o seqs[i]]
           h == CHOOSE f : After(f)
<1>1. After(h)
  <2>1. After(g)
    BY DEF Grows
  <2> HIDE DEF After
  <2> QED BY <2>1
<1>2. FlattenSeq(seqs) = h[P]
  BY DEF FlattenSeq
<1> HIDE DEF h
<1>3. /\ h[1] = seqs[1] /\ g[1] = seqs[1]
      /\ \A i \in 1..P : i # 1 => h[i] = h[i - 1] \o seqs[i] /\ g[i] = g[i - 1] \o seqs[i]
  <2>1. \A i \in 1..P : /\ h[i] = IF i = 1 THEN seqs[i] ELSE h[i - 1] \o seqs[i]
                        /\ g[i] = IF i = 1 THEN seqs[i] ELSE g[i - 1] \o seqs[i]
    BY <1>1 DEF Grows
  <2>2. 1 \in 1..P
    OBVIOUS
  <2> QED BY <2>1, <2>2
<1> DEFINE C == {i \in 1..P : h[i] # g[i]}
<1>4. C = {}
  <2> SUFFICES ASSUME C # {} PROVE FALSE
    OBVIOUS
  <2>1. PICK i \in C : \A j \in C : i <= j
    <3>1. C \in SUBSET Nat
      OBVIOUS
    <3> HIDE DEF C
    <3> QED BY <3>1, LeastNumber
  <2>2. i # 1 /\ i \in 1..P /\ h[i] # g[i]
    BY <1>3
  <2>3. i - 1 \notin C /\ i - 1 \in 1..P
    BY <2>1, <2>2
  <2>4. h[i - 1] = g[i - 1]
    BY <2>3
  <2>5. h[i] = h[i - 1] \o seqs[i] /\ g[i] = g[i - 1] \o seqs[i]
    BY <1>3, <2>2
  <2> QED BY <2>2, <2>4, <2>5
<1>5. P \in 1..P
  OBVIOUS
<1>6. h[P] = g[P]
  BY <1>4, <1>5
<1> QED BY <1>2, <1>6

\* As many pages as it takes.
LEMMA PagesFit ==
    ASSUME NEW N \in Nat, NEW size \in Nat \ {0}
    PROVE  /\ TotalPages(N, size) \in Nat
           /\ N <= TotalPages(N, size) * size
           /\ \A k \in 1..TotalPages(N, size) : (k - 1) * size \in Nat /\ (k - 1) * size < N
           /\ \A k \in Nat : k > TotalPages(N, size) => N <= (k - 1) * size
<1> DEFINE P == TotalPages(N, size)
<1>1. P \in Int /\ size * P <= N + size - 1 /\ N + size - 1 < size * P + size
  BY Division DEF TotalPages
<1> HIDE DEF P
<1>2. size * P \in Int /\ size * P = P * size
  BY <1>1
<1>3. P \in Nat
  <2> SUFFICES ASSUME P < 0 PROVE FALSE
    BY <1>1
  <2>1. size * P + size <= size * 0
    BY <1>1, Larger
  <2> QED BY <1>1, <1>2, <2>1
<1>4. ASSUME NEW k \in 1..P PROVE (k - 1) * size \in Nat /\ (k - 1) * size < N
  <2>1. size * (k - 1) + size <= size * P
    BY <1>1, Larger
  <2>2. size * (k - 1) = (k - 1) * size /\ (k - 1) * size \in Nat
    OBVIOUS
  <2> QED BY <1>1, <1>2, <2>1, <2>2
<1>5. ASSUME NEW k \in Nat, k > P PROVE N <= (k - 1) * size
  <2>1. CASE k - 1 = P
    BY <1>1, <1>2, <2>1
  <2>2. CASE k - 1 > P
    <3>1. size * P + size <= size * (k - 1) /\ size * (k - 1) = (k - 1) * size
      BY <1>1, <2>2, Larger
    <3>2. (k - 1) * size \in Int
      OBVIOUS
    <3> QED BY <1>1, <1>2, <3>1, <3>2
  <2> QED BY <1>1, <1>5, <2>1, <2>2
<1> QED BY <1>1, <1>2, <1>3, <1>4, <1>5 DEF P

\* The pages one after the other are the list.
LEMMA PagesOfList ==
    ASSUME NEW S, NEW list \in Seq(S), NEW size \in Nat \ {0}, list # << >>
    PROVE  LET P == TotalPages(Len(list), size)
           IN  P # 0 /\ FlattenSeq([k \in 1..P |-> Page(list, k, size)]) = list
<1> DEFINE N == Len(list)
           P == TotalPages(N, size)
           upto(k) == IF N < k * size THEN N ELSE k * size
           seqs == [k \in 1..P |-> Page(list, k, size)]
           g == [k \in 1..P |-> SubSeq(list, 1, upto(k))]
<1>1. N \in Nat /\ N # 0
  BY EmptySeq, LenProperties
<1>2. /\ P \in Nat /\ N <= P * size
      /\ \A k \in 1..P : (k - 1) * size \in Nat /\ (k - 1) * size < N
  BY <1>1, PagesFit
<1> HIDE DEF P, N
<1>3. P # 0
  BY <1>1, <1>2
<1>4. \A k \in 1..P : k * size \in Nat /\ upto(k) \in Nat /\ upto(k) <= N /\ (k - 1) * size <= upto(k)
  <2>1. ASSUME NEW k \in 1..P PROVE k * size \in Nat /\ (k - 1) * size <= k * size
    <3>1. k * size = (k - 1) * size + size /\ k * size \in Nat
      OBVIOUS
    <3> QED BY <1>2, <3>1
  <2> QED BY <1>1, <1>2, <2>1
<1>5. ASSUME NEW k \in 1..P
      PROVE  Page(list, k, size) = SubSeq(list, (k - 1) * size + 1, upto(k))
  BY DEF Page, N
<1> HIDE DEF upto
<1>6. ASSUME NEW k \in 1..P, k # 1
      PROVE  SubSeq(list, 1, upto(k - 1)) \o Page(list, k, size) = SubSeq(list, 1, upto(k))
  <2>1. upto(k - 1) = (k - 1) * size
    BY <1>2, <1>6, <1>1 DEF upto
  <2> DEFINE m == (k - 1) * size
             n == upto(k)
  <2>2. m \in Nat /\ n \in Nat /\ m <= n /\ n <= N
    BY <1>2, <1>4
  <2> HIDE DEF m, n
  <2>3. SubSeq(list, 1, m) \o SubSeq(list, m + 1, n) = SubSeq(list, 1, n)
    <3>1. 1 \in 1..(Len(list) + 1) /\ m \in (1 - 1)..Len(list) /\ n \in m..Len(list)
      BY <1>1, <2>2 DEF N
    <3> QED BY <3>1, ConcatAdjacentSubSeq
  <2> QED BY <1>5, <2>1, <2>3 DEF m, n
<1>7. ASSUME NEW k \in 1..P, k = 1
      PROVE  Page(list, k, size) = SubSeq(list, 1, upto(k))
  <2>1. (k - 1) * size + 1 = 1
    BY <1>7
  <2> QED BY <1>5, <2>1
<1>8. Grows(P, seqs, g)
  <2>1. ASSUME NEW k \in 1..P
        PROVE  g[k] = IF k = 1 THEN seqs[k] ELSE g[k - 1] \o seqs[k]
    <3>1. seqs[k] = Page(list, k, size) /\ g[k] = SubSeq(list, 1, upto(k))
      OBVIOUS
    <3>2. CASE k = 1
      BY <1>7, <3>1, <3>2
    <3>3. CASE k # 1
      <4>1. k - 1 \in 1..P
        BY <1>2, <3>3
      <4>2. g[k - 1] = SubSeq(list, 1, upto(k - 1))
        BY <4>1
      <4> HIDE DEF g, seqs
      <4> QED BY <1>6, <3>1, <3>3, <4>2
    <3> QED BY <3>2, <3>3
  <2>2. g = [k \in 1..P |-> g[k]]
    OBVIOUS
  <2> HIDE DEF g, seqs
  <2> QED BY <2>1, <2>2 DEF Grows
<1>9. Len(seqs) = P
  BY <1>2
<1>10. FlattenSeq(seqs) = g[P]
  <2>1. P \in Nat \ {0}
    BY <1>2, <1>3
  <2> HIDE DEF g, seqs
  <2> QED BY <1>8, <1>9, <2>1, FlattenIs
<1>11. g[P] = list
  <2>1. P \in 1..P /\ upto(P) = N
    BY <1>1, <1>2, <1>3 DEF upto
  <2>2. g[P] = SubSeq(list, 1, N)
    BY <2>1
  <2> QED BY <2>2, SubSeqFull DEF N
<1> QED BY <1>3, <1>10, <1>11 DEF P, N

LEMMA NoPages ==
    ASSUME NEW size \in Nat \ {0}
    PROVE  TotalPages(0, size) = 0
<1> DEFINE P == TotalPages(0, size)
<1>1. P \in Nat /\ size * P <= 0 + size - 1
  BY PagesFit, Division DEF TotalPages
<1> HIDE DEF P
<1>2. ASSUME P # 0 PROVE FALSE
  <2>1. size * 0 + size <= size * P /\ size * 0 = 0 /\ size * P \in Int
    BY <1>1, <1>2, Larger
  <2> QED BY <1>1, <2>1
<1> QED BY <1>2 DEF P

\* Ids have places, one each.
LEMMA IdsHavePlaces ==
    LET rank == SetToSeq(Session)
        pos(s) == CHOOSE n \in DOMAIN rank : rank[n] = s
    IN  \A s, t \in Session : pos(s) \in Int /\ (pos(s) = pos(t) => s = t)
<1> DEFINE N == Cardinality(Session)
           rank == SetToSeq(Session)
           pos(s) == CHOOSE n \in DOMAIN rank : rank[n] = s
<1>0. IsFiniteSet(Session)
  BY ReportAssumption
<1>1. N \in Nat /\ ExistsBijection(1..N, Session)
  BY <1>0, FS_CardinalityType
<1>2. \E f \in [1..N -> Session] : IsInjective(f)
  BY <1>1 DEF ExistsBijection, Bijection, Injection, IsInjective
<1>3. rank \in [1..N -> Session] /\ IsInjective(rank)
  BY <1>2 DEF SetToSeq
<1> HIDE DEF N, rank
<1>4. rank \in Injection(1..N, Session)
  BY <1>3 DEF Injection, IsInjective
<1>5. Cardinality(1..N) = N
  <2>1. 1 \in Int /\ N \in Int
    BY <1>1
  <2>2. Cardinality(1..N) = IF 1 > N THEN 0 ELSE N - 1 + 1
    BY <2>1, FS_Interval
  <2> QED BY <1>1, <2>2
<1>6. rank \in Surjection(1..N, Session)
  BY <1>0, <1>4, <1>5, FS_Injection DEF N
<1>7. \A s \in Session : \E n \in DOMAIN rank : rank[n] = s
  BY <1>3, <1>6 DEF Surjection
<1>8. \A s \in Session : pos(s) \in DOMAIN rank /\ rank[pos(s)] = s
  BY <1>7
<1>9. DOMAIN rank \subseteq Int
  BY <1>1, <1>3
<1> HIDE DEF pos
<1>10. \A s, t \in Session : pos(s) \in Int /\ (pos(s) = pos(t) => s = t)
  BY <1>8, <1>9
<1> QED BY <1>10 DEF pos, rank

\* Of two sessions one is the newer, by its id if need be.
LEMMA NewestIs ==
    ASSUME NEW v, IsDatabase(v), NEW set \in SUBSET DOMAIN v.sessions
    PROVE  /\ NewestFirst(v, set) \in Seq(set) /\ Len(NewestFirst(v, set)) = Count(set)
           /\ ToSet(NewestFirst(v, set)) = set /\ Count(set) \in Nat
           /\ \A k \in 1..(Count(set) - 1) :
                 v.sessions[NewestFirst(v, set)[k]].started
                    >= v.sessions[NewestFirst(v, set)[k + 1]].started
<1> DEFINE rank == SetToSeq(Session)
           pos(s) == CHOOSE n \in DOMAIN rank : rank[n] = s
           start(s) == v.sessions[s].started
           before(s, t) == start(s) > start(t) \/ (start(s) = start(t) /\ pos(s) > pos(t))
           R == {st \in set \X set : before(st[1], st[2])}
           list == NewestFirst(v, set)
           N == Cardinality(set)
<1>1. list = OrderBy(set, R)
  BY DEF NewestFirst
<1>2. \A s, t \in Session : pos(s) \in Int /\ (pos(s) = pos(t) => s = t)
  BY IdsHavePlaces
<1>3. \A s \in set : s \in Session /\ start(s) \in Int
  BY DEF IsDatabase
<1>4. IsFiniteSet(set)
  BY FiniteRows, FS_Subset
<1>5. \A s, t : <<s, t>> \in R <=> s \in set /\ t \in set /\ before(s, t)
  <2> HIDE DEF before
  <2> QED OBVIOUS
<1> HIDE DEF R, pos, start
<1>6. Ordered(set, R)
  <2>1. \A s \in set : ~before(s, s)
    BY <1>2, <1>3
  <2>2. ASSUME NEW s \in set, NEW t \in set, s # t PROVE before(s, t) \/ before(t, s)
    BY <1>2, <1>3, <2>2
  <2>3. \A s, t, u \in set : before(s, t) /\ before(t, u) => before(s, u)
    BY <1>2, <1>3
  <2> HIDE DEF before
  <2> QED BY <1>5, <2>1, <2>2, <2>3 DEF Ordered
<1>7. IsOrder(set, R, list)
  BY <1>1, <1>4, <1>6, OrderByIs
<1> HIDE DEF list
<1>8. list \in [1..N -> set] /\ N \in Nat
  BY <1>7 DEF IsOrder
<1> HIDE DEF N
<1>9. list \in Seq(set) /\ Len(list) = N
  BY <1>8
<1>10. ToSet(list) = set
  <2>1. DOMAIN list = 1..N /\ \A n \in 1..N : list[n] \in set
    BY <1>8
  <2>2. \A s \in set : \E n \in 1..N : list[n] = s
    BY <1>7 DEF IsOrder, N
  <2> QED BY <2>1, <2>2 DEF ToSet
<1>11. ASSUME NEW k \in 1..(N - 1)
       PROVE  start(list[k]) >= start(list[k + 1])
  <2>1. k \in 1..N /\ k + 1 \in 1..N /\ k < k + 1
    BY <1>8
  <2>2. <<list[k], list[k + 1]>> \in R
    BY <1>7, <2>1 DEF IsOrder, N
  <2>3. before(list[k], list[k + 1]) /\ list[k] \in set /\ list[k + 1] \in set
    BY <1>5, <2>2
  <2> QED BY <1>3, <2>3
<1> QED BY <1>8, <1>9, <1>10, <1>11 DEF start, list, N, Count

\* The page asked for makes no difference to what is listed.
LEMMA ListedTheSame ==
    ASSUME NEW v, IsDatabase(v), NEW q \in Asks, ~Refused(q),
           q.kind \in {"sessions", "history"}, NEW k
    PROVE  /\ PageOf(v, [q EXCEPT !.page = k]) = Page(NewestFirst(v, Listed(v, q)), k, q.size)
           /\ PageOf(v, q) = Page(NewestFirst(v, Listed(v, q)), q.page, q.size)
           /\ q.size \in Nat \ {0} /\ q.page \in Nat /\ Listed(v, q) \in SUBSET DOMAIN v.sessions
<1> DEFINE other == [q EXCEPT !.page = k]
<1>1. /\ q.size \in Size /\ q.page \in 0..2 /\ {"page", "size"} \subseteq DOMAIN q
      /\ other.page = k /\ other.size = q.size /\ other.kind = q.kind
      /\ q.kind = "sessions" => other.period = q.period
      /\ q.kind = "history" => other.from = q.from /\ other.to = q.to /\ other.status = q.status
  <2>1. CASE q \in AskedSessions
    BY <2>1 DEF AskedSessions
  <2>2. CASE q \in AskedHistories
    BY <2>2 DEF AskedHistories
  <2> QED BY <2>1, <2>2 DEF Asks, AskedReports, AskedDrives
<1>2. q.size \in Nat \ {0} /\ q.page \in Nat
  <2>1. q.page >= 1 /\ q.size \in 1..100
    BY <1>1, ReportAssumption DEF Refused, NoPage
  <2> QED BY <1>1, <2>1
<1> HIDE DEF other
<1>3. Listed(v, other) = Listed(v, q)
  <2>1. CASE q.kind = "sessions"
    BY <1>1, <2>1 DEF Listed
  <2>2. CASE q.kind = "history"
    BY <1>1, <2>2 DEF Listed, HistoryOf
  <2> QED BY <2>1, <2>2
<1>4. Listed(v, q) \in SUBSET DOMAIN v.sessions
  BY DEF Listed, HistoryOf, SessionsIn
<1> QED BY <1>1, <1>2, <1>3, <1>4 DEF PageOf, other

LEMMA PagesHold == ReportInv => PagesTile
<1> SUFFICES ASSUME ReportInv, Is("sessions") \/ Is("history") PROVE PagesTile
  BY DEF PagesTile
<1> DEFINE v == seen
           q == request
           set == Listed(v, q)
           list == NewestFirst(v, set)
           N == Count(set)
           P == TotalPages(N, q.size)
           pages == [k \in 1..P |-> PageOf(v, [q EXCEPT !.page = k])]
           all == FlattenSeq(pages)
<1>1. q \in Asks /\ IsDatabase(v) /\ q.kind \in {"sessions", "history"} /\ answer = "done"
      /\ ~Refused(q)
  BY AllMade DEF Is
<1>2. parts["total"] = N /\ parts["page"] = Listing(v, q)
  <2>1. Queries(q.kind) = <<"total", "page">>
    BY <1>1 DEF Queries, ListQueries
  <2>2. ToSet(Queries(q.kind)) = {"total", "page"}
    BY <2>1 DEF ToSet
  <2>3. parts["total"] = Answer("total", v, q) /\ parts["page"] = Answer("page", v, q)
    BY <1>1, <2>2, AllMade
  <2> HIDE DEF v, q
  <2> QED BY <2>3 DEF Answer, Result
<1> HIDE DEF v, q
<1>3. /\ q.size \in Nat \ {0} /\ q.page \in Nat /\ set \in SUBSET DOMAIN v.sessions
      /\ PageOf(v, q) = Page(list, q.page, q.size)
      /\ \A k : PageOf(v, [q EXCEPT !.page = k]) = Page(list, k, q.size)
  BY <1>1, ListedTheSame
<1> HIDE DEF set
<1>4. /\ list \in Seq(set) /\ Len(list) = N /\ ToSet(list) = set /\ N \in Nat
      /\ \A k \in 1..(N - 1) : v.sessions[list[k]].started >= v.sessions[list[k + 1]].started
  BY <1>1, <1>3, NewestIs
<1> HIDE DEF list, N
<1>5. pages = [k \in 1..P |-> Page(list, k, q.size)]
  BY <1>3
<1>6. Len(all) = N /\ ToSet(all) = set
      /\ \A k \in 1..(Len(all) - 1) :
            v.sessions[all[k]].started >= v.sessions[all[k + 1]].started
  <2>1. CASE list = << >>
    <3>1. N = 0
      BY <1>4, <2>1
    <3>2. P = 0
      BY <1>3, <3>1, PagesFit, NoPages
    <3>3. pages = << >>
      <4> HIDE DEF P
      <4> QED BY <3>2
    <3>4. all = << >>
      <4> HIDE DEF pages
      <4> QED BY <3>3 DEF FlattenSeq
    <3> HIDE DEF all
    <3> QED BY <1>4, <2>1, <3>1, <3>4
  <2>2. CASE list # << >>
    <3>1. all = list
      <4>1. FlattenSeq([k \in 1..P |-> Page(list, k, q.size)]) = list
        BY <1>3, <1>4, <2>2, PagesOfList
      <4> HIDE DEF pages
      <4> QED BY <1>5, <4>1
    <3> HIDE DEF all
    <3> QED BY <1>4, <3>1
  <2> QED BY <2>1, <2>2
<1>7. ASSUME q.page > P PROVE parts["page"] = << >>
  <2>1. N <= (q.page - 1) * q.size /\ (q.page - 1) * q.size \in Int
    BY <1>3, <1>4, <1>7, PagesFit
  <2> DEFINE from == (q.page - 1) * q.size + 1
             to == IF Len(list) < q.page * q.size THEN Len(list) ELSE q.page * q.size
  <2>2. from \in Int /\ to \in Int /\ to < from
    <3>1. q.page * q.size \in Int
      BY <1>3
    <3> QED BY <1>4, <2>1, <3>1
  <2>3. Page(list, q.page, q.size) = SubSeq(list, from, to)
    BY DEF Page
  <2> HIDE DEF from, to
  <2>4. PageOf(v, q) = << >>
    BY <1>3, <2>2, <2>3, SubSeqEmpty
  <2>5. DOMAIN PageOf(v, q) = {}
    BY <2>4
  <2>6. Listing(v, q) = << >>
    BY <2>5 DEF Listing
  <2> QED BY <1>2, <2>6
<1> HIDE DEF all
<1> QED BY <1>2, <1>6, <1>7 DEF PagesTile, all, pages, P, N, set, v, q

-----------------------------------------------------------------------------
(* Periods.                                                                *)

\* What a request for a report of a period asks for.
LEMMA AskedPeriod ==
    ASSUME NEW q \in Asks, "types" \in DOMAIN q \/ q.kind = "summary", ~Refused(q)
    PROVE  q.period \in Period /\ IsPeriod(q.period) /\ (q.kind = "summary" => ~TooLong(q.period))
<1>1. q \in [kind : {"summary", "behaviors"}, period : Period, types : SUBSET Type]
  BY DEF Asks, AskedReports, AskedSessions, AskedHistories, AskedDrives
<1>2. "period" \in DOMAIN q /\ q.period \in Period
  BY <1>1
<1> QED BY <1>2 DEF Refused

\* Two periods of which the second begins the day after the first.
LEMMA PeriodsMeet ==
    ASSUME NEW v, IsDatabase(v), NEW b \in Int, NEW s \in Int, NEW e \in Int, b < s, s <= e
    PROVE  LET p == [start |-> s, end |-> e]
               before == [start |-> b, end |-> s - 1]
               both == [start |-> b, end |-> e]
           IN  /\ SessionsIn(v, p) \cap SessionsIn(v, before) = {}
               /\ SessionsIn(v, both) = SessionsIn(v, p) \cup SessionsIn(v, before)
<1> DEFINE p == [start |-> s, end |-> e]
           before == [start |-> b, end |-> s - 1]
           both == [start |-> b, end |-> e]
<1>1. \A at \in Int : /\ Covers(p, at) <=> 24 * s - 9 <= at /\ at < 24 * (e + 1) - 9
                      /\ Covers(before, at) <=> 24 * b - 9 <= at /\ at < 24 * (s - 1 + 1) - 9
                      /\ Covers(both, at) <=> 24 * b - 9 <= at /\ at < 24 * (e + 1) - 9
  BY DEF Covers, UtcStart, SeoulOffset
<1> HIDE DEF p, before, both
<1>2. \A at \in Int : /\ ~(Covers(p, at) /\ Covers(before, at))
                      /\ Covers(both, at) <=> Covers(p, at) \/ Covers(before, at)
  BY <1>1
<1>3. \A x \in DOMAIN v.sessions : v.sessions[x].started \in Int
  BY DEF IsDatabase
<1>4. SessionsIn(v, p) \cap SessionsIn(v, before) = {}
  BY <1>2, <1>3 DEF SessionsIn
<1>5. SessionsIn(v, both) = SessionsIn(v, p) \cup SessionsIn(v, before)
  BY <1>2, <1>3 DEF SessionsIn
<1> QED BY <1>4, <1>5 DEF p, before, both

LEMMA BeforeAdjoins == ReportInv => PreviousAdjoins
<1> SUFFICES ASSUME ReportInv, answer = "reading", "types" \in DOMAIN request
             PROVE  PreviousAdjoins
  BY DEF PreviousAdjoins
<1> DEFINE p == request.period
           before == Previous(p)
           s == p.start
           e == p.end
<1>1. p \in Period /\ IsPeriod(p)
  BY AskedPeriod DEF ReportInv
<1>2. p \in [start : Int, end : Int] /\ s <= e /\ \A n \in (s - 1)..e : InCalendar(n)
  BY <1>1, ReportAssumption DEF IsAsked, IsPeriod
<1>3. p = [start |-> s, end |-> e] /\ s \in Int /\ e \in Int
  BY <1>2
<1>4. InCalendar(s) /\ InCalendar(s - 1)
  BY <1>2, <1>3
<1>5. /\ before.start \in Int /\ before.start <= before.end /\ before.end = s - 1
      /\ Length(before) = Length(p) \/ (IsFullMonth(before) /\ IsFullMonth(p))
  BY <1>2, <1>3, <1>4, PreviousPeriod
<1>6. before = [start |-> before.start, end |-> s - 1]
  BY <1>5 DEF Previous
<1>7. before.end + 1 = s
  BY <1>3, <1>5
<1> HIDE DEF p, before, s, e
<1>8. LET both == [start |-> before.start, end |-> e]
      IN  /\ SessionsIn(seen, p) \cap SessionsIn(seen, before) = {}
          /\ SessionsIn(seen, both) = SessionsIn(seen, p) \cup SessionsIn(seen, before)
  <2>1. before.start < s
    BY <1>3, <1>5
  <2>2. IsDatabase(seen)
    BY DEF ReportInv
  <2> QED BY <1>2, <1>3, <1>5, <1>6, <2>1, <2>2, PeriodsMeet
<1> QED BY <1>5, <1>7, <1>8 DEF PreviousAdjoins, p, before, s, e

LEMMA LimitHolds == ReportInv => LimitIsAYear
<1> SUFFICES ASSUME ReportInv, request.kind = "summary", ~NoTypes(request),
                    IsPeriod(request.period)
             PROVE  LimitIsAYear
  BY DEF LimitIsAYear
<1> DEFINE p == request.period
           s == p.start
           e == p.end
<1>1. request \in Asks /\ answer # "none"
  BY DEF ReportInv, Idle
<1>2. request \in [kind : {"summary", "behaviors"}, period : Period, types : SUBSET Type]
  BY <1>1 DEF Asks, AskedReports, AskedSessions, AskedHistories, AskedDrives
<1>3. p \in [start : Int, end : Int] /\ s <= e /\ \A n \in (s - 1)..e : InCalendar(n)
  BY <1>2, ReportAssumption DEF IsAsked, IsPeriod
<1>4. p = [start |-> s, end |-> e] /\ s \in Int /\ e \in Int
  BY <1>3
<1>5. Refused(request) <=> TooLong(p)
  BY <1>2 DEF Refused, NoPage, NoDays
<1>6. /\ TooLong(p) => Length(p) >= 366
      /\ ~TooLong(p) => Length(p) <= 366 /\ \A n \in s..e : ~TooLong([p EXCEPT !.start = n])
  <2>1. \A n \in s..e : InCalendar(n)
    BY <1>3, <1>4
  <2> HIDE DEF p, s, e
  <2> QED BY <1>3, <1>4, <2>1, YearLimit
<1>7. (answer = "INVALID" => TooLong(p)) /\ (answer # "INVALID" => ~TooLong(p))
  BY <1>1, <1>5 DEF ReportInv
<1> QED BY <1>6, <1>7 DEF LimitIsAYear

\* A period and the one it is compared with adjoin, whichever days are asked
\* for and whatever was written since, and what is let into a summary is a
\* year at most, as is every later part of it (previous_report_period,
\* build_report_period, validate_summary_period_length).
THEOREM PeriodsAlwaysFit == ReportSpec => []PeriodsFit
<1>1. ReportInv => PeriodsFit
  BY BeforeAdjoins, LimitHolds DEF PeriodsFit
<1> QED BY <1>1, ReportInitInv, ReportStepInv, PTL DEF ReportSpec

\* The figures of every answer agree, with one another and with the rows of
\* one snapshot, although they come from several queries and drives go on
\* being written meanwhile: what is counted in all is what is counted by
\* session, by type, by risk and by response, and a comparison is with the
\* period before (ReportService.get_summary, get_behavior_events and
\* get_sessions; DrivingSessionService.get_session_detail and
\* get_session_timeline).
THEOREM AnswersAlwaysAgree == ReportSpec => []AnswersAgree
  BY AnswersHold, ReportInitInv, ReportStepInv, PTL DEF ReportSpec

\* The pages of a list, whatever their size, have each of its rows once, in
\* the order of the list (DrivingSessionRepository.list_by_profile,
\* ReportRepository.list_report_sessions and the total_pages of both answers).
THEOREM PagesAlwaysTile == ReportSpec => []PagesTile
  BY PagesHold, ReportInitInv, ReportStepInv, PTL DEF ReportSpec
=============================================================================

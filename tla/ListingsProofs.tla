--------------------------- MODULE ListingsProofs ---------------------------
(***************************************************************************)
(* Proofs about Listings, for any number of rows, any page size and any    *)
(* number of writes between two pages: what a reader misses, sees twice or *)
(* sees headed twice is paid for by rows that moved.                       *)
(***************************************************************************)
EXTENDS Listings, FiniteSetTheorems, TLAPS

-----------------------------------------------------------------------------
(***************************************************************************)
(* Places in a list.  A list is any set of items; the place of one is the  *)
(* number of items above it.                                               *)
(***************************************************************************)
Place(x, S, f) == Cardinality({y \in S : Above(y, x, f)})

\* What limit n offset o returns.
Slice(S, f, o, n) == {y \in S : Place(y, S, f) \in o .. (o + n - 1)}

\* How much of a list is later than a time.
Newer(t, S) == Cardinality({y \in S : y[1] > t})

LEMMA ConstantFacts ==
  /\ Standing \in Nat /\ MaxClock \in Nat /\ Standing <= MaxClock
  /\ PageSize \in Nat /\ PageSize >= 1
BY ListingsAssumption DEF ListingsAssumption

LEMMA ListsAreFinite ==
  ASSUME NEW S, S \subseteq Item
  PROVE  IsFiniteSet(S) /\ Cardinality(S) \in Nat
<1>1. IsFiniteSet(Stamps) /\ IsFiniteSet(1..2)
  <2>1. 1 \in Int /\ 2 \in Int /\ MaxClock \in Int
    BY ConstantFacts
  <2> QED
    BY <2>1, FS_Interval DEF Stamps
<1>2. IsFiniteSet(Item)
  BY <1>1, FS_Product DEF Item
<1>3. IsFiniteSet(S)
  BY <1>2, FS_Subset
<1> QED
  BY <1>3, FS_CardinalityType

LEMMA ItemParts ==
  ASSUME NEW x \in Item
  PROVE  /\ x = <<x[1], x[2]>> /\ x[1] \in Stamps /\ x[2] \in 1..2
         /\ x[1] \in Nat /\ 1 <= x[1] /\ x[1] <= MaxClock
BY ConstantFacts DEF Item, Stamps

\* The order of a list is strict and total, whichever twins are flipped.
LEMMA AboveOrder ==
  ASSUME NEW x \in Item, NEW y \in Item, NEW z \in Item, NEW f
  PROVE  /\ ~Above(x, x, f)
         /\ x = y \/ Above(x, y, f) \/ Above(y, x, f)
         /\ Above(x, y, f) /\ Above(y, z, f) => Above(x, z, f)
BY ItemParts DEF Above

LEMMA PlaceTyped ==
  ASSUME NEW S, S \subseteq Item, NEW x \in S, NEW f
  PROVE  /\ Place(x, S, f) \in Nat
         /\ Place(x, S, f) < Cardinality(S)
<1> DEFINE U == {y \in S : Above(y, x, f)}
<1>1. U \subseteq S /\ x \notin U
  BY AboveOrder
<1>2. IsFiniteSet(S) /\ Cardinality(S) \in Nat /\ IsFiniteSet(U) /\ Cardinality(U) \in Nat
  BY <1>1, ListsAreFinite
<1>3. Cardinality(U) <= Cardinality(S) /\ (Cardinality(S) = Cardinality(U) => S = U)
  BY <1>1, <1>2, FS_Subset
<1> QED
  BY <1>1, <1>2, <1>3 DEF Place

LEMMA PlaceOrder ==
  ASSUME NEW S, S \subseteq Item, NEW x \in S, NEW y \in S, NEW f, Above(x, y, f)
  PROVE  Place(x, S, f) < Place(y, S, f)
<1> DEFINE U == {z \in S : Above(z, x, f)}
           V == {z \in S : Above(z, y, f)}
<1>1. U \subseteq V /\ x \in V /\ x \notin U
  BY AboveOrder
<1>2. IsFiniteSet(V) /\ Cardinality(U) \in Nat /\ Cardinality(V) \in Nat
  BY ListsAreFinite
<1>3. Cardinality(U) <= Cardinality(V) /\ (Cardinality(V) = Cardinality(U) => V = U)
  BY <1>1, <1>2, FS_Subset
<1> QED
  BY <1>1, <1>2, <1>3 DEF Place

LEMMA PlacesDiffer ==
  ASSUME NEW S, S \subseteq Item, NEW x \in S, NEW y \in S, NEW f,
         Place(x, S, f) = Place(y, S, f)
  PROVE  x = y
<1>1. CASE Above(x, y, f)
  BY <1>1, PlaceOrder, PlaceTyped
<1>2. CASE Above(y, x, f)
  BY <1>2, PlaceOrder, PlaceTyped
<1> QED
  BY <1>1, <1>2, AboveOrder

\* Items with places in a range are no more than the range.
LEMMA Crowded ==
  ASSUME NEW S, S \subseteq Item, NEW f, NEW R, R \subseteq S, NEW o \in Int, NEW n \in Nat,
         \A x \in R : Place(x, S, f) \in o .. (o + n - 1)
  PROVE  Cardinality(R) \in Nat /\ Cardinality(R) <= n
<1> DEFINE T == o .. (o + n - 1)
           g == [x \in R |-> Place(x, S, f)]
<1>1. IsFiniteSet(T) /\ Cardinality(T) = n
  BY FS_Interval
<1>2. g \in [R -> T]
  OBVIOUS
<1>3. \A x, y \in R : g[x] = g[y] => x = y
  BY PlacesDiffer
<1>4. g \in Injection(R, T)
  BY <1>2, <1>3 DEF Injection, IsInjective
<1>5. Cardinality(R) <= Cardinality(T)
  BY <1>1, <1>4, FS_Injection
<1> QED
  BY <1>1, <1>5, ListsAreFinite

\* There is no gap among the places.
LEMMA PlacesAreFilled ==
  ASSUME NEW S, S \subseteq Item, NEW f, NEW k \in Nat, k < Cardinality(S)
  PROVE  \E x \in S : Place(x, S, f) = k
<1> DEFINE T == 0 .. (Cardinality(S) - 1)
           g == [x \in S |-> Place(x, S, f)]
<1>0. IsFiniteSet(S) /\ Cardinality(S) \in Nat
  BY ListsAreFinite
<1>1. IsFiniteSet(T) /\ Cardinality(T) = Cardinality(S)
  <2>1. 0 \in Int /\ Cardinality(S) - 1 \in Int
    BY <1>0
  <2>2. IsFiniteSet(T) /\ Cardinality(T) =
           IF 0 > Cardinality(S) - 1 THEN 0 ELSE Cardinality(S) - 1 - 0 + 1
    BY <2>1, FS_Interval
  <2> QED
    BY <1>0, <2>2
<1>2. g \in [S -> T]
  BY <1>0, PlaceTyped
<1>3. \A x, y \in S : g[x] = g[y] => x = y
  BY PlacesDiffer
<1>4. g \in Injection(S, T)
  BY <1>2, <1>3 DEF Injection, IsInjective
<1>5. g \in Surjection(S, T)
  BY <1>1, <1>4, FS_Injection
<1>6. k \in T
  BY <1>0
<1> QED
  BY <1>5, <1>6 DEF Surjection

-----------------------------------------------------------------------------
(***************************************************************************)
(* Pages.                                                                  *)
(***************************************************************************)
LEMMA SliceSize ==
  ASSUME NEW S, S \subseteq Item, NEW f, NEW o \in Nat, NEW n \in Nat
  PROVE  /\ Slice(S, f, o, n) \subseteq S
         /\ Cardinality(Slice(S, f, o, n)) \in Nat
         /\ Cardinality(Slice(S, f, o, n)) <= n
<1> DEFINE P == Slice(S, f, o, n)
<1>1. P \subseteq S /\ \A x \in P : Place(x, S, f) \in o .. (o + n - 1)
  BY DEF Slice
<1>2. o \in Int
  OBVIOUS
<1> HIDE DEF P
<1>3. Cardinality(P) \in Nat /\ Cardinality(P) <= n
  BY <1>1, <1>2, Crowded
<1> QED
  BY <1>1, <1>3 DEF P

\* A page holds the places from the offset on, as many as it has items.
LEMMA SliceIsFilled ==
  ASSUME NEW S, S \subseteq Item, NEW f, NEW o \in Nat, NEW n \in Nat,
         NEW x \in Slice(S, f, o, n)
  PROVE  Place(x, S, f) < o + Cardinality(Slice(S, f, o, n))
<1> DEFINE P == Slice(S, f, o, n)
           r == Place(x, S, f)
           T == o .. r
           g == [k \in T |-> CHOOSE z \in S : Place(z, S, f) = k]
<1>1. x \in S /\ r \in Nat /\ o <= r /\ r <= o + n - 1 /\ r < Cardinality(S)
  BY PlaceTyped DEF Slice
<1>2. P \subseteq S /\ IsFiniteSet(P) /\ Cardinality(P) \in Nat
  BY ListsAreFinite, SliceSize
<1>3. ASSUME NEW k \in T
      PROVE  g[k] \in P /\ Place(g[k], S, f) = k
  <2>1. k \in Nat /\ k < Cardinality(S) /\ k \in o .. (o + n - 1)
    <3> HIDE DEF r
    <3> QED
      BY <1>1, ListsAreFinite
  <2>2. \E z \in S : Place(z, S, f) = k
    BY <2>1, PlacesAreFilled
  <2>3. g[k] \in S /\ Place(g[k], S, f) = k
    BY <2>2
  <2> QED
    BY <2>1, <2>3 DEF Slice
<1>4. g \in Injection(T, P)
  <2> HIDE DEF P, r
  <2>1. g \in [T -> P]
    BY <1>3
  <2>2. \A j, k \in T : g[j] = g[k] => j = k
    BY <1>3
  <2> QED
    BY <2>1, <2>2 DEF Injection, IsInjective
<1>5. Cardinality(T) <= Cardinality(P)
  BY <1>2, <1>4, FS_Injection
<1>6. Cardinality(T) = r - o + 1
  BY <1>1, FS_Interval
<1> QED
  BY <1>1, <1>2, <1>5, <1>6

\* What the next offset leaves above was above already or is on the page.
LEMMA SliceCovers ==
  ASSUME NEW S, S \subseteq Item, NEW f, NEW o \in Nat, NEW n \in Nat, NEW x \in S,
         Place(x, S, f) < o + Cardinality(Slice(S, f, o, n))
  PROVE  Place(x, S, f) < o \/ x \in Slice(S, f, o, n)
<1>1. Place(x, S, f) \in Nat
  BY PlaceTyped
<1>2. Cardinality(Slice(S, f, o, n)) \in Nat /\ Cardinality(Slice(S, f, o, n)) <= n
  BY SliceSize
<1>3. CASE Place(x, S, f) >= o
  <2>1. Place(x, S, f) \in o .. (o + n - 1)
    BY <1>1, <1>2, <1>3
  <2> QED
    BY <2>1 DEF Slice
<1> QED
  BY <1>1, <1>3

\* Asking for one more item than a page holds tells whether any is left.
LEMMA ProbeTells ==
  ASSUME NEW S, S \subseteq Item, NEW f, NEW o \in Nat, NEW n \in Nat, NEW x \in S,
         Cardinality(Slice(S, f, o, n + 1)) <= n
  PROVE  Place(x, S, f) < o + n
<1>1. SUFFICES ASSUME Place(x, S, f) >= o + n PROVE FALSE
  BY PlaceTyped
<1>2. o + n \in Nat /\ o + n < Cardinality(S)
  BY <1>1, PlaceTyped, ListsAreFinite
<1>3. PICK z \in S : Place(z, S, f) = o + n
  BY <1>2, PlacesAreFilled
<1>4. z \in Slice(S, f, o, n + 1)
  BY <1>3 DEF Slice
<1>5. o + n < o + Cardinality(Slice(S, f, o, n + 1))
  BY <1>3, <1>4, SliceIsFilled
<1> QED
  BY <1>5, SliceSize

-----------------------------------------------------------------------------
(***************************************************************************)
(* Lists that change.                                                      *)
(***************************************************************************)
LEMMA NewerTyped ==
  ASSUME NEW S, S \subseteq Item, NEW t
  PROVE  Newer(t, S) \in Nat
BY ListsAreFinite DEF Newer

\* A list has no more of later items than another, but for those it has of its own.
LEMMA NewerGrows ==
  ASSUME NEW S, S \subseteq Item, NEW T, T \subseteq Item, NEW t
  PROVE  /\ Cardinality(T \ S) \in Nat
         /\ Newer(t, T) <= Newer(t, S) + Cardinality(T \ S)
<1> DEFINE U == {y \in S : y[1] > t}
           V == {y \in T : y[1] > t}
           D == T \ S
<1>1. V \subseteq U \cup D
  OBVIOUS
<1>2. /\ IsFiniteSet(U) /\ IsFiniteSet(D) /\ IsFiniteSet(U \cup D) /\ U \cap D \subseteq Item
      /\ Cardinality(U) \in Nat /\ Cardinality(D) \in Nat /\ Cardinality(V) \in Nat
  BY ListsAreFinite
<1>3. Cardinality(U \cap D) \in Nat
  BY <1>2, ListsAreFinite
<1>4. Cardinality(U \cup D) = Cardinality(U) + Cardinality(D) - Cardinality(U \cap D)
  BY <1>2, FS_Union
<1>5. Cardinality(V) <= Cardinality(U \cup D)
  BY <1>1, <1>2, FS_Subset
<1>6. Cardinality(V) <= Cardinality(U) + Cardinality(D)
  <2> HIDE DEF U, V, D
  <2>1. Cardinality(U \cup D) \in Nat
    BY <1>2, FS_CardinalityType
  <2> QED
    BY <1>2, <1>3, <1>4, <1>5, <2>1
<1> QED
  BY <1>2, <1>6 DEF Newer

\* The lists of experiences hold one item per time.
Rows == Stamps \X {1}

LEMMA RowParts ==
  ASSUME NEW x \in Rows
  PROVE  x \in Item /\ x = <<x[1], 1>> /\ x[1] \in Stamps /\ x[1] \in Nat
BY ConstantFacts DEF Rows, Item, Stamps

LEMMA PlaceOfRow ==
  ASSUME NEW S, S \subseteq Rows, NEW x \in Rows, NEW f
  PROVE  Place(x, S, f) = Newer(x[1], S)
<1>1. \A y \in S : Above(y, x, f) <=> y[1] > x[1]
  BY RowParts DEF Above
<1> QED
  BY <1>1 DEF Place, Newer

LEMMA Spill ==
  ASSUME NEW A, A \subseteq Item, NEW B, B \subseteq Item
  PROVE  /\ Cardinality(A) \in Nat /\ Cardinality(B) \in Nat /\ Cardinality(B \ A) \in Nat
         /\ Cardinality(B) <= Cardinality(A) + Cardinality(B \ A)
<1> DEFINE D == B \ A
           U == A \cup D
<1>1. /\ IsFiniteSet(A) /\ IsFiniteSet(D) /\ IsFiniteSet(U) /\ Cardinality(U) \in Nat
      /\ Cardinality(A) \in Nat /\ Cardinality(B) \in Nat /\ Cardinality(D) \in Nat
  BY ListsAreFinite
<1>2. A \cap D = {}
  OBVIOUS
<1>3. Cardinality(U) = Cardinality(A) + Cardinality(D) - Cardinality(A \cap D)
  BY <1>1, FS_Union
<1>4. Cardinality(A \cap D) = 0
  BY <1>2, FS_EmptySet
<1>5. Cardinality(B) <= Cardinality(U)
  BY <1>1, FS_Subset
<1> QED
  BY <1>1, <1>3, <1>4, <1>5

\* Of the rows a reader has yet to see, each row that leaves the list moves at most
\* one above the offset.
LEMMA SkippedGrows ==
  ASSUME NEW S, S \subseteq Rows, NEW T, T \subseteq Rows, NEW o \in Nat,
         NEW U, U \subseteq S, NEW V, V \subseteq U
  PROVE  Cardinality({x \in V : Newer(x[1], T) < o})
           <= Cardinality({x \in U : Newer(x[1], S) < o}) + Cardinality(S \ T)
<1> DEFINE A == {x \in U : Newer(x[1], S) < o}
           B == {x \in V : Newer(x[1], T) < o}
           g == Cardinality(S \ T)
<1>1. S \subseteq Item /\ T \subseteq Item /\ A \subseteq Item /\ B \subseteq Item /\ g \in Nat
  <2>1. S \subseteq Item /\ T \subseteq Item
    BY RowParts
  <2> QED
    BY <2>1, ListsAreFinite
<1>2. ASSUME NEW x \in B \ A
      PROVE  Place(x, S, {}) \in o .. (o + g - 1)
  <2>1. x \in S /\ x \in Rows /\ Newer(x[1], T) < o /\ ~(Newer(x[1], S) < o)
    OBVIOUS
  <2>2. Newer(x[1], S) <= Newer(x[1], T) + g
    BY <1>1, NewerGrows
  <2>3. Newer(x[1], S) \in Nat /\ Newer(x[1], T) \in Nat
    BY <1>1, NewerTyped
  <2>4. Newer(x[1], S) \in o .. (o + g - 1)
    <3> HIDE DEF g
    <3> QED
      BY <1>1, <2>1, <2>2, <2>3
  <2> QED
    BY <2>1, <2>4, PlaceOfRow
<1>3. Cardinality(B \ A) <= g
  <2>1. B \ A \subseteq S /\ o \in Int
    OBVIOUS
  <2> HIDE DEF A, B, g
  <2> QED
    BY <1>1, <1>2, <2>1, Crowded
<1>4. Cardinality(B) <= Cardinality(A) + Cardinality(B \ A)
  BY <1>1, Spill
<1> QED
  <2> HIDE DEF A, B
  <2>1. Cardinality(A) \in Nat /\ Cardinality(B) \in Nat /\ Cardinality(B \ A) \in Nat
    BY <1>1, Spill
  <2> QED
    BY <1>1, <1>3, <1>4, <2>1 DEF A, B

\* Of the rows a reader has seen, each row that comes to the list moves at most one
\* below the offset: itself or another.
LEMMA AgainGrows ==
  ASSUME NEW S, S \subseteq Rows, NEW T, T \subseteq Rows, NEW o \in Nat, NEW W,
         NEW y, T \ S \subseteq {y}
  PROVE  Cardinality({x \in W \cap T : Newer(x[1], T) >= o})
           <= Cardinality({x \in W \cap S : Newer(x[1], S) >= o}) + Cardinality(T \ S)
<1> DEFINE A == {x \in W \cap S : Newer(x[1], S) >= o}
           B == {x \in W \cap T : Newer(x[1], T) >= o}
<1>1. S \subseteq Item /\ T \subseteq Item /\ A \subseteq Item /\ B \subseteq Item
  BY RowParts
<1>2. /\ Cardinality(A) \in Nat /\ Cardinality(B) \in Nat /\ Cardinality(B \ A) \in Nat
      /\ Cardinality(B) <= Cardinality(A) + Cardinality(B \ A)
  BY <1>1, Spill
<1>3. ASSUME NEW x \in S \cup T PROVE Newer(x[1], S) \in Nat /\ Newer(x[1], T) \in Nat
  BY <1>1, NewerTyped
<1>4. CASE T \ S = {}
  <2>1. Cardinality(T \ S) = 0
    BY <1>4, FS_EmptySet
  <2>2. ASSUME NEW x \in B PROVE x \in A
    <3>1. Newer(x[1], T) <= Newer(x[1], S) + 0
      BY <1>1, <2>1, NewerGrows
    <3>2. x \in S /\ x \in W /\ Newer(x[1], T) >= o
      BY <1>4
    <3>3. Newer(x[1], S) >= o
      BY <1>3, <3>1, <3>2
    <3> QED
      BY <3>2, <3>3
  <2>3. Cardinality(B \ A) = 0
    <3>1. B \ A = {}
      BY <2>2
    <3> QED
      BY <3>1, FS_EmptySet
  <2> QED
    <3> HIDE DEF A, B
    <3> QED
      BY <1>2, <2>1, <2>3 DEF A, B
<1>5. CASE T \ S # {}
  <2>1. T \ S = {y} /\ y \in T /\ y \notin S /\ y \in Rows
    BY <1>5
  <2>2. Cardinality(T \ S) = 1
    BY <2>1, FS_Singleton
  <2>3. ASSUME NEW x \in B \ A, x # y
        PROVE  x \in S /\ x \in T /\ Newer(x[1], S) = o - 1 /\ Newer(x[1], T) = o
    <3>1. x \in T /\ x \in S /\ Newer(x[1], T) >= o /\ ~(Newer(x[1], S) >= o)
      BY <2>1, <2>3
    <3>2. Newer(x[1], T) <= Newer(x[1], S) + 1
      BY <1>1, <2>2, NewerGrows
    <3> QED
      BY <1>3, <3>1, <3>2
  <2>4. ASSUME NEW x \in B \ A, NEW z \in B \ A PROVE x = z
    <3>1. CASE x # y /\ z # y
      <4>1. Newer(x[1], S) = Newer(z[1], S) /\ x \in S /\ z \in S /\ x \in Rows /\ z \in Rows
        BY <2>3, <3>1
      <4>2. Place(x, S, {}) = Place(z, S, {})
        BY <4>1, PlaceOfRow
      <4> QED
        BY <1>1, <4>1, <4>2, PlacesDiffer
    <3>2. ASSUME NEW v \in B \ A, v # y, y \in B \ A PROVE FALSE
      <4>1. v \in S /\ v \in T /\ Newer(v[1], S) = o - 1 /\ Newer(v[1], T) = o /\ v \in Rows
        BY <2>3, <3>2
      <4>2. Newer(y[1], T) >= o
        BY <3>2
      <4>3. Place(v, T, {}) = o /\ Place(y, T, {}) >= o
        BY <2>1, <4>1, <4>2, PlaceOfRow
      <4>4. CASE y[1] > v[1]
        <5>1. Above(y, v, {})
          BY <4>4 DEF Above
        <5>2. Place(y, T, {}) < Place(v, T, {})
          BY <1>1, <2>1, <4>1, <5>1, PlaceOrder
        <5>3. Place(y, T, {}) \in Nat /\ Place(v, T, {}) \in Nat
          BY <1>1, <2>1, <4>1, PlaceTyped
        <5> QED
          BY <4>3, <5>2, <5>3
      <4>5. CASE ~(y[1] > v[1])
        <5> DEFINE P == {w \in T : w[1] > v[1]}
                   Q == {w \in S : w[1] > v[1]}
        <5>1. P \subseteq Q
          BY <2>1, <4>5
        <5>2. Q \subseteq Item /\ P \subseteq Item
          BY <1>1
        <5>3. Cardinality(P) <= Cardinality(Q) /\ Cardinality(P) \in Nat /\ Cardinality(Q) \in Nat
          <6>1. IsFiniteSet(Q) /\ Cardinality(P) \in Nat /\ Cardinality(Q) \in Nat
            BY <5>2, ListsAreFinite
          <6> QED
            BY <5>1, <6>1, FS_Subset
        <5>4. Newer(v[1], T) <= Newer(v[1], S)
          BY <5>3 DEF Newer
        <5> QED
          BY <4>1, <5>4
      <4> QED
        BY <4>4, <4>5
    <3> QED
      BY <3>1, <3>2
  <2>5. Cardinality(B \ A) <= 1
    <3>1. CASE B \ A = {}
      BY <3>1, FS_EmptySet
    <3>2. CASE B \ A # {}
      <4>1. PICK x \in B \ A : TRUE
        BY <3>2
      <4>2. B \ A = {x}
        BY <2>4, <4>1
      <4>3. Cardinality({x}) = 1
        BY FS_Singleton
      <4> QED
        <5> HIDE DEF A, B
        <5> QED
          BY <4>2, <4>3
    <3> QED
      BY <3>1, <3>2
  <2> QED
    <3> HIDE DEF A, B
    <3> QED
      BY <1>2, <2>2, <2>5 DEF A, B
<1> QED
  BY <1>4, <1>5

-----------------------------------------------------------------------------
(***************************************************************************)
(* The invariant.                                                          *)
(***************************************************************************)
Plain == scroll.surface # "activity"

\* Timestamps to come are unused, and days are in order.
Clocked ==
  /\ \A t \in Stamps : t > clock => rows[t] = None
  /\ days.yesterday <= days.today /\ days.today <= clock + 1

\* A list not opened yet.
BeginsFresh ==
  scroll.step = "idle" =>
    /\ scroll.offset = 0 /\ scroll.cont = ""
    /\ seen.shown = {} /\ seen.headers = {} /\ seen.throughout = {}
    /\ seen.repeats = 0 /\ seen.headerAgain = 0
    /\ seen.arrivals = 0 /\ seen.removals = 0 /\ seen.racing = 0

\* What was listed throughout is listed.
StillListed == seen.throughout \subseteq Listed

\* What was counted is what is there but for what raced the page.
CountHolds ==
  scroll.step = "counted" =>
    /\ scroll.surface = "mentions"
    /\ Cardinality(Listed) <= scroll.count + seen.racing

\* Rows passed over: listed throughout, not shown, above the offset.
Skipped == {x \in seen.throughout \ seen.shown : Newer(x[1], Listed) < scroll.offset}
SkippedAreRemovals == Plain => Cardinality(Skipped) <= seen.removals

\* Rows that come again: shown, and below the offset.
Again == {x \in seen.shown \cap Listed : Newer(x[1], Listed) >= scroll.offset}
AgainAreArrivals == Plain => seen.repeats + Cardinality(Again) <= seen.arrivals

\* A transaction of which nothing was shown lies below the offset.
UnseenAreBelow ==
  ~Plain => \A x \in seen.throughout :
              (\A y \in seen.shown : y[1] # x[1]) => Newer(x[1], Listed) >= scroll.offset

\* How long ago a bucket is.
SlugAge(slug) == IF slug = "today" THEN 0 ELSE IF slug = "yesterday" THEN 1 ELSE 2

\* With one arrival at most, the pages go back in time: no header is older than the
\* bucket that ended the last page, whose last row b holds the offset up.
PagesGoBack ==
  scroll.surface = "feed" /\ seen.arrivals < 2 =>
    /\ seen.headerAgain = 0
    /\ scroll.step = "more" =>
         /\ scroll.cont \in Slugs
         /\ \A slug \in seen.headers : SlugAge(slug) <= SlugAge(scroll.cont)
         /\ \E b \in Stamps :
              /\ Newer(b, Listed) < scroll.offset + seen.arrivals
              /\ SlugAge(scroll.cont) <= SlugAge(Slug(<<b, 1>>))

IInv ==
  /\ TypeOK /\ Clocked /\ BeginsFresh /\ StillListed /\ CountHolds
  /\ SkippedAreRemovals /\ AgainAreArrivals /\ UnseenAreBelow /\ PagesGoBack
  /\ MissesAreRemovals /\ EveryTransactionIsShown

-----------------------------------------------------------------------------
(***************************************************************************)
(* What is listed.                                                         *)
(***************************************************************************)
LEMMA ItemsTyped ==
  ASSUME NEW surface \in Surfaces, NEW table, NEW log, log \subseteq Item
  PROVE  /\ Items(surface, table, log) \subseteq Item
         /\ surface = "activity" => Items(surface, table, log) = log
         /\ surface # "activity" => Items(surface, table, log) \subseteq Rows
BY RowParts DEF Items, Surfaces, Rows

LEMMA ListedTyped ==
  ASSUME TypeOK
  PROVE  /\ Listed \subseteq Item /\ IsFiniteSet(Listed) /\ Cardinality(Listed) \in Nat
         /\ Plain => Listed \subseteq Rows
         /\ ~Plain => Listed = events
<1>1. scroll.surface \in Surfaces /\ events \subseteq Item
  BY DEF TypeOK, Scroll
<1>2. Listed \subseteq Item
  BY <1>1, ItemsTyped DEF Listed
<1> QED
  BY <1>1, <1>2, ItemsTyped, ListsAreFinite DEF Listed, Plain

\* The page that is shown is a slice.
LEMMA WindowIsSlice ==
  ASSUME NEW size, NEW f
  PROVE  Window(size, f) = Slice(Listed, f, scroll.offset, size)
BY DEF Window, Slice, Place

LEMMA SlugTyped ==
  ASSUME NEW x
  PROVE  Slug(x) \in Slugs
BY DEF Slug, Slugs

LEMMA SlugSetsAreFinite ==
  ASSUME NEW S, S \subseteq Slugs
  PROVE  IsFiniteSet(S) /\ Cardinality(S) \in Nat
<1>1. IsFiniteSet({"today"})
  BY FS_Singleton
<1>2. IsFiniteSet({"today"} \cup {"yesterday"})
  BY <1>1, FS_AddElement
<1>3. IsFiniteSet(({"today"} \cup {"yesterday"}) \cup {"earlier"})
  BY <1>2, FS_AddElement
<1>4. Slugs = ({"today"} \cup {"yesterday"}) \cup {"earlier"}
  BY DEF Slugs
<1>5. IsFiniteSet(Slugs)
  BY <1>3, <1>4
<1>6. IsFiniteSet(S)
  BY <1>5, FS_Subset
<1> QED
  BY <1>6, FS_CardinalityType

LEMMA InitHolds == Init => IInv
<1> SUFFICES ASSUME Init PROVE IInv
  OBVIOUS
<1>1. PICK open \in SUBSET (1..Standing) :
         /\ rows = [t \in Stamps |->
              IF t > Standing THEN None
              ELSE [stage |-> IF t \in open THEN "open" ELSE "live",
                    shared |-> TRUE, mention |-> TRUE]]
         /\ events = ((1..Standing) \ open) \X (1..2)
  BY DEF Init
<1>2. clock = Standing /\ Standing \in 0..MaxClock
  <2>1. clock = Standing
    BY DEF Init
  <2> QED
    BY <2>1, ConstantFacts
<1>3. rows \in [Stamps -> Row \cup {None}]
  BY <1>1 DEF Row
<1>4. events \subseteq Item
  BY <1>1, ConstantFacts DEF Item, Stamps
<1>5. days \in [today : 1..(MaxClock + 1), yesterday : 1..(MaxClock + 1)]
      /\ days.yesterday <= days.today /\ days.today <= clock + 1
  <2>1. days \in [today : 1..(Standing + 1), yesterday : 1..(Standing + 1)]
    BY DEF Init
  <2>2. 1..(Standing + 1) \subseteq 1..(MaxClock + 1)
    BY ConstantFacts
  <2>3. days.today \in 1..(Standing + 1)
    BY <2>1
  <2>4. days.yesterday <= days.today
    BY DEF Init
  <2> QED
    BY <1>2, <2>1, <2>2, <2>3, <2>4, ConstantFacts
<1>6. scroll \in Scroll /\ scroll.step = "idle" /\ scroll.offset = 0 /\ scroll.cont = ""
  <2>1. scroll \in [surface : Surfaces, step : {"idle"}, offset : {0}, count : {0}, cont : {""}]
    BY DEF Init
  <2>2. /\ scroll.surface \in Surfaces /\ scroll.step = "idle" /\ scroll.offset = 0
        /\ scroll.count = 0 /\ scroll.cont = ""
    BY <2>1
  <2>3. PICK surface \in Surfaces :
           scroll = [surface |-> surface, step |-> "idle", offset |-> 0, count |-> 0, cont |-> ""]
    BY <2>1
  <2>4. scroll \in Scroll
    BY <2>3 DEF Scroll
  <2> QED
    BY <2>2, <2>4
<1>7. seen = [shown |-> {}, throughout |-> {}, repeats |-> 0, arrivals |-> 0,
              removals |-> 0, racing |-> 0, headers |-> {}, headerAgain |-> 0]
  BY DEF Init
<1>8. seen \in Seen
  BY <1>7 DEF Seen
<1>9. TypeOK
  BY <1>2, <1>3, <1>4, <1>5, <1>6, <1>8 DEF TypeOK
<1>10. Clocked
  BY <1>1, <1>2, <1>5, ConstantFacts DEF Clocked, Stamps
<1>11. BeginsFresh /\ StillListed /\ CountHolds /\ UnseenAreBelow
  BY <1>6, <1>7 DEF BeginsFresh, StillListed, CountHolds, UnseenAreBelow
<1>12. SkippedAreRemovals /\ AgainAreArrivals
  <2>1. Skipped = {} /\ Again = {}
    BY <1>7 DEF Skipped, Again
  <2>2. Cardinality(Skipped) = 0 /\ Cardinality(Again) = 0
    BY <2>1, FS_EmptySet
  <2> QED
    BY <1>7, <2>2 DEF SkippedAreRemovals, AgainAreArrivals
<1>13. PagesGoBack /\ MissesAreRemovals /\ EveryTransactionIsShown
  BY <1>6, <1>7 DEF PagesGoBack, MissesAreRemovals, EveryTransactionIsShown
<1> QED
  BY <1>9, <1>10, <1>11, <1>12, <1>13 DEF IInv

-----------------------------------------------------------------------------
(***************************************************************************)
(* Writes.                                                                 *)
(***************************************************************************)
\* What every write does to a list that is being read.
Followed ==
  /\ scroll' = scroll
  /\ seen'.throughout = seen.throughout \cap Listed'
  /\ seen'.shown = seen.shown /\ seen'.repeats = seen.repeats
  /\ seen'.headers = seen.headers /\ seen'.headerAgain = seen.headerAgain
  /\ seen'.arrivals = seen.arrivals + Cardinality(Listed' \ Listed)
  /\ seen'.removals = seen.removals + Cardinality(Listed \ Listed')
  /\ seen'.racing = seen.racing + IF scroll.step = "counted"
                                    THEN Cardinality(Listed' \ Listed) ELSE 0
  /\ seen' \in Seen /\ Listed' \subseteq Item
  /\ Plain => Listed' \subseteq Rows /\ \E y : Listed' \ Listed \subseteq {y}
  /\ ~Plain => Listed \subseteq Listed'

LEMMA WatchFollows ==
  ASSUME TypeOK, scroll' = scroll, events' \subseteq Item, events \subseteq events', Watch,
         Plain => \E y : Listed' \ Listed \subseteq {y}
  PROVE  Followed
<1>0. seen \in Seen /\ scroll.surface \in Surfaces
  BY DEF TypeOK, Scroll
<1>1. Listed \subseteq Item /\ (~Plain => Listed = events)
  BY ListedTyped
<1>2. Listed' = Items(scroll.surface, rows', events')
  BY DEF Listed
<1>3. /\ Listed' \subseteq Item /\ (~Plain => Listed' = events')
      /\ Plain => Listed' \subseteq Rows
  BY <1>0, <1>2, ItemsTyped DEF Plain
<1> DEFINE come == Cardinality(Listed' \ Listed)
           gone == Cardinality(Listed \ Listed')
<1>4. come \in Nat /\ gone \in Nat
  <2>1. Listed' \ Listed \subseteq Item /\ Listed \ Listed' \subseteq Item
    BY <1>1, <1>3
  <2> QED
    BY <2>1, ListsAreFinite
<1>5. seen' = [seen EXCEPT !.throughout = @ \cap Listed',
                           !.arrivals = @ + come,
                           !.removals = @ + gone,
                           !.racing = @ + IF scroll.step = "counted" THEN come ELSE 0]
  BY <1>2 DEF Watch
<1> HIDE DEF come, gone
<1>6. seen' \in Seen
  <2> DEFINE raced == IF scroll.step = "counted" THEN come ELSE 0
             kept == seen.throughout \cap Listed'
  <2>1. raced \in Nat
    BY <1>4
  <2>2. kept \in SUBSET Item
    BY <1>3
  <2>3. seen' = [seen EXCEPT !.throughout = kept, !.arrivals = @ + come,
                             !.removals = @ + gone, !.racing = @ + raced]
    BY <1>5
  <2>4. /\ seen.shown \in SUBSET Item /\ seen.repeats \in Nat /\ seen.arrivals \in Nat
        /\ seen.removals \in Nat /\ seen.racing \in Nat /\ seen.headers \in SUBSET Slugs
        /\ seen.headerAgain \in Nat
    BY <1>0 DEF Seen
  <2> HIDE DEF raced, kept
  <2>5. seen' = [shown |-> seen.shown, throughout |-> kept, repeats |-> seen.repeats,
                 arrivals |-> seen.arrivals + come, removals |-> seen.removals + gone,
                 racing |-> seen.racing + raced, headers |-> seen.headers,
                 headerAgain |-> seen.headerAgain]
    BY <1>0, <2>3 DEF Seen
  <2> QED
    BY <1>4, <2>1, <2>2, <2>4, <2>5 DEF Seen
<1>7. /\ seen'.throughout = seen.throughout \cap Listed'
      /\ seen'.shown = seen.shown /\ seen'.repeats = seen.repeats
      /\ seen'.headers = seen.headers /\ seen'.headerAgain = seen.headerAgain
      /\ seen'.arrivals = seen.arrivals + come /\ seen'.removals = seen.removals + gone
      /\ seen'.racing = seen.racing + IF scroll.step = "counted" THEN come ELSE 0
  BY <1>0, <1>5 DEF Seen
<1> QED
  BY <1>1, <1>3, <1>6, <1>7 DEF Followed, come, gone

\* A write that changes nothing that is listed.
LEMMA QuietFollows ==
  ASSUME TypeOK, StillListed, scroll' = scroll, seen' = seen, Listed' = Listed
  PROVE  Followed
<1>1. seen \in Seen
  BY DEF TypeOK
<1>2. Cardinality(Listed' \ Listed) = 0 /\ Cardinality(Listed \ Listed') = 0
  <2>1. Listed' \ Listed = {} /\ Listed \ Listed' = {}
    OBVIOUS
  <2> QED
    BY <2>1, FS_EmptySet
<1>3. seen.throughout \cap Listed' = seen.throughout
  BY DEF StillListed
<1>4. seen.arrivals \in Nat /\ seen.removals \in Nat /\ seen.racing \in Nat
  BY <1>1 DEF Seen
<1>5. /\ Listed' \subseteq Item
      /\ Plain => Listed' \subseteq Rows /\ \E y : Listed' \ Listed \subseteq {y}
  BY ListedTyped
<1> QED
  BY <1>1, <1>2, <1>3, <1>4, <1>5 DEF Followed

LEMMA OneComes ==
  ASSUME TypeOK, scroll' = scroll, Plain, NEW u,
         \A t \in Stamps : t # u => rows'[t] = rows[t] \/ ~Readable(rows'[t])
  PROVE  \E y : Listed' \ Listed \subseteq {y}
<1>1. scroll.surface \in Surfaces
  BY DEF TypeOK, Scroll
<1>2. CASE scroll.surface = "feed"
  BY <1>2 DEF Listed, Items
<1>3. CASE scroll.surface = "mentions"
  BY <1>3 DEF Listed, Items
<1> QED
  BY <1>1, <1>2, <1>3 DEF Surfaces, Plain

LEMMA TickTyped ==
  ASSUME TypeOK, Clocked, Tick
  PROVE  /\ clock + 1 \in Stamps /\ clock' \in 0..MaxClock /\ clock' = clock + 1
         /\ clock \in Nat /\ rows[clock + 1] = None
<1>1. clock \in 0..MaxClock /\ clock < MaxClock /\ clock' = clock + 1
  BY DEF TypeOK, Tick
<1>2. clock + 1 \in Stamps /\ clock' \in 0..MaxClock /\ clock + 1 > clock /\ clock \in Nat
  BY <1>1, ConstantFacts DEF Stamps
<1> QED
  BY <1>1, <1>2 DEF Clocked

LEMMA CommittedTyped ==
  ASSUME TypeOK, NEW t \in Stamps, rows[t] # None
  PROVE  rows[t] \in Row
BY DEF TypeOK

LEMMA LogTyped ==
  ASSUME TypeOK, clock + 1 \in Stamps, NEW n \in 1..2, Logged(n)
  PROVE  events' \subseteq Item /\ events \subseteq events'
BY DEF TypeOK, Logged, Item

LEMMA ClaimLogTyped ==
  ASSUME TypeOK, clock + 1 \in Stamps, NEW row, LoggedWithClaim(row)
  PROVE  events' \subseteq Item /\ events \subseteq events'
<1>1. 1 \in 1..2 /\ 2 \in 1..2
  OBVIOUS
<1> QED
  BY <1>1, LogTyped DEF LoggedWithClaim

\* What the writes share: the types, the clock, and a list that is followed.
Kept == TypeOK' /\ Clocked' /\ Followed

LEMMA ClockKept ==
  ASSUME TypeOK, Clocked, Tick, days' = days,
         rows' \in [Stamps -> Row \cup {None}],
         \A t \in Stamps : t > clock + 1 => rows'[t] = rows[t]
  PROVE  Clocked'
<1>1. clock' = clock + 1 /\ clock \in Nat
  BY TickTyped
<1>2. \A t \in Stamps : t > clock + 1 => t > clock
  BY <1>1, ConstantFacts DEF Stamps
<1>3. days.today \in Nat /\ days.yesterday \in Nat
  BY ConstantFacts DEF TypeOK
<1> QED
  BY <1>1, <1>2, <1>3 DEF Clocked

LEMMA BeginCaptureKept ==
  ASSUME IInv, NEW shared \in BOOLEAN, NEW mention \in BOOLEAN, BeginCapture(shared, mention)
  PROVE  Kept
<1> DEFINE row == [stage |-> "open", shared |-> shared, mention |-> mention]
<1>1. TypeOK /\ Clocked /\ StillListed /\ Tick
  BY DEF IInv, BeginCapture
<1>2. /\ rows' = [rows EXCEPT ![clock + 1] = row]
      /\ scroll' = scroll /\ seen' = seen /\ days' = days /\ events' = events
  BY DEF BeginCapture
<1>3. row \in Row /\ row.stage = "open"
  BY DEF Row
<1> HIDE DEF row
<1>4. /\ clock + 1 \in Stamps /\ rows[clock + 1] = None /\ clock' \in 0..MaxClock
      /\ clock \in Nat
  BY <1>1, TickTyped
<1>5. rows \in [Stamps -> Row \cup {None}]
  BY <1>1 DEF TypeOK
<1>6. rows' \in [Stamps -> Row \cup {None}]
  BY <1>2, <1>3, <1>5
<1>7. TypeOK'
  BY <1>1, <1>2, <1>4, <1>6 DEF TypeOK
<1>8. Clocked'
  <2>1. \A t \in Stamps : t > clock + 1 => rows'[t] = rows[t]
    BY <1>2, <1>4, <1>5
  <2> QED
    BY <1>1, <1>2, <1>6, <2>1, ClockKept
<1>9. Listed' = Listed
  <2>1. \A t \in Stamps : rows'[t] = IF t = clock + 1 THEN row ELSE rows[t]
    BY <1>2, <1>5
  <2>2. ~Readable(row) /\ ~Readable(rows[clock + 1])
    BY <1>3, <1>4 DEF Readable
  <2>3. \A t \in Stamps : rows'[t] = rows[t] \/ (~Readable(rows'[t]) /\ ~Readable(rows[t]))
    BY <2>1, <2>2
  <2>4. scroll.surface \in Surfaces
    BY <1>1 DEF TypeOK, Scroll
  <2>5. CASE scroll.surface = "feed"
    BY <1>2, <2>3, <2>5 DEF Listed, Items
  <2>6. CASE scroll.surface = "mentions"
    BY <1>2, <2>3, <2>6 DEF Listed, Items
  <2>7. CASE scroll.surface = "activity"
    BY <1>2, <2>7 DEF Listed, Items
  <2> QED
    BY <2>4, <2>5, <2>6, <2>7 DEF Surfaces
<1> QED
  BY <1>1, <1>2, <1>7, <1>8, <1>9, QuietFollows DEF Kept

LEMMA CommitCaptureKept ==
  ASSUME IInv, NEW t \in Stamps, CommitCapture(t)
  PROVE  Kept
<1>1. TypeOK /\ Clocked /\ Watch /\ rows[t] # None
  BY DEF IInv, CommitCapture
<1>2. /\ rows' = [rows EXCEPT ![t].stage = "live"]
      /\ clock' = clock /\ scroll' = scroll /\ days' = days /\ events' = events
  BY DEF CommitCapture
<1>3. rows \in [Stamps -> Row \cup {None}] /\ rows[t] \in Row
  BY <1>1, CommittedTyped DEF TypeOK
<1>4. rows' \in [Stamps -> Row \cup {None}] /\ \A x \in Stamps : x # t => rows'[x] = rows[x]
  <2>1. [rows[t] EXCEPT !.stage = "live"] \in Row
    BY <1>3 DEF Row
  <2> QED
    BY <1>2, <1>3, <2>1
<1>5. Clocked'
  BY <1>1, <1>2, <1>4 DEF Clocked
<1>6. Followed
  <2>1. Plain => \E y : Listed' \ Listed \subseteq {y}
    BY <1>1, <1>2, <1>4, OneComes
  <2>2. events' \subseteq Item /\ events \subseteq events'
    BY <1>1, <1>2 DEF TypeOK
  <2> QED
    BY <1>1, <1>2, <2>1, <2>2, WatchFollows
<1>7. TypeOK'
  BY <1>1, <1>2, <1>4, <1>6 DEF TypeOK, Followed
<1> QED
  BY <1>5, <1>6, <1>7 DEF Kept

\* A write of its own transaction: it takes a timestamp and may log.
LEMMA TransactionKept ==
  ASSUME TypeOK, Clocked, Tick, Watch, scroll' = scroll, days' = days,
         events' \subseteq Item, events \subseteq events',
         rows' \in [Stamps -> Row \cup {None}], NEW u \in Stamps, u <= clock + 1,
         \A t \in Stamps : t # u => rows'[t] = rows[t] \/ ~Readable(rows'[t]),
         \A t \in Stamps : t > clock + 1 => rows'[t] = rows[t]
  PROVE  Kept
<1>1. clock' \in 0..MaxClock
  BY TickTyped
<1>2. Clocked'
  BY ClockKept
<1>3. Followed
  BY OneComes, WatchFollows
<1>4. TypeOK'
  BY <1>1, <1>3 DEF TypeOK, Followed
<1> QED
  BY <1>2, <1>3, <1>4 DEF Kept

\* A committed row is not of the future.
LEMMA CommittedIsPast ==
  ASSUME TypeOK, Clocked, NEW t \in Stamps, Committed(t)
  PROVE  /\ rows[t] \in Row /\ t <= clock + 1 /\ t # clock + 1 /\ t \in Nat /\ clock \in Nat
         /\ rows \in [Stamps -> Row \cup {None}]
<1>1. rows[t] # None /\ clock \in 0..MaxClock
  BY DEF Committed, TypeOK
<1>2. t \in Nat /\ clock \in Nat
  BY <1>1, ConstantFacts DEF Stamps
<1>3. ~(t > clock)
  BY <1>1 DEF Clocked
<1> QED
  BY <1>1, <1>2, <1>3, CommittedTyped DEF TypeOK

LEMMA SupersedeKept ==
  ASSUME IInv, NEW t \in Stamps, Supersede(t)
  PROVE  Kept
<1>1. /\ TypeOK /\ Clocked /\ Tick /\ Committed(t) /\ Watch /\ LoggedWithClaim(rows[t])
      /\ scroll' = scroll /\ days' = days
  BY DEF IInv, Supersede
<1>2. rows' = [rows EXCEPT
         ![t].stage = IF @ = "deleted" THEN @ ELSE "superseded",
         ![clock + 1] = [rows[t] EXCEPT !.stage = "live", !.mention = FALSE]]
  BY DEF Supersede
<1>3. /\ rows[t] \in Row /\ t # clock + 1 /\ t <= clock + 1 /\ clock \in Nat /\ clock + 1 \in Stamps
      /\ rows \in [Stamps -> Row \cup {None}]
  BY <1>1, CommittedIsPast, TickTyped
<1> DEFINE dead == [rows[t] EXCEPT !.stage = IF @ = "deleted" THEN @ ELSE "superseded"]
           heir == [rows[t] EXCEPT !.stage = "live", !.mention = FALSE]
<1>4. dead \in Row /\ heir \in Row /\ dead.stage # "live"
  BY <1>3 DEF Row
<1>5. \A x \in Stamps : rows'[x] = IF x = clock + 1 THEN heir ELSE IF x = t THEN dead ELSE rows[x]
  BY <1>2, <1>3
<1>6. rows' \in [Stamps -> Row \cup {None}]
  BY <1>2, <1>3, <1>4
<1>7. ~Readable(dead)
  BY <1>4 DEF Readable
<1> HIDE DEF dead, heir
<1>8. /\ \A x \in Stamps : x # clock + 1 => rows'[x] = rows[x] \/ ~Readable(rows'[x])
      /\ \A x \in Stamps : x > clock + 1 => rows'[x] = rows[x]
  BY <1>3, <1>5, <1>7, ConstantFacts DEF Stamps
<1>9. events' \subseteq Item /\ events \subseteq events'
  BY <1>1, <1>3, ClaimLogTyped
<1>10. clock + 1 <= clock + 1
  BY <1>3
<1> QED
  BY <1>1, <1>3, <1>6, <1>8, <1>9, <1>10, TransactionKept

LEMMA DeleteKept ==
  ASSUME IInv, NEW t \in Stamps, Delete(t)
  PROVE  Kept
<1>1. /\ TypeOK /\ Clocked /\ Tick /\ Committed(t) /\ Watch /\ LoggedWithClaim(rows[t])
      /\ scroll' = scroll /\ days' = days /\ rows' = [rows EXCEPT ![t].stage = "deleted"]
  BY DEF IInv, Delete
<1>2. /\ rows[t] \in Row /\ t <= clock + 1 /\ t \in Nat /\ clock \in Nat /\ clock + 1 \in Stamps
      /\ rows \in [Stamps -> Row \cup {None}]
  BY <1>1, CommittedIsPast, TickTyped
<1>3. rows' \in [Stamps -> Row \cup {None}] /\ \A x \in Stamps : x # t => rows'[x] = rows[x]
  <2>1. [rows[t] EXCEPT !.stage = "deleted"] \in Row
    BY <1>2 DEF Row
  <2> QED
    BY <1>1, <1>2, <2>1
<1>4. \A x \in Stamps : x > clock + 1 => rows'[x] = rows[x]
  BY <1>2, <1>3
<1>5. events' \subseteq Item /\ events \subseteq events'
  BY <1>1, <1>2, ClaimLogTyped
<1> QED
  BY <1>1, <1>2, <1>3, <1>4, <1>5, TransactionKept

LEMMA ToggleKept ==
  ASSUME IInv, NEW t \in Stamps, Toggle(t)
  PROVE  Kept
<1>1. /\ TypeOK /\ Clocked /\ Tick /\ Committed(t) /\ Watch /\ Logged(1)
      /\ scroll' = scroll /\ days' = days /\ rows' = [rows EXCEPT ![t].shared = ~@]
  BY DEF IInv, Toggle
<1>2. /\ rows[t] \in Row /\ t <= clock + 1 /\ t \in Nat /\ clock \in Nat /\ clock + 1 \in Stamps
      /\ rows \in [Stamps -> Row \cup {None}]
  BY <1>1, CommittedIsPast, TickTyped
<1>3. rows' \in [Stamps -> Row \cup {None}] /\ \A x \in Stamps : x # t => rows'[x] = rows[x]
  <2>1. [rows[t] EXCEPT !.shared = ~@] \in Row
    BY <1>2 DEF Row
  <2> QED
    BY <1>1, <1>2, <2>1
<1>4. \A x \in Stamps : x > clock + 1 => rows'[x] = rows[x]
  BY <1>2, <1>3
<1>5. events' \subseteq Item /\ events \subseteq events'
  <2>1. 1 \in 1..2
    OBVIOUS
  <2> QED
    BY <1>1, <1>2, <2>1, LogTyped
<1> QED
  BY <1>1, <1>2, <1>3, <1>4, <1>5, TransactionKept

LEMMA RebindKept ==
  ASSUME IInv, NEW t \in Stamps, Rebind(t)
  PROVE  Kept
<1>1. /\ TypeOK /\ Clocked /\ Tick /\ Committed(t) /\ Watch /\ events' = events
      /\ scroll' = scroll /\ days' = days /\ rows' = [rows EXCEPT ![t].mention = ~@]
  BY DEF IInv, Rebind
<1>2. /\ rows[t] \in Row /\ t <= clock + 1 /\ t \in Nat /\ clock \in Nat
      /\ rows \in [Stamps -> Row \cup {None}]
  BY <1>1, CommittedIsPast
<1>3. rows' \in [Stamps -> Row \cup {None}] /\ \A x \in Stamps : x # t => rows'[x] = rows[x]
  <2>1. [rows[t] EXCEPT !.mention = ~@] \in Row
    BY <1>2 DEF Row
  <2> QED
    BY <1>1, <1>2, <2>1
<1>4. \A x \in Stamps : x > clock + 1 => rows'[x] = rows[x]
  BY <1>2, <1>3
<1>5. events' \subseteq Item /\ events \subseteq events'
  BY <1>1 DEF TypeOK
<1> QED
  BY <1>1, <1>2, <1>3, <1>4, <1>5, TransactionKept

LEMMA MidnightKept ==
  ASSUME IInv, Midnight
  PROVE  Kept
<1>1. /\ TypeOK /\ Clocked /\ StillListed /\ days.today # clock + 1
      /\ days' = [today |-> clock + 1, yesterday |-> days.today]
      /\ clock' = clock /\ rows' = rows /\ events' = events /\ scroll' = scroll /\ seen' = seen
  BY DEF IInv, Midnight
<1>2. clock \in 0..MaxClock /\ days.today \in 1..(MaxClock + 1) /\ days.today <= clock + 1
  BY <1>1 DEF TypeOK, Clocked
<1>3. days' \in [today : 1..(MaxClock + 1), yesterday : 1..(MaxClock + 1)]
  BY <1>1, <1>2, ConstantFacts
<1>4. TypeOK'
  BY <1>1, <1>3 DEF TypeOK
<1>5. Clocked'
  <2>1. days'.today = clock + 1 /\ days'.yesterday = days.today
    BY <1>1
  <2>2. clock + 1 <= clock + 1
    BY <1>2, ConstantFacts
  <2> QED
    BY <1>1, <1>2, <2>1, <2>2 DEF Clocked
<1>6. Listed' = Listed
  BY <1>1 DEF Listed
<1> QED
  BY <1>1, <1>4, <1>5, <1>6, QuietFollows DEF Kept

LEMMA WriteKept ==
  ASSUME IInv, Write
  PROVE  Kept /\ Reading
<1>1. ASSUME NEW shared \in BOOLEAN, NEW mention \in BOOLEAN, BeginCapture(shared, mention)
      PROVE  Kept
  BY <1>1, BeginCaptureKept
<1>2. ASSUME NEW t \in Stamps,
             CommitCapture(t) \/ Toggle(t) \/ Rebind(t) \/ Supersede(t) \/ Delete(t)
      PROVE  Kept
  BY <1>2, CommitCaptureKept, ToggleKept, RebindKept, SupersedeKept, DeleteKept
<1>3. ASSUME Midnight PROVE Kept
  BY <1>3, MidnightKept
<1> QED
  BY <1>1, <1>2, <1>3 DEF Write

\* Days only end.
LEMMA DaysEnd ==
  ASSUME IInv, Write
  PROVE  days' = days \/ (days'.today = clock + 1 /\ days'.yesterday = days.today)
<1>1. CASE \E shared, mention \in BOOLEAN : BeginCapture(shared, mention)
  BY <1>1 DEF BeginCapture
<1>2. CASE \E t \in Stamps : CommitCapture(t) \/ Toggle(t) \/ Rebind(t)
  BY <1>2 DEF CommitCapture, Toggle, Rebind
<1>3. CASE \E t \in Stamps : Supersede(t) \/ Delete(t)
  BY <1>3 DEF Supersede, Delete
<1>4. CASE Midnight
  BY <1>4 DEF Midnight
<1> QED
  BY <1>1, <1>2, <1>3, <1>4 DEF Write

\* A later time is in no older bucket.
LEMMA SlugAges ==
  ASSUME TypeOK, Clocked, NEW x \in Item, NEW y \in Item, x[1] <= y[1]
  PROVE  SlugAge(Slug(y)) <= SlugAge(Slug(x))
<1>1. x[1] \in Nat /\ y[1] \in Nat
  BY ItemParts
<1>2. days.today \in Nat /\ days.yesterday \in Nat /\ days.yesterday <= days.today
  BY ConstantFacts DEF TypeOK, Clocked
<1> QED
  BY <1>1, <1>2 DEF Slug, SlugAge

LEMMA SlugsOfAnAge ==
  ASSUME NEW s \in Slugs, NEW u \in Slugs
  PROVE  /\ SlugAge(s) \in Nat
         /\ SlugAge(s) = SlugAge(u) => s = u
BY DEF Slugs, SlugAge

LEMMA BucketsGrowOld ==
  ASSUME IInv, Write, NEW b \in Stamps
  PROVE  SlugAge(Slug(<<b, 1>>)) <= SlugAge(Slug(<<b, 1>>)')
<1>1. TypeOK /\ Clocked
  BY DEF IInv
<1>2. /\ days.today \in Nat /\ days.yesterday \in Nat /\ days.yesterday <= days.today
      /\ days.today <= clock + 1 /\ clock \in Nat
  BY <1>1, ConstantFacts DEF TypeOK, Clocked
<1>3. b \in Nat
  BY ConstantFacts DEF Stamps
<1>4. Slug(<<b, 1>>) = IF b >= days.today THEN "today"
                       ELSE IF b >= days.yesterday THEN "yesterday" ELSE "earlier"
  BY DEF Slug
<1>5. Slug(<<b, 1>>)' = IF b >= days'.today THEN "today"
                        ELSE IF b >= days'.yesterday THEN "yesterday" ELSE "earlier"
  BY DEF Slug
<1>6. CASE days' = days
  BY <1>4, <1>5, <1>6 DEF SlugAge
<1>7. CASE days'.today = clock + 1 /\ days'.yesterday = days.today
  BY <1>2, <1>3, <1>4, <1>5, <1>7 DEF SlugAge
<1> QED
  BY <1>6, <1>7, DaysEnd

LEMMA SeenTyped ==
  ASSUME TypeOK
  PROVE  /\ seen.shown \subseteq Item /\ seen.throughout \subseteq Item
         /\ seen.headers \subseteq Slugs
         /\ seen.repeats \in Nat /\ seen.arrivals \in Nat /\ seen.removals \in Nat
         /\ seen.racing \in Nat /\ seen.headerAgain \in Nat
         /\ scroll.surface \in Surfaces /\ scroll.step \in {"idle", "more", "counted", "done"}
         /\ scroll.offset \in Nat /\ scroll.count \in Nat /\ scroll.cont \in Slugs \cup {""}
BY DEF TypeOK, Seen, Scroll

LEMMA WriteHolds ==
  ASSUME IInv, Write
  PROVE  IInv'
<1>1. TypeOK' /\ Clocked' /\ Followed /\ Reading
  BY WriteKept DEF Kept
<1>2. /\ TypeOK /\ StillListed /\ CountHolds /\ SkippedAreRemovals /\ AgainAreArrivals
      /\ UnseenAreBelow /\ PagesGoBack
  BY DEF IInv
<1>3. /\ scroll' = scroll /\ scroll.step \in {"more", "counted"}
      /\ seen'.shown = seen.shown /\ seen'.repeats = seen.repeats
      /\ seen'.headers = seen.headers /\ seen'.headerAgain = seen.headerAgain
      /\ seen'.throughout = seen.throughout \cap Listed'
      /\ Plain' <=> Plain
  BY <1>1 DEF Followed, Reading, Plain
<1> DEFINE S == Listed
           T == Listed'
           come == Cardinality(T \ S)
           gone == Cardinality(S \ T)
           o == scroll.offset
<1>4. S \subseteq Item /\ T \subseteq Item /\ o \in Nat
  BY <1>1, <1>2, ListedTyped, SeenTyped DEF Followed
<1>5. come \in Nat /\ gone \in Nat
  BY <1>4, NewerGrows
<1>6. /\ seen'.arrivals = seen.arrivals + come /\ seen'.removals = seen.removals + gone
      /\ seen'.racing = seen.racing + IF scroll.step = "counted" THEN come ELSE 0
      /\ Plain => S \subseteq Rows /\ T \subseteq Rows /\ \E y : T \ S \subseteq {y}
      /\ ~Plain => S \subseteq T
  BY <1>1, <1>2, ListedTyped DEF Followed
<1>7. BeginsFresh' /\ MissesAreRemovals' /\ EveryTransactionIsShown'
  BY <1>3 DEF BeginsFresh, MissesAreRemovals, EveryTransactionIsShown
<1>8. StillListed'
  BY <1>3 DEF StillListed
<1>9. CountHolds'
  <2> SUFFICES ASSUME scroll.step = "counted"
               PROVE  /\ scroll.surface = "mentions"
                      /\ Cardinality(T) <= scroll.count + seen'.racing
    BY <1>3 DEF CountHolds
  <2>1. scroll.surface = "mentions" /\ Cardinality(S) <= scroll.count + seen.racing
    BY <1>2 DEF CountHolds
  <2>2. /\ Cardinality(S) \in Nat /\ Cardinality(T) \in Nat
        /\ Cardinality(T) <= Cardinality(S) + come
    BY <1>4, Spill
  <2> HIDE DEF S, T, come
  <2>3. seen'.racing = seen.racing + come /\ seen.racing \in Nat /\ scroll.count \in Nat
    BY <1>2, <1>6, SeenTyped
  <2> QED
    BY <1>5, <2>1, <2>2, <2>3
<1>10. SkippedAreRemovals'
  <2> SUFFICES ASSUME Plain PROVE Cardinality(Skipped') <= seen'.removals
    BY <1>3 DEF SkippedAreRemovals
  <2> DEFINE U == seen.throughout \ seen.shown
             V == (seen.throughout \cap T) \ seen.shown
  <2>1. U \subseteq S /\ V \subseteq U
    BY <1>2 DEF StillListed
  <2>2. Skipped' = {x \in V : Newer(x[1], T) < o} /\ Skipped = {x \in U : Newer(x[1], S) < o}
    BY <1>3 DEF Skipped, Newer
  <2>3. Cardinality(Skipped') <= Cardinality(Skipped) + gone
    <3> HIDE DEF U, V, S, T, o
    <3> QED
      BY <1>4, <1>6, <2>1, <2>2, SkippedGrows
  <2>4. Cardinality(Skipped) <= seen.removals /\ seen.removals \in Nat
    BY <1>2, SeenTyped DEF SkippedAreRemovals
  <2>5. Cardinality(Skipped') \in Nat /\ Cardinality(Skipped) \in Nat
    <3>1. Skipped' \subseteq Item /\ Skipped \subseteq Item
      BY <1>4, <2>1, <2>2
    <3> QED
      BY <3>1, ListsAreFinite
  <2> HIDE DEF gone
  <2> QED
    BY <1>5, <1>6, <2>3, <2>4, <2>5
<1>11. AgainAreArrivals'
  <2> SUFFICES ASSUME Plain
               PROVE  seen.repeats + Cardinality(Again') <= seen'.arrivals
    BY <1>3 DEF AgainAreArrivals
  <2> DEFINE W == seen.shown
  <2>1. Again' = {x \in W \cap T : Newer(x[1], T) >= o}
        /\ Again = {x \in W \cap S : Newer(x[1], S) >= o}
    BY <1>3 DEF Again, Newer
  <2>2. PICK y : T \ S \subseteq {y}
    BY <1>6
  <2>3. Cardinality(Again') <= Cardinality(Again) + come
    <3> HIDE DEF W, S, T, o
    <3> QED
      BY <1>4, <1>6, <2>1, <2>2, AgainGrows
  <2>4. Cardinality(Again') \in Nat /\ Cardinality(Again) \in Nat
    <3>1. Again' \subseteq Item /\ Again \subseteq Item
      BY <1>4, <2>1
    <3> QED
      BY <3>1, ListsAreFinite
  <2>5. seen.repeats + Cardinality(Again) <= seen.arrivals /\ seen.repeats \in Nat
        /\ seen.arrivals \in Nat
    BY <1>2, SeenTyped DEF AgainAreArrivals
  <2> HIDE DEF come
  <2> QED
    BY <1>5, <1>6, <2>3, <2>4, <2>5
<1>12. UnseenAreBelow'
  <2> SUFFICES ASSUME ~Plain, NEW x \in seen.throughout \cap T,
                      \A y \in seen.shown : y[1] # x[1]
               PROVE  Newer(x[1], T) >= o
    BY <1>3 DEF UnseenAreBelow, Newer
  <2>1. Newer(x[1], S) >= o
    BY <1>2 DEF UnseenAreBelow
  <2>2. gone = 0
    <3>1. S \ T = {}
      BY <1>6
    <3> QED
      BY <3>1, FS_EmptySet
  <2>3. Newer(x[1], S) <= Newer(x[1], T) + gone
    BY <1>4, NewerGrows
  <2>4. Newer(x[1], S) \in Nat /\ Newer(x[1], T) \in Nat
    BY <1>4, NewerTyped
  <2> HIDE DEF gone, S, T
  <2> QED
    BY <1>4, <2>1, <2>2, <2>3, <2>4
<1>13. PagesGoBack'
  <2> SUFFICES ASSUME scroll.surface = "feed", seen'.arrivals < 2
               PROVE  /\ seen.headerAgain = 0
                      /\ scroll.step = "more" =>
                           /\ scroll.cont \in Slugs
                           /\ \A slug \in seen.headers : SlugAge(slug) <= SlugAge(scroll.cont)
                           /\ \E b \in Stamps :
                                /\ Newer(b, T) < o + seen'.arrivals
                                /\ SlugAge(scroll.cont) <= SlugAge(Slug(<<b, 1>>)')
    BY <1>3 DEF PagesGoBack, Newer, SlugAge
  <2>1. seen.arrivals < 2 /\ seen.arrivals \in Nat
    <3>1. seen.arrivals \in Nat /\ seen'.arrivals = seen.arrivals + come
      BY <1>2, <1>6, SeenTyped
    <3> HIDE DEF come
    <3> QED
      BY <1>5, <3>1
  <2>2. seen.headerAgain = 0
    BY <1>2, <2>1 DEF PagesGoBack
  <2>3. ASSUME scroll.step = "more"
        PROVE  \E b \in Stamps : /\ Newer(b, T) < o + seen'.arrivals
                                 /\ SlugAge(scroll.cont) <= SlugAge(Slug(<<b, 1>>)')
    <3>1. PICK b \in Stamps : /\ Newer(b, S) < o + seen.arrivals
                              /\ SlugAge(scroll.cont) <= SlugAge(Slug(<<b, 1>>))
      BY <1>2, <2>1, <2>3 DEF PagesGoBack
    <3>2. Newer(b, T) < o + seen'.arrivals
      <4>1. Newer(b, T) <= Newer(b, S) + come
        BY <1>4, NewerGrows
      <4>2. Newer(b, T) \in Nat /\ Newer(b, S) \in Nat
        BY <1>4, NewerTyped
      <4> HIDE DEF come, S, T
      <4> QED
        BY <1>4, <1>5, <1>6, <2>1, <3>1, <4>1, <4>2
    <3>3. SlugAge(scroll.cont) <= SlugAge(Slug(<<b, 1>>)')
      <4>1. SlugAge(Slug(<<b, 1>>)) <= SlugAge(Slug(<<b, 1>>)')
        BY BucketsGrowOld
      <4>2. SlugAge(scroll.cont) \in Nat /\ SlugAge(Slug(<<b, 1>>)) \in Nat
            /\ SlugAge(Slug(<<b, 1>>)') \in Nat
        BY DEF SlugAge
      <4> QED
        BY <3>1, <4>1, <4>2
    <3> QED
      BY <3>2, <3>3
  <2>4. scroll.step = "more" =>
          /\ scroll.cont \in Slugs
          /\ \A slug \in seen.headers : SlugAge(slug) <= SlugAge(scroll.cont)
    BY <1>2, <2>1 DEF PagesGoBack
  <2> QED
    BY <2>2, <2>3, <2>4
<1> QED
  BY <1>1, <1>7, <1>8, <1>9, <1>10, <1>11, <1>12, <1>13 DEF IInv

-----------------------------------------------------------------------------
(***************************************************************************)
(* A page.  What is shown is a slice P of what is listed; B is what has    *)
(* been listed throughout.                                                 *)
(***************************************************************************)
Begun == IF scroll.step = "idle" THEN Listed ELSE seen.throughout

Shows(P, f, more) ==
  /\ scroll.step \in {"idle", "more", "counted"}
  /\ P = Slice(Listed, f, scroll.offset, PageSize)
  /\ Render(P, more)

\* The list of rows shows newest first, and a page begins at the offset.
LEMMA PageParts ==
  ASSUME IInv, NEW P, NEW f, NEW more \in BOOLEAN, Shows(P, f, more)
  PROVE  /\ P \subseteq Listed /\ P \subseteq Item /\ IsFiniteSet(P)
         /\ Cardinality(P) \in Nat /\ Cardinality(P) <= PageSize
         /\ Listed \subseteq Item /\ scroll.offset \in Nat
         /\ \A x \in Listed : /\ Place(x, Listed, f) \in Nat
                              /\ x \in P => /\ Place(x, Listed, f) >= scroll.offset
                                            /\ Place(x, Listed, f) < scroll.offset + Cardinality(P)
                              /\ Place(x, Listed, f) < scroll.offset + Cardinality(P) =>
                                   Place(x, Listed, f) < scroll.offset \/ x \in P
                              /\ Place(x, Listed, f) < scroll.offset + PageSize =>
                                   Place(x, Listed, f) < scroll.offset \/ x \in P
<1>1. TypeOK /\ P = Slice(Listed, f, scroll.offset, PageSize)
  BY DEF IInv, Shows
<1>2. Listed \subseteq Item /\ scroll.offset \in Nat /\ PageSize \in Nat
  BY <1>1, ListedTyped, SeenTyped, ConstantFacts
<1>3. P \subseteq Listed /\ Cardinality(P) \in Nat /\ Cardinality(P) <= PageSize
  BY <1>1, <1>2, SliceSize
<1>4. IsFiniteSet(P)
  BY <1>2, <1>3, ListsAreFinite
<1>5. ASSUME NEW x \in Listed
      PROVE  /\ Place(x, Listed, f) \in Nat
             /\ x \in P => /\ Place(x, Listed, f) >= scroll.offset
                           /\ Place(x, Listed, f) < scroll.offset + Cardinality(P)
             /\ Place(x, Listed, f) < scroll.offset + Cardinality(P) =>
                  Place(x, Listed, f) < scroll.offset \/ x \in P
             /\ Place(x, Listed, f) < scroll.offset + PageSize =>
                  Place(x, Listed, f) < scroll.offset \/ x \in P
  <2>1. Place(x, Listed, f) \in Nat
    BY <1>2, PlaceTyped
  <2>2. x \in P => /\ Place(x, Listed, f) >= scroll.offset
                   /\ Place(x, Listed, f) < scroll.offset + Cardinality(P)
    <3>1. x \in P => Place(x, Listed, f) \in scroll.offset .. (scroll.offset + PageSize - 1)
      BY <1>1 DEF Slice
    <3>2. x \in P => Place(x, Listed, f) < scroll.offset + Cardinality(P)
      BY <1>1, <1>2, SliceIsFilled
    <3> QED
      BY <1>2, <2>1, <3>1, <3>2
  <2>3. Place(x, Listed, f) < scroll.offset + PageSize =>
          Place(x, Listed, f) < scroll.offset \/ x \in P
    <3>1. x \in P <=> Place(x, Listed, f) \in scroll.offset .. (scroll.offset + PageSize - 1)
      BY <1>1 DEF Slice
    <3> QED
      BY <1>2, <2>1, <3>1
  <2>4. Place(x, Listed, f) < scroll.offset + Cardinality(P) =>
          Place(x, Listed, f) < scroll.offset \/ x \in P
    BY <1>2, <1>3, <2>1, <2>3
  <2> QED
    BY <2>1, <2>2, <2>3, <2>4
<1> QED
  BY <1>2, <1>3, <1>4, <1>5

LEMMA NextContTyped ==
  ASSUME NEW P
  PROVE  NextCont(P) \in Slugs \cup {""}
BY SlugTyped DEF NextCont

LEMMA HeadersTyped ==
  ASSUME NEW P
  PROVE  Headers(P) \subseteq Slugs /\ Headers(P) \subseteq {Slug(x) : x \in P}
BY SlugTyped DEF Headers

\* What a page does to the list and to the notes of its reader.
Turned(P, more) ==
  /\ clock' = clock /\ days' = days /\ Listed' = Listed
  /\ scroll'.surface = scroll.surface
  /\ scroll'.step = IF more THEN "more" ELSE "done"
  /\ scroll'.offset = scroll.offset + Cardinality(P)
  /\ scroll'.cont = NextCont(P)
  /\ seen'.throughout = Begun /\ Begun \subseteq Listed
  /\ seen'.shown = seen.shown \cup P
  /\ seen'.repeats = seen.repeats + Cardinality(P \cap seen.shown)
  /\ seen'.headers = seen.headers \cup Headers(P)
  /\ seen'.headerAgain = seen.headerAgain + Cardinality(Headers(P) \cap seen.headers)
  /\ seen'.arrivals = seen.arrivals /\ seen'.removals = seen.removals
  /\ seen'.racing = seen.racing

LEMMA ShowTurns ==
  ASSUME IInv, NEW P, NEW f, NEW more \in BOOLEAN, Shows(P, f, more)
  PROVE  TypeOK' /\ Clocked' /\ Turned(P, more)
<1>1. TypeOK /\ Clocked /\ StillListed /\ Render(P, more)
  BY DEF IInv, Shows
<1>2. scroll \in Scroll /\ seen \in Seen
  BY <1>1 DEF TypeOK
<1>3. /\ P \subseteq Item /\ Cardinality(P) \in Nat /\ scroll.offset \in Nat /\ Listed \subseteq Item
  BY PageParts
<1>4. clock' = clock /\ rows' = rows /\ events' = events /\ days' = days
  BY <1>1 DEF Render
<1>5. scroll' = [scroll EXCEPT !.step = IF more THEN "more" ELSE "done",
                               !.offset = scroll.offset + Cardinality(P),
                               !.cont = NextCont(P)]
  BY <1>1 DEF Render, NextOffset
<1>6. /\ scroll' \in Scroll /\ scroll'.surface = scroll.surface
      /\ scroll'.step = IF more THEN "more" ELSE "done"
      /\ scroll'.offset = scroll.offset + Cardinality(P)
      /\ scroll'.cont = NextCont(P)
  <2> DEFINE o == scroll.offset + Cardinality(P)
             c == NextCont(P)
             s == IF more THEN "more" ELSE "done"
  <2>1. o \in Nat /\ c \in Slugs \cup {""} /\ s \in {"idle", "more", "counted", "done"}
    <3>1. o \in Nat
      BY <1>3
    <3> QED
      BY <3>1, NextContTyped
  <2>2. scroll' = [scroll EXCEPT !.step = s, !.offset = o, !.cont = c]
    BY <1>5
  <2> HIDE DEF o, c, s
  <2>3. scroll' \in Scroll /\ scroll'.surface = scroll.surface /\ scroll'.step = s
        /\ scroll'.offset = o /\ scroll'.cont = c
    BY <1>2, <2>1, <2>2 DEF Scroll
  <2> QED
    BY <2>3 DEF o, c, s
<1>7. Listed' = Listed
  BY <1>4, <1>6 DEF Listed
<1>8. Begun \subseteq Listed
  BY <1>1 DEF Begun, StillListed
<1> DEFINE r == Cardinality(P \cap seen.shown)
           h == Cardinality(Headers(P) \cap seen.headers)
           hs == Headers(P)
           b == Begun
<1>9. seen' = [seen EXCEPT !.throughout = b, !.shown = @ \cup P, !.repeats = @ + r,
                           !.headers = @ \cup hs, !.headerAgain = @ + h]
  <2>1. CASE scroll.step = "idle"
    BY <1>1, <1>2, <2>1 DEF Render, Noted, Begun, Seen
  <2>2. CASE scroll.step # "idle"
    BY <1>1, <1>2, <2>2 DEF Render, Noted, Begun, Seen
  <2> QED
    BY <2>1, <2>2
<1>10. r \in Nat /\ h \in Nat /\ hs \subseteq Slugs /\ b \subseteq Item
  <2>1. P \cap seen.shown \subseteq Item /\ Headers(P) \cap seen.headers \subseteq Slugs
    BY <1>3, HeadersTyped
  <2> QED
    BY <1>3, <1>8, <2>1, ListsAreFinite, SlugSetsAreFinite, HeadersTyped
<1>11. /\ seen'.throughout = b /\ seen'.shown = seen.shown \cup P
       /\ seen'.repeats = seen.repeats + r
       /\ seen'.headers = seen.headers \cup hs /\ seen'.headerAgain = seen.headerAgain + h
       /\ seen'.arrivals = seen.arrivals /\ seen'.removals = seen.removals
       /\ seen'.racing = seen.racing
  <2> HIDE DEF r, h, hs, b
  <2> QED
    BY <1>2, <1>9 DEF Seen
<1>12. seen' \in Seen
  <2> HIDE DEF r, h, hs, b
  <2>1. /\ seen.shown \in SUBSET Item /\ seen.repeats \in Nat /\ seen.arrivals \in Nat
        /\ seen.removals \in Nat /\ seen.racing \in Nat /\ seen.headers \in SUBSET Slugs
        /\ seen.headerAgain \in Nat
    BY <1>2 DEF Seen
  <2>2. seen' = [shown |-> seen.shown \cup P, throughout |-> b, repeats |-> seen.repeats + r,
                 arrivals |-> seen.arrivals, removals |-> seen.removals,
                 racing |-> seen.racing, headers |-> seen.headers \cup hs,
                 headerAgain |-> seen.headerAgain + h]
    BY <1>2, <1>9 DEF Seen
  <2> QED
    BY <1>3, <1>10, <2>1, <2>2 DEF Seen
<1>13. TypeOK'
  BY <1>1, <1>4, <1>6, <1>12 DEF TypeOK
<1>14. Clocked'
  BY <1>1, <1>4 DEF Clocked
<1> QED
  BY <1>4, <1>6, <1>7, <1>8, <1>11, <1>13, <1>14 DEF Turned

\* A reader passes over nothing by loading a page.
LEMMA ShowSkips ==
  ASSUME IInv, NEW P, NEW f, NEW more \in BOOLEAN, Shows(P, f, more)
  PROVE  SkippedAreRemovals'
<1>0. /\ Listed' = Listed /\ scroll'.surface = scroll.surface
      /\ scroll'.offset = scroll.offset + Cardinality(P)
      /\ seen'.throughout = Begun /\ Begun \subseteq Listed
      /\ seen'.shown = seen.shown \cup P /\ seen'.removals = seen.removals
  <2>1. Turned(P, more)
    BY ShowTurns
  <2> QED
    BY <2>1 DEF Turned
<1> SUFFICES ASSUME Plain PROVE Cardinality(Skipped') <= seen.removals
  BY <1>0 DEF SkippedAreRemovals, Plain
<1>1. TypeOK /\ BeginsFresh /\ SkippedAreRemovals
  BY DEF IInv
<1>2. Listed \subseteq Rows /\ Listed \subseteq Item
  BY <1>1, ListedTyped
<1>3. Skipped' = {x \in Begun \ (seen.shown \cup P) :
                    Newer(x[1], Listed) < scroll.offset + Cardinality(P)}
  BY <1>0 DEF Skipped, Newer
<1>5. ASSUME NEW x \in Skipped' PROVE x \in Skipped
  <2>1. x \in Listed /\ x \in Rows /\ x \in Begun /\ x \notin seen.shown /\ x \notin P
    BY <1>0, <1>2, <1>3
  <2>2. Place(x, Listed, f) = Newer(x[1], Listed)
    BY <1>2, <2>1, PlaceOfRow
  <2>3. Place(x, Listed, f) < scroll.offset + Cardinality(P)
    BY <1>3, <2>2
  <2>4. Place(x, Listed, f) < scroll.offset /\ Place(x, Listed, f) \in Nat
    BY <2>1, <2>3, PageParts
  <2>5. scroll.step # "idle"
    <3>1. scroll.step = "idle" => scroll.offset = 0
      BY <1>1 DEF BeginsFresh
    <3> QED
      BY <2>4, <3>1
  <2> QED
    BY <2>1, <2>2, <2>4, <2>5 DEF Begun, Skipped
<1>6. Skipped \subseteq Item
  BY <1>1, SeenTyped DEF Skipped
<1>7. IsFiniteSet(Skipped) /\ Cardinality(Skipped) \in Nat
  BY <1>6, ListsAreFinite
<1>8. Cardinality(Skipped') <= Cardinality(Skipped) /\ Cardinality(Skipped') \in Nat
  <2>1. Skipped' \subseteq Skipped
    BY <1>5
  <2> QED
    BY <1>6, <1>7, <2>1, FS_Subset, ListsAreFinite
<1>9. Cardinality(Skipped) <= seen.removals /\ seen.removals \in Nat
  BY <1>1, SeenTyped DEF SkippedAreRemovals
<1> QED
  BY <1>7, <1>8, <1>9

\* The rows a page shows again were waiting to come again.
LEMMA ShowRepeats ==
  ASSUME IInv, NEW P, NEW f, NEW more \in BOOLEAN, Shows(P, f, more)
  PROVE  AgainAreArrivals'
<1> DEFINE R == P \cap seen.shown
<1>0. /\ Listed' = Listed /\ scroll'.surface = scroll.surface
      /\ scroll'.offset = scroll.offset + Cardinality(P)
      /\ seen'.shown = seen.shown \cup P /\ seen'.arrivals = seen.arrivals
      /\ seen'.repeats = seen.repeats + Cardinality(R)
  <2>1. Turned(P, more)
    BY ShowTurns
  <2> QED
    BY <2>1 DEF Turned
<1> SUFFICES ASSUME Plain
             PROVE  seen.repeats + Cardinality(R) + Cardinality(Again') <= seen.arrivals
  BY <1>0 DEF AgainAreArrivals, Plain
<1>1. TypeOK /\ AgainAreArrivals
  BY DEF IInv
<1>2. Listed \subseteq Rows /\ Listed \subseteq Item
  BY <1>1, ListedTyped
<1>3. Again' = {x \in (seen.shown \cup P) \cap Listed :
                  Newer(x[1], Listed) >= scroll.offset + Cardinality(P)}
  BY <1>0 DEF Again, Newer
<1>4. ASSUME NEW x \in R PROVE x \in Again
  <2>1. x \in Listed /\ x \in Rows /\ x \in P /\ x \in seen.shown
    BY <1>2, PageParts
  <2>2. Place(x, Listed, f) = Newer(x[1], Listed)
    BY <1>2, <2>1, PlaceOfRow
  <2>3. Place(x, Listed, f) >= scroll.offset
    BY <2>1, PageParts
  <2> QED
    BY <2>1, <2>2, <2>3 DEF Again
<1>5. ASSUME NEW x \in Again' PROVE x \in Again \ R
  <2>1. x \in Listed /\ x \in Rows /\ Newer(x[1], Listed) >= scroll.offset + Cardinality(P)
    BY <1>2, <1>3
  <2>2. Place(x, Listed, f) = Newer(x[1], Listed)
    BY <1>2, <2>1, PlaceOfRow
  <2>3. x \notin P
    <3>1. /\ Place(x, Listed, f) \in Nat /\ scroll.offset \in Nat /\ Cardinality(P) \in Nat
          /\ x \in P => Place(x, Listed, f) < scroll.offset + Cardinality(P)
      BY <2>1, PageParts
    <3> QED
      BY <2>1, <2>2, <3>1
  <2>4. x \in seen.shown
    BY <1>3, <2>3
  <2>5. Newer(x[1], Listed) >= scroll.offset
    <3>1. scroll.offset \in Nat /\ Cardinality(P) \in Nat /\ Newer(x[1], Listed) \in Nat
      BY <1>2, PageParts, NewerTyped
    <3> QED
      BY <2>1, <3>1
  <2> QED
    BY <2>1, <2>3, <2>4, <2>5 DEF Again
<1>6. Again \subseteq Item /\ IsFiniteSet(Again) /\ Cardinality(Again) \in Nat
  <2>1. Again \subseteq Item
    BY <1>2 DEF Again
  <2> QED
    BY <2>1, ListsAreFinite
<1>7. Cardinality(Again \ R) = Cardinality(Again) - Cardinality(Again \cap R)
      /\ IsFiniteSet(Again \ R)
  BY <1>6, FS_Difference
<1>8. Again \cap R = R /\ Again' \subseteq Again \ R
  BY <1>4, <1>5
<1>9. Cardinality(Again') <= Cardinality(Again \ R)
  BY <1>7, <1>8, FS_Subset
<1>10. Cardinality(R) \in Nat /\ Cardinality(Again') \in Nat
  <2>1. R \subseteq Item /\ Again' \subseteq Item
    BY <1>6, <1>8
  <2> QED
    BY <2>1, ListsAreFinite
<1>11. seen.repeats + Cardinality(Again) <= seen.arrivals /\ seen.repeats \in Nat
       /\ seen.arrivals \in Nat
  BY <1>1, SeenTyped DEF AgainAreArrivals
<1>12. Cardinality(Again \ R) = Cardinality(Again) - Cardinality(R)
  BY <1>7, <1>8
<1> HIDE DEF R
<1> QED
  BY <1>6, <1>9, <1>10, <1>11, <1>12

\* The first item of a time has the place below all that is later.
LEMMA FirstOfATime ==
  ASSUME NEW S, S \subseteq Item, NEW x \in S, NEW f
  PROVE  \E z \in S : z[1] = x[1] /\ Place(z, S, f) = Newer(x[1], S)
<1> DEFINE Twins == {y \in S : y[1] = x[1]}
<1>1. PICK z \in Twins : \A y \in Twins : ~Above(y, z, f)
  <2>1. CASE \E y \in Twins : Above(y, x, f)
    <3>1. PICK y \in Twins : Above(y, x, f)
      BY <2>1
    <3>2. \A w \in Twins : w = x \/ w = y
      BY <3>1, ItemParts DEF Above
    <3>3. \A w \in Twins : ~Above(w, y, f)
      BY <3>1, <3>2, AboveOrder
    <3> QED
      BY <3>1, <3>3
  <2>2. CASE ~\E y \in Twins : Above(y, x, f)
    BY <2>2
  <2> QED
    BY <2>1, <2>2
<1>2. \A y \in S : Above(y, z, f) <=> y[1] > x[1]
  <2>1. ASSUME NEW y \in S, Above(y, z, f) PROVE y[1] > x[1]
    BY <1>1, <2>1 DEF Above
  <2>2. ASSUME NEW y \in S, y[1] > x[1] PROVE Above(y, z, f)
    BY <1>1, <2>2 DEF Above
  <2> QED
    BY <2>1, <2>2
<1>3. Place(z, S, f) = Newer(x[1], S)
  BY <1>2 DEF Place, Newer
<1> QED
  BY <1>1, <1>3

\* A transaction of which the page shows nothing either lies below the page.
LEMMA ShowPassesNone ==
  ASSUME IInv, ~Plain, NEW P, NEW f, NEW more \in BOOLEAN, Shows(P, f, more),
         NEW x \in Begun, \A y \in seen.shown \cup P : y[1] # x[1]
  PROVE  \E z \in Listed : /\ Place(z, Listed, f) = Newer(x[1], Listed)
                           /\ Place(z, Listed, f) >= scroll.offset + PageSize
<1>1. Listed \subseteq Item /\ x \in Listed /\ scroll.offset \in Nat /\ PageSize \in Nat
  <2>1. Turned(P, more)
    BY ShowTurns
  <2>2. Begun \subseteq Listed
    BY <2>1 DEF Turned
  <2> QED
    BY <2>2, PageParts, ConstantFacts
<1>2. Newer(x[1], Listed) >= scroll.offset
  <2>1. CASE scroll.step = "idle"
    <3>1. scroll.offset = 0
      BY <2>1 DEF IInv, BeginsFresh
    <3> QED
      BY <1>1, <3>1, NewerTyped
  <2>2. CASE scroll.step # "idle"
    <3>1. x \in seen.throughout /\ UnseenAreBelow
      BY <2>2 DEF Begun, IInv
    <3> QED
      BY <3>1 DEF UnseenAreBelow
  <2> QED
    BY <2>1, <2>2
<1>3. PICK z \in Listed : z[1] = x[1] /\ Place(z, Listed, f) = Newer(x[1], Listed)
  BY <1>1, FirstOfATime
<1>4. z \notin P
  BY <1>3
<1>5. /\ Place(z, Listed, f) \in Nat
      /\ Place(z, Listed, f) < scroll.offset + PageSize =>
           Place(z, Listed, f) < scroll.offset \/ z \in P
  BY PageParts
<1>6. Place(z, Listed, f) >= scroll.offset + PageSize
  BY <1>1, <1>2, <1>3, <1>4, <1>5
<1> QED
  BY <1>3, <1>6

LEMMA ShowTransactions ==
  ASSUME IInv, NEW P, NEW f, NEW more \in BOOLEAN, Shows(P, f, more)
  PROVE  UnseenAreBelow'
<1>0. Turned(P, more)
  BY ShowTurns
<1>1. /\ Listed' = Listed /\ scroll'.surface = scroll.surface
      /\ scroll'.offset = scroll.offset + Cardinality(P)
      /\ seen'.throughout = Begun /\ seen'.shown = seen.shown \cup P
  BY <1>0 DEF Turned
<1> SUFFICES ASSUME ~Plain, NEW x \in Begun, \A y \in seen.shown \cup P : y[1] # x[1]
             PROVE  Newer(x[1], Listed) >= scroll.offset + Cardinality(P)
  BY <1>1 DEF UnseenAreBelow, Plain, Newer
<1>2. PICK z \in Listed : /\ Place(z, Listed, f) = Newer(x[1], Listed)
                          /\ Place(z, Listed, f) >= scroll.offset + PageSize
  BY ShowPassesNone
<1>3. /\ scroll.offset \in Nat /\ Cardinality(P) \in Nat /\ Cardinality(P) <= PageSize
      /\ PageSize \in Nat /\ Place(z, Listed, f) \in Nat
  BY PageParts, ConstantFacts
<1> QED
  BY <1>2, <1>3

\* The last page of a list that is probed: nothing lies below it.
Ended(f) == Cardinality(Slice(Listed, f, scroll.offset, PageSize + 1)) <= PageSize

LEMMA EndedTells ==
  ASSUME TypeOK, NEW f, Ended(f), NEW x \in Listed
  PROVE  Place(x, Listed, f) < scroll.offset + PageSize
<1>1. Listed \subseteq Item /\ scroll.offset \in Nat /\ PageSize \in Nat
  BY ListedTyped, SeenTyped, ConstantFacts
<1> QED
  BY <1>1, ProbeTells DEF Ended

LEMMA ShowTellsAll ==
  ASSUME IInv, NEW P, NEW f, NEW more \in BOOLEAN, Shows(P, f, more),
         ~Plain /\ ~more => Ended(f)
  PROVE  EveryTransactionIsShown'
<1>0. Turned(P, more)
  BY ShowTurns
<1>1. /\ scroll'.surface = scroll.surface /\ scroll'.step = IF more THEN "more" ELSE "done"
      /\ seen'.throughout = Begun /\ seen'.shown = seen.shown \cup P
  BY <1>0 DEF Turned
<1> SUFFICES ASSUME ~Plain, ~more, NEW x \in Begun, \A y \in seen.shown \cup P : y[1] # x[1]
             PROVE  FALSE
  BY <1>1 DEF EveryTransactionIsShown, Plain
<1>2. PICK z \in Listed : Place(z, Listed, f) >= scroll.offset + PageSize
  BY ShowPassesNone
<1>3. Place(z, Listed, f) < scroll.offset + PageSize
  BY EndedTells DEF IInv
<1>4. Place(z, Listed, f) \in Nat /\ scroll.offset \in Nat /\ PageSize \in Nat
  BY PageParts, ConstantFacts
<1> QED
  BY <1>2, <1>3, <1>4

\* What a reader has not seen at the end was passed over or, where the end is told by a
\* count, lies beyond what was counted.
LEMMA ShowMisses ==
  ASSUME IInv, NEW P, NEW f, NEW more \in BOOLEAN, Shows(P, f, more),
         ~more /\ scroll.surface = "feed" => Ended(f),
         ~more /\ scroll.surface = "mentions" =>
           scroll.step = "counted" /\ scroll.offset + Cardinality(P) >= scroll.count
  PROVE  MissesAreRemovals'
<1>0. Turned(P, more)
  BY ShowTurns
<1>1. /\ scroll'.surface = scroll.surface /\ scroll'.step = IF more THEN "more" ELSE "done"
      /\ seen'.throughout = Begun /\ seen'.shown = seen.shown \cup P
      /\ seen'.removals = seen.removals /\ seen'.racing = seen.racing /\ Begun \subseteq Listed
  BY <1>0 DEF Turned
<1> DEFINE U == Begun \ (seen.shown \cup P)
<1> SUFFICES ASSUME Plain, ~more
             PROVE  Cardinality(U) <= seen.removals + seen.racing
  BY <1>1 DEF MissesAreRemovals, Plain
<1>2. TypeOK /\ BeginsFresh /\ SkippedAreRemovals /\ CountHolds
  BY DEF IInv
<1>3. Listed \subseteq Rows /\ Listed \subseteq Item /\ scroll.surface \in Surfaces
  BY <1>2, ListedTyped, SeenTyped
<1>4. /\ scroll.offset \in Nat /\ Cardinality(P) \in Nat /\ Cardinality(P) <= PageSize
      /\ PageSize \in Nat
  BY PageParts, ConstantFacts
<1>5. ASSUME NEW x \in U, x \notin Skipped
      PROVE  /\ x \in Listed /\ Place(x, Listed, f) \in Nat
             /\ Place(x, Listed, f) >= scroll.offset + PageSize
  <2>1. x \in Listed /\ x \in Rows /\ x \in Begun /\ x \notin seen.shown /\ x \notin P
    BY <1>1, <1>3
  <2>2. /\ Place(x, Listed, f) \in Nat
        /\ Place(x, Listed, f) < scroll.offset + PageSize => Place(x, Listed, f) < scroll.offset
    BY <2>1, PageParts
  <2>3. ~(Place(x, Listed, f) < scroll.offset)
    <3>1. SUFFICES ASSUME Place(x, Listed, f) < scroll.offset PROVE FALSE
      OBVIOUS
    <3>2. scroll.step # "idle"
      <4>1. scroll.step = "idle" => scroll.offset = 0
        BY <1>2 DEF BeginsFresh
      <4> QED
        BY <2>2, <3>1, <4>1
    <3>3. Newer(x[1], Listed) < scroll.offset
      BY <1>3, <2>1, <3>1, PlaceOfRow
    <3> QED
      BY <1>5, <2>1, <3>2, <3>3 DEF Skipped, Begun
  <2> QED
    BY <1>4, <2>1, <2>2, <2>3
<1>6. Skipped \subseteq Item /\ U \subseteq Item /\ U \ Skipped \subseteq Listed
  BY <1>1, <1>2, <1>3, SeenTyped DEF Skipped
<1>7. /\ Cardinality(U) <= Cardinality(Skipped) + Cardinality(U \ Skipped)
      /\ Cardinality(U) \in Nat /\ Cardinality(Skipped) \in Nat
      /\ Cardinality(U \ Skipped) \in Nat
  BY <1>6, Spill
<1>8. Cardinality(Skipped) <= seen.removals /\ seen.removals \in Nat /\ seen.racing \in Nat
  BY <1>2, SeenTyped DEF SkippedAreRemovals
<1>9. Cardinality(U \ Skipped) <= seen.racing
  <2>1. CASE scroll.surface = "feed"
    <3>1. U \ Skipped = {}
      <4>1. SUFFICES ASSUME NEW x \in U, x \notin Skipped PROVE FALSE
        OBVIOUS
      <4>2. /\ x \in Listed /\ Place(x, Listed, f) \in Nat
            /\ Place(x, Listed, f) >= scroll.offset + PageSize
        BY <1>5, <4>1
      <4>3. Place(x, Listed, f) < scroll.offset + PageSize
        BY <1>2, <2>1, <4>2, EndedTells
      <4> QED
        BY <1>4, <4>2, <4>3
    <3> QED
      BY <1>8, <3>1, FS_EmptySet
  <2>2. CASE scroll.surface = "mentions"
    <3> DEFINE o == scroll.offset + Cardinality(P)
               n == Cardinality(Listed) - o
    <3>1. /\ o \in Nat /\ o >= scroll.count /\ scroll.count \in Nat
          /\ Cardinality(Listed) \in Nat /\ Cardinality(Listed) <= scroll.count + seen.racing
      <4>1. scroll.count \in Nat /\ Cardinality(Listed) \in Nat
        BY <1>2, <1>3, SeenTyped, ListsAreFinite
      <4>2. Cardinality(Listed) <= scroll.count + seen.racing
        BY <1>2, <2>2 DEF CountHolds
      <4>3. o >= scroll.count
        BY <2>2
      <4> QED
        BY <1>4, <4>1, <4>2, <4>3
    <3>2. ASSUME NEW x \in U \ Skipped
          PROVE  Place(x, Listed, f) \in o .. (o + n - 1) /\ n > 0
      <4>1. /\ x \in Listed /\ Place(x, Listed, f) \in Nat
            /\ Place(x, Listed, f) >= scroll.offset + PageSize
        BY <1>5
      <4>2. Place(x, Listed, f) < Cardinality(Listed)
        BY <1>3, <4>1, PlaceTyped
      <4> QED
        BY <1>4, <3>1, <4>1, <4>2
    <3>3. CASE U \ Skipped = {}
      BY <1>8, <3>3, FS_EmptySet
    <3>4. CASE U \ Skipped # {}
      <4>1. n \in Nat /\ o \in Int
        <5>1. n > 0
          BY <3>2, <3>4
        <5>2. n \in Int
          BY <3>1
        <5> QED
          BY <3>1, <5>1, <5>2
      <4>2. Cardinality(U \ Skipped) <= n
        <5> HIDE DEF n, o, U
        <5> QED
          BY <1>3, <1>6, <3>2, <4>1, Crowded
      <4> QED
        <5> HIDE DEF U
        <5> QED
          BY <1>7, <1>8, <3>1, <4>1, <4>2
    <3> QED
      BY <3>3, <3>4
  <2> QED
    BY <1>3, <2>1, <2>2 DEF Plain, Surfaces
<1> HIDE DEF U
<1> QED
  BY <1>7, <1>8, <1>9

\* A page that something follows has rows, of which one is the first and one the last.
LEMMA PageEnds ==
  ASSUME NEW P, P \subseteq Rows, P # {}
  PROVE  /\ \E x \in P : \A y \in P : x[1] >= y[1]
         /\ \E x \in P : \A y \in P : x[1] <= y[1]
<1>1. P \subseteq Item /\ Cardinality(P) \in Nat /\ IsFiniteSet(P)
  <2>1. P \subseteq Item
    BY RowParts
  <2> QED
    BY <2>1, ListsAreFinite
<1>2. Cardinality(P) > 0
  BY <1>1, FS_EmptySet
<1>3. PICK x \in P : Place(x, P, {}) = 0
  BY <1>1, <1>2, PlacesAreFilled
<1>4. PICK z \in P : Place(z, P, {}) = Cardinality(P) - 1
  <2>1. Cardinality(P) - 1 \in Nat /\ Cardinality(P) - 1 < Cardinality(P)
    BY <1>1, <1>2
  <2> QED
    BY <1>1, <2>1, PlacesAreFilled
<1>5. ASSUME NEW y \in P PROVE x[1] >= y[1] /\ z[1] <= y[1]
  <2>1. x \in Rows /\ y \in Rows /\ z \in Rows
    BY <1>3, <1>4
  <2>2. /\ Place(y, P, {}) \in Nat /\ Place(y, P, {}) < Cardinality(P)
        /\ Place(x, P, {}) \in Nat /\ Place(z, P, {}) \in Nat
    BY <1>1, <1>3, <1>4, PlaceTyped
  <2>3. ~(y[1] > x[1])
    <3>1. Above(y, x, {}) => Place(y, P, {}) < Place(x, P, {})
      BY <1>1, <1>3, PlaceOrder
    <3> QED
      BY <1>3, <2>2, <3>1 DEF Above
  <2>4. ~(z[1] > y[1])
    <3>1. Above(z, y, {}) => Place(z, P, {}) < Place(y, P, {})
      BY <1>1, <1>4, PlaceOrder
    <3> QED
      BY <1>1, <1>4, <2>2, <3>1 DEF Above
  <2> QED
    BY <2>1, <2>3, <2>4, RowParts
<1> QED
  BY <1>3, <1>4, <1>5

\* Whatever is not later than a row of the list has as much above it.
LEMMA LaterIsAbove ==
  ASSUME NEW S, S \subseteq Rows, NEW x \in S, NEW b \in Nat, x[1] > b
  PROVE  Newer(x[1], S) < Newer(b, S)
<1> DEFINE U == {y \in S : y[1] > x[1]}
           V == {y \in S : y[1] > b}
<1>1. x \in V /\ x \notin U /\ U \subseteq V
  BY RowParts
<1>2. S \subseteq Item
  BY RowParts
<1>3. IsFiniteSet(V) /\ Cardinality(U) \in Nat /\ Cardinality(V) \in Nat
  BY <1>2, ListsAreFinite
<1>4. Cardinality(U) <= Cardinality(V) /\ (Cardinality(V) = Cardinality(U) => V = U)
  BY <1>1, <1>3, FS_Subset
<1> QED
  BY <1>1, <1>3, <1>4 DEF Newer

\* With one arrival at most, the rows of the next page are of no younger bucket than
\* the one that ended the page before.
LEMMA PageIsOlder ==
  ASSUME IInv, scroll.surface = "feed", scroll.step = "more", seen.arrivals < 2,
         NEW P, NEW f, NEW more \in BOOLEAN, Shows(P, f, more), NEW x \in P
  PROVE  /\ scroll.cont \in Slugs
         /\ \A slug \in seen.headers : SlugAge(slug) <= SlugAge(scroll.cont)
         /\ SlugAge(scroll.cont) <= SlugAge(Slug(x))
<1>1. TypeOK /\ Clocked /\ PagesGoBack
  BY DEF IInv
<1>2. /\ scroll.cont \in Slugs
      /\ \A slug \in seen.headers : SlugAge(slug) <= SlugAge(scroll.cont)
  BY <1>1 DEF PagesGoBack
<1>3. PICK b \in Stamps : /\ Newer(b, Listed) < scroll.offset + seen.arrivals
                          /\ SlugAge(scroll.cont) <= SlugAge(Slug(<<b, 1>>))
  BY <1>1 DEF PagesGoBack
<1>4. Listed \subseteq Rows /\ Listed \subseteq Item
  BY <1>1, ListedTyped DEF Plain
<1>5. x \in Listed /\ x \in Rows /\ x \in Item /\ b \in Nat /\ <<b, 1>> \in Item
  BY <1>4, PageParts, RowParts, ConstantFacts DEF Item, Stamps
<1>6. Newer(x[1], Listed) >= scroll.offset
  <2>1. Place(x, Listed, f) >= scroll.offset
    BY <1>5, PageParts
  <2> QED
    BY <1>4, <1>5, <2>1, PlaceOfRow
<1>7. x[1] <= b
  <2>1. SUFFICES ASSUME x[1] > b PROVE FALSE
    BY <1>5, RowParts
  <2>2. Newer(x[1], Listed) < Newer(b, Listed)
    BY <1>4, <1>5, <2>1, LaterIsAbove
  <2>3. Newer(x[1], Listed) \in Nat /\ Newer(b, Listed) \in Nat
    BY <1>4, NewerTyped
  <2>4. seen.arrivals \in Nat /\ scroll.offset \in Nat
    BY <1>1, SeenTyped
  <2> QED
    BY <1>3, <1>6, <2>2, <2>3, <2>4
<1>8. SlugAge(Slug(<<b, 1>>)) <= SlugAge(Slug(x))
  <2>1. <<b, 1>>[1] = b
    OBVIOUS
  <2> QED
    BY <1>1, <1>5, <1>7, <2>1, SlugAges
<1>9. /\ SlugAge(scroll.cont) \in Nat /\ SlugAge(Slug(x)) \in Nat
      /\ SlugAge(Slug(<<b, 1>>)) \in Nat
  BY <1>2, SlugTyped, SlugsOfAnAge
<1> QED
  BY <1>2, <1>3, <1>8, <1>9

\* A page that goes back in time repeats no header but the one it continues, which it
\* leaves out.
LEMMA HeadersAreNew ==
  ASSUME IInv, scroll.surface = "feed", scroll.step \in {"idle", "more"}, seen.arrivals < 2,
         NEW P, NEW f, NEW more \in BOOLEAN, Shows(P, f, more)
  PROVE  Headers(P) \cap seen.headers = {}
<1>1. TypeOK /\ Clocked /\ BeginsFresh
  BY DEF IInv
<1>2. CASE scroll.step = "idle"
  BY <1>1, <1>2 DEF BeginsFresh
<1>3. CASE scroll.step = "more"
  <2> SUFFICES ASSUME NEW s \in Headers(P), s \in seen.headers PROVE FALSE
    OBVIOUS
  <2>1. PICK x \in P : s = Slug(x)
    BY HeadersTyped
  <2>2. P \subseteq Rows /\ P \subseteq Item
    BY <1>1, PageParts, ListedTyped DEF Plain
  <2>3. /\ scroll.cont \in Slugs /\ SlugAge(s) <= SlugAge(scroll.cont)
        /\ SlugAge(scroll.cont) <= SlugAge(s)
    BY <1>3, <2>1, PageIsOlder
  <2>4. s \in Slugs /\ s = scroll.cont
    <3>1. s \in Slugs
      BY <2>1, SlugTyped
    <3> QED
      BY <2>3, <3>1, SlugsOfAnAge
  <2> DEFINE first == CHOOSE z \in P : \A y \in P : z[1] >= y[1]
  <2>5. first \in P /\ first[1] >= x[1]
    <3>1. \E z \in P : \A y \in P : z[1] >= y[1]
      BY <2>2, PageEnds
    <3> QED
      BY <3>1
  <2>6. FirstSlug(P) = Slug(first)
    BY <2>1 DEF FirstSlug
  <2> HIDE DEF first
  <2>7. SlugAge(Slug(first)) <= SlugAge(s)
    <3>1. x[1] <= first[1]
      BY <2>2, <2>5, ItemParts
    <3> QED
      BY <1>1, <2>1, <2>2, <2>5, <3>1, SlugAges
  <2>8. SlugAge(scroll.cont) <= SlugAge(Slug(first))
    BY <1>3, <2>5, PageIsOlder
  <2>9. Slug(first) = scroll.cont
    <3>1. Slug(first) \in Slugs
      BY SlugTyped
    <3> QED
      BY <2>4, <2>7, <2>8, <3>1, SlugsOfAnAge
  <2> QED
    BY <2>4, <2>6, <2>9 DEF Headers
<1> QED
  BY <1>2, <1>3

LEMMA ShowGoesBack ==
  ASSUME IInv, NEW P, NEW f, NEW more \in BOOLEAN, Shows(P, f, more),
         scroll.surface = "feed" => scroll.step \in {"idle", "more"} /\ (more => ~Ended(f))
  PROVE  PagesGoBack'
<1>0. Turned(P, more)
  BY ShowTurns
<1>1. /\ Listed' = Listed /\ days' = days
      /\ scroll'.surface = scroll.surface /\ scroll'.step = IF more THEN "more" ELSE "done"
      /\ scroll'.offset = scroll.offset + Cardinality(P) /\ scroll'.cont = NextCont(P)
      /\ seen'.headers = seen.headers \cup Headers(P)
      /\ seen'.headerAgain = seen.headerAgain + Cardinality(Headers(P) \cap seen.headers)
      /\ seen'.arrivals = seen.arrivals
  BY <1>0 DEF Turned
<1> SUFFICES ASSUME scroll.surface = "feed", seen.arrivals < 2
             PROVE  /\ seen'.headerAgain = 0
                    /\ more =>
                         /\ NextCont(P) \in Slugs
                         /\ \A slug \in seen.headers \cup Headers(P) :
                              SlugAge(slug) <= SlugAge(NextCont(P))
                         /\ \E b \in Stamps :
                              /\ Newer(b, Listed) < scroll.offset + Cardinality(P) + seen.arrivals
                              /\ SlugAge(NextCont(P)) <= SlugAge(Slug(<<b, 1>>))
  BY <1>1 DEF PagesGoBack, Newer, SlugAge, Slug
<1>2. TypeOK /\ Clocked /\ BeginsFresh /\ PagesGoBack
  BY DEF IInv
<1>3. seen'.headerAgain = 0
  <2>1. Headers(P) \cap seen.headers = {}
    BY HeadersAreNew
  <2>2. Cardinality(Headers(P) \cap seen.headers) = 0
    BY <2>1, FS_EmptySet
  <2>3. seen.headerAgain = 0
    BY <1>2 DEF PagesGoBack
  <2> QED
    BY <1>1, <2>2, <2>3
<1>4. ASSUME more
      PROVE  /\ NextCont(P) \in Slugs
             /\ \A slug \in seen.headers \cup Headers(P) : SlugAge(slug) <= SlugAge(NextCont(P))
             /\ \E b \in Stamps :
                  /\ Newer(b, Listed) < scroll.offset + Cardinality(P) + seen.arrivals
                  /\ SlugAge(NextCont(P)) <= SlugAge(Slug(<<b, 1>>))
  <2>1. /\ P \subseteq Listed /\ Listed \subseteq Rows /\ Listed \subseteq Item /\ P \subseteq Rows
        /\ P \subseteq Item /\ scroll.offset \in Nat /\ PageSize \in Nat /\ PageSize >= 1
        /\ Cardinality(P) \in Nat
    BY <1>2, PageParts, ListedTyped, ConstantFacts DEF Plain
  <2>2. P # {}
    <3>1. Slice(Listed, f, scroll.offset, PageSize + 1) # {}
      <4>1. ~(Cardinality(Slice(Listed, f, scroll.offset, PageSize + 1)) <= PageSize)
        BY <1>4 DEF Ended
      <4>2. Cardinality({}) = 0 /\ 0 <= PageSize
        BY <2>1, FS_EmptySet
      <4> QED
        BY <4>1, <4>2
    <3>2. PICK x \in Listed : Place(x, Listed, f) \in scroll.offset .. (scroll.offset + (PageSize + 1) - 1)
      BY <3>1 DEF Slice
    <3>3. scroll.offset < Cardinality(Listed)
      BY <2>1, <3>2, PlaceTyped, ListsAreFinite
    <3>4. PICK z \in Listed : Place(z, Listed, f) = scroll.offset
      BY <2>1, <3>3, PlacesAreFilled
    <3>5. Place(z, Listed, f) < scroll.offset + PageSize
      BY <2>1, <3>4
    <3>6. ~(Place(z, Listed, f) < scroll.offset)
      BY <2>1, <3>4
    <3> QED
      BY <3>5, <3>6, PageParts
  <2> DEFINE last == CHOOSE x \in P : \A y \in P : x[1] <= y[1]
  <2>3. last \in P /\ \A y \in P : last[1] <= y[1]
    <3>1. \E x \in P : \A y \in P : x[1] <= y[1]
      BY <2>1, <2>2, PageEnds
    <3> QED
      BY <3>1
  <2>4. NextCont(P) = Slug(last)
    BY <2>2 DEF NextCont
  <2> HIDE DEF last
  <2>5. NextCont(P) \in Slugs
    BY <2>4, SlugTyped
  <2>6. ASSUME NEW slug \in Headers(P) PROVE SlugAge(slug) <= SlugAge(NextCont(P))
    <3>1. PICK x \in P : slug = Slug(x)
      BY HeadersTyped
    <3> QED
      BY <1>2, <2>1, <2>3, <2>4, <3>1, SlugAges
  <2>7. ASSUME NEW slug \in seen.headers PROVE SlugAge(slug) <= SlugAge(NextCont(P))
    <3>1. scroll.step = "more"
      BY <1>2 DEF BeginsFresh
    <3>2. /\ SlugAge(slug) <= SlugAge(scroll.cont) /\ scroll.cont \in Slugs
          /\ SlugAge(scroll.cont) <= SlugAge(Slug(last))
      BY <2>3, <3>1, PageIsOlder
    <3>3. slug \in Slugs /\ Slug(last) \in Slugs
      BY <1>2, SeenTyped, SlugTyped
    <3>4. SlugAge(slug) \in Nat /\ SlugAge(scroll.cont) \in Nat /\ SlugAge(Slug(last)) \in Nat
      BY <3>2, <3>3, SlugsOfAnAge
    <3> QED
      BY <2>4, <3>2, <3>4
  <2>8. last[1] \in Stamps /\ last = <<last[1], 1>> /\ last \in Rows /\ last \in Listed
    BY <2>1, <2>3, RowParts
  <2>9. Newer(last[1], Listed) < scroll.offset + Cardinality(P) + seen.arrivals
    <3>1. Place(last, Listed, f) < scroll.offset + Cardinality(P)
      BY <2>3, <2>8, PageParts
    <3>2. Place(last, Listed, f) = Newer(last[1], Listed)
      BY <2>1, <2>8, PlaceOfRow
    <3>3. seen.arrivals \in Nat /\ Newer(last[1], Listed) \in Nat
      BY <1>2, <2>1, SeenTyped, NewerTyped
    <3> QED
      BY <2>1, <3>1, <3>2, <3>3
  <2>10. SlugAge(NextCont(P)) <= SlugAge(Slug(<<last[1], 1>>))
    <3>1. SlugAge(NextCont(P)) \in Nat
      BY <2>5, SlugsOfAnAge
    <3> QED
      BY <2>4, <2>8, <3>1
  <2> QED
    BY <2>5, <2>6, <2>7, <2>8, <2>9, <2>10
<1> QED
  BY <1>3, <1>4

LEMMA ShowHolds ==
  ASSUME IInv, NEW P, NEW f, NEW more \in BOOLEAN, Shows(P, f, more),
         ~more /\ scroll.surface # "mentions" => Ended(f),
         ~more /\ scroll.surface = "mentions" =>
           scroll.step = "counted" /\ scroll.offset + Cardinality(P) >= scroll.count,
         scroll.surface = "feed" => scroll.step \in {"idle", "more"} /\ (more => ~Ended(f))
  PROVE  IInv'
<1>1. TypeOK' /\ Clocked' /\ Turned(P, more)
  BY ShowTurns
<1>2. StillListed' /\ BeginsFresh' /\ CountHolds'
  <2>1. scroll'.step \in {"more", "done"}
    BY <1>1 DEF Turned
  <2>2. seen'.throughout \subseteq Listed'
    BY <1>1 DEF Turned
  <2> QED
    BY <2>1, <2>2 DEF StillListed, BeginsFresh, CountHolds
<1>3. SkippedAreRemovals' /\ AgainAreArrivals' /\ UnseenAreBelow'
  BY ShowSkips, ShowRepeats, ShowTransactions
<1>4. PagesGoBack'
  BY ShowGoesBack
<1>5. MissesAreRemovals'
  <2>1. ~more /\ scroll.surface = "feed" => Ended(f)
    OBVIOUS
  <2> QED
    BY <2>1, ShowMisses
<1>6. EveryTransactionIsShown'
  <2>1. ~Plain /\ ~more => Ended(f)
    BY DEF Plain
  <2> QED
    BY <2>1, ShowTellsAll
<1> QED
  BY <1>1, <1>2, <1>3, <1>4, <1>5, <1>6 DEF IInv

LEMMA LoadProbedHolds ==
  ASSUME IInv, LoadProbed
  PROVE  IInv'
<1>1. /\ scroll.surface \in {"feed", "activity"} /\ scroll.step \in {"idle", "more"}
      /\ \E f \in SUBSET Straddling : Render(Window(PageSize, f), More(f))
  BY DEF LoadProbed
<1>2. PICK f : Render(Window(PageSize, f), More(f))
  BY <1>1
<1> DEFINE P == Window(PageSize, f)
           more == More(f)
<1>3. more \in BOOLEAN /\ P = Slice(Listed, f, scroll.offset, PageSize)
  BY WindowIsSlice DEF More
<1>4. more <=> ~Ended(f)
  <2>1. more <=> Cardinality(Slice(Listed, f, scroll.offset, PageSize + 1)) > PageSize
    BY WindowIsSlice DEF More
  <2>2. Cardinality(Slice(Listed, f, scroll.offset, PageSize + 1)) \in Nat /\ PageSize \in Nat
    <3>1. Slice(Listed, f, scroll.offset, PageSize + 1) \subseteq Item
      BY ListedTyped DEF IInv, Slice
    <3> QED
      BY <3>1, ListsAreFinite, ConstantFacts
  <2> QED
    BY <2>1, <2>2 DEF Ended
<1>5. Shows(P, f, more)
  BY <1>1, <1>2, <1>3 DEF Shows
<1> HIDE DEF P, more
<1>6. ~more /\ scroll.surface # "mentions" => Ended(f)
  BY <1>4
<1>7. ~more /\ scroll.surface = "mentions" =>
        scroll.step = "counted" /\ scroll.offset + Cardinality(P) >= scroll.count
  BY <1>1
<1>8. scroll.surface = "feed" => scroll.step \in {"idle", "more"} /\ (more => ~Ended(f))
  BY <1>1, <1>4
<1> QED
  BY <1>3, <1>5, <1>6, <1>7, <1>8, ShowHolds

LEMMA LoadMentionsHolds ==
  ASSUME IInv, LoadMentions
  PROVE  IInv'
<1> DEFINE P == Window(PageSize, {})
           more == NextOffset(scroll.offset, P) < scroll.count
<1>1. scroll.step = "counted" /\ Render(P, more)
  BY DEF LoadMentions
<1>2. scroll.surface = "mentions"
  BY <1>1 DEF IInv, CountHolds
<1>3. more \in BOOLEAN /\ P = Slice(Listed, {}, scroll.offset, PageSize)
  BY WindowIsSlice
<1>4. Shows(P, {}, more)
  BY <1>1, <1>3 DEF Shows
<1>5. ~more => scroll.offset + Cardinality(P) >= scroll.count
  <2>1. P \subseteq Item /\ Cardinality(P) \in Nat /\ scroll.offset \in Nat /\ scroll.count \in Nat
    <3>1. P \subseteq Item
      BY <1>3, ListedTyped DEF IInv, Slice
    <3> QED
      BY <3>1, ListsAreFinite, SeenTyped DEF IInv
  <2>2. more <=> scroll.offset + Cardinality(P) < scroll.count
    BY DEF NextOffset
  <2> HIDE DEF P, more
  <2> QED
    BY <2>1, <2>2
<1> HIDE DEF P, more
<1>6. ~more /\ scroll.surface # "mentions" => Ended({})
  BY <1>2
<1>7. ~more /\ scroll.surface = "mentions" =>
        scroll.step = "counted" /\ scroll.offset + Cardinality(P) >= scroll.count
  BY <1>1, <1>5
<1>8. scroll.surface = "feed" => scroll.step \in {"idle", "more"} /\ (more => ~Ended({}))
  BY <1>2
<1> QED
  BY <1>3, <1>4, <1>6, <1>7, <1>8, ShowHolds

LEMMA LoadCountHolds ==
  ASSUME IInv, LoadCount
  PROVE  IInv'
<1>1. /\ TypeOK /\ Clocked /\ BeginsFresh /\ StillListed /\ SkippedAreRemovals
      /\ AgainAreArrivals
  BY DEF IInv
<1>2. /\ scroll.surface = "mentions" /\ scroll.step \in {"idle", "more"}
      /\ scroll' = [scroll EXCEPT !.step = "counted", !.count = Cardinality(Listed)]
      /\ seen' = IF scroll.step = "idle" THEN [seen EXCEPT !.throughout = Listed] ELSE seen
      /\ clock' = clock /\ rows' = rows /\ events' = events /\ days' = days
  BY DEF LoadCount
<1>3. /\ Listed \subseteq Item /\ Cardinality(Listed) \in Nat
      /\ scroll \in Scroll /\ seen \in Seen
  BY <1>1, ListedTyped DEF TypeOK
<1>4. /\ scroll' \in Scroll /\ scroll'.surface = "mentions" /\ scroll'.step = "counted"
      /\ scroll'.offset = scroll.offset /\ scroll'.count = Cardinality(Listed)
  BY <1>2, <1>3 DEF Scroll
<1>5. /\ seen' \in Seen /\ seen'.throughout = Begun /\ seen'.shown = seen.shown
      /\ seen'.repeats = seen.repeats /\ seen'.arrivals = seen.arrivals
      /\ seen'.removals = seen.removals /\ seen'.racing = seen.racing
  <2>1. CASE scroll.step = "idle"
    <3>1. seen' = [seen EXCEPT !.throughout = Listed]
      BY <1>2, <2>1
    <3>2. seen'.throughout = Listed /\ seen' \in Seen
      BY <1>3, <3>1 DEF Seen
    <3> QED
      BY <1>3, <2>1, <3>1, <3>2 DEF Seen, Begun
  <2>2. CASE scroll.step # "idle"
    BY <1>2, <1>3, <2>2 DEF Begun
  <2> QED
    BY <2>1, <2>2
<1>6. Listed' = Listed
  BY <1>2, <1>4 DEF Listed
<1>7. TypeOK' /\ Clocked'
  BY <1>1, <1>2, <1>4, <1>5 DEF TypeOK, Clocked
<1>8. StillListed'
  BY <1>1, <1>5, <1>6 DEF StillListed, Begun
<1>9. CountHolds'
  <2>1. seen.racing \in Nat
    BY <1>1, SeenTyped
  <2> QED
    BY <1>3, <1>4, <1>5, <1>6, <2>1 DEF CountHolds
<1>10. SkippedAreRemovals'
  <2>1. Skipped' = {x \in Begun \ seen.shown : Newer(x[1], Listed) < scroll.offset}
    BY <1>4, <1>5, <1>6 DEF Skipped, Newer
  <2>2. CASE scroll.step = "idle"
    <3>1. scroll.offset = 0 /\ seen.removals = 0
      BY <1>1, <2>2 DEF BeginsFresh
    <3>2. Skipped' = {}
      <4>1. \A x \in Skipped' : Newer(x[1], Listed) \in Nat /\ Newer(x[1], Listed) < 0
        BY <1>3, <2>1, <3>1, NewerTyped
      <4> QED
        BY <4>1
    <3>3. Cardinality(Skipped') = 0
      BY <3>2, FS_EmptySet
    <3> QED
      BY <1>5, <3>1, <3>3 DEF SkippedAreRemovals
  <2>3. CASE scroll.step # "idle"
    <3>1. Skipped' = Skipped
      BY <2>1, <2>3 DEF Skipped, Begun
    <3>2. Plain
      BY <1>2 DEF Plain
    <3> QED
      BY <1>1, <1>5, <3>1, <3>2 DEF SkippedAreRemovals
  <2> QED
    BY <2>2, <2>3
<1>11. AgainAreArrivals'
  <2>1. Again' = Again
    BY <1>4, <1>5, <1>6 DEF Again, Newer
  <2>2. Plain
    BY <1>2 DEF Plain
  <2> QED
    BY <1>1, <1>5, <2>1, <2>2 DEF AgainAreArrivals
<1>12. /\ BeginsFresh' /\ UnseenAreBelow' /\ PagesGoBack' /\ MissesAreRemovals'
       /\ EveryTransactionIsShown'
  BY <1>4 DEF BeginsFresh, UnseenAreBelow, PagesGoBack, MissesAreRemovals,
              EveryTransactionIsShown, Plain
<1> QED
  BY <1>7, <1>8, <1>9, <1>10, <1>11, <1>12 DEF IInv

-----------------------------------------------------------------------------
(***************************************************************************)
(* The theorems.                                                           *)
(***************************************************************************)
LEMMA NextHolds == IInv /\ [Next]_vars => IInv'
<1> SUFFICES ASSUME IInv, [Next]_vars PROVE IInv'
  OBVIOUS
<1>1. CASE Write
  BY <1>1, WriteHolds
<1>2. CASE LoadProbed
  BY <1>2, LoadProbedHolds
<1>3. CASE LoadCount
  BY <1>3, LoadCountHolds
<1>4. CASE LoadMentions
  BY <1>4, LoadMentionsHolds
<1>5. CASE UNCHANGED vars
  BY <1>5 DEF vars, IInv, TypeOK, Clocked, BeginsFresh, StillListed, CountHolds, Skipped,
       SkippedAreRemovals, Again, AgainAreArrivals, UnseenAreBelow, PagesGoBack, Plain,
       MissesAreRemovals, EveryTransactionIsShown, Listed, Slug, Newer
<1> QED
  BY <1>1, <1>2, <1>3, <1>4, <1>5 DEF Next, Load

LEMMA Always == Spec => []IInv
BY InitHolds, NextHolds, PTL DEF Spec

\* The types of the schema and of the links that carry a list on.
THEOREM TypeCorrect == Spec => []TypeOK
<1>1. IInv => TypeOK
  BY DEF IInv
<1> QED
  BY <1>1, Always, PTL

\* However many rows come and go between however many pages, a reader who scrolls to
\* the end misses at most one row per row that left, and per one that raced a count.
THEOREM MissesAreRemovalsHolds == Spec => []MissesAreRemovals
<1>1. IInv => MissesAreRemovals
  BY DEF IInv
<1> QED
  BY <1>1, Always, PTL

\* A row is shown again at most once for each row that came.
THEOREM RepeatsAreArrivalsHolds == Spec => []RepeatsAreArrivals
<1>1. IInv => RepeatsAreArrivals
  <2> SUFFICES ASSUME IInv, Plain PROVE seen.repeats <= seen.arrivals
    BY DEF RepeatsAreArrivals, Plain
  <2>1. seen.repeats + Cardinality(Again) <= seen.arrivals
    BY DEF IInv, AgainAreArrivals
  <2>2. Again \subseteq Item /\ seen.repeats \in Nat /\ seen.arrivals \in Nat
    BY ListedTyped, SeenTyped DEF IInv, Again
  <2>3. Cardinality(Again) \in Nat
    BY <2>2, ListsAreFinite
  <2> QED
    BY <2>1, <2>2, <2>3
<1> QED
  BY <1>1, Always, PTL

\* The activity log shows something of every transaction that was logged when the
\* reading began, whichever way each query orders the events of one transaction.
THEOREM EveryTransactionIsShownHolds == Spec => []EveryTransactionIsShown
<1>1. IInv => EveryTransactionIsShown
  BY DEF IInv
<1> QED
  BY <1>1, Always, PTL

\* It takes two rows that come in to head a day twice; midnights and rows that leave,
\* however many, do not suffice.
THEOREM HeadersNeedTwoArrivalsHolds == Spec => []HeadersNeedTwoArrivals
<1>1. IInv => HeadersNeedTwoArrivals
  <2> SUFFICES ASSUME IInv, scroll.surface = "feed", seen.headerAgain > 0, seen.arrivals < 2
               PROVE  FALSE
    <3>1. IInv => seen.arrivals \in Nat
      BY SeenTyped DEF IInv
    <3> QED
      BY <3>1 DEF HeadersNeedTwoArrivals
  <2>1. seen.headerAgain = 0
    BY DEF IInv, PagesGoBack
  <2> QED
    BY <2>1
<1> QED
  BY <1>1, Always, PTL
=============================================================================

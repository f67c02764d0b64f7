--------------------------- MODULE ResourcesProofs ---------------------------
(***************************************************************************)
(* The layouts and resources of src/model.cpp and src/backend.cpp: sorting *)
(* puts keys in order without losing any, so that comparing neighbours     *)
(* finds every duplicate, a binary search finds what is there, and what is *)
(* admitted is exactly what the layout needs.                              *)
(***************************************************************************)
EXTENDS Resources, FiniteSetTheorems, WellFoundedInduction, TLAPS

(* Every set of naturals that is not empty has a least one. *)
LEMMA LeastNat ==
  ASSUME NEW T \in SUBSET Nat, T # {}
  PROVE  \E n \in T : \A m \in T : n <= m
<1> DEFINE R == OpToRel(<, Nat)
<1>1. IsWellFoundedOn(R, Nat)
  BY NatLessThanWellFounded
<1>2. \A m, k \in Nat : m < k => <<m, k>> \in R
  BY DEF OpToRel
<1> HIDE DEF R
<1>3. PICK n \in T : \A m \in T : <<m, n>> \notin R
  BY <1>1, WFMin
<1>4. \A m \in T : ~(m < n)
  BY <1>2, <1>3
<1>5. \A m \in T : n <= m
  BY <1>4
<1> QED BY <1>5

----------------------------------------------------------------------------
(* Lexicographic order of keys of one width is total, asymmetric and        *)
(* transitive.                                                              *)
Key(width) == [1..width -> Nat]

(* Of two keys of one width that differ, one comes first. *)
LEMMA LessIsTotal ==
  ASSUME NEW w \in Nat, NEW a \in Key(w), NEW b \in Key(w), a # b
  PROVE  Less(a, b) \/ Less(b, a)
<1> DEFINE Differ == {i \in 1..w : a[i] # b[i]}
<1>1. Differ # {} /\ Differ \in SUBSET Nat
  BY DEF Key
<1>2. PICK i \in Differ : \A j \in Differ : i <= j
  BY <1>1, LeastNat
<1>3. \A j \in 1..(i - 1) : a[j] = b[j]
  BY <1>2
<1>4. i \in DOMAIN a /\ i \in DOMAIN b /\ a[i] \in Nat /\ b[i] \in Nat /\ a[i] # b[i]
  BY <1>2 DEF Key
<1>5. a[i] < b[i] \/ b[i] < a[i]
  BY <1>4
<1> QED BY <1>3, <1>4, <1>5 DEF Less

(* No two keys come before one another. *)
LEMMA LessIsAsymmetric ==
  ASSUME NEW w \in Nat, NEW a \in Key(w), NEW b \in Key(w), Less(a, b)
  PROVE  ~Less(b, a)
<1> SUFFICES ASSUME Less(b, a) PROVE FALSE
  OBVIOUS
<1>1. PICK i \in 1..w : a[i] < b[i] /\ \A k \in 1..(i - 1) : a[k] = b[k]
  BY DEF Less, Key
<1>2. PICK j \in 1..w : b[j] < a[j] /\ \A k \in 1..(j - 1) : b[k] = a[k]
  BY DEF Less, Key
<1>3. a[i] \in Nat /\ b[i] \in Nat /\ a[j] \in Nat /\ b[j] \in Nat
  BY DEF Key
<1>4. i < j \/ j < i \/ i = j
  OBVIOUS
<1> QED BY <1>1, <1>2, <1>3, <1>4

(* What comes before a key comes before all that follow it. *)
LEMMA LessIsTransitive ==
  ASSUME NEW w \in Nat, NEW a \in Key(w), NEW b \in Key(w), NEW c \in Key(w),
         Less(a, b), Less(b, c)
  PROVE  Less(a, c)
<1>1. PICK i \in 1..w : a[i] < b[i] /\ \A k \in 1..(i - 1) : a[k] = b[k]
  BY DEF Less, Key
<1>2. PICK j \in 1..w : b[j] < c[j] /\ \A k \in 1..(j - 1) : b[k] = c[k]
  BY DEF Less, Key
<1>3. \A k \in 1..w : a[k] \in Nat /\ b[k] \in Nat /\ c[k] \in Nat
  BY DEF Key
<1> DEFINE m == IF i < j THEN i ELSE j
<1>4. m \in 1..w /\ a[m] < c[m]
  BY <1>1, <1>2, <1>3
<1>5. \A k \in 1..(m - 1) : a[k] = c[k]
  BY <1>1, <1>2
<1>6. DOMAIN a = 1..w
  BY DEF Key
<1> QED BY <1>4, <1>5, <1>6 DEF Less

----------------------------------------------------------------------------
(* Order puts elements in order.  Each has as many before it as its place   *)
(* says: Before is a strict total order of the places, and the number of    *)
(* elements before one is another number for each.                          *)

(* The elements at n places compare as std::sort demands: a strict weak     *)
(* order.                                                                   *)
Compares(less, n) ==
  /\ \A i, j \in 1..n : <<i, j>> \in less => <<j, i>> \notin less
  /\ \A i, j, k \in 1..n :
       <<i, k>> \in less => <<i, j>> \in less \/ <<j, k>> \in less

(* Of two places, one is before the other. *)
LEMMA BeforeIsStrict ==
  ASSUME NEW less, NEW n \in Nat, Compares(less, n),
         NEW i \in 1..n, NEW j \in 1..n
  PROVE  /\ Before(less, i, j) => ~Before(less, j, i)
         /\ i # j => Before(less, i, j) \/ Before(less, j, i)
<1>1. ~(<<i, j>> \in less /\ <<j, i>> \in less)
  BY DEF Compares
<1>2. ~(i < j /\ j < i) /\ (i # j => i < j \/ j < i)
  OBVIOUS
<1> QED BY <1>1, <1>2 DEF Before

(* The order of a stable sort is transitive. *)
LEMMA BeforeIsTransitive ==
  ASSUME NEW less, NEW n \in Nat, Compares(less, n),
         NEW i \in 1..n, NEW j \in 1..n, NEW k \in 1..n,
         Before(less, i, j), Before(less, j, k)
  PROVE  Before(less, i, k)
<1>1. CASE <<i, j>> \in less
  <2>1. <<k, j>> \notin less
    BY DEF Before, Compares
  <2>2. <<i, k>> \in less
    BY <1>1, <2>1 DEF Compares
  <2> QED BY <2>2 DEF Before
<1>2. CASE <<i, j>> \notin less /\ <<j, k>> \in less
  <2>1. <<j, i>> \notin less
    BY <1>2 DEF Before
  <2>2. <<i, k>> \in less
    BY <1>2, <2>1 DEF Compares
  <2> QED BY <2>2 DEF Before
<1>3. CASE <<i, j>> \notin less /\ <<j, k>> \notin less
  <2>1. <<j, i>> \notin less /\ <<k, j>> \notin less /\ i < j /\ j < k
    BY <1>3 DEF Before
  <2>2. <<k, i>> \notin less
    BY <2>1 DEF Compares
  <2>3. i < k
    BY <2>1
  <2> QED BY <2>2, <2>3 DEF Before
<1> QED BY <1>1, <1>2, <1>3

Ahead(less, n, i) == {j \in 1..n : Before(less, j, i)}

(* How many come before a position is its rank: fewer than all. *)
LEMMA AheadIsRank ==
  ASSUME NEW less, NEW n \in Nat, Compares(less, n), NEW i \in 1..n
  PROVE  /\ IsFiniteSet(Ahead(less, n, i))
         /\ Cardinality(Ahead(less, n, i)) \in 0..(n - 1)
<1> DEFINE A == Ahead(less, n, i)
<1>1. A \subseteq 1..n /\ i \notin A
  BY BeforeIsStrict DEF Ahead
<1>2. IsFiniteSet(1..n) /\ Cardinality(1..n) = n
  BY FS_Interval
<1>3. IsFiniteSet(A) /\ Cardinality(A) <= n /\ (Cardinality(A) = n => A = 1..n)
  BY <1>1, <1>2, FS_Subset
<1>4. Cardinality(A) \in Nat
  BY <1>3, FS_CardinalityType
<1>5. Cardinality(A) # n
  BY <1>1, <1>3
<1> HIDE DEF A
<1>6. Cardinality(A) \in 0..(n - 1)
  BY <1>3, <1>4, <1>5
<1> QED BY <1>3, <1>6 DEF A

(* Positions are ranked as they are ordered. *)
LEMMA RanksFollowOrder ==
  ASSUME NEW less, NEW n \in Nat, Compares(less, n),
         NEW i \in 1..n, NEW j \in 1..n, Before(less, i, j)
  PROVE  Cardinality(Ahead(less, n, i)) < Cardinality(Ahead(less, n, j))
<1> DEFINE A == Ahead(less, n, i)
           B == Ahead(less, n, j)
<1>1. A \subseteq B
  BY BeforeIsTransitive DEF Ahead
<1>2. i \in B /\ i \notin A
  BY BeforeIsStrict DEF Ahead
<1>3. IsFiniteSet(A) /\ IsFiniteSet(B) /\ Cardinality(A) \in Nat /\ Cardinality(B) \in Nat
  BY AheadIsRank
<1>4. Cardinality(A) <= Cardinality(B) /\ (Cardinality(A) = Cardinality(B) => A = B)
  BY <1>1, <1>3, FS_Subset
<1> HIDE DEF A, B
<1>5. Cardinality(A) < Cardinality(B)
  BY <1>2, <1>3, <1>4
<1> QED BY <1>5 DEF A, B

(* Every place has its element, and the elements are in order. *)
LEMMA OrderSorts ==
  ASSUME NEW less, NEW n \in Nat, Compares(less, n)
  PROVE  /\ Order(less, n) \in [1..n -> 1..n]
         /\ \A i \in 1..n : \E m \in 1..n : Order(less, n)[m] = i
         /\ \A l, m \in 1..n : l < m =>
              Before(less, Order(less, n)[l], Order(less, n)[m])
<1> DEFINE rank == [i \in 1..n |-> Cardinality(Ahead(less, n, i)) + 1]
<1>1. rank \in [1..n -> 1..n]
  <2> SUFFICES ASSUME NEW i \in 1..n
               PROVE  Cardinality(Ahead(less, n, i)) + 1 \in 1..n
    OBVIOUS
  <2>1. Cardinality(Ahead(less, n, i)) \in 0..(n - 1)
    BY AheadIsRank
  <2> QED BY <2>1
<1>2. \A i, j \in 1..n : Before(less, i, j) => rank[i] < rank[j]
  <2> SUFFICES ASSUME NEW i \in 1..n, NEW j \in 1..n, Before(less, i, j)
               PROVE  rank[i] < rank[j]
    OBVIOUS
  <2>1. Cardinality(Ahead(less, n, i)) < Cardinality(Ahead(less, n, j))
    BY RanksFollowOrder
  <2>2. Cardinality(Ahead(less, n, i)) \in Nat /\ Cardinality(Ahead(less, n, j)) \in Nat
    BY AheadIsRank
  <2> QED BY <2>1, <2>2
<1>2a. \A i \in 1..n : rank[i] = Cardinality(Ahead(less, n, i)) + 1
                         /\ Cardinality(Ahead(less, n, i)) \in Nat
  BY AheadIsRank
<1> HIDE DEF rank
<1>3. \A i, j \in 1..n : rank[i] = rank[j] => i = j
  <2> SUFFICES ASSUME NEW i \in 1..n, NEW j \in 1..n, rank[i] = rank[j], i # j
               PROVE  FALSE
    OBVIOUS
  <2>1. rank[i] < rank[j] \/ rank[j] < rank[i]
    BY <1>2, BeforeIsStrict
  <2>2. rank[i] \in Nat /\ rank[j] \in Nat
    BY <1>1
  <2> QED BY <2>1, <2>2
<1>4. \A m \in 1..n : \E i \in 1..n : rank[i] = m
  <2>1. rank \in Injection(1..n, 1..n)
    BY <1>1, <1>3 DEF Injection, IsInjective
  <2>2. IsFiniteSet(1..n)
    BY FS_Interval
  <2>3. rank \in Surjection(1..n, 1..n)
    BY <2>1, <2>2, FS_Injection
  <2> QED BY <2>3 DEF Surjection
<1>5. \A m \in 1..n : /\ Order(less, n)[m] \in 1..n
                      /\ rank[Order(less, n)[m]] = m
  <2> SUFFICES ASSUME NEW m \in 1..n
               PROVE  Order(less, n)[m] \in 1..n /\ rank[Order(less, n)[m]] = m
    OBVIOUS
  <2>1. PICK i \in 1..n : rank[i] = m
    BY <1>4
  <2>2. Cardinality(Ahead(less, n, i)) = m - 1
    BY <1>2a, <2>1
  <2>3. Order(less, n)[m] = CHOOSE k \in 1..n : Cardinality(Ahead(less, n, k)) = m - 1
    BY DEF Order, Ahead
  <2>4. /\ Order(less, n)[m] \in 1..n
        /\ Cardinality(Ahead(less, n, Order(less, n)[m])) = m - 1
    BY <2>2, <2>3
  <2> QED BY <1>2a, <2>4
<1>6. Order(less, n) \in [1..n -> 1..n]
  <2> DEFINE At(m) == CHOOSE i \in 1..n :
                        Cardinality({j \in 1..n : Before(less, j, i)}) = m - 1
  <2>1. Order(less, n) = [m \in 1..n |-> At(m)]
    BY DEF Order
  <2> HIDE DEF At, Order
  <2> QED BY <1>5, <2>1
<1>7. \A i \in 1..n : \E m \in 1..n : Order(less, n)[m] = i
  <2> SUFFICES ASSUME NEW i \in 1..n
               PROVE  \E m \in 1..n : Order(less, n)[m] = i
    OBVIOUS
  <2>1. rank[i] \in 1..n
    BY <1>1
  <2>2. rank[Order(less, n)[rank[i]]] = rank[i] /\ Order(less, n)[rank[i]] \in 1..n
    BY <1>5, <2>1
  <2>3. Order(less, n)[rank[i]] = i
    BY <1>3, <2>2
  <2> QED BY <2>1, <2>3
<1>8. ASSUME NEW l \in 1..n, NEW m \in 1..n, l < m
      PROVE  Before(less, Order(less, n)[l], Order(less, n)[m])
  <2> DEFINE i == Order(less, n)[l]
             j == Order(less, n)[m]
  <2>1. i \in 1..n /\ j \in 1..n /\ rank[i] = l /\ rank[j] = m
    BY <1>5
  <2> HIDE DEF i, j
  <2>2. i # j
    BY <1>8, <2>1
  <2>3. ~Before(less, j, i)
    BY <1>2, <1>8, <2>1
  <2>4. Before(less, i, j)
    BY <2>1, <2>2, <2>3, BeforeIsStrict
  <2> QED BY <2>4 DEF i, j
<1> QED BY <1>6, <1>7, <1>8

(* p puts n places in order: it loses and doubles no place. *)
Sorts(p, less, n) ==
  /\ p \in [1..n -> 1..n]
  /\ \A i \in 1..n : \E m \in 1..n : p[m] = i
  /\ \A l, m \in 1..n : p[l] = p[m] => l = m
  /\ \A l, m \in 1..n : l < m => <<p[m], p[l]>> \notin less

(* Sorting permutes, and leaves no element after a greater one. *)
LEMMA SortedSorts ==
  ASSUME NEW less, NEW n \in Nat, Compares(less, n)
  PROVE  Sorts(Order(less, n), less, n)
<1> DEFINE p == Order(less, n)
<1>1. /\ p \in [1..n -> 1..n]
      /\ \A i \in 1..n : \E m \in 1..n : p[m] = i
      /\ \A l, m \in 1..n : l < m => Before(less, p[l], p[m])
  BY OrderSorts
<1> HIDE DEF p
<1>3. \A l, m \in 1..n : l < m => <<p[m], p[l]>> \notin less /\ p[l] # p[m]
  <2> SUFFICES ASSUME NEW l \in 1..n, NEW m \in 1..n, l < m
               PROVE  <<p[m], p[l]>> \notin less /\ p[l] # p[m]
    OBVIOUS
  <2>1. p[l] \in 1..n /\ p[m] \in 1..n /\ Before(less, p[l], p[m])
    BY <1>1
  <2>2. ~Before(less, p[m], p[l])
    BY <2>1, BeforeIsStrict
  <2> QED BY <2>1, <2>2 DEF Before
<1>4. \A l, m \in 1..n : p[l] = p[m] => l = m
  <2> SUFFICES ASSUME NEW l \in 1..n, NEW m \in 1..n, p[l] = p[m], l # m
               PROVE  FALSE
    OBVIOUS
  <2>1. l < m \/ m < l
    OBVIOUS
  <2> QED BY <1>3, <2>1
<1>5. Sorts(p, less, n)
  BY <1>1, <1>3, <1>4 DEF Sorts
<1> QED BY <1>5 DEF p

(* t has the elements of s, in some order. *)
Rearranges(t, s) ==
  /\ Len(t) = Len(s)
  /\ \E p \in [1..Len(s) -> 1..Len(s)] :
       /\ \A m \in 1..Len(s) : t[m] = s[p[m]]
       /\ \A i \in 1..Len(s) : \E m \in 1..Len(s) : p[m] = i
       /\ \A l, m \in 1..Len(s) : p[l] = p[m] => l = m

(* A sorted sequence has the elements of the unsorted one, and none after a *)
(* greater one.                                                             *)
LEMMA SortedRearranges ==
  ASSUME NEW X, NEW s \in Seq(X), NEW less, Compares(less, Len(s))
  PROVE  /\ Sorted(s, less) \in Seq(X)
         /\ Rearranges(Sorted(s, less), s)
         /\ \E p : /\ Sorts(p, less, Len(s))
                   /\ \A m \in 1..Len(s) : Sorted(s, less)[m] = s[p[m]]
<1> DEFINE n == Len(s)
           t == Sorted(s, less)
           p == Order(less, n)
<1>1. n \in Nat /\ \A i \in 1..n : s[i] \in X
  OBVIOUS
<1>2. Sorts(p, less, n)
  BY <1>1, SortedSorts
<1>3. t = [m \in 1..n |-> s[p[m]]]
  BY DEF Sorted
<1> HIDE DEF p, n
<1>4. t \in [1..n -> X]
  <2>1. \A m \in 1..n : s[p[m]] \in X
    BY <1>1, <1>2 DEF Sorts
  <2> QED BY <1>3, <2>1
<1>5. t \in Seq(X) /\ Len(t) = n
  BY <1>1, <1>4
<1>6. \A m \in 1..n : t[m] = s[p[m]]
  BY <1>3
<1> HIDE DEF t
<1>7. n = Len(s)
  BY DEF n
<1>8. Rearranges(t, s)
  <2>1. /\ p \in [1..Len(s) -> 1..Len(s)]
        /\ \A m \in 1..Len(s) : t[m] = s[p[m]]
        /\ \A i \in 1..Len(s) : \E m \in 1..Len(s) : p[m] = i
        /\ \A l, m \in 1..Len(s) : p[l] = p[m] => l = m
    BY <1>2, <1>6, <1>7 DEF Sorts
  <2> QED BY <1>5, <1>7, <2>1 DEF Rearranges
<1> QED BY <1>2, <1>5, <1>6, <1>8 DEF t, n

(* R is a strict total order of X. *)
TotallyOrders(R, X) ==
  /\ \A x, y \in X : <<x, y>> \in R => <<y, x>> \notin R
  /\ \A x, y, z \in X : <<x, y>> \in R /\ <<y, z>> \in R => <<x, z>> \in R
  /\ \A x, y \in X : x # y => <<x, y>> \in R \/ <<y, x>> \in R

(* What is compared by a total order compares as a sort demands. *)
LEMMA OrderedPlacesCompare ==
  ASSUME NEW X, NEW R, TotallyOrders(R, X), NEW n \in Nat, NEW s \in [1..n -> X],
         NEW less, \A i, j \in 1..n : <<i, j>> \in less <=> <<s[i], s[j]>> \in R
  PROVE  Compares(less, n)
<1>1. ASSUME NEW i \in 1..n, NEW j \in 1..n, <<i, j>> \in less
      PROVE  <<j, i>> \notin less
  BY <1>1 DEF TotallyOrders
<1>2. ASSUME NEW i \in 1..n, NEW j \in 1..n, NEW k \in 1..n, <<i, k>> \in less,
             <<i, j>> \notin less
      PROVE  <<j, k>> \in less
  <2>1. CASE s[i] = s[j]
    BY <1>2, <2>1
  <2>2. CASE s[i] # s[j]
    <3>1. <<s[j], s[i]>> \in R /\ <<s[i], s[k]>> \in R
      BY <1>2, <2>2 DEF TotallyOrders
    <3>2. <<s[j], s[k]>> \in R
      BY <3>1 DEF TotallyOrders
    <3> QED BY <3>2
  <2> QED BY <2>1, <2>2
<1> QED BY <1>1, <1>2 DEF Compares

(* Keys of one width do. *)
LEMMA KeysCompare ==
  ASSUME NEW w \in Nat, NEW n \in Nat, NEW keys \in [1..n -> Key(w)], Len(keys) = n
  PROVE  /\ Compares(KeysLess(keys), n)
         /\ \A i, j \in 1..n : <<i, j>> \in KeysLess(keys) <=> Less(keys[i], keys[j])
<1> DEFINE R == {p \in Key(w) \X Key(w) : Less(p[1], p[2])}
<1>1. \A a, b \in Key(w) : <<a, b>> \in R <=> Less(a, b)
  OBVIOUS
<1>2. \A i, j \in 1..n : <<i, j>> \in KeysLess(keys) <=> Less(keys[i], keys[j])
  BY DEF KeysLess, PlacePairs
<1> HIDE DEF R
<1>3. TotallyOrders(R, Key(w))
  <2>1. \A a, b \in Key(w) : Less(a, b) => ~Less(b, a)
    BY LessIsAsymmetric
  <2>2. \A a, b, c \in Key(w) : Less(a, b) /\ Less(b, c) => Less(a, c)
    BY LessIsTransitive
  <2>3. \A a, b \in Key(w) : a # b => Less(a, b) \/ Less(b, a)
    BY LessIsTotal
  <2> QED BY <1>1, <2>1, <2>2, <2>3 DEF TotallyOrders
<1>4. \A i, j \in 1..n : <<i, j>> \in KeysLess(keys) <=> <<keys[i], keys[j]>> \in R
  BY <1>1, <1>2
<1> QED BY <1>2, <1>3, <1>4, OrderedPlacesCompare

(* A binary search stops at the first key that is not less. *)
LEMMA LowerBoundStops ==
  ASSUME NEW keys, NEW n \in Nat, Len(keys) = n, NEW key
  PROVE  LET i == LowerBound(keys, key)
         IN  /\ i \in 1..(n + 1)
             /\ i <= n => ~Less(keys[i], key)
             /\ \A j \in 1..(i - 1) : Less(keys[j], key)
<1> DEFINE Stops == {i \in 1..(n + 1) : i <= n => ~Less(keys[i], key)}
<1>1. n + 1 \in Stops /\ Stops \in SUBSET Nat
  OBVIOUS
<1>2. PICK i \in Stops : \A j \in Stops : i <= j
  BY <1>1, LeastNat
<1>3. \A j \in 1..(i - 1) : Less(keys[j], key)
  BY <1>2
<1>4. /\ i \in 1..(n + 1)
      /\ i <= n => ~Less(keys[i], key)
      /\ \A j \in 1..(i - 1) : Less(keys[j], key)
  BY <1>2, <1>3
<1> DEFINE Fits(x) == /\ x <= n => ~Less(keys[x], key)
                      /\ \A j \in 1..(x - 1) : Less(keys[j], key)
<1>5. \E x \in 1..(n + 1) : Fits(x)
  BY <1>4
<1>6. LowerBound(keys, key) = CHOOSE x \in 1..(n + 1) : Fits(x)
  BY DEF LowerBound
<1> HIDE DEF Fits
<1>7. LowerBound(keys, key) \in 1..(n + 1) /\ Fits(LowerBound(keys, key))
  BY <1>5, <1>6
<1> QED BY <1>7 DEF Fits

(* A key that is there once, among keys in order, is found. *)
LEMMA KeysAreFound ==
  ASSUME NEW w \in Nat, NEW n \in Nat, NEW keys \in [1..n -> Key(w)],
         Len(keys) = n,
         \A l, m \in 1..n : l < m => ~Less(keys[m], keys[l]),
         NEW k \in 1..n, \A i \in 1..n : keys[i] = keys[k] => i = k
  PROVE  LowerBound(keys, keys[k]) = k
<1> DEFINE i == LowerBound(keys, keys[k])
<1>1. /\ i \in 1..(n + 1)
      /\ i <= n => ~Less(keys[i], keys[k])
      /\ \A j \in 1..(i - 1) : Less(keys[j], keys[k])
  BY LowerBoundStops
<1> HIDE DEF i
<1>2. ~Less(keys[k], keys[k])
  BY LessIsAsymmetric
<1>3. i <= k
  BY <1>1, <1>2
<1>4. CASE i < k
  <2>1. ~Less(keys[i], keys[k]) /\ ~Less(keys[k], keys[i])
    BY <1>1, <1>4
  <2>2. keys[i] = keys[k]
    BY <1>1, <1>4, <2>1, LessIsTotal
  <2> QED BY <1>1, <1>4, <2>2
<1> QED BY <1>1, <1>3, <1>4 DEF i

----------------------------------------------------------------------------
(* The bindings of these callers are bindings. *)
LEMMA BindingsAreAny == Bindings \subseteq AnyBinding
<1> SUFFICES ASSUME NEW b \in Bindings PROVE b \in AnyBinding
  OBVIOUS
<1>1. b \in [slot : Slots, resource : Identities, access : {ReadOnly, Writable},
             mount : Mounts]
  BY DEF Bindings
<1>2. Slots \subseteq Nat \X Nat /\ Identities \subseteq Nat /\ Mounts \subseteq Nat
  BY ResourcesAssumption
<1>3. /\ b = [slot |-> b.slot, resource |-> b.resource, access |-> b.access,
              mount |-> b.mount]
      /\ b.slot \in Nat \X Nat /\ b.resource \in Nat /\ b.mount \in Nat
  BY <1>1, <1>2
<1>4. b.access \in Nat
  BY <1>1 DEF ReadOnly, Writable
<1> QED BY <1>3, <1>4 DEF AnyBinding

(* The keys of bindings: five numbers, the slot first. *)
LEMMA BindingKeysAreKeys ==
  ASSUME NEW b \in AnyBinding
  PROVE  /\ b.slot \in Key(2)
         /\ BindingKey(b) \in Key(5)
         /\ BindingKey(b)[1] = b.slot[1]
         /\ BindingKey(b)[2] = b.slot[2]
<1>1. b.slot \in Nat \X Nat /\ b.resource \in Nat /\ b.mount \in Nat
      /\ b.access \in Nat
  BY DEF AnyBinding
<1>2. PICK role \in Nat, name \in Nat : b.slot = <<role, name>>
  <2>1. b.slot = <<b.slot[1], b.slot[2]>> /\ b.slot[1] \in Nat /\ b.slot[2] \in Nat
    BY <1>1
  <2> QED BY <2>1
<1>3. BindingKey(b) = <<role, name, b.resource, b.access, b.mount>>
  BY <1>2 DEF BindingKey, Role, Name
<1>4. <<role, name>> \in Key(2)
  BY DEF Key
<1>5. <<role, name, b.resource, b.access, b.mount>> \in Key(5)
  BY <1>1 DEF Key
<1> QED BY <1>2, <1>3, <1>4, <1>5

(* So bindings in order have their slots in order. *)
LEMMA SlotsDecideFirst ==
  ASSUME NEW a \in AnyBinding, NEW b \in AnyBinding, Less(a.slot, b.slot)
  PROVE  Less(BindingKey(a), BindingKey(b))
<1> DEFINE p == a.slot
           q == b.slot
           k == BindingKey(a)
           l == BindingKey(b)
<1>1. /\ p \in Key(2) /\ k \in Key(5) /\ k[1] = p[1] /\ k[2] = p[2]
      /\ q \in Key(2) /\ l \in Key(5) /\ l[1] = q[1] /\ l[2] = q[2]
  BY BindingKeysAreKeys
<1> HIDE DEF p, q, k, l
<1>2. PICK i \in 1..2 : p[i] < q[i] /\ \A j \in 1..(i - 1) : p[j] = q[j]
  <2>1. Less(p, q)
    BY DEF p, q
  <2> QED BY <1>1, <2>1 DEF Less, Key
<1>3. i = 1 \/ i = 2
  OBVIOUS
<1>4. k[i] < l[i]
  BY <1>1, <1>2, <1>3
<1>5. \A j \in 1..(i - 1) : k[j] = l[j]
  <2>1. \A j \in 1..(i - 1) : j = 1
    BY <1>3
  <2> QED BY <1>1, <1>2, <2>1
<1>6. i \in DOMAIN k
  BY <1>1 DEF Key
<1>7. Less(k, l)
  BY <1>4, <1>5, <1>6 DEF Less
<1> QED BY <1>7 DEF k, l

(* Bindings in order: sorting loses and doubles none, and puts their slots  *)
(* in order.                                                                *)
LEMMA BindingsSort ==
  ASSUME NEW X \in SUBSET AnyBinding, NEW s \in Seq(X)
  PROVE  /\ SortedBindings(s) \in Seq(X)
         /\ Rearranges(SortedBindings(s), s)
         /\ \A l, m \in 1..Len(s) : l < m =>
              ~Less(SortedBindings(s)[m].slot, SortedBindings(s)[l].slot)
<1> DEFINE n == Len(s)
           keys == BindingKeys(s)
           less == KeysLess(keys)
           t == SortedBindings(s)
<1>1. n \in Nat /\ DOMAIN s = 1..n /\ \A i \in 1..n : s[i] \in X /\ s[i] \in AnyBinding
  OBVIOUS
<1>2. keys \in [1..n -> Key(5)] /\ \A i \in 1..n : keys[i] = BindingKey(s[i])
  BY <1>1, BindingKeysAreKeys DEF BindingKeys
<1>3. t = Sorted(s, less)
  BY DEF SortedBindings
<1> HIDE DEF keys, n
<1>4. Len(keys) = n
  BY <1>1, <1>2
<1>5. /\ Compares(less, n)
      /\ \A i, j \in 1..n : <<i, j>> \in less <=> Less(keys[i], keys[j])
  BY <1>1, <1>2, <1>4, KeysCompare
<1> HIDE DEF less, t
<1>6. Compares(less, Len(s))
  BY <1>5 DEF n
<1>7. /\ Sorted(s, less) \in Seq(X)
      /\ Rearranges(Sorted(s, less), s)
      /\ \E p : /\ Sorts(p, less, Len(s))
                /\ \A m \in 1..Len(s) : Sorted(s, less)[m] = s[p[m]]
  BY <1>6, SortedRearranges
<1>8. PICK p : Sorts(p, less, n) /\ \A m \in 1..n : t[m] = s[p[m]]
  BY <1>3, <1>7 DEF n
<1>9. ASSUME NEW l \in 1..n, NEW m \in 1..n, l < m
      PROVE  ~Less(t[m].slot, t[l].slot)
  <2>1. p[l] \in 1..n /\ p[m] \in 1..n /\ <<p[m], p[l]>> \notin less
    BY <1>8, <1>9 DEF Sorts
  <2>2. /\ t[l] \in AnyBinding /\ t[m] \in AnyBinding
        /\ keys[p[l]] = BindingKey(t[l]) /\ keys[p[m]] = BindingKey(t[m])
    BY <1>1, <1>2, <1>8, <2>1
  <2>3. ~Less(BindingKey(t[m]), BindingKey(t[l]))
    BY <1>5, <2>1, <2>2
  <2> QED BY <2>2, <2>3, SlotsDecideFirst
<1> QED BY <1>3, <1>7, <1>9 DEF t, n

(* Where slots are in order, equal ones are neighbours. *)
LEMMA DuplicatesAreNeighbours ==
  ASSUME NEW n \in Nat, NEW t \in [1..n -> AnyBinding],
         \A l, m \in 1..n : l < m => ~Less(t[m].slot, t[l].slot),
         \A i \in 2..n : t[i - 1].slot # t[i].slot
  PROVE  \A l, m \in 1..n : t[l].slot = t[m].slot => l = m
<1>1. ASSUME NEW l \in 1..n, NEW m \in 1..n, l < m, t[l].slot = t[m].slot
      PROVE  FALSE
  <2>1. l + 1 \in 2..n /\ l + 1 <= m /\ (l + 1) - 1 = l
    BY <1>1
  <2>2. t[l].slot # t[l + 1].slot
    BY <2>1
  <2>3. l + 1 # m
    BY <1>1, <2>2
  <2>4. l < l + 1 /\ l + 1 < m /\ l + 1 \in 1..n
    BY <2>1, <2>3
  <2>5. /\ ~Less(t[l + 1].slot, t[l].slot)
        /\ ~Less(t[l].slot, t[l + 1].slot)
    BY <1>1, <2>4
  <2>6. t[l].slot \in Key(2) /\ t[l + 1].slot \in Key(2)
    BY <2>4, BindingKeysAreKeys
  <2> QED BY <2>2, <2>5, <2>6, LessIsTotal
<1>2. ASSUME NEW l \in 1..n, NEW m \in 1..n, t[l].slot = t[m].slot, l # m
      PROVE  FALSE
  <2>1. l < m \/ m < l
    BY <1>2
  <2> QED BY <1>1, <1>2, <2>1
<1> QED BY <1>2

(* The first n values of f are different ones. *)
Apart(f, n) == \A i, j \in 1..n : f[i] = f[j] => i = j

Takes(f, n, x) == \E i \in 1..n : f[i] = x

(* Values that are apart are equal at one position only. *)
LEMMA ApartAt ==
  ASSUME NEW f, NEW n, Apart(f, n), NEW i \in 1..n, NEW j \in 1..n, f[i] = f[j]
  PROVE  i = j
  BY DEF Apart

(* Rearranging values keeps them, and keeps them apart. *)
LEMMA RearrangedValues ==
  ASSUME NEW n \in Nat, NEW p \in [1..n -> 1..n],
         \A i \in 1..n : \E m \in 1..n : p[m] = i,
         \A l, m \in 1..n : p[l] = p[m] => l = m,
         NEW f, NEW g, \A m \in 1..n : g[m] = f[p[m]]
  PROVE  /\ Apart(g, n) <=> Apart(f, n)
         /\ \A x : Takes(g, n, x) <=> Takes(f, n, x)
<1>1. ASSUME Apart(f, n), NEW l \in 1..n, NEW m \in 1..n, g[l] = g[m]
      PROVE  l = m
  <2>1. PICK i \in 1..n, j \in 1..n : i = p[l] /\ j = p[m]
    OBVIOUS
  <2>2. g[l] = f[i] /\ g[m] = f[j]
    BY <2>1
  <2>3. f[i] = f[j]
    BY <1>1, <2>2
  <2>4. Apart(f, n)
    BY <1>1
  <2>5. i = j
    BY <2>3, <2>4, ApartAt
  <2> QED BY <2>1, <2>5
<1>2. ASSUME \A l, m \in 1..n : g[l] = g[m] => l = m,
             NEW i \in 1..n, NEW j \in 1..n, f[i] = f[j]
      PROVE  i = j
  <2>1. PICK l \in 1..n : p[l] = i
    OBVIOUS
  <2>2. PICK m \in 1..n : p[m] = j
    OBVIOUS
  <2>3. g[l] = g[m]
    BY <1>2, <2>1, <2>2
  <2> QED BY <1>2, <2>1, <2>2, <2>3
<1>3. ASSUME NEW x, NEW i \in 1..n, f[i] = x
      PROVE  \E m \in 1..n : g[m] = x
  <2>1. PICK m \in 1..n : p[m] = i
    OBVIOUS
  <2> QED BY <1>3, <2>1
<1>4. ASSUME NEW x, NEW m \in 1..n, g[m] = x
      PROVE  \E i \in 1..n : f[i] = x
  BY <1>4
<1> QED BY <1>1, <1>2, <1>3, <1>4 DEF Apart, Takes

----------------------------------------------------------------------------
(* A layout seals exactly when its slots and mount points are unique and    *)
(* the working directory is one of the slots.                               *)
LEMMA SealingIsExact ==
  ASSUME NEW s \in Seq(AnyBinding), NEW working
  PROVE  LayoutCode(s, working) = "sealed" <=>
           /\ \A i, j \in DOMAIN s : s[i].slot = s[j].slot => i = j
           /\ \A i, j \in DOMAIN s : s[i].mount = s[j].mount => i = j
           /\ \E i \in DOMAIN s : s[i].slot = working
<1> DEFINE n == Len(s)
           t == SortedBindings(s)
           mounts == {t[i].mount : i \in 1..n}
<1>0. Rearranges(t, s)
  BY BindingsSort
<1>1. /\ n \in Nat /\ DOMAIN s = 1..n
      /\ t \in Seq(AnyBinding) /\ Len(t) = n /\ DOMAIN t = 1..n
      /\ \A l, m \in 1..n : l < m => ~Less(t[m].slot, t[l].slot)
  <2>1. /\ t \in Seq(AnyBinding) /\ Len(t) = n
        /\ \A l, m \in 1..n : l < m => ~Less(t[m].slot, t[l].slot)
    BY BindingsSort DEF Rearranges
  <2>2. n \in Nat /\ DOMAIN s = 1..n
    OBVIOUS
  <2> HIDE DEF t, n
  <2> QED BY <2>1, <2>2
<1>2. PICK p \in [1..n -> 1..n] :
        /\ \A m \in 1..n : t[m] = s[p[m]]
        /\ \A i \in 1..n : \E m \in 1..n : p[m] = i
        /\ \A l, m \in 1..n : p[l] = p[m] => l = m
  BY <1>0 DEF Rearranges
<1>3. LayoutCode(s, working) = "sealed" <=>
        /\ s # <<>>
        /\ ~\E i \in 2..n : t[i - 1].slot = t[i].slot
        /\ Cardinality(mounts) = n
        /\ ~\A i \in DOMAIN s : t[i].slot # working
  <2> DEFINE dup == \E i \in 2..Len(s) : t[i - 1].slot = t[i].slot
             card == Cardinality({t[i].mount : i \in DOMAIN t})
             lost == \A i \in DOMAIN s : t[i].slot # working
  <2>1. LayoutCode(s, working) =
          IF s = <<>> THEN "missing_working_directory"
          ELSE IF dup THEN "duplicate_resource"
          ELSE IF card # Len(s) THEN "duplicate_mount_point"
          ELSE IF lost THEN "missing_working_directory"
          ELSE "sealed"
    BY DEF LayoutCode
  <2>2. card = Cardinality(mounts)
    BY <1>1
  <2> HIDE DEF dup, card, lost
  <2>3. LayoutCode(s, working) = "sealed" <=>
          s # <<>> /\ ~dup /\ card = Len(s) /\ ~lost
    BY <2>1
  <2> QED BY <2>2, <2>3 DEF dup, lost
<1> HIDE DEF t
<1>4. (\E i \in 2..n : t[i - 1].slot = t[i].slot) <=>
        ~\A l, m \in 1..n : t[l].slot = t[m].slot => l = m
  <2>1. ASSUME NEW i \in 2..n, t[i - 1].slot = t[i].slot
        PROVE  ~\A l, m \in 1..n : t[l].slot = t[m].slot => l = m
    <3>1. i - 1 \in 1..n /\ i \in 1..n /\ i - 1 # i
      BY <1>1
    <3> QED BY <2>1, <3>1
  <2>2. t \in [1..n -> AnyBinding]
    BY <1>1
  <2>3. ASSUME ~\E i \in 2..n : t[i - 1].slot = t[i].slot
        PROVE  \A l, m \in 1..n : t[l].slot = t[m].slot => l = m
    <3>1. \A i \in 2..n : t[i - 1].slot # t[i].slot
      BY <2>3
    <3> HIDE DEF n
    <3> QED BY <1>1, <2>2, <3>1, DuplicatesAreNeighbours
  <2> QED BY <2>1, <2>3
<1>5. /\ (\A l, m \in 1..n : t[l].slot = t[m].slot => l = m) <=>
           \A i, j \in 1..n : s[i].slot = s[j].slot => i = j
      /\ (\E i \in 1..n : t[i].slot = working) <=>
           \E i \in 1..n : s[i].slot = working
  <2> DEFINE f == [i \in 1..n |-> s[i].slot]
             g == [i \in 1..n |-> t[i].slot]
  <2>1. \A m \in 1..n : g[m] = f[p[m]]
    BY <1>2
  <2>2. /\ Apart(g, n) <=> Apart(f, n)
        /\ Takes(g, n, working) <=> Takes(f, n, working)
    <3> HIDE DEF f, g, n
    <3>1. n \in Nat
      BY <1>1
    <3> QED BY <1>2, <2>1, <3>1, RearrangedValues
  <2> QED BY <2>2 DEF Apart, Takes
<1>6. Cardinality(mounts) = n <=>
        \A l, m \in 1..n : t[l].mount = t[m].mount => l = m
  <2> DEFINE f == [i \in 1..n |-> t[i].mount]
  <2>1. f \in [1..n -> mounts] /\ \A x \in mounts : \E i \in 1..n : f[i] = x
    OBVIOUS
  <2>2. f \in Surjection(1..n, mounts)
    BY <2>1 DEF Surjection
  <2>3. IsFiniteSet(1..n) /\ Cardinality(1..n) = n
    <3> HIDE DEF n
    <3> QED BY <1>1, FS_Interval
  <2>4. Cardinality(mounts) = n <=> f \in Injection(1..n, mounts)
    BY <2>2, <2>3, FS_Surjection
  <2>5. f \in Injection(1..n, mounts) <=> \A l, m \in 1..n : f[l] = f[m] => l = m
    <3> HIDE DEF f, mounts
    <3> QED BY <2>1 DEF Injection, IsInjective
  <2> HIDE DEF mounts
  <2> QED BY <2>4, <2>5
<1>7. (\A l, m \in 1..n : t[l].mount = t[m].mount => l = m) <=>
        \A i, j \in 1..n : s[i].mount = s[j].mount => i = j
  <2> DEFINE f == [i \in 1..n |-> s[i].mount]
             g == [i \in 1..n |-> t[i].mount]
  <2>1. \A m \in 1..n : g[m] = f[p[m]]
    BY <1>2
  <2>2. Apart(g, n) <=> Apart(f, n)
    <3> HIDE DEF f, g, n
    <3>1. n \in Nat
      BY <1>1
    <3> QED BY <1>2, <2>1, <3>1, RearrangedValues
  <2> QED BY <2>2 DEF Apart, Takes
<1>8. (\A i \in DOMAIN s : t[i].slot # working) <=>
         ~\E i \in 1..n : t[i].slot = working
  BY <1>1
<1>9. (\E i \in 1..n : s[i].slot = working) => s # <<>>
  BY <1>1
<1>10. DOMAIN s = 1..n
  BY <1>1
<1> HIDE DEF mounts, n
<1> QED BY <1>3, <1>4, <1>5, <1>6, <1>7, <1>8, <1>9, <1>10
----------------------------------------------------------------------------
(* The key of a materialization is one number. *)
LEMMA ResourceKeysCompare ==
  ASSUME NEW a \in Nat, NEW b \in Nat
  PROVE  /\ <<a>> \in Key(1)
         /\ Less(<<a>>, <<b>>) <=> a < b
         /\ <<a>> = <<b>> <=> a = b
<1>1. <<a>> \in Key(1)
  BY DEF Key
<1>2. DOMAIN <<a>> = {1} /\ <<a>>[1] = a /\ <<b>>[1] = b
  OBVIOUS
<1>3. Less(<<a>>, <<b>>) <=> a < b
  <2>1. Less(<<a>>, <<b>>) <=>
          \E i \in {1} : <<a>>[i] < <<b>>[i] /\ \A j \in 1..(i - 1) : <<a>>[j] = <<b>>[j]
    BY <1>2 DEF Less
  <2>2. 1..(1 - 1) = {}
    OBVIOUS
  <2> QED BY <1>2, <2>1, <2>2
<1>4. <<a>> = <<b>> <=> a = b
  BY <1>2
<1> QED BY <1>1, <1>3, <1>4

(* admit() sorts what was offered by identity. *)
LEMMA MaterializationsSort ==
  ASSUME NEW s \in Seq(Materials)
  PROVE  /\ SortedMaterializations(s) \in Seq(Materials)
         /\ Rearranges(SortedMaterializations(s), s)
         /\ \A l, m \in 1..Len(s) : l < m =>
              SortedMaterializations(s)[l].resource
                <= SortedMaterializations(s)[m].resource
<1> DEFINE n == Len(s)
           keys == ResourceKeys(s)
           t == SortedMaterializations(s)
<1>1. n \in Nat /\ DOMAIN s = 1..n /\ \A i \in 1..n : s[i] \in Materials
  OBVIOUS
<1>2. \A m \in Materials : m.resource \in Nat
  BY ResourcesAssumption DEF Materials
<1>3. keys \in [1..n -> Key(1)] /\ \A i \in 1..n : keys[i] = <<s[i].resource>>
  <2>1. keys = [i \in 1..n |-> <<s[i].resource>>]
    BY <1>1 DEF ResourceKeys, ResourceKey
  <2>2. \A i \in 1..n : <<s[i].resource>> \in Key(1)
    BY <1>1, <1>2, ResourceKeysCompare
  <2> QED BY <2>1, <2>2
<1> DEFINE less == KeysLess(keys)
<1>4. t = Sorted(s, less)
  BY DEF SortedMaterializations
<1> HIDE DEF keys, n
<1>5. Len(keys) = n
  BY <1>1, <1>3
<1>6. /\ Compares(less, n)
      /\ \A i, j \in 1..n : <<i, j>> \in less <=> Less(keys[i], keys[j])
  BY <1>1, <1>3, <1>5, KeysCompare
<1> HIDE DEF less, t
<1>7. Compares(less, Len(s))
  BY <1>6 DEF n
<1>8. /\ Sorted(s, less) \in Seq(Materials)
      /\ Rearranges(Sorted(s, less), s)
      /\ \E p : /\ Sorts(p, less, Len(s))
                /\ \A m \in 1..Len(s) : Sorted(s, less)[m] = s[p[m]]
  BY <1>7, SortedRearranges
<1>9. PICK p : Sorts(p, less, n) /\ \A m \in 1..n : t[m] = s[p[m]]
  BY <1>4, <1>8 DEF n
<1>10. ASSUME NEW l \in 1..n, NEW m \in 1..n, l < m
       PROVE  t[l].resource <= t[m].resource
  <2>1. /\ p[l] \in 1..n /\ p[m] \in 1..n
        /\ <<p[m], p[l]>> \notin less
    BY <1>9, <1>10 DEF Sorts
  <2>2. /\ t[l].resource \in Nat /\ t[m].resource \in Nat
        /\ keys[p[l]] = <<t[l].resource>> /\ keys[p[m]] = <<t[m].resource>>
    BY <1>1, <1>2, <1>3, <1>9, <2>1
  <2>3. ~Less(<<t[m].resource>>, <<t[l].resource>>)
    BY <1>6, <2>1, <2>2
  <2>4. ~(t[m].resource < t[l].resource)
    BY <2>2, <2>3, ResourceKeysCompare
  <2> QED BY <2>2, <2>4
<1> QED BY <1>4, <1>8, <1>10 DEF t, n

----------------------------------------------------------------------------
(* A finite set of numbers, listed by rank. *)
Below(S, x) == {y \in S : y < x}

(* As many identities are smaller as the rank of one: fewer than all. *)
LEMMA BelowIsRank ==
  ASSUME NEW S \in SUBSET Nat, IsFiniteSet(S), NEW x \in S
  PROVE  /\ IsFiniteSet(Below(S, x))
         /\ Cardinality(Below(S, x)) \in 0..(Cardinality(S) - 1)
<1>1. Below(S, x) \subseteq S /\ x \notin Below(S, x)
  BY DEF Below
<1>2. /\ IsFiniteSet(Below(S, x))
      /\ Cardinality(Below(S, x)) <= Cardinality(S)
      /\ Cardinality(Below(S, x)) # Cardinality(S)
  BY <1>1, FS_Subset
<1>3. Cardinality(Below(S, x)) \in Nat /\ Cardinality(S) \in Nat
  BY <1>2, FS_CardinalityType
<1> QED BY <1>2, <1>3

(* A greater identity has more below it. *)
LEMMA BelowGrows ==
  ASSUME NEW S \in SUBSET Nat, IsFiniteSet(S), NEW x \in S, NEW y \in S, x < y
  PROVE  Cardinality(Below(S, x)) < Cardinality(Below(S, y))
<1> DEFINE A == Below(S, x)
           B == Below(S, y)
<1>1. A \subseteq B /\ x \in B /\ x \notin A
  <2>1. x \in Nat /\ y \in Nat /\ \A z \in S : z \in Nat
    OBVIOUS
  <2>2. \A z \in S : z < x => z < y
    BY <2>1
  <2>3. A \subseteq B
    BY <2>2 DEF Below
  <2>4. x \in B
    BY DEF Below
  <2>5. x \notin A
    BY <2>1 DEF Below
  <2> QED BY <2>3, <2>4, <2>5
<1>2. IsFiniteSet(A) /\ IsFiniteSet(B) /\ Cardinality(A) \in Nat /\ Cardinality(B) \in Nat
  BY BelowIsRank
<1> HIDE DEF A, B
<1>3. Cardinality(A) <= Cardinality(B) /\ Cardinality(A) # Cardinality(B)
  BY <1>1, <1>2, FS_Subset
<1>4. Cardinality(A) < Cardinality(B)
  BY <1>2, <1>3
<1> QED BY <1>4 DEF A, B

(* Ascending() lists each number of a finite set once, smaller ones first. *)
LEMMA AscendingAscends ==
  ASSUME NEW S \in SUBSET Nat, IsFiniteSet(S)
  PROVE  LET k == Cardinality(S)
         IN  /\ k \in Nat
             /\ Ascending(S) \in [1..k -> S]
             /\ \A x \in S : Takes(Ascending(S), k, x)
             /\ \A a, b \in 1..k : a < b => Ascending(S)[a] < Ascending(S)[b]
             /\ \A x \in S, a \in 1..k :
                  Cardinality(Below(S, x)) = a - 1 => Ascending(S)[a] = x
<1> DEFINE k == Cardinality(S)
           r == Ascending(S)
           rank == [x \in S |-> Cardinality(Below(S, x)) + 1]
<1>1. k \in Nat
  BY FS_CardinalityType
<1>2. r = [a \in 1..k |-> CHOOSE x \in S : Cardinality(Below(S, x)) = a - 1]
  BY DEF Ascending, Below
<1> HIDE DEF r
<1>3. S \in SUBSET Nat /\ IsFiniteSet(S)
  OBVIOUS
<1>4. /\ rank \in [S -> 1..k]
      /\ \A x \in S : /\ rank[x] = Cardinality(Below(S, x)) + 1
                      /\ Cardinality(Below(S, x)) \in Nat
  <2>1. \A x \in S : Cardinality(Below(S, x)) \in 0..(k - 1)
    BY <1>3, BelowIsRank
  <2> QED BY <1>1, <2>1
<1> HIDE DEF rank, k
<1>5. ASSUME NEW x \in S, NEW y \in S, x < y
      PROVE  rank[x] < rank[y]
  <2>1. Cardinality(Below(S, x)) < Cardinality(Below(S, y))
    BY <1>3, <1>5, BelowGrows
  <2> QED BY <1>4, <2>1
<1>6. ASSUME NEW x \in S, NEW y \in S, rank[x] = rank[y]
      PROVE  x = y
  <2>1. x \in Nat /\ y \in Nat /\ rank[x] \in Nat /\ rank[y] \in Nat
    BY <1>3, <1>4
  <2>2. ~(x < y) /\ ~(y < x)
    BY <1>5, <1>6, <2>1
  <2> QED BY <2>1, <2>2
<1>7. \A a \in 1..k : \E x \in S : rank[x] = a
  <2>1. rank \in Injection(S, 1..k)
    BY <1>4, <1>6 DEF Injection, IsInjective
  <2>2. IsFiniteSet(1..k) /\ Cardinality(1..k) = k
    BY <1>1, FS_Interval
  <2>3. rank \in Surjection(S, 1..k)
    BY <2>1, <2>2, FS_Injection DEF k
  <2> QED BY <2>3 DEF Surjection
<1>8. ASSUME NEW a \in 1..k
      PROVE  r[a] \in S /\ rank[r[a]] = a
  <2>1. PICK x \in S : rank[x] = a
    BY <1>7
  <2>2. Cardinality(Below(S, x)) = a - 1
    BY <1>4, <2>1
  <2>3. r[a] = CHOOSE y \in S : Cardinality(Below(S, y)) = a - 1
    BY <1>2
  <2>4. r[a] \in S /\ Cardinality(Below(S, r[a])) = a - 1
    BY <2>2, <2>3
  <2>5. a \in Int
    BY <1>1
  <2>6. rank[r[a]] = Cardinality(Below(S, r[a])) + 1
    BY <1>4, <2>4
  <2> QED BY <2>4, <2>5, <2>6
<1>9. r \in [1..k -> S]
  <2> DEFINE At(a) == CHOOSE x \in S : Cardinality(Below(S, x)) = a - 1
  <2>1. r = [a \in 1..k |-> At(a)]
    BY <1>2
  <2> HIDE DEF At
  <2> QED BY <1>8, <2>1
<1>10. ASSUME NEW x \in S PROVE Takes(r, k, x)
  <2>1. rank[x] \in 1..k
    BY <1>4
  <2>2. r[rank[x]] \in S /\ rank[r[rank[x]]] = rank[x]
    BY <1>8, <2>1
  <2>3. r[rank[x]] = x
    BY <1>6, <2>2
  <2> QED BY <2>1, <2>3 DEF Takes
<1>11. ASSUME NEW a \in 1..k, NEW b \in 1..k, a < b
       PROVE  r[a] < r[b]
  <2>1. r[a] \in S /\ r[b] \in S /\ rank[r[a]] = a /\ rank[r[b]] = b
    BY <1>8
  <2>2. ~(r[b] < r[a]) /\ r[a] # r[b]
    <3>1. a \in Nat /\ b \in Nat
      BY <1>1
    <3>2. r[b] < r[a] => b < a
      BY <1>5, <2>1
    <3>3. r[a] = r[b] => a = b
      BY <2>1
    <3> QED BY <1>11, <3>1, <3>2, <3>3
  <2>3. r[a] \in Nat /\ r[b] \in Nat
    BY <1>3, <2>1
  <2> QED BY <2>2, <2>3
<1>12. ASSUME NEW x \in S, NEW a \in 1..k, Cardinality(Below(S, x)) = a - 1
       PROVE  r[a] = x
  <2>1. rank[x] = a
    BY <1>4, <1>12
  <2> QED BY <1>6, <1>8, <2>1
<1> QED BY <1>1, <1>9, <1>10, <1>11, <1>12 DEF k, r

(* What a layout requires: its identities in ascending order, each once. *)
LEMMA RequiredAscends ==
  ASSUME NEW l, Needed(l) \in SUBSET Nat, IsFiniteSet(Needed(l))
  PROVE  LET S == Needed(l)
             k == Cardinality(S)
         IN  /\ k \in Nat
             /\ Required(l) \in [1..k -> S]
             /\ \A x \in S : Takes(Required(l), k, x)
             /\ \A a, b \in 1..k : a < b => Required(l)[a] < Required(l)[b]
             /\ \A x \in S, a \in 1..k :
                  Cardinality(Below(S, x)) = a - 1 => Required(l)[a] = x
  BY AscendingAscends DEF Required

(* Resources are admitted exactly when each identity of the layout is       *)
(* offered once and nothing else is.                                        *)
LEMMA AdmissionOfExactlyTheRequired ==
  ASSUME NEW l, Needed(l) \in SUBSET Nat, IsFiniteSet(Needed(l)),
         NEW s \in Seq(Materials), NEW path \in Paths, NEW view
  PROVE  AdmissionCode(l, view, s, view, path) = "admitted" <=>
           /\ \A i, j \in DOMAIN s : s[i].resource = s[j].resource => i = j
           /\ {s[i].resource : i \in DOMAIN s} = Needed(l)
<1> DEFINE n == Len(s)
           t == SortedMaterializations(s)
           S == Needed(l)
           k == Cardinality(S)
           r == Required(l)
           f == [i \in 1..n |-> s[i].resource]
           g == [i \in 1..n |-> t[i].resource]
<1>1. /\ n \in Nat /\ DOMAIN s = 1..n
      /\ t \in Seq(Materials) /\ Len(t) = n
      /\ \A i, j \in 1..n : i < j => g[i] <= g[j]
  <2>1. /\ n \in Nat /\ DOMAIN s = 1..n
        /\ t \in Seq(Materials) /\ Len(t) = n
        /\ \A i, j \in 1..n : i < j => t[i].resource <= t[j].resource
    BY MaterializationsSort DEF Rearranges
  <2> HIDE DEF t, n
  <2> QED BY <2>1
<1>2. PICK p \in [1..n -> 1..n] :
        /\ \A m \in 1..n : t[m] = s[p[m]]
        /\ \A i \in 1..n : \E m \in 1..n : p[m] = i
        /\ \A a, b \in 1..n : p[a] = p[b] => a = b
  BY MaterializationsSort DEF Rearranges
<1>3. /\ k \in Nat
      /\ r \in [1..k -> S]
      /\ \A x \in S : Takes(r, k, x)
      /\ \A a, b \in 1..k : a < b => r[a] < r[b]
      /\ \A x \in S, a \in 1..k : Cardinality(Below(S, x)) = a - 1 => r[a] = x
  BY RequiredAscends
<1>4. AdmissionCode(l, view, s, view, path) = "admitted" <=>
        /\ ~\E i \in 2..n : t[i - 1].resource = t[i].resource
        /\ k = n
        /\ \A i \in 1..n : r[i] = g[i]
  <2> DEFINE dup == \E i \in 2..Len(s) : t[i - 1].resource = t[i].resource
             other == \E i \in DOMAIN s : r[i] # t[i].resource
  <2>1. AdmissionCode(l, view, s, view, path) =
          IF path = Relative THEN "invalid_path"
          ELSE IF dup THEN "duplicate_resource"
          ELSE IF Len(r) # Len(s) THEN "resource_mismatch"
          ELSE IF other THEN "resource_mismatch"
          ELSE "admitted"
    BY DEF AdmissionCode
  <2>2. path # Relative
    BY ResourcesAssumption
  <2>3. Len(r) = k
    <3> HIDE DEF S, k, r
    <3> QED BY <1>3
  <2>4. other <=> ~\A i \in 1..n : r[i] = g[i]
    BY <1>1
  <2> HIDE DEF dup, other
  <2>5. AdmissionCode(l, view, s, view, path) = "admitted" <=>
          ~dup /\ Len(r) = Len(s) /\ ~other
    BY <2>1, <2>2
  <2> QED BY <2>3, <2>4, <2>5 DEF dup
<1> HIDE DEF t, S, r
<1>5. /\ Apart(g, n) <=> Apart(f, n)
      /\ \A x : Takes(g, n, x) <=> Takes(f, n, x)
  <2>1. \A m \in 1..n : g[m] = f[p[m]]
    BY <1>2
  <2>2. n \in Nat
    BY <1>1
  <2> HIDE DEF f, g, n
  <2> QED BY <1>2, <2>1, <2>2, RearrangedValues
<1>6. /\ Apart(f, n) <=> \A i, j \in DOMAIN s : s[i].resource = s[j].resource => i = j
      /\ \A x : Takes(f, n, x) <=> x \in {s[i].resource : i \in DOMAIN s}
  BY <1>1 DEF Apart, Takes
<1>7. \A i \in 1..n : g[i] \in Nat
  <2>1. \A m \in Materials : m.resource \in Nat
    BY ResourcesAssumption DEF Materials
  <2> QED BY <1>1, <2>1
<1>8. \A i \in 2..n : g[i - 1] = t[i - 1].resource /\ g[i] = t[i].resource
  BY <1>1
<1> HIDE DEF f, g, k, n
<1>9. ASSUME k = n, \A i \in 1..n : r[i] = g[i]
      PROVE  /\ Apart(g, n)
             /\ \A x : Takes(g, n, x) <=> x \in S
  <2>1. ASSUME NEW i \in 1..n, NEW j \in 1..n, g[i] = g[j], i # j
        PROVE  FALSE
    <3>1. i < j \/ j < i
      BY <1>1, <2>1
    <3>2. r[i] < r[j] \/ r[j] < r[i]
      BY <1>3, <1>9, <3>1
    <3>3. g[i] < g[j] \/ g[j] < g[i]
      BY <1>9, <3>2
    <3> QED BY <1>7, <2>1, <3>3
  <2>2. ASSUME NEW x \in S PROVE Takes(g, n, x)
    BY <1>3, <1>9 DEF Takes
  <2>3. ASSUME NEW x, Takes(g, n, x) PROVE x \in S
    BY <1>3, <1>9, <2>3 DEF Takes
  <2> QED BY <2>1, <2>2, <2>3 DEF Apart
<1>10. ASSUME Apart(g, n), \A x : Takes(g, n, x) <=> x \in S
       PROVE  /\ k = n
              /\ \A i \in 1..n : r[i] = g[i]
              /\ \A i \in 2..n : g[i - 1] # g[i]
  <2>1. g \in [1..n -> S] /\ DOMAIN g = 1..n
    <3>1. \A i \in 1..n : g[i] \in S
      BY <1>10 DEF Takes
    <3> QED BY <3>1 DEF g
  <2>2. \A x \in S : \E i \in 1..n : g[i] = x
    BY <1>10 DEF Takes
  <2>3. \A i, j \in 1..n : g[i] = g[j] => i = j
    BY <1>10 DEF Apart
  <2>4. k = n
    <3>1. g \in Surjection(1..n, S) /\ g \in Injection(1..n, S)
      BY <2>1, <2>2, <2>3 DEF Surjection, Injection, IsInjective
    <3>2. IsFiniteSet(1..n) /\ Cardinality(1..n) = n
      BY <1>1, FS_Interval
    <3> QED BY <3>1, <3>2, FS_Surjection DEF k
  <2>5. \A i, j \in 1..n : i < j => g[i] < g[j]
    <3> SUFFICES ASSUME NEW i \in 1..n, NEW j \in 1..n, i < j
                 PROVE  g[i] < g[j]
      OBVIOUS
    <3>1. g[i] <= g[j] /\ g[i] \in Nat /\ g[j] \in Nat
      BY <1>1, <1>7
    <3>2. g[i] # g[j]
      BY <2>3
    <3> QED BY <3>1, <3>2
  <2>6. ASSUME NEW i \in 1..n PROVE r[i] = g[i]
    <3> DEFINE h == [j \in 1..(i - 1) |-> g[j]]
               B == Below(S, g[i])
    <3>1. \A j \in 1..n : g[j] < g[i] => j \in 1..(i - 1)
      <4> SUFFICES ASSUME NEW j \in 1..n, g[j] < g[i], ~(j < i) PROVE FALSE
        BY <1>1
      <4>1. g[i] \in Nat /\ g[j] \in Nat
        BY <1>7
      <4>2. i < j \/ i = j
        BY <1>1
      <4>3. g[i] < g[j] \/ g[i] = g[j]
        BY <2>5, <4>2
      <4> QED BY <4>1, <4>3
    <3>2. \A j \in 1..(i - 1) : j \in 1..n /\ g[j] \in B
      <4> SUFFICES ASSUME NEW j \in 1..(i - 1) PROVE j \in 1..n /\ g[j] \in B
        OBVIOUS
      <4>1. j \in 1..n /\ j < i
        BY <1>1
      <4>2. g[j] \in S /\ g[j] < g[i]
        BY <2>1, <2>5, <4>1
      <4> QED BY <4>1, <4>2 DEF Below
    <3>3. \A x \in B : \E j \in 1..(i - 1) : h[j] = x
      <4> SUFFICES ASSUME NEW x \in B PROVE \E j \in 1..(i - 1) : g[j] = x
        OBVIOUS
      <4>1. x \in S /\ x < g[i]
        BY DEF Below
      <4>2. PICK j \in 1..n : g[j] = x
        BY <2>2, <4>1
      <4> QED BY <3>1, <4>1, <4>2
    <3>4. h \in [1..(i - 1) -> B] /\ \A a, b \in 1..(i - 1) : h[a] = h[b] => a = b
      BY <2>3, <3>2
    <3> HIDE DEF h, B
    <3>5. h \in Surjection(1..(i - 1), B) /\ h \in Injection(1..(i - 1), B)
      BY <3>3, <3>4 DEF Surjection, Injection, IsInjective
    <3>6. IsFiniteSet(1..(i - 1)) /\ Cardinality(1..(i - 1)) = i - 1
      <4>1. i - 1 \in Nat
        BY <1>1
      <4> DEFINE m == i - 1
      <4>2. m \in Int /\ 1 \in Int /\ (1 > m => m = 0) /\ m - 1 + 1 = m
        BY <4>1
      <4> HIDE DEF m
      <4>3. IsFiniteSet(1..m) /\ Cardinality(1..m) = m
        BY <4>2, FS_Interval
      <4> QED BY <4>3 DEF m
    <3>7. Cardinality(B) = i - 1
      BY <3>5, <3>6, FS_Surjection
    <3>8. i \in 1..k /\ g[i] \in S
      BY <2>1, <2>4
    <3> QED BY <1>3, <3>7, <3>8 DEF B
  <2>7. ASSUME NEW i \in 2..n PROVE g[i - 1] # g[i]
    <3>1. i - 1 \in 1..n /\ i \in 1..n /\ i - 1 # i
      BY <1>1
    <3> QED BY <2>3, <3>1
  <2> QED BY <2>4, <2>6, <2>7
<1>11. (Apart(g, n) /\ \A x : Takes(g, n, x) <=> x \in S) <=>
         /\ \A i, j \in DOMAIN s : s[i].resource = s[j].resource => i = j
         /\ {s[i].resource : i \in DOMAIN s} = S
  BY <1>5, <1>6
<1>12. Apart(g, n) => \A i \in 2..n : g[i - 1] # g[i]
  <2> SUFFICES ASSUME Apart(g, n), NEW i \in 2..n PROVE g[i - 1] # g[i]
    OBVIOUS
  <2>1. i - 1 \in 1..n /\ i \in 1..n /\ i - 1 # i
    BY <1>1
  <2> QED BY <2>1 DEF Apart
<1>13. (~\E i \in 2..n : t[i - 1].resource = t[i].resource) <=>
         \A i \in 2..n : g[i - 1] # g[i]
  BY <1>8
<1>14. AdmissionCode(l, view, s, view, path) = "admitted" <=>
         Apart(g, n) /\ \A x : Takes(g, n, x) <=> x \in S
  BY <1>4, <1>9, <1>10, <1>12, <1>13
<1> QED BY <1>11, <1>14 DEF S

----------------------------------------------------------------------------
(* What sealing leaves: the slots in order, each once. *)
WellLaid(l) ==
  /\ l.bindings \in Seq(Bindings)
  /\ \A i, j \in 1..Len(l.bindings) :
       i < j => ~Less(l.bindings[j].slot, l.bindings[i].slot)
  /\ \A i, j \in 1..Len(l.bindings) :
       l.bindings[i].slot = l.bindings[j].slot => i = j

(* What admission leaves: the identities of the layout in order, each once. *)
Furnished(l, rs) ==
  /\ rs \in Seq(Materials)
  /\ \A i, j \in 1..Len(rs) : i < j => rs[i].resource <= rs[j].resource
  /\ \A i, j \in 1..Len(rs) : rs[i].resource = rs[j].resource => i = j
  /\ {rs[i].resource : i \in 1..Len(rs)} = Needed(l)

(* A mount shows the path of the material its slot is bound to. *)
Shows(m, l, rs) ==
  \E i \in 1..Len(l.bindings), j \in 1..Len(rs) :
    /\ l.bindings[i].slot = m.slot
    /\ rs[j].resource = l.bindings[i].resource
    /\ rs[j].path = m.path

(* Inductive: what is sealed and admitted is what the lookups rely on. *)
ResourcesInv ==
  /\ declared \in Seq(Bindings)
  /\ offered \in Seq(Materials)
  /\ layout # None => WellLaid(layout)
  /\ resources # None => layout # None /\ Furnished(layout, resources)
  /\ \A m \in mounted : resources # None /\ Shows(m, layout, resources)

(* What resource_layout::seal() lets through is well laid. *)
LEMMA LayoutsAreWellLaid ==
  ASSUME NEW s \in Seq(Bindings), NEW working,
         LayoutCode(s, working) = "sealed"
  PROVE  WellLaid(LayoutOf(s, working))
<1> DEFINE t == SortedBindings(s)
           n == Len(s)
<1>0. Bindings \in SUBSET AnyBinding /\ s \in Seq(AnyBinding)
  BY BindingsAreAny
<1>1. /\ t \in Seq(Bindings) /\ Len(t) = n /\ n \in Nat /\ DOMAIN s = 1..n
      /\ \A l, m \in 1..n : l < m => ~Less(t[m].slot, t[l].slot)
  <2>1. n \in Nat /\ DOMAIN s = 1..n
    OBVIOUS
  <2>2. t \in Seq(Bindings) /\ Rearranges(t, s)
    BY <1>0, BindingsSort
  <2>3. \A l, m \in 1..n : l < m => ~Less(t[m].slot, t[l].slot)
    BY <1>0, BindingsSort
  <2> QED BY <2>1, <2>2, <2>3 DEF Rearranges
<1>2. PICK p \in [1..n -> 1..n] :
        /\ \A m \in 1..n : t[m] = s[p[m]]
        /\ \A l, m \in 1..n : p[l] = p[m] => l = m
  <2>1. Rearranges(t, s)
    BY <1>0, BindingsSort
  <2> QED BY <2>1 DEF Rearranges
<1>3. \A i, j \in 1..n : s[i].slot = s[j].slot => i = j
  BY <1>0, <1>1, SealingIsExact
<1>4. LayoutOf(s, working).bindings = t
  BY DEF LayoutOf
<1> HIDE DEF t, n
<1>5. \A i, j \in 1..n : t[i].slot = t[j].slot => i = j
  BY <1>2, <1>3
<1> QED BY <1>1, <1>4, <1>5 DEF WellLaid

(* A layout needs finitely many identities. *)
LEMMA IdentitiesAreFinite ==
  ASSUME NEW l, WellLaid(l)
  PROVE  /\ Needed(l) \in SUBSET Nat
         /\ IsFiniteSet(Needed(l))
         /\ Needed(l) = {l.bindings[i].resource : i \in 1..Len(l.bindings)}
<1> DEFINE bs == l.bindings
           n == Len(bs)
           S == Needed(l)
           f == [i \in 1..n |-> bs[i].resource]
<1>1. n \in Nat /\ DOMAIN bs = 1..n /\ \A i \in 1..n : bs[i] \in Bindings
  BY DEF WellLaid
<1>2. \A b \in Bindings : b.resource \in Nat
  BY ResourcesAssumption DEF Bindings
<1>3. S = {bs[i].resource : i \in 1..n}
  BY <1>1 DEF Needed, ToSet
<1>4. S \in SUBSET Nat
  BY <1>1, <1>2, <1>3
<1>5. f \in Surjection(1..n, S)
  BY <1>3 DEF Surjection
<1>6. IsFiniteSet(1..n)
  <2> HIDE DEF n
  <2> QED BY <1>1, FS_Interval
<1>7. IsFiniteSet(S)
  <2> HIDE DEF f, S
  <2> QED BY <1>5, <1>6, FS_Surjection
<1> QED BY <1>3, <1>4, <1>7

(* What admit() lets through furnishes the layout: sorted, each identity once. *)
LEMMA AdmittedIsFurnished ==
  ASSUME NEW l, WellLaid(l), NEW s \in Seq(Materials), NEW path \in Paths,
         NEW view, AdmissionCode(l, view, s, view, path) = "admitted"
  PROVE  Furnished(l, SortedMaterializations(s))
<1> DEFINE t == SortedMaterializations(s)
           n == Len(s)
<1>1. /\ t \in Seq(Materials) /\ Len(t) = n /\ n \in Nat /\ DOMAIN s = 1..n
      /\ \A i, j \in 1..n : i < j => t[i].resource <= t[j].resource
  <2>1. n \in Nat /\ DOMAIN s = 1..n
    OBVIOUS
  <2>2. t \in Seq(Materials) /\ Rearranges(t, s)
    BY MaterializationsSort
  <2>3. \A i, j \in 1..n : i < j => t[i].resource <= t[j].resource
    BY MaterializationsSort
  <2> QED BY <2>1, <2>2, <2>3 DEF Rearranges
<1>2. PICK p \in [1..n -> 1..n] :
        /\ \A m \in 1..n : t[m] = s[p[m]]
        /\ \A i \in 1..n : \E m \in 1..n : p[m] = i
        /\ \A i, j \in 1..n : p[i] = p[j] => i = j
  BY MaterializationsSort DEF Rearranges
<1>3. /\ \A i, j \in 1..n : s[i].resource = s[j].resource => i = j
      /\ {s[i].resource : i \in 1..n} = Needed(l)
  BY <1>1, IdentitiesAreFinite, AdmissionOfExactlyTheRequired
<1> HIDE DEF t, n
<1>4. \A i, j \in 1..n : t[i].resource = t[j].resource => i = j
  <2> SUFFICES ASSUME NEW i \in 1..n, NEW j \in 1..n,
                      t[i].resource = t[j].resource
               PROVE  i = j
    OBVIOUS
  <2>1. s[p[i]].resource = s[p[j]].resource /\ p[i] \in 1..n /\ p[j] \in 1..n
    BY <1>2
  <2>2. p[i] = p[j]
    BY <1>3, <2>1
  <2> QED BY <1>2, <2>2
<1>5. {t[i].resource : i \in 1..n} = {s[i].resource : i \in 1..n}
  <2>1. \A i \in 1..n : t[i].resource \in {s[j].resource : j \in 1..n}
    BY <1>2
  <2>2. ASSUME NEW i \in 1..n PROVE s[i].resource \in {t[j].resource : j \in 1..n}
    <3>1. PICK m \in 1..n : p[m] = i
      BY <1>2
    <3>2. t[m] = s[i]
      BY <1>2, <3>1
    <3> QED BY <3>2
  <2> QED BY <2>1, <2>2
<1> QED BY <1>1, <1>3, <1>4, <1>5 DEF Furnished, t

(* resource_layout::binding() finds each slot of a layout. *)
LEMMA BindingsAreFound ==
  ASSUME NEW l, WellLaid(l), NEW i \in 1..Len(l.bindings)
  PROVE  BindingAt(l, l.bindings[i].slot) = l.bindings[i]
<1> DEFINE bs == l.bindings
           n == Len(bs)
           keys == SlotKeys(bs)
<1>1. n \in Nat /\ DOMAIN bs = 1..n /\ \A j \in 1..n : bs[j] \in Bindings
  BY DEF WellLaid
<1>2. keys = [j \in 1..n |-> bs[j].slot]
  BY <1>1 DEF SlotKeys, SlotKey
<1>3. keys \in [1..n -> Key(2)]
  BY <1>1, <1>2, BindingsAreAny, BindingKeysAreKeys
<1>4. /\ \A j, m \in 1..n : j < m => ~Less(bs[m].slot, bs[j].slot)
      /\ \A j, m \in 1..n : bs[j].slot = bs[m].slot => j = m
  BY DEF WellLaid
<1>5. /\ \A j, m \in 1..n : j < m => ~Less(keys[m], keys[j])
      /\ \A j \in 1..n : keys[j] = keys[i] => j = i
  BY <1>2, <1>4
<1>6. Len(keys) = n
  BY <1>1, <1>2
<1>7. LowerBound(keys, keys[i]) = i
  <2>1. n \in Nat /\ i \in 1..n
    BY <1>1
  <2> HIDE DEF keys, n
  <2> QED BY <1>3, <1>5, <1>6, <2>1, KeysAreFound
<1> HIDE DEF keys, n
<1>8. keys[i] = bs[i].slot /\ i \in Nat /\ ~(i > n)
  BY <1>1, <1>2 DEF n
<1> QED BY <1>7, <1>8 DEF BindingAt, Find, keys, n

(* execution_resources::materialization() finds each identity. *)
LEMMA MaterialsAreFound ==
  ASSUME NEW l, NEW rs, Furnished(l, rs), NEW i \in 1..Len(rs)
  PROVE  Materialization(rs, rs[i].resource) = rs[i]
<1> DEFINE n == Len(rs)
           keys == ResourceKeys(rs)
<1>1. n \in Nat /\ DOMAIN rs = 1..n /\ \A j \in 1..n : rs[j].resource \in Nat
  <2>1. \A m \in Materials : m.resource \in Nat
    BY ResourcesAssumption DEF Materials
  <2>2. rs \in Seq(Materials)
    BY DEF Furnished
  <2> QED BY <2>1, <2>2
<1>2. keys = [j \in 1..n |-> <<rs[j].resource>>]
  BY <1>1 DEF ResourceKeys, ResourceKey
<1>3. keys \in [1..n -> Key(1)]
  BY <1>1, <1>2, ResourceKeysCompare
<1>4. /\ \A j, m \in 1..n : j < m => rs[j].resource <= rs[m].resource
      /\ \A j, m \in 1..n : rs[j].resource = rs[m].resource => j = m
  BY DEF Furnished
<1>5. /\ \A j, m \in 1..n : j < m => ~Less(keys[m], keys[j])
      /\ \A j \in 1..n : keys[j] = keys[i] => j = i
  <2>1. ASSUME NEW j \in 1..n, NEW m \in 1..n, j < m
        PROVE  ~Less(keys[m], keys[j])
    <3>1. ~(rs[m].resource < rs[j].resource)
      BY <1>1, <1>4, <2>1
    <3>2. keys[m] = <<rs[m].resource>> /\ keys[j] = <<rs[j].resource>>
      BY <1>2
    <3> HIDE DEF keys, n
    <3> QED BY <1>1, <3>1, <3>2, ResourceKeysCompare
  <2>2. ASSUME NEW j \in 1..n, keys[j] = keys[i] PROVE j = i
    <3>1. rs[j].resource = rs[i].resource
      BY <1>2, <2>2
    <3> QED BY <1>4, <3>1
  <2> QED BY <2>1, <2>2
<1>6. Len(keys) = n
  BY <1>1, <1>2
<1>7. LowerBound(keys, keys[i]) = i
  <2>1. n \in Nat /\ i \in 1..n
    BY <1>1
  <2> HIDE DEF keys, n
  <2> QED BY <1>3, <1>5, <1>6, <2>1, KeysAreFound
<1> HIDE DEF keys, n
<1>8. keys[i] = <<rs[i].resource>> /\ i \in Nat /\ ~(i > n)
  BY <1>1, <1>2 DEF n
<1> QED BY <1>7, <1>8 DEF Materialization, Find, keys, n

----------------------------------------------------------------------------

(* Nothing is sealed at first. *)
LEMMA ResourcesInit == Init => ResourcesInv
  BY DEF Init, ResourcesInv

(* One step per operation of the caller and the backend. *)
LEMMA ResourcesNext == ResourcesInv /\ [Next]_vars => ResourcesInv'
<1> SUFFICES ASSUME ResourcesInv, [Next]_vars PROVE ResourcesInv'
  OBVIOUS
<1> USE DEF ResourcesInv
<1>1. CASE Declare
  BY <1>1 DEF Declare
<1>2. CASE SealLayout
  <2>1. PICK working \in Slots :
          layout' = IF LayoutCode(declared, working) = "sealed"
                      THEN LayoutOf(declared, working) ELSE None
    BY <1>2 DEF SealLayout
  <2>2. layout' # None => WellLaid(layout')
    BY <2>1, LayoutsAreWellLaid
  <2>3. resources = None /\ layout = None
    BY <1>2 DEF SealLayout
  <2> QED BY <1>2, <2>2, <2>3 DEF SealLayout
<1>3. CASE Offer
  BY <1>3 DEF Offer
<1>4. CASE Admit
  <2>1. PICK root \in RootViews, path \in Paths \cup {Relative} :
          resources' =
            IF AdmissionCode(layout, RootView, offered, root, path) = "admitted"
              THEN SortedMaterializations(offered) ELSE None
    BY <1>4 DEF Admit
  <2>2. ASSUME AdmissionCode(layout, RootView, offered, root, path) = "admitted"
        PROVE  root = RootView /\ path \in Paths
    BY <2>2 DEF AdmissionCode
  <2>3. layout # None /\ resources = None
    BY <1>4 DEF Admit
  <2>4. resources' # None => Furnished(layout, resources')
    BY <2>1, <2>2, <2>3, AdmittedIsFurnished
  <2> QED BY <1>4, <2>3, <2>4 DEF Admit
<1>5. CASE Mount
  <2>1. PICK slot \in {b.slot : b \in ToSet(layout.bindings)} :
          LET b == BindingAt(layout, slot)
              m == IF b = None THEN None ELSE Materialization(resources, b.resource)
          IN  mounted' = mounted \cup
                {[slot |-> slot, path |-> IF m = None THEN None ELSE m.path]}
    BY <1>5 DEF Mount
  <2>2. WellLaid(layout) /\ Furnished(layout, resources) /\ resources # None
    BY <1>5 DEF Mount
  <2>3. PICK i \in 1..Len(layout.bindings) : slot = layout.bindings[i].slot
    BY <2>2 DEF ToSet, WellLaid
  <2>4. BindingAt(layout, slot) = layout.bindings[i] /\ layout.bindings[i] # None
    BY <2>2, <2>3, BindingsAreFound, NoneAssumption DEF WellLaid
  <2>5. PICK j \in 1..Len(resources) :
          resources[j].resource = layout.bindings[i].resource
    <3>1. layout.bindings[i].resource \in Needed(layout)
      BY <2>2, IdentitiesAreFinite
    <3>2. {resources[j].resource : j \in 1..Len(resources)} = Needed(layout)
      BY <2>2 DEF Furnished
    <3> QED BY <3>1, <3>2
  <2>6. /\ Materialization(resources, layout.bindings[i].resource) = resources[j]
        /\ resources[j] # None
    <3>1. Materialization(resources, resources[j].resource) = resources[j]
      BY <2>2, MaterialsAreFound
    <3>2. resources[j] \in Materials
      BY <2>2 DEF Furnished
    <3> QED BY <2>5, <3>1, <3>2, NoneAssumption
  <2> DEFINE new == [slot |-> slot, path |-> resources[j].path]
  <2>7. mounted' = mounted \cup {new}
    BY <2>1, <2>4, <2>6
  <2>8. Shows(new, layout, resources)
    BY <2>3, <2>5 DEF Shows
  <2>9. UNCHANGED <<declared, layout, offered, resources>>
    BY <1>5 DEF Mount
  <2>10. \A m \in mounted' : resources' # None /\ Shows(m, layout', resources')
    <3> HIDE DEF new
    <3> QED BY <2>2, <2>7, <2>8, <2>9
  <2> QED BY <2>9, <2>10
<1>6. CASE UNCHANGED vars
  BY <1>6 DEF vars
<1> QED BY <1>1, <1>2, <1>3, <1>4, <1>5, <1>6 DEF Next

(* Whatever is declared, offered and looked up, the invariant stays. *)
THEOREM ResourcesInvariant == Spec => []ResourcesInv
  BY ResourcesInit, ResourcesNext, PTL DEF Spec

(* A layout seals exactly when its slots and mount points are unique and    *)
(* the working directory is one of the slots, for layouts of any size.      *)
THEOREM UniqueLayoutsSeal == Spec => []LayoutsAreUnique
<1>1. ResourcesInv => LayoutsAreUnique
  <2>1. ResourcesInv => declared \in Seq(AnyBinding)
    BY BindingsAreAny DEF ResourcesInv
  <2> QED BY <2>1, SealingIsExact
             DEF LayoutsAreUnique, Distinct, SlotKey, MountKey
<1> QED BY <1>1, ResourcesInvariant, PTL

(* Resources are admitted exactly when each identity of the request is      *)
(* offered once and nothing else is.                                        *)
THEOREM ExactResourcesAreAdmitted == Spec => []AdmissionIsExact
<1>1. ResourcesInv => AdmissionIsExact
  <2> SUFFICES ASSUME ResourcesInv, layout # None, NEW path \in Paths
               PROVE  AdmissionCode(layout, RootView, offered, RootView, path)
                        = "admitted" <=>
                        /\ Distinct(offered, ResourceKey)
                        /\ {offered[i].resource : i \in DOMAIN offered} =
                             {b.resource : b \in ToSet(layout.bindings)}
    BY DEF AdmissionIsExact
  <2>1. WellLaid(layout) /\ offered \in Seq(Materials)
    BY DEF ResourcesInv
  <2>2. Needed(layout) \in SUBSET Nat /\ IsFiniteSet(Needed(layout))
    BY <2>1, IdentitiesAreFinite
  <2>3. AdmissionCode(layout, RootView, offered, RootView, path) = "admitted" <=>
          /\ \A i, j \in DOMAIN offered :
               offered[i].resource = offered[j].resource => i = j
          /\ {offered[i].resource : i \in DOMAIN offered} = Needed(layout)
    BY <2>1, <2>2, AdmissionOfExactlyTheRequired
  <2>4. Distinct(offered, ResourceKey) <=>
          \A i, j \in DOMAIN offered :
            offered[i].resource = offered[j].resource => i = j
    BY DEF Distinct, ResourceKey
  <2> QED BY <2>3, <2>4 DEF Needed
<1> QED BY <1>1, ResourcesInvariant, PTL

(* No lookup of an admitted execution throws, and slots that share a        *)
(* resource share its path.                                                 *)
THEOREM LookupsNeverThrow == Spec => []MountsFindTheirResource
<1>1. ResourcesInv => MountsFindTheirResource
  <2> SUFFICES ASSUME ResourcesInv, NEW m \in mounted
               PROVE  /\ m.path # None
                      /\ \A n \in mounted :
                           BindingAt(layout, m.slot).resource =
                             BindingAt(layout, n.slot).resource
                           => m.path = n.path
    BY DEF MountsFindTheirResource
  <2>1. WellLaid(layout) /\ Furnished(layout, resources)
    BY DEF ResourcesInv
  <2>2. \A x \in mounted :
          \E i \in 1..Len(layout.bindings), j \in 1..Len(resources) :
            /\ layout.bindings[i].slot = x.slot
            /\ resources[j].resource = layout.bindings[i].resource
            /\ resources[j].path = x.path
    BY DEF ResourcesInv, Shows
  <2>3. \A x \in mounted : \E j \in 1..Len(resources) :
          /\ BindingAt(layout, x.slot).resource = resources[j].resource
          /\ resources[j].path = x.path
    BY <2>1, <2>2, BindingsAreFound
  <2>4. m.path # None
    <3>1. \A x \in Materials : x.path \in Paths
      BY DEF Materials
    <3>2. \A j \in 1..Len(resources) : resources[j] \in Materials
      BY <2>1 DEF Furnished
    <3> QED BY <2>3, <3>1, <3>2, NoneAssumption
  <2>5. \A i, j \in 1..Len(resources) :
          resources[i].resource = resources[j].resource => i = j
    BY <2>1 DEF Furnished
  <2> QED BY <2>3, <2>4, <2>5
<1> QED BY <1>1, ResourcesInvariant, PTL
=============================================================================

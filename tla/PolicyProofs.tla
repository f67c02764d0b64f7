---------------------------- MODULE PolicyProofs ----------------------------
(***************************************************************************)
(* The values of src/model.cpp and what their identities are digests of:   *)
(* repetitions are found wherever they stand, declarations of one meaning  *)
(* have one identity and those of one identity one meaning, texts that are *)
(* put together come apart, paths are written in one way, and an identity  *)
(* is of everything its builder was given.                                 *)
(***************************************************************************)
EXTENDS Policies, IdentityBuilder, ResourcesProofs, SequenceTheorems

----------------------------------------------------------------------------
(* The order of texts, and that of variables, by which they are sorted. *)
TextOrder == {p \in AnyText \X AnyText : Precedes(p[1], p[2])}
VariableOrder ==
  {p \in AnyVariable \X AnyVariable : VariablePrecedes(p[1], p[2])}
BindingOrder ==
  {p \in AnyBinding \X AnyBinding : Less(BindingKey(p[1]), BindingKey(p[2]))}
NumberOrder == {p \in Nat \X Nat : p[1] < p[2]}

(* A text is a sequence of numbers. *)
LEMMA TextsAreNumbers ==
  ASSUME NEW a \in AnyText
  PROVE  /\ Len(a) \in Nat /\ DOMAIN a = 1..Len(a)
         /\ \A i \in 1..Len(a) : a[i] \in Nat
<1>1. Len(a) \in Nat /\ DOMAIN a = 1..Len(a) /\ \A i \in 1..Len(a) : a[i] \in Byte
  BY DEF AnyText, ListOf
<1>2. \A x \in Byte : x \in Nat
  BY DEF Byte
<1> QED BY <1>1, <1>2

(* Of two texts, one comes first: at the first byte that differs, or the    *)
(* shorter one.                                                             *)
LEMMA TextsAreComparable ==
  ASSUME NEW a \in AnyText, NEW b \in AnyText, a # b
  PROVE  Precedes(a, b) \/ Precedes(b, a)
<1> DEFINE Differ == {i \in Nat : i \in DOMAIN a \cap DOMAIN b /\ a[i] # b[i]}
<1>0. /\ Len(a) \in Nat /\ DOMAIN a = 1..Len(a) /\ \A i \in DOMAIN a : a[i] \in Nat
      /\ Len(b) \in Nat /\ DOMAIN b = 1..Len(b) /\ \A i \in DOMAIN b : b[i] \in Nat
  BY TextsAreNumbers
<1>1. CASE Differ # {}
  <2>1. PICK i \in Differ : \A j \in Differ : i <= j
    BY <1>1, LeastNat
  <2>2. /\ i \in DOMAIN a \cap DOMAIN b /\ a[i] \in Nat /\ b[i] \in Nat
        /\ a[i] # b[i]
    BY <1>0, <2>1
  <2>3. \A j \in 1..(i - 1) : a[j] = b[j]
    <3> SUFFICES ASSUME NEW j \in 1..(i - 1), a[j] # b[j] PROVE FALSE
      OBVIOUS
    <3>1. j \in DOMAIN a \cap DOMAIN b /\ j \in Nat /\ ~(i <= j)
      BY <1>0, <2>2
    <3> QED BY <2>1, <3>1
  <2>4. a[i] < b[i] \/ b[i] < a[i]
    BY <2>2
  <2>5. \A j \in 1..(i - 1) : b[j] = a[j]
    BY <2>3
  <2> QED BY <2>2, <2>3, <2>4, <2>5 DEF Precedes
<1>2. CASE Differ = {}
  <2>1. \A i \in DOMAIN a \cap DOMAIN b : a[i] = b[i]
    BY <1>0, <1>2
  <2>2. CASE Len(a) = Len(b)
    <3>1. a = b
      BY <1>0, <2>1, <2>2 DEF AnyText, ListOf
    <3> QED BY <3>1
  <2>3. CASE Len(a) < Len(b)
    <3>1. \A i \in DOMAIN a : a[i] = b[i]
      BY <1>0, <2>1, <2>3
    <3> QED BY <2>3, <3>1 DEF Precedes
  <2>4. CASE Len(b) < Len(a)
    <3>1. \A i \in DOMAIN b : b[i] = a[i]
      BY <1>0, <2>1, <2>4
    <3> QED BY <2>4, <3>1 DEF Precedes
  <2> HIDE DEF Differ
  <2>5. Len(a) \in Nat /\ Len(b) \in Nat
    BY <1>0
  <2>6. Len(a) = Len(b) \/ Len(a) < Len(b) \/ Len(b) < Len(a)
    BY <2>5
  <2> QED BY <2>2, <2>3, <2>4, <2>6
<1> QED BY <1>1, <1>2

(* Where two texts part, the first of them may end. *)
PartAt(a, b, i) ==
  /\ i \in 1..(Len(a) + 1) /\ i \in 1..Len(b)
  /\ \A j \in 1..(i - 1) : a[j] = b[j]
  /\ i <= Len(a) => a[i] < b[i]

(* One text precedes another where they part. *)
LEMMA PrecedingParts ==
  ASSUME NEW a \in AnyText, NEW b \in AnyText
  PROVE  Precedes(a, b) <=> \E i \in Nat : PartAt(a, b, i)
<1>0. /\ Len(a) \in Nat /\ DOMAIN a = 1..Len(a)
      /\ Len(b) \in Nat /\ DOMAIN b = 1..Len(b)
  BY DEF AnyText
<1>1. ASSUME Precedes(a, b) PROVE \E i \in Nat : PartAt(a, b, i)
  <2>1. CASE \E i \in DOMAIN a \cap DOMAIN b :
               a[i] < b[i] /\ \A j \in 1..(i - 1) : a[j] = b[j]
    BY <1>0, <2>1 DEF PartAt
  <2>2. CASE Len(a) < Len(b) /\ \A i \in DOMAIN a : a[i] = b[i]
    <3>1. PartAt(a, b, Len(a) + 1)
      BY <1>0, <2>2 DEF PartAt
    <3> QED BY <1>0, <3>1
  <2> QED BY <1>1, <2>1, <2>2 DEF Precedes
<1>2. ASSUME NEW i \in Nat, PartAt(a, b, i) PROVE Precedes(a, b)
  <2>1. CASE i <= Len(a)
    <3>1. /\ i \in DOMAIN a \cap DOMAIN b /\ a[i] < b[i]
          /\ \A j \in 1..(i - 1) : a[j] = b[j]
      BY <1>0, <1>2, <2>1 DEF PartAt
    <3> QED BY <3>1 DEF Precedes
  <2>2. CASE ~(i <= Len(a))
    <3>1. i = Len(a) + 1
      BY <1>0, <1>2, <2>2 DEF PartAt
    <3>2. Len(a) < Len(b) /\ \A j \in DOMAIN a : a[j] = b[j]
      BY <1>0, <1>2, <3>1 DEF PartAt
    <3> QED BY <3>2 DEF Precedes
  <2> QED BY <2>1, <2>2
<1> QED BY <1>1, <1>2

(* Texts are ordered as std::string orders them: totally. *)
LEMMA TextsAreOrdered == TotallyOrders(TextOrder, AnyText)
<1>0. \A a \in AnyText : Len(a) \in Nat /\ \A i \in 1..Len(a) : a[i] \in Nat
  BY TextsAreNumbers
<1>1. ASSUME NEW a \in AnyText, NEW b \in AnyText, Precedes(a, b)
      PROVE  ~Precedes(b, a)
  <2> SUFFICES ASSUME Precedes(b, a) PROVE FALSE
    OBVIOUS
  <2>1. PICK i \in Nat : PartAt(a, b, i)
    BY <1>1, PrecedingParts
  <2>2. PICK j \in Nat : PartAt(b, a, j)
    BY PrecedingParts
  <2>3. Len(a) \in Nat /\ Len(b) \in Nat
    BY <1>0
  <2>4. CASE i < j
    <3>1. i \in 1..(j - 1) /\ i <= Len(a)
      BY <2>1, <2>2, <2>3, <2>4 DEF PartAt
    <3>2. b[i] = a[i] /\ a[i] < b[i] /\ a[i] \in Nat
      BY <1>0, <2>1, <2>2, <3>1 DEF PartAt
    <3> QED BY <3>2
  <2>5. CASE j < i
    <3>1. j \in 1..(i - 1) /\ j <= Len(b)
      BY <2>1, <2>2, <2>3, <2>5 DEF PartAt
    <3>2. a[j] = b[j] /\ b[j] < a[j] /\ b[j] \in Nat
      BY <1>0, <2>1, <2>2, <3>1 DEF PartAt
    <3> QED BY <3>2
  <2>6. CASE i = j
    <3>1. i \in 1..Len(a) /\ i \in 1..Len(b)
      BY <2>1, <2>2, <2>6 DEF PartAt
    <3>2. a[i] < b[i] /\ b[i] < a[i] /\ a[i] \in Nat /\ b[i] \in Nat
      BY <1>0, <2>1, <2>2, <2>3, <2>6, <3>1 DEF PartAt
    <3> QED BY <3>2
  <2> QED BY <2>4, <2>5, <2>6
<1>2. ASSUME NEW a \in AnyText, NEW b \in AnyText, NEW c \in AnyText,
             Precedes(a, b), Precedes(b, c)
      PROVE  Precedes(a, c)
  <2>1. PICK i \in Nat : PartAt(a, b, i)
    BY <1>2, PrecedingParts
  <2>2. PICK j \in Nat : PartAt(b, c, j)
    BY <1>2, PrecedingParts
  <2>3. Len(a) \in Nat /\ Len(b) \in Nat /\ Len(c) \in Nat
    BY <1>0
  <2>4. CASE i < j
    <3>1. i \in 1..(j - 1) /\ i \in 1..Len(c) /\ b[i] = c[i]
      BY <2>1, <2>2, <2>3, <2>4 DEF PartAt
    <3>2. \A k \in 1..(i - 1) : k \in 1..(j - 1)
      BY <2>3, <2>4
    <3>3. \A k \in 1..(i - 1) : a[k] = c[k]
      BY <2>1, <2>2, <3>2 DEF PartAt
    <3>4. PartAt(a, c, i)
      BY <2>1, <3>1, <3>3 DEF PartAt
    <3> QED BY <3>4, PrecedingParts
  <2>5. CASE j < i
    <3>1. /\ j \in 1..(i - 1) /\ j <= Len(a) /\ j <= Len(b) /\ j \in 1..Len(c)
          /\ a[j] = b[j]
      BY <2>1, <2>2, <2>3, <2>5 DEF PartAt
    <3>2. a[j] < c[j]
      BY <2>2, <3>1 DEF PartAt
    <3>3. \A k \in 1..(j - 1) : a[k] = c[k]
      <4>1. \A k \in 1..(j - 1) : k \in 1..(i - 1)
        BY <2>5
      <4> QED BY <2>1, <2>2, <4>1 DEF PartAt
    <3>4. j \in 1..(Len(a) + 1)
      BY <2>3, <3>1
    <3>5. PartAt(a, c, j)
      BY <3>1, <3>2, <3>3, <3>4 DEF PartAt
    <3> QED BY <3>5, PrecedingParts
  <2>6. CASE i = j
    <3>1. i \in 1..Len(b) /\ i \in 1..Len(c)
      BY <2>1, <2>2, <2>6 DEF PartAt
    <3>2. ASSUME i <= Len(a) PROVE a[i] < c[i]
      <4>1. a[i] \in Nat /\ b[i] \in Nat /\ c[i] \in Nat
        BY <1>0, <2>3, <3>1, <3>2
      <4>2. a[i] < b[i] /\ b[i] < c[i]
        BY <2>1, <2>2, <2>3, <2>6, <3>1, <3>2 DEF PartAt
      <4> QED BY <4>1, <4>2
    <3>3. \A k \in 1..(i - 1) : a[k] = c[k]
      BY <2>1, <2>2, <2>6 DEF PartAt
    <3>4. PartAt(a, c, i)
      BY <2>1, <3>1, <3>2, <3>3 DEF PartAt
    <3> QED BY <3>4, PrecedingParts
  <2> QED BY <2>4, <2>5, <2>6
<1>3. \A a, b \in AnyText : <<a, b>> \in TextOrder <=> Precedes(a, b)
  BY DEF TextOrder
<1>4. \A a, b \in AnyText : a # b => Precedes(a, b) \/ Precedes(b, a)
  BY TextsAreComparable
<1> QED BY <1>1, <1>2, <1>3, <1>4 DEF TotallyOrders

(* Variables, by their names and then by their values. *)
LEMMA VariablesAreOrdered == TotallyOrders(VariableOrder, AnyVariable)
<1>1. \A v, w \in AnyVariable :
        <<v, w>> \in VariableOrder <=>
          \/ <<v.name, w.name>> \in TextOrder
          \/ v.name = w.name /\ <<v.value, w.value>> \in TextOrder
  BY DEF VariableOrder, TextOrder, VariablePrecedes, AnyVariable
<1>2. \A v \in AnyVariable : v.name \in AnyText /\ v.value \in AnyText
  BY DEF AnyVariable
<1>3. \A v, w \in AnyVariable : v.name = w.name /\ v.value = w.value => v = w
  BY DEF AnyVariable
<1>4. TotallyOrders(TextOrder, AnyText)
  BY TextsAreOrdered
<1> USE DEF TotallyOrders
<1>5. ASSUME NEW v \in AnyVariable, NEW w \in AnyVariable,
             <<v, w>> \in VariableOrder
      PROVE  <<w, v>> \notin VariableOrder
  BY <1>1, <1>2, <1>4, <1>5
<1>6. ASSUME NEW u \in AnyVariable, NEW v \in AnyVariable, NEW w \in AnyVariable,
             <<u, v>> \in VariableOrder, <<v, w>> \in VariableOrder
      PROVE  <<u, w>> \in VariableOrder
  BY <1>1, <1>2, <1>4, <1>6
<1>7. ASSUME NEW v \in AnyVariable, NEW w \in AnyVariable, v # w
      PROVE  <<v, w>> \in VariableOrder \/ <<w, v>> \in VariableOrder
  BY <1>1, <1>2, <1>3, <1>4, <1>7
<1> QED BY <1>5, <1>6, <1>7

(* Bindings, by their keys: no two have one. *)
LEMMA BindingsAreOrdered == TotallyOrders(BindingOrder, AnyBinding)
<1>1. \A a, b \in AnyBinding :
        <<a, b>> \in BindingOrder <=> Less(BindingKey(a), BindingKey(b))
  BY DEF BindingOrder
<1>2. \A b \in AnyBinding : BindingKey(b) \in Key(5)
  BY BindingKeysAreKeys
<1>3. ASSUME NEW a \in AnyBinding, NEW b \in AnyBinding,
             BindingKey(a) = BindingKey(b)
      PROVE  a = b
  <2>1. /\ BindingKey(a) = <<a.slot[1], a.slot[2], a.resource, a.access, a.mount>>
        /\ BindingKey(b) = <<b.slot[1], b.slot[2], b.resource, b.access, b.mount>>
    BY DEF BindingKey, Role, Name
  <2> DEFINE k == BindingKey(a)
             l == BindingKey(b)
  <2>1a. /\ k[1] = a.slot[1] /\ k[2] = a.slot[2]
         /\ k[3] = a.resource /\ k[4] = a.access /\ k[5] = a.mount
    BY <2>1
  <2>1b. /\ l[1] = b.slot[1] /\ l[2] = b.slot[2]
         /\ l[3] = b.resource /\ l[4] = b.access /\ l[5] = b.mount
    BY <2>1
  <2> HIDE DEF k, l
  <2>1c. k = l
    BY <1>3 DEF k, l
  <2>2. /\ a.slot[1] = b.slot[1] /\ a.slot[2] = b.slot[2]
        /\ a.resource = b.resource /\ a.access = b.access /\ a.mount = b.mount
    BY <2>1a, <2>1b, <2>1c
  <2>3. a.slot = <<a.slot[1], a.slot[2]>> /\ b.slot = <<b.slot[1], b.slot[2]>>
    BY DEF AnyBinding
  <2>4. a.slot = b.slot
    BY <2>2, <2>3
  <2> QED BY <2>2, <2>4 DEF AnyBinding
<1>4. \A a, b \in AnyBinding : Less(BindingKey(a), BindingKey(b)) =>
                                 ~Less(BindingKey(b), BindingKey(a))
  BY <1>2, LessIsAsymmetric
<1>5. \A a, b, c \in AnyBinding :
        Less(BindingKey(a), BindingKey(b)) /\ Less(BindingKey(b), BindingKey(c)) =>
          Less(BindingKey(a), BindingKey(c))
  BY <1>2, LessIsTransitive
<1>6. \A a, b \in AnyBinding : a # b => \/ Less(BindingKey(a), BindingKey(b))
                                        \/ Less(BindingKey(b), BindingKey(a))
  BY <1>2, <1>3, LessIsTotal
<1> QED BY <1>1, <1>4, <1>5, <1>6 DEF TotallyOrders

(* So are numbers. *)
LEMMA NumbersAreOrdered == TotallyOrders(NumberOrder, Nat)
<1>1. \A m, n \in Nat : <<m, n>> \in NumberOrder <=> m < n
  BY DEF NumberOrder
<1> QED BY <1>1 DEF TotallyOrders

----------------------------------------------------------------------------
(* The n values of f are in the order of R. *)
Ascends(R, f, n) == \A l, m \in 1..n : l < m => <<f[l], f[m]>> \in R

(* Each of the n values of f is one of the m values of g. *)
Covers(g, m, f, n) == \A i \in 1..n : \E j \in 1..m : g[j] = f[i]

(* less has the places of s whose elements R compares. *)
ComparesBy(less, R, s) ==
  \A i, j \in 1..Len(s) : <<i, j>> \in less <=> <<s[i], s[j]>> \in R

(* The elements of a set have one order: as far as the shorter list goes,   *)
LEMMA OrdersAgree ==
  ASSUME NEW X, NEW R, TotallyOrders(R, X), NEW n \in Nat, NEW m \in Nat,
         NEW s \in [1..n -> X], NEW t \in [1..m -> X],
         Covers(t, m, s, n), Covers(s, n, t, m),
         Ascends(R, s, n), Ascends(R, t, m)
  PROVE  \A k \in 1..n : k <= m /\ s[k] = t[k]
<1> DEFINE Bad == {k \in Nat : k \in 1..n /\ ~(k <= m /\ s[k] = t[k])}
<1> SUFFICES ASSUME Bad # {} PROVE FALSE
  OBVIOUS
<1>0. Bad \in SUBSET Nat
  OBVIOUS
<1>1. PICK k \in Bad : \A j \in Bad : k <= j
  <2> HIDE DEF Bad
  <2> QED BY <1>0, LeastNat
<1>2. k \in 1..n /\ ~(k <= m /\ s[k] = t[k])
  BY <1>1
<1>3. \A j \in 1..(k - 1) : j \in 1..n /\ j <= m /\ s[j] = t[j]
  <2> SUFFICES ASSUME NEW j \in 1..(k - 1) PROVE j \in 1..n /\ j <= m /\ s[j] = t[j]
    OBVIOUS
  <2>1. j \in Nat /\ j \in 1..n /\ ~(k <= j)
    BY <1>2
  <2> QED BY <1>1, <2>1
<1> HIDE DEF Bad
<1>4. \A x, y \in X : <<x, y>> \in R => <<y, x>> \notin R
  BY DEF TotallyOrders
<1>5. PICK q \in 1..m : t[q] = s[k]
  BY <1>2 DEF Covers
<1>6. ~(q < k)
  <2> SUFFICES ASSUME q < k PROVE FALSE
    OBVIOUS
  <2>1. q \in 1..(k - 1)
    BY <1>2
  <2>2. s[q] = s[k] /\ q \in 1..n
    BY <1>3, <1>5, <2>1
  <2>3. <<s[q], s[k]>> \in R /\ s[k] \in X
    BY <1>2, <2>2 DEF Ascends
  <2> QED BY <1>4, <2>2, <2>3
<1>7. k \in 1..m /\ k < q
  <2>1. k \in 1..m
    BY <1>2, <1>5, <1>6
  <2>2. q # k
    BY <1>2, <1>5, <2>1
  <2> QED BY <1>2, <1>6, <2>1, <2>2
<1>8. PICK r \in 1..n : s[r] = t[k]
  BY <1>7 DEF Covers
<1>9. <<t[k], s[k]>> \in R /\ t[k] \in X /\ s[k] \in X
  BY <1>2, <1>5, <1>7 DEF Ascends
<1>10. CASE r < k
  <2>1. r \in 1..(k - 1)
    BY <1>2, <1>10
  <2>2. t[r] = t[k] /\ r \in 1..m
    BY <1>3, <1>8, <2>1
  <2>3. <<t[r], t[k]>> \in R
    BY <1>7, <1>10, <2>2 DEF Ascends
  <2> QED BY <1>4, <1>9, <2>2, <2>3
<1>11. CASE r = k
  BY <1>2, <1>7, <1>8, <1>11
<1>12. CASE k < r
  <2>1. <<s[k], t[k]>> \in R
    BY <1>2, <1>8, <1>12 DEF Ascends
  <2> QED BY <1>4, <1>9, <2>1
<1> QED BY <1>2, <1>10, <1>11, <1>12

(* and it is the only one.                                                  *)
LEMMA OneOrderOfASet ==
  ASSUME NEW X, NEW R, TotallyOrders(R, X), NEW n \in Nat, NEW m \in Nat,
         NEW s \in [1..n -> X], NEW t \in [1..m -> X],
         Covers(t, m, s, n), Covers(s, n, t, m),
         Ascends(R, s, n), Ascends(R, t, m)
  PROVE  s = t
<1>1. \A k \in 1..n : k <= m /\ s[k] = t[k]
  BY OrdersAgree
<1>2. \A k \in 1..m : k <= n /\ t[k] = s[k]
  BY OrdersAgree
<1>3. n <= m
  <2>1. CASE n = 0
    BY <2>1
  <2>2. CASE n # 0
    <3>1. n \in 1..n
      BY <2>2
    <3> QED BY <1>1, <3>1
  <2> QED BY <2>1, <2>2
<1>4. m <= n
  <2>1. CASE m = 0
    BY <2>1
  <2>2. CASE m # 0
    <3>1. m \in 1..m
      BY <2>2
    <3> QED BY <1>2, <3>1
  <2> QED BY <2>1, <2>2
<1>5. n = m
  BY <1>3, <1>4
<1> QED BY <1>1, <1>5

(* Sorting elements that differ puts them in strict order. *)
LEMMA SortedAscends ==
  ASSUME NEW X, NEW R, TotallyOrders(R, X), NEW s \in Seq(X),
         NEW less, ComparesBy(less, R, s), Apart(s, Len(s))
  PROVE  /\ Sorted(s, less) \in [1..Len(s) -> X]
         /\ Ascends(R, Sorted(s, less), Len(s))
         /\ Covers(s, Len(s), Sorted(s, less), Len(s))
         /\ Covers(Sorted(s, less), Len(s), s, Len(s))
<1> DEFINE n == Len(s)
           u == Sorted(s, less)
<1>1. n \in Nat /\ s \in [1..n -> X]
  OBVIOUS
<1>2. Compares(less, n)
  <2>1. \A i, j \in 1..n : <<i, j>> \in less <=> <<s[i], s[j]>> \in R
    BY DEF ComparesBy
  <2>2. n \in Nat /\ s \in [1..n -> X]
    BY <1>1
  <2> HIDE DEF n
  <2> QED BY <2>1, <2>2, OrderedPlacesCompare
<1>3. /\ u \in Seq(X)
      /\ Rearranges(u, s)
      /\ \E p : Sorts(p, less, n) /\ \A m \in 1..n : u[m] = s[p[m]]
  BY <1>2, SortedRearranges
<1>4. PICK p : Sorts(p, less, n) /\ \A m \in 1..n : u[m] = s[p[m]]
  BY <1>3
<1>5. u \in [1..n -> X]
  BY <1>3 DEF Rearranges
<1>6. /\ \A i, j \in 1..n : <<i, j>> \in less <=> <<s[i], s[j]>> \in R
      /\ Apart(s, n)
  BY DEF ComparesBy
<1> HIDE DEF u, n
<1>7. ASSUME NEW l \in 1..n, NEW m \in 1..n, l < m PROVE <<u[l], u[m]>> \in R
  <2>1. /\ p[l] \in 1..n /\ p[m] \in 1..n
        /\ <<p[m], p[l]>> \notin less /\ p[l] # p[m]
    BY <1>1, <1>4, <1>7 DEF Sorts
  <2>2. u[l] = s[p[l]] /\ u[m] = s[p[m]]
    BY <1>4
  <2>3. <<s[p[m]], s[p[l]]>> \notin R /\ s[p[l]] # s[p[m]]
    BY <1>6, <2>1 DEF Apart
  <2>4. s[p[l]] \in X /\ s[p[m]] \in X
    BY <1>1, <2>1
  <2>5. <<s[p[l]], s[p[m]]>> \in R
    BY <2>3, <2>4 DEF TotallyOrders
  <2> QED BY <2>2, <2>5
<1>8. Covers(s, n, u, n)
  BY <1>4 DEF Sorts, Covers
<1>9. ASSUME NEW i \in 1..n PROVE \E m \in 1..n : u[m] = s[i]
  <2>1. PICK m \in 1..n : p[m] = i
    BY <1>4 DEF Sorts
  <2> QED BY <1>4, <2>1
<1>10. Ascends(R, u, n)
  BY <1>7 DEF Ascends
<1>11. Covers(u, n, s, n)
  BY <1>9 DEF Covers
<1> QED BY <1>5, <1>8, <1>10, <1>11 DEF u, n

(* What covers one that covers a third covers the third. *)
LEMMA CoveringPasses ==
  ASSUME NEW f, NEW g, NEW h, NEW e, NEW k, NEW m, NEW n, NEW l,
         Covers(e, l, f, k), Covers(f, k, g, m), Covers(g, m, h, n)
  PROVE  Covers(e, l, h, n)
<1> SUFFICES ASSUME NEW i \in 1..n PROVE \E j \in 1..l : e[j] = h[i]
  BY DEF Covers
<1>1. PICK a \in 1..m : g[a] = h[i]
  BY DEF Covers
<1>2. PICK b \in 1..k : f[b] = g[a]
  BY DEF Covers
<1>3. PICK j \in 1..l : e[j] = f[b]
  BY DEF Covers
<1> QED BY <1>1, <1>2, <1>3

(* Whatever order the elements of a set came in, sorted they are one list.  *)
LEMMA SortedOfASet ==
  ASSUME NEW X, NEW R, TotallyOrders(R, X), NEW s \in Seq(X), NEW t \in Seq(X),
         NEW ls, NEW lt, ComparesBy(ls, R, s), ComparesBy(lt, R, t),
         Apart(s, Len(s)), Apart(t, Len(t)), ToSet(s) = ToSet(t)
  PROVE  Sorted(s, ls) = Sorted(t, lt)
<1> DEFINE n == Len(s)
           m == Len(t)
           u == Sorted(s, ls)
           v == Sorted(t, lt)
<1>1. /\ u \in [1..n -> X] /\ Ascends(R, u, n)
      /\ Covers(s, n, u, n) /\ Covers(u, n, s, n)
  BY SortedAscends, Zenon
<1>2. /\ v \in [1..m -> X] /\ Ascends(R, v, m)
      /\ Covers(t, m, v, m) /\ Covers(v, m, t, m)
  BY SortedAscends, Zenon
<1>3. Covers(t, m, s, n) /\ Covers(s, n, t, m)
  <2>1. ToSet(s) = {s[i] : i \in 1..n} /\ ToSet(t) = {t[i] : i \in 1..m}
    BY DEF ToSet
  <2> QED BY <2>1 DEF Covers
<1>4. n \in Nat /\ m \in Nat
  OBVIOUS
<1> HIDE DEF u, v, n, m
<1>5. Covers(v, m, u, n)
  BY <1>1, <1>2, <1>3, CoveringPasses
<1>6. Covers(u, n, v, m)
  BY <1>1, <1>2, <1>3, CoveringPasses
<1>7. u = v
  BY <1>1, <1>2, <1>4, <1>5, <1>6, OneOrderOfASet
<1> QED BY <1>7 DEF u, v

(* None of the n values of f comes after one that R puts behind it. *)
NeverDescends(R, f, n) == \A l, m \in 1..n : l < m => <<f[m], f[l]>> \notin R

(* Where values are in order, equal ones are neighbours. *)
LEMMA EqualOnesAreNeighbours ==
  ASSUME NEW X, NEW R, TotallyOrders(R, X), NEW n \in Nat, NEW f \in [1..n -> X],
         NeverDescends(R, f, n)
  PROVE  (\E i \in 2..n : f[i - 1] = f[i]) <=> ~Apart(f, n)
<1>1. ASSUME NEW i \in 2..n, f[i - 1] = f[i] PROVE ~Apart(f, n)
  <2>1. i - 1 \in 1..n /\ i \in 1..n /\ i - 1 # i
    OBVIOUS
  <2> QED BY <1>1, <2>1 DEF Apart
<1>2. ASSUME NEW l \in 1..n, NEW m \in 1..n, l < m, f[l] = f[m]
      PROVE  \E i \in 2..n : f[i - 1] = f[i]
  <2>1. l + 1 \in 2..n /\ l + 1 \in 1..n /\ (l + 1) - 1 = l
    BY <1>2
  <2>2. <<f[l + 1], f[l]>> \notin R
    BY <1>2, <2>1 DEF NeverDescends
  <2>3. <<f[l], f[l + 1]>> \notin R
    <3>1. CASE l + 1 = m
      <4>1. f[l + 1] = f[l]
        BY <1>2, <3>1
      <4> QED BY <2>2, <4>1
    <3>2. CASE l + 1 # m
      <4>1. l + 1 < m
        BY <1>2, <3>2
      <4> QED BY <1>2, <2>1, <4>1 DEF NeverDescends
    <3> QED BY <3>1, <3>2
  <2>4. f[l] = f[l + 1]
    BY <2>1, <2>2, <2>3 DEF TotallyOrders
  <2> QED BY <2>1, <2>4
<1>3. ASSUME ~Apart(f, n) PROVE \E i \in 2..n : f[i - 1] = f[i]
  <2>1. PICK l \in 1..n, m \in 1..n : f[l] = f[m] /\ l # m
    BY <1>3 DEF Apart
  <2>2. l < m \/ m < l
    BY <2>1
  <2> QED BY <1>2, <2>1, <2>2
<1> QED BY <1>1, <1>3

(* Whoever is refused failed a check, and gets its code. *)
LEMMA RefusalIsOfACheck ==
  ASSUME NEW checks, NEW n \in Nat, DOMAIN checks = 1..n, ~Passes(checks)
  PROVE  \E i \in 1..n : checks[i][1] /\ Code(checks) = checks[i][2]
<1> DEFINE Fails == {i \in Nat : i \in 1..n /\ checks[i][1]}
<1>1. Fails # {}
  BY DEF Passes
<1>2. PICK i \in Fails : \A j \in Fails : i <= j
  BY <1>1, LeastNat
<1>3. i \in 1..n /\ checks[i][1]
  BY <1>2
<1>4. \A j \in 1..(i - 1) : ~checks[j][1]
  <2> SUFFICES ASSUME NEW j \in 1..(i - 1), checks[j][1] PROVE FALSE
    OBVIOUS
  <2>1. j \in Nat /\ j \in 1..n /\ ~(i <= j)
    BY <1>3
  <2> QED BY <1>2, <2>1
<1> HIDE DEF Fails
<1> DEFINE First(k) == checks[k][1] /\ \A j \in 1..(k - 1) : ~checks[j][1]
           first == CHOOSE k \in 1..n : First(k)
<1>5. \E k \in 1..n : First(k)
  BY <1>3, <1>4
<1>6. Code(checks) = checks[first][2]
  BY DEF Code
<1> HIDE DEF First
<1>7. first \in 1..n /\ First(first)
  BY <1>5
<1> QED BY <1>6, <1>7 DEF First

----------------------------------------------------------------------------
(* C is the list A and then the list B. *)
Joins(C, A, B) ==
  /\ Len(C) = Len(A) + Len(B) /\ DOMAIN C = 1..(Len(A) + Len(B))
  /\ \A i \in 1..Len(A) : i \in DOMAIN C /\ C[i] = A[i]
  /\ \A j \in 1..Len(B) : Len(A) + j \in DOMAIN C /\ C[Len(A) + j] = B[j]
  /\ \A i \in DOMAIN C : i \in 1..Len(A) \/ \E j \in 1..Len(B) : i = Len(A) + j

(* Two lists, one after the other. *)
LEMMA ListsAreJoined ==
  ASSUME NEW S, NEW A \in Seq(S), NEW B \in Seq(S)
  PROVE  Joins(A \o B, A, B)
<1>1. Len(A) \in Nat /\ Len(B) \in Nat
  OBVIOUS
<1>2. /\ A \o B \in Seq(S) /\ Len(A \o B) = Len(A) + Len(B)
      /\ DOMAIN (A \o B) = 1..(Len(A) + Len(B))
  OBVIOUS
<1>3. \A i \in 1..Len(A) : i \in DOMAIN (A \o B) /\ (A \o B)[i] = A[i]
  OBVIOUS
<1>4. \A j \in 1..Len(B) : /\ Len(A) + j \in DOMAIN (A \o B)
                           /\ (A \o B)[Len(A) + j] = B[j]
  OBVIOUS
<1>5. ASSUME NEW i \in 1..(Len(A) + Len(B)), ~(i \in 1..Len(A))
      PROVE  \E j \in 1..Len(B) : i = Len(A) + j
  <2>1. i - Len(A) \in 1..Len(B) /\ i = Len(A) + (i - Len(A))
    BY <1>1, <1>5
  <2> QED BY <2>1
<1> QED BY <1>2, <1>3, <1>4, <1>5 DEF Joins

(* How variables, groups and bindings compare. *)
VariablesLess(s) ==
  {p \in PlacePairs(s) : VariablePrecedes(s[p[1]], s[p[2]])}
GroupsLess(s) == {p \in PlacePairs(s) : s[p[1]] < s[p[2]]}

(* Each sort compares places as its order compares the elements there. *)
LEMMA VariablesCompare ==
  ASSUME NEW s \in Seq(AnyVariable)
  PROVE  /\ SortedVariables(s) = Sorted(s, VariablesLess(s))
         /\ ComparesBy(VariablesLess(s), VariableOrder, s)
<1>1. \A i \in 1..Len(s) : s[i] \in AnyVariable
  OBVIOUS
<1>2. \A i, j \in 1..Len(s) :
        <<i, j>> \in VariablesLess(s) <=> VariablePrecedes(s[i], s[j])
  BY DEF VariablesLess, PlacePairs
<1>3. \A v, w \in AnyVariable : <<v, w>> \in VariableOrder <=> VariablePrecedes(v, w)
  BY DEF VariableOrder
<1> QED BY <1>1, <1>2, <1>3 DEF SortedVariables, VariablesLess, ComparesBy

(* Groups, as numbers. *)
LEMMA GroupsCompare ==
  ASSUME NEW s \in Seq(Nat)
  PROVE  /\ SortedGroups(s) = Sorted(s, GroupsLess(s))
         /\ ComparesBy(GroupsLess(s), NumberOrder, s)
<1>1. \A i \in 1..Len(s) : s[i] \in Nat
  OBVIOUS
<1>2. \A i, j \in 1..Len(s) : <<i, j>> \in GroupsLess(s) <=> s[i] < s[j]
  BY DEF GroupsLess, PlacePairs
<1>3. \A m, n \in Nat : <<m, n>> \in NumberOrder <=> m < n
  BY DEF NumberOrder
<1> QED BY <1>1, <1>2, <1>3 DEF SortedGroups, GroupsLess, ComparesBy

(* Bindings, by their keys. *)
LEMMA BindingsCompare ==
  ASSUME NEW s \in Seq(AnyBinding)
  PROVE  /\ SortedBindings(s) = Sorted(s, KeysLess(BindingKeys(s)))
         /\ ComparesBy(KeysLess(BindingKeys(s)), BindingOrder, s)
<1> DEFINE n == Len(s)
           keys == BindingKeys(s)
<1>1. n \in Nat /\ DOMAIN s = 1..n /\ \A i \in 1..n : s[i] \in AnyBinding
  OBVIOUS
<1>2. keys \in [1..n -> Key(5)] /\ \A i \in 1..n : keys[i] = BindingKey(s[i])
  BY <1>1, BindingKeysAreKeys DEF BindingKeys
<1>3. \A a, b \in AnyBinding :
        <<a, b>> \in BindingOrder <=> Less(BindingKey(a), BindingKey(b))
  BY DEF BindingOrder
<1> HIDE DEF keys, n
<1>4. Len(keys) = n
  BY <1>1, <1>2
<1>5. \A i, j \in 1..n : <<i, j>> \in KeysLess(keys) <=> Less(keys[i], keys[j])
  BY <1>1, <1>2, <1>4, KeysCompare
<1>6. \A i, j \in 1..n : <<i, j>> \in KeysLess(keys) <=> <<s[i], s[j]>> \in BindingOrder
  BY <1>1, <1>2, <1>3, <1>5
<1> QED BY <1>6 DEF SortedBindings, ComparesBy, keys, n

(* What is sorted has the elements of the list, in order. *)
LEMMA SortingOrders ==
  ASSUME NEW X, NEW R, TotallyOrders(R, X), NEW s \in Seq(X),
         NEW less, ComparesBy(less, R, s)
  PROVE  /\ Sorted(s, less) \in Seq(X)
         /\ Rearranges(Sorted(s, less), s)
         /\ NeverDescends(R, Sorted(s, less), Len(s))
<1> DEFINE n == Len(s)
           u == Sorted(s, less)
<1>1. n \in Nat /\ s \in [1..n -> X]
  OBVIOUS
<1>2. \A i, j \in 1..n : <<i, j>> \in less <=> <<s[i], s[j]>> \in R
  BY DEF ComparesBy
<1>3. Compares(less, n)
  <2>1. n \in Nat /\ s \in [1..n -> X]
    BY <1>1
  <2> HIDE DEF n
  <2> QED BY <1>2, <2>1, OrderedPlacesCompare
<1>4. /\ u \in Seq(X)
      /\ Rearranges(u, s)
      /\ \E p : Sorts(p, less, n) /\ \A m \in 1..n : u[m] = s[p[m]]
  BY <1>3, SortedRearranges
<1>5. PICK p : Sorts(p, less, n) /\ \A m \in 1..n : u[m] = s[p[m]]
  BY <1>4
<1> HIDE DEF u, n
<1>6. ASSUME NEW l \in 1..n, NEW m \in 1..n, l < m PROVE <<u[m], u[l]>> \notin R
  <2>1. p[l] \in 1..n /\ p[m] \in 1..n /\ <<p[m], p[l]>> \notin less
    BY <1>1, <1>5, <1>6 DEF Sorts
  <2> QED BY <1>2, <1>5, <2>1
<1>7. NeverDescends(R, u, n)
  BY <1>6 DEF NeverDescends
<1> QED BY <1>4, <1>7 DEF u, n

(* credential_policy::fixed() compares neighbours: no group is there twice. *)
LEMMA RepeatedGroupsAreFound ==
  ASSUME NEW s \in Seq(Nat)
  PROVE  /\ (\E i \in 2..Len(SortedGroups(s)) :
               SortedGroups(s)[i - 1] = SortedGroups(s)[i]) <=> ~Apart(s, Len(s))
         /\ \A x : (\E i \in DOMAIN SortedGroups(s) : SortedGroups(s)[i] = x) <=>
                     Takes(s, Len(s), x)
<1> DEFINE n == Len(s)
           u == SortedGroups(s)
<1>0. n \in Nat
  OBVIOUS
<1>1a. u \in Seq(Nat) /\ Rearranges(u, s) /\ NeverDescends(NumberOrder, u, n)
  <2> DEFINE less == GroupsLess(s)
  <2>1. u = Sorted(s, less) /\ ComparesBy(less, NumberOrder, s)
    BY GroupsCompare
  <2> HIDE DEF less
  <2>2. /\ Sorted(s, less) \in Seq(Nat) /\ Rearranges(Sorted(s, less), s)
        /\ NeverDescends(NumberOrder, Sorted(s, less), Len(s))
    BY <2>1, NumbersAreOrdered, SortingOrders
  <2> QED BY <2>1, <2>2
<1>1. u \in Seq(Nat) /\ Len(u) = n /\ NeverDescends(NumberOrder, u, n)
  BY <1>1a DEF Rearranges
<1>2. PICK p \in [1..n -> 1..n] :
        /\ \A m \in 1..n : u[m] = s[p[m]]
        /\ \A i \in 1..n : \E m \in 1..n : p[m] = i
        /\ \A l, m \in 1..n : p[l] = p[m] => l = m
  BY <1>1a DEF Rearranges
<1> HIDE DEF u, n
<1>3. u \in [1..n -> Nat] /\ DOMAIN u = 1..n
  BY <1>1
<1>4. (\E i \in 2..n : u[i - 1] = u[i]) <=> ~Apart(u, n)
  <2>1. TotallyOrders(NumberOrder, Nat) /\ NeverDescends(NumberOrder, u, n)
    BY <1>1, NumbersAreOrdered
  <2> QED BY <1>0, <1>3, <2>1, EqualOnesAreNeighbours
<1>5. /\ Apart(u, n) <=> Apart(s, n)
      /\ \A x : Takes(u, n, x) <=> Takes(s, n, x)
  BY <1>0, <1>2, RearrangedValues
<1>6. \A x : (\E i \in DOMAIN u : u[i] = x) <=> Takes(s, n, x)
  BY <1>3, <1>5 DEF Takes
<1> QED BY <1>1, <1>4, <1>5, <1>6 DEF u, n

(* environment_policy::hermetic() compares neighbours: no name is there     *)
(* twice, whatever the values.                                              *)
LEMMA RepeatedNamesAreFound ==
  ASSUME NEW s \in Seq(AnyVariable)
  PROVE  (\E i \in 2..Len(SortedVariables(s)) :
            SameName(SortedVariables(s)[i - 1], SortedVariables(s)[i])) <=>
         ~\A i, j \in 1..Len(s) : s[i].name = s[j].name => i = j
<1> DEFINE n == Len(s)
           u == SortedVariables(s)
           f == [i \in 1..n |-> s[i].name]
           g == [i \in 1..n |-> u[i].name]
<1>0. n \in Nat
  OBVIOUS
<1>1a. u \in Seq(AnyVariable) /\ Rearranges(u, s)
         /\ NeverDescends(VariableOrder, u, n)
  <2> DEFINE less == VariablesLess(s)
  <2>1. u = Sorted(s, less) /\ ComparesBy(less, VariableOrder, s)
    BY VariablesCompare
  <2> HIDE DEF less
  <2>2. /\ Sorted(s, less) \in Seq(AnyVariable) /\ Rearranges(Sorted(s, less), s)
        /\ NeverDescends(VariableOrder, Sorted(s, less), Len(s))
    BY <2>1, VariablesAreOrdered, SortingOrders
  <2> QED BY <2>1, <2>2
<1>1. u \in Seq(AnyVariable) /\ Len(u) = n /\ NeverDescends(VariableOrder, u, n)
  BY <1>1a DEF Rearranges
<1>2. PICK p \in [1..n -> 1..n] :
        /\ \A m \in 1..n : u[m] = s[p[m]]
        /\ \A i \in 1..n : \E m \in 1..n : p[m] = i
        /\ \A l, m \in 1..n : p[l] = p[m] => l = m
  BY <1>1a DEF Rearranges
<1>3. Apart(f, n) <=> \A i, j \in 1..n : s[i].name = s[j].name => i = j
  BY DEF Apart
<1>4. \A m \in 1..n : g[m] = f[p[m]]
  BY <1>2
<1>5. \A i \in 1..n : u[i] \in AnyVariable /\ g[i] = u[i].name
  BY <1>1
<1> HIDE DEF f, u, n
<1>6. Apart(g, n) <=> Apart(f, n)
  <2> HIDE DEF g
  <2> QED BY <1>0, <1>2, <1>4, RearrangedValues
<1>7. g \in [1..n -> AnyText]
  BY <1>5 DEF AnyVariable
<1>8a. ASSUME NEW l \in 1..n, NEW m \in 1..n, l < m
      PROVE  <<g[m], g[l]>> \notin TextOrder
  <2>1. <<u[m], u[l]>> \notin VariableOrder /\ u[l] \in AnyVariable /\ u[m] \in AnyVariable
    BY <1>1, <1>5, <1>8a DEF NeverDescends
  <2>2. ~Precedes(u[m].name, u[l].name)
    BY <2>1 DEF VariableOrder, VariablePrecedes
  <2> QED BY <1>5, <2>2 DEF TextOrder
<1>8. NeverDescends(TextOrder, g, n)
  BY <1>8a DEF NeverDescends
<1>9. (\E i \in 2..n : g[i - 1] = g[i]) <=> ~Apart(g, n)
  <2> HIDE DEF g
  <2> QED BY <1>0, <1>7, <1>8, TextsAreOrdered, EqualOnesAreNeighbours
<1>10. \A i \in 2..n : SameName(u[i - 1], u[i]) <=> g[i - 1] = g[i]
  <2> SUFFICES ASSUME NEW i \in 2..n PROVE SameName(u[i - 1], u[i]) <=> g[i - 1] = g[i]
    OBVIOUS
  <2>1. i - 1 \in 1..n /\ i \in 1..n
    BY <1>0
  <2> QED BY <1>5, <2>1 DEF SameName
<1> HIDE DEF g
<1> QED BY <1>1, <1>3, <1>6, <1>9, <1>10 DEF u, n

----------------------------------------------------------------------------
(* No code that refuses a variable is that of a repeated one, nor says that *)
(* it is sealed.                                                            *)
LEMMA VariablesAreAnswered ==
  ASSUME NEW v
  PROVE  /\ TextCode("variable", v) = VariableCode(v.name, v.value)
         /\ TextCode("variable", v) \notin {"sealed", "duplicate_environment_variable"}
         /\ TextCode("variable", v) = "ok" => v.name \notin Reserved
  BY DEF TextCode, VariableCode

(* Each name stands once, and none is the policy's own. *)
NamesOnce(v) == \A i, j \in DOMAIN v : v[i].name = v[j].name => i = j
NamesAreFree(v) == \A i \in DOMAIN v : v[i].name \notin Reserved

(* What environment_policy::hermetic() lets through has each name once and  *)
(* none of its own and no negative epoch, and what it calls a duplicate is  *)
(* one.                                                                     *)
LEMMA EnvironmentsAreAnswered ==
  ASSUME NEW d, d.variables \in Seq(AnyVariable)
  PROVE  /\ Verdict(EnvironmentChecks(d)) = "sealed" =>
              NamesOnce(d.variables) /\ NamesAreFree(d.variables)
         /\ Verdict(EnvironmentChecks(d)) = "sealed" =>
              ~(d.epoch # <<>> /\ d.epoch[1] < 0)
         /\ Verdict(EnvironmentChecks(d)) = "duplicate_environment_variable" =>
              ~NamesOnce(d.variables)
<1> DEFINE v == d.variables
           k == Len(v)
           sorted == SortedVariables(v)
           once == \A i, j \in 1..k : v[i].name = v[j].name => i = j
           repeats == \E i \in 2..Len(sorted) : SameName(sorted[i - 1], sorted[i])
           negative == d.epoch # <<>> /\ d.epoch[1] < 0
           code == [i \in DOMAIN v |-> TextCode("variable", v[i])]
           A == [i \in DOMAIN v |-> <<code[i] # "ok", code[i]>>]
           b1 == <<d.network \notin ValidNetwork, "invalid_policy">>
           b2 == <<d.stdin \notin ValidStdin, "invalid_policy">>
           b3 == <<{d.stdout, d.stderr} \ ValidStream # {}, "invalid_policy">>
           b4 == <<d.path = <<>>, "invalid_policy">>
           b5 == <<d.parallelism = 0, "invalid_policy">>
           b6 == <<d.mask > 511, "invalid_policy">>
           b7 == <<negative, "invalid_policy">>
           b8 == <<Cardinality(ToSet(d.path)) # Len(d.path), "invalid_policy">>
           b9 == <<repeats, "duplicate_environment_variable">>
           B == <<b1, b2, b3, b4, b5, b6, b7, b8, b9>>
           S == {A[i] : i \in 1..k} \cup {b1, b2, b3, b4, b5, b6, b7, b8, b9}
<1>1. EnvironmentChecks(d) = A \o B
  BY DEF EnvironmentChecks
<1>2. k \in Nat /\ DOMAIN v = 1..k
  OBVIOUS
<1>3. repeats <=> ~once
  BY RepeatedNamesAreFound
<1> HIDE DEF repeats, negative
<1>4. /\ b9[1] <=> repeats
      /\ b7[1] <=> negative
      /\ b9[2] = "duplicate_environment_variable"
      /\ \A b \in {b1, b2, b3, b4, b5, b6, b7, b8} : b[2] = "invalid_policy"
  OBVIOUS
<1>5. \A i \in 1..k : /\ A[i][1] <=> TextCode("variable", v[i]) # "ok"
                      /\ A[i][2] = TextCode("variable", v[i])
  BY <1>2
<1>5a. \A i \in 1..k :
         /\ TextCode("variable", v[i]) \notin {"sealed", "duplicate_environment_variable"}
         /\ TextCode("variable", v[i]) = "ok" => v[i].name \notin Reserved
  BY VariablesAreAnswered
<1> HIDE DEF b1, b2, b3, b4, b5, b6, b7, b8, b9
<1>6. A \in Seq(S) /\ Len(A) = k
  <2>1. A = [i \in 1..k |-> A[i]]
    BY <1>2
  <2> HIDE DEF A, B
  <2>2. A \in [1..k -> S]
    BY <2>1
  <2> QED BY <1>2, <2>2
<1>7. /\ B \in Seq(S) /\ Len(B) = 9
      /\ B[9][1] <=> repeats
      /\ B[7][1] <=> negative
      /\ \A j \in 1..8 : B[j][2] = "invalid_policy"
      /\ B[9][2] = "duplicate_environment_variable"
  <2> HIDE DEF A
  <2>1. \A j \in 1..8 : B[j] \in {b1, b2, b3, b4, b5, b6, b7, b8}
    OBVIOUS
  <2>2. B[9] = b9 /\ B[7] = b7 /\ Len(B) = 9 /\ B \in Seq(S)
    OBVIOUS
  <2> HIDE DEF B, S
  <2> QED BY <1>4, <2>1, <2>2
<1> HIDE DEF A, B, S, repeats, once
<1> DEFINE checks == A \o B
<1>8. /\ DOMAIN checks = 1..(k + 9)
      /\ \A i \in 1..k : i \in DOMAIN checks /\ checks[i] = A[i]
      /\ \A j \in 1..9 : k + j \in DOMAIN checks /\ checks[k + j] = B[j]
      /\ \A i \in DOMAIN checks : i \in 1..k \/ \E j \in 1..9 : i = k + j
  <2> HIDE DEF k
  <2>1. Joins(A \o B, A, B)
    BY <1>6, <1>7, ListsAreJoined
  <2>2. Len(A) = k /\ Len(B) = 9
    BY <1>6, <1>7
  <2> HIDE DEF checks
  <2>3. Joins(checks, A, B)
    BY <2>1 DEF checks
  <2> QED BY <2>2, <2>3 DEF Joins
<1> HIDE DEF checks, v
<1>9. \A i \in DOMAIN checks :
        checks[i][2] = "duplicate_environment_variable" => i = k + 9
  <2> SUFFICES ASSUME NEW i \in DOMAIN checks,
                      checks[i][2] = "duplicate_environment_variable"
               PROVE  i = k + 9
    OBVIOUS
  <2>1. ~(i \in 1..k)
    BY <1>5, <1>5a, <1>8
  <2>2. PICK j \in 1..9 : i = k + j
    BY <1>8, <2>1
  <2>3. j \notin 1..8
    BY <1>7, <1>8, <2>2
  <2> QED BY <2>2, <2>3
<1>10. \A i \in DOMAIN checks : checks[i][2] # "sealed"
  <2> SUFFICES ASSUME NEW i \in DOMAIN checks PROVE checks[i][2] # "sealed"
    OBVIOUS
  <2>1. CASE i \in 1..k
    <3>1. checks[i][2] = TextCode("variable", v[i])
      BY <1>5, <1>8, <2>1
    <3> QED BY <1>5a, <2>1, <3>1
  <2>2. CASE i \notin 1..k
    <3>1. PICK j \in 1..9 : i = k + j
      BY <1>8, <2>2
    <3>2. j \in 1..8 \/ j = 9
      OBVIOUS
    <3> QED BY <1>7, <1>8, <3>1, <3>2
  <2> QED BY <2>1, <2>2
<1>11. ASSUME ~Passes(checks)
       PROVE  \E i \in DOMAIN checks : checks[i][1] /\ Code(checks) = checks[i][2]
  <2>1. k + 9 \in Nat /\ DOMAIN checks = 1..(k + 9)
    BY <1>2, <1>8
  <2> HIDE DEF k
  <2> QED BY <1>11, <2>1, RefusalIsOfACheck
<1>12. ASSUME Verdict(checks) = "sealed"
       PROVE  once /\ ~negative /\ \A i \in 1..k : v[i].name \notin Reserved
  <2>1. Passes(checks)
    BY <1>10, <1>11, <1>12 DEF Verdict
  <2>2. ~checks[k + 9][1]
    BY <1>8, <2>1 DEF Passes
  <2>3. once
    BY <1>3, <1>7, <1>8, <2>2
  <2>5. ~checks[k + 7][1]
    BY <1>8, <2>1 DEF Passes
  <2>6. ~negative
    BY <1>7, <1>8, <2>5
  <2>4. ASSUME NEW i \in 1..k PROVE v[i].name \notin Reserved
    <3>1. ~checks[i][1]
      BY <1>8, <2>1 DEF Passes
    <3>2. TextCode("variable", v[i]) = "ok"
      BY <1>5, <1>8, <3>1
    <3> QED BY <1>5a, <3>2
  <2> QED BY <2>3, <2>4, <2>6
<1>13. ASSUME Verdict(checks) = "duplicate_environment_variable"
       PROVE  ~once
  <2>1. ~Passes(checks)
    BY <1>13 DEF Verdict
  <2>2. Code(checks) = "duplicate_environment_variable"
    BY <1>13, <2>1 DEF Verdict
  <2>3. PICK i \in DOMAIN checks : checks[i][1] /\ Code(checks) = checks[i][2]
    BY <1>11, <2>1
  <2>4. checks[k + 9][1]
    BY <1>9, <2>2, <2>3
  <2>5. B[9][1]
    BY <1>8, <2>4
  <2> QED BY <1>3, <1>7, <2>5
<1>14. EnvironmentChecks(d) = checks
  BY <1>1 DEF checks
<1> QED BY <1>2, <1>12, <1>13, <1>14 DEF once, negative, v, NamesOnce, NamesAreFree

(* What credential_policy::fixed() lets through has no group twice, the     *)
(* primary one included, and it lets all of that through.                   *)
LEMMA CredentialsAreAnswered ==
  ASSUME NEW d, d.groups \in Seq(Nat), d.group \in Nat
  PROVE  Verdict(CredentialsChecks(d)) = "sealed" <=>
           /\ Apart(d.groups, Len(d.groups))
           /\ ~Takes(d.groups, Len(d.groups), d.group)
<1> DEFINE s == d.groups
           u == SortedGroups(s)
           repeats == \E i \in 2..Len(u) : u[i - 1] = u[i]
           primary == \E i \in DOMAIN u : u[i] = d.group
           checks == << <<repeats, "invalid_policy">>, <<primary, "invalid_policy">> >>
<1>1. CredentialsChecks(d) = checks
  BY DEF CredentialsChecks
<1>2. /\ repeats <=> ~Apart(s, Len(s))
      /\ primary <=> Takes(s, Len(s), d.group)
  BY RepeatedGroupsAreFound
<1> HIDE DEF repeats, primary
<1>3. /\ DOMAIN checks = 1..2
      /\ checks[1][1] <=> repeats
      /\ checks[2][1] <=> primary
      /\ checks[1][2] = "invalid_policy" /\ checks[2][2] = "invalid_policy"
  OBVIOUS
<1> HIDE DEF checks, s
<1>4. Passes(checks) <=> ~repeats /\ ~primary
  <2>1. \A i \in 1..2 : i = 1 \/ i = 2
    OBVIOUS
  <2>2. 1 \in 1..2 /\ 2 \in 1..2
    OBVIOUS
  <2> QED BY <1>3, <2>1, <2>2 DEF Passes
<1>5. ASSUME ~Passes(checks) PROVE Code(checks) # "sealed"
  <2>1. PICK i \in 1..2 : checks[i][1] /\ Code(checks) = checks[i][2]
    BY <1>3, <1>5, RefusalIsOfACheck
  <2>2. i = 1 \/ i = 2
    OBVIOUS
  <2> QED BY <1>3, <2>1, <2>2
<1>6. Verdict(checks) = "sealed" <=> Passes(checks)
  BY <1>5 DEF Verdict
<1> QED BY <1>1, <1>2, <1>4, <1>6 DEF s

AllDiffer(s) == \A i, j \in DOMAIN s : s[i] = s[j] => i = j

(* The primary group and the supplementary ones differ when these do and it *)
(* is none of them.                                                         *)
LEMMA GroupsTogether ==
  ASSUME NEW s \in Seq(Nat), NEW g \in Nat
  PROVE  AllDiffer(<<g>> \o s) <=> Apart(s, Len(s)) /\ ~Takes(s, Len(s), g)
<1> DEFINE one == <<g>>
           n == Len(s)
           all == one \o s
<1>1. one \in Seq(Nat) /\ Len(one) = 1 /\ one[1] = g /\ n \in Nat
  OBVIOUS
<1> HIDE DEF one
<1>2. /\ DOMAIN all = 1..(1 + n) /\ all[1] = g
      /\ \A j \in 1..n : all[1 + j] = s[j]
  <2>1. Joins(one \o s, one, s)
    BY <1>1, ListsAreJoined
  <2>2. 1 \in 1..Len(one)
    BY <1>1
  <2> QED BY <1>1, <2>1, <2>2 DEF Joins
<1> HIDE DEF all, n
<1>3. ASSUME \A i, j \in DOMAIN all : all[i] = all[j] => i = j
      PROVE  Apart(s, n) /\ ~Takes(s, n, g)
  <2>1. ASSUME NEW i \in 1..n, NEW j \in 1..n, s[i] = s[j] PROVE i = j
    <3>1. all[1 + i] = all[1 + j] /\ 1 + i \in DOMAIN all /\ 1 + j \in DOMAIN all
      BY <1>1, <1>2, <2>1
    <3>2. 1 + i = 1 + j
      BY <1>3, <3>1
    <3> QED BY <3>2
  <2>2. ASSUME NEW i \in 1..n, s[i] = g PROVE FALSE
    <3>1. all[1 + i] = all[1] /\ 1 + i \in DOMAIN all /\ 1 \in DOMAIN all
      BY <1>1, <1>2, <2>2
    <3>2. 1 + i = 1
      BY <1>3, <3>1
    <3> QED BY <3>2
  <2> QED BY <2>1, <2>2 DEF Apart, Takes
<1>4. ASSUME Apart(s, n), ~Takes(s, n, g),
             NEW i \in DOMAIN all, NEW j \in DOMAIN all, all[i] = all[j]
      PROVE  i = j
  <2>1. /\ i = 1 \/ \E a \in 1..n : i = 1 + a
        /\ j = 1 \/ \E b \in 1..n : j = 1 + b
    <3>1. \A x \in DOMAIN all : x = 1 \/ (x - 1 \in 1..n /\ x = 1 + (x - 1))
      BY <1>1, <1>2
    <3> QED BY <3>1
  <2>2. CASE i = 1 /\ j = 1
    BY <2>2
  <2>3. CASE i = 1 /\ j # 1
    <3>1. PICK b \in 1..n : j = 1 + b
      BY <2>1, <2>3
    <3>2. s[b] = g
      BY <1>2, <1>4, <2>3, <3>1
    <3> QED BY <1>4, <3>2 DEF Takes
  <2>4. CASE i # 1 /\ j = 1
    <3>1. PICK a \in 1..n : i = 1 + a
      BY <2>1, <2>4
    <3>2. s[a] = g
      BY <1>2, <1>4, <2>4, <3>1
    <3> QED BY <1>4, <3>2 DEF Takes
  <2>5. CASE i # 1 /\ j # 1
    <3>1. PICK a \in 1..n : i = 1 + a
      BY <2>1, <2>5
    <3>2. PICK b \in 1..n : j = 1 + b
      BY <2>1, <2>5
    <3>3. s[a] = s[b]
      BY <1>2, <1>4, <3>1, <3>2
    <3> QED BY <1>4, <3>1, <3>2, <3>3 DEF Apart
  <2> QED BY <2>2, <2>3, <2>4, <2>5
<1> QED BY <1>3, <1>4 DEF all, one, n, AllDiffer

----------------------------------------------------------------------------
(* What was answered: to a text by its checks, to a declaration by those of *)
(* its constructor, with the identity of what was sealed.                   *)
Answered(a) ==
  /\ a.kind \in Kinds \cup TextKinds
  /\ a.declared \in Declarations[a.kind]
  /\ a.kind \in TextKinds =>
       (Sealed(a) <=> TextCode(a.kind, a.declared) = "ok")
  /\ a.kind \in Kinds =>
       /\ a.verdict = VerdictOn(a.kind, a.declared)
       /\ Sealed(a) => a.identity = IdentityBytes(a.kind, a.declared)

(* What is declared has the types of the constructor's parameters. *)
LEMMA DeclaredIsDeclarable ==
  ASSUME NEW a, Answered(a) PROVE a.declared \in Declarable(a.kind)
  BY PoliciesAssumption DEF Answered

PolicyInv == \A a \in answers : Answered(a)

(* No code that refuses a text says that it is sealed. *)
LEMMA CodesRefuse ==
  ASSUME NEW kind \in TextKinds, NEW t PROVE TextCode(kind, t) # "sealed"
<1>1. CASE kind = "path"
  BY <1>1 DEF TextCode, PathCode
<1>2. CASE kind = "slot"
  BY <1>2 DEF TextCode
<1>3. CASE kind = "variable"
  BY <1>3 DEF TextCode, VariableCode
<1>4. CASE kind = "digest"
  BY <1>4 DEF TextCode, IdentityCode
<1> QED BY <1>1, <1>2, <1>3, <1>4 DEF TextKinds

(* Nothing is answered at first, *)
LEMMA PolicyInit == PoliciesInit => PolicyInv
  BY DEF PoliciesInit, PolicyInv

(* each answer is that of a constructor, *)
LEMMA PolicyNext == PolicyInv /\ [PoliciesNext]_answers => PolicyInv'
<1> SUFFICES ASSUME PolicyInv, [PoliciesNext]_answers PROVE PolicyInv'
  OBVIOUS
<1>1. ASSUME NEW kind \in Kinds, DeclareValue(kind) PROVE PolicyInv'
  <2>1. PICK d \in Declarations[kind] :
          answers' = answers \cup
            {[kind |-> kind, declared |-> d, verdict |-> VerdictOn(kind, d),
              identity |-> IF VerdictOn(kind, d) = "sealed"
                             THEN IdentityBytes(kind, d) ELSE <<>>]}
    BY <1>1 DEF DeclareValue
  <2> DEFINE a == [kind |-> kind, declared |-> d, verdict |-> VerdictOn(kind, d),
                   identity |-> IF VerdictOn(kind, d) = "sealed"
                                  THEN IdentityBytes(kind, d) ELSE <<>>]
  <2>2. kind \notin TextKinds
    BY DEF Kinds, TextKinds
  <2>3. Answered(a)
    BY <2>2 DEF Answered, Sealed
  <2>4. answers' = answers \cup {a}
    BY <2>1
  <2> HIDE DEF a
  <2> QED BY <2>3, <2>4 DEF PolicyInv
<1>2. ASSUME NEW kind \in TextKinds, DeclareText(kind) PROVE PolicyInv'
  <2>1. PICK t \in Declarations[kind] :
          answers' = {[kind |-> kind, declared |-> t, identity |-> <<>>,
                       verdict |-> IF TextCode(kind, t) = "ok" THEN "sealed"
                                   ELSE TextCode(kind, t)]}
    BY <1>2 DEF DeclareText
  <2> DEFINE a == [kind |-> kind, declared |-> t, identity |-> <<>>,
                   verdict |-> IF TextCode(kind, t) = "ok" THEN "sealed"
                               ELSE TextCode(kind, t)]
  <2>2. kind \notin Kinds /\ TextCode(kind, t) # "sealed"
    BY CodesRefuse DEF Kinds, TextKinds
  <2>3. Answered(a)
    BY <2>2 DEF Answered, Sealed
  <2>4. answers' = {a}
    BY <2>1
  <2> HIDE DEF a
  <2> QED BY <2>3, <2>4 DEF PolicyInv
<1>3. CASE UNCHANGED answers
  BY <1>3 DEF PolicyInv
<1> QED BY <1>1, <1>2, <1>3 DEF PoliciesNext

(* and stays. *)
LEMMA PolicyInvHolds == PoliciesSpec => []PolicyInv
  BY PolicyInit, PolicyNext, PTL DEF PoliciesSpec

----------------------------------------------------------------------------
(* No character of a name is a zero byte, an equals sign or a colon. *)
LEMMA NamesHaveNoSigns ==
  ASSUME NEW c \in Byte, IsAlnum(c) \/ c \in {Underscore, Dot, 43, 45}
  PROVE  c \notin {0, Equals, Colon}
<1>1. Letters \subseteq 128..255
  BY TextsAssumption
<1> QED BY <1>1 DEF IsAlnum, IsAlpha, Underscore, Dot, Equals, Colon, Byte

(* Two texts, one after the other, character by character. *)
LEMMA TextsAreJoined ==
  ASSUME NEW p \in Seq(Byte), NEW q \in Seq(Byte)
  PROVE  /\ p \o q \in Seq(Byte) /\ Len(p \o q) = Len(p) + Len(q)
         /\ \A i \in 1..(Len(p) + Len(q)) :
              (p \o q)[i] = IF i <= Len(p) THEN p[i] ELSE q[i - Len(p)]
  OBVIOUS

(* The first equals sign is the one between name and value. *)
LEMMA EntriesComeApart ==
  ASSUME NEW name \in Seq(Byte), NEW value \in Seq(Byte),
         VariableCode(name, value) = "ok"
  PROVE  LET entry == name \o <<Equals>> \o value
         IN  /\ FirstPlace(Equals, entry) = Len(name) + 1
             /\ name # <<>>
             /\ ~ContainsNul(entry)
<1> DEFINE sign == <<Equals>>
           entry == name \o sign \o value
<1>1. ValidEnvironmentName(name) /\ ~ContainsNul(value)
  BY DEF VariableCode
<1>2. name # <<>> /\ Len(name) \in Nat /\ Len(value) \in Nat
  BY <1>1 DEF ValidEnvironmentName
<1>3. ASSUME NEW i \in 1..Len(name) PROVE name[i] \notin {0, Equals}
  <2>1. name[i] \in Byte
    OBVIOUS
  <2>2. IsAlnum(name[i]) \/ name[i] = Underscore
    <3>1. CASE i = 1
      BY <1>1, <3>1 DEF ValidEnvironmentName, IsAlnum
    <3>2. CASE i # 1
      <4>1. i \in 2..Len(name)
        BY <3>2
      <4> QED BY <1>1, <4>1 DEF ValidEnvironmentName
    <3> QED BY <3>1, <3>2
  <2> QED BY <2>1, <2>2, NamesHaveNoSigns
<1>4. sign \in Seq(Byte) /\ Len(sign) = 1 /\ sign[1] = Equals
  BY DEF Equals, Byte
<1> HIDE DEF sign
<1>5. /\ name \o sign \in Seq(Byte) /\ Len(name \o sign) = Len(name) + 1
      /\ \A i \in 1..(Len(name) + 1) :
           (name \o sign)[i] = IF i <= Len(name) THEN name[i] ELSE sign[i - Len(name)]
  BY <1>4, TextsAreJoined
<1>6. /\ entry \in Seq(Byte) /\ Len(entry) = Len(name) + 1 + Len(value)
      /\ \A i \in 1..(Len(name) + 1 + Len(value)) :
           entry[i] = IF i <= Len(name) + 1 THEN (name \o sign)[i]
                      ELSE value[i - (Len(name) + 1)]
  <2> DEFINE front == name \o sign
  <2>1. front \in Seq(Byte) /\ Len(front) = Len(name) + 1
    BY <1>5
  <2> HIDE DEF front
  <2>2. /\ front \o value \in Seq(Byte)
        /\ Len(front \o value) = Len(front) + Len(value)
        /\ \A i \in 1..(Len(front) + Len(value)) :
             (front \o value)[i] = IF i <= Len(front) THEN front[i]
                                   ELSE value[i - Len(front)]
    BY <2>1, TextsAreJoined
  <2>3. entry = front \o value
    BY DEF front
  <2> HIDE DEF entry
  <2>4. /\ entry \in Seq(Byte) /\ Len(entry) = Len(name) + 1 + Len(value)
        /\ \A i \in 1..(Len(name) + 1 + Len(value)) :
             entry[i] = IF i <= Len(name) + 1 THEN front[i]
                        ELSE value[i - (Len(name) + 1)]
    BY <2>1, <2>2, <2>3
  <2> QED BY <2>4 DEF front
<1> HIDE DEF entry
<1>7. \A i \in 1..Len(name) : entry[i] = name[i]
  <2> TAKE i \in 1..Len(name)
  <2>1. i \in 1..(Len(name) + 1) /\ i \in 1..(Len(name) + 1 + Len(value))
          /\ i <= Len(name) /\ i <= Len(name) + 1
    BY <1>2
  <2> QED BY <1>5, <1>6, <2>1
<1>8. entry[Len(name) + 1] = Equals
  <2>1. Len(name) + 1 \in 1..(Len(name) + 1)
          /\ Len(name) + 1 \in 1..(Len(name) + 1 + Len(value))
          /\ ~(Len(name) + 1 <= Len(name)) /\ (Len(name) + 1) - Len(name) = 1
    BY <1>2
  <2> QED BY <1>4, <1>5, <1>6, <2>1
<1>9. FirstPlace(Equals, entry) = Len(name) + 1
  <2> DEFINE First(i) == entry[i] = Equals /\ \A j \in 1..(i - 1) : entry[j] # Equals
  <2>1. Len(name) + 1 \in DOMAIN entry /\ DOMAIN entry \subseteq Nat
    BY <1>2, <1>6
  <2>2. First(Len(name) + 1)
    <3>1. (Len(name) + 1) - 1 = Len(name)
      BY <1>2
    <3> QED BY <1>3, <1>7, <1>8, <3>1
  <2>3. ASSUME NEW i \in DOMAIN entry, First(i) PROVE i = Len(name) + 1
    <3>1. i \in Nat /\ i >= 1
      BY <1>6
    <3>2. ~(i \in 1..Len(name))
      BY <1>3, <1>7, <2>3
    <3>3. ~(Len(name) + 1 \in 1..(i - 1))
      BY <1>8, <2>3
    <3> QED BY <1>2, <3>1, <3>2, <3>3
  <2>4. FirstPlace(Equals, entry) = CHOOSE i \in DOMAIN entry : First(i)
    BY DEF FirstPlace
  <2> HIDE DEF First
  <2> QED BY <2>1, <2>2, <2>3, <2>4
<1>10. ~ContainsNul(entry)
  <2> SUFFICES ASSUME NEW i \in DOMAIN entry, entry[i] = 0 PROVE FALSE
    BY DEF ContainsNul
  <2>1. i \in 1..(Len(name) + 1 + Len(value))
    BY <1>6
  <2>2. CASE i <= Len(name)
    <3>1. i \in 1..Len(name)
      BY <1>2, <2>1, <2>2
    <3> QED BY <1>3, <1>7, <3>1
  <2>3. CASE i = Len(name) + 1
    BY <1>8, <2>3 DEF Equals
  <2>4. CASE i > Len(name) + 1
    <3>1. i - (Len(name) + 1) \in 1..Len(value) /\ ~(i <= Len(name) + 1)
      BY <1>2, <2>1, <2>4
    <3>2. value[i - (Len(name) + 1)] = 0
      BY <1>6, <2>1, <3>1
    <3>3. i - (Len(name) + 1) \in DOMAIN value
      BY <3>1
    <3> QED BY <1>1, <3>2, <3>3 DEF ContainsNul
  <2> QED BY <1>2, <2>1, <2>2, <2>3, <2>4
<1> QED BY <1>2, <1>9, <1>10 DEF entry, sign

(* The only colon is the one between role and name. *)
LEMMA SlotsComeApart ==
  ASSUME NEW name \in Seq(Byte), ValidSlotName(name)
  PROVE  LET text == SlotText(<<115>>, name)
         IN  Cardinality({i \in DOMAIN text : text[i] = Colon}) = 1
<1> DEFINE role == <<115>>
           sign == <<Colon>>
           text == role \o sign \o name
<1>1. SlotText(role, name) = text
  BY DEF SlotText, ValidSlotName
<1>2. Len(name) \in Nat
  OBVIOUS
<1>3. role \o sign \in Seq(Byte) /\ Len(role \o sign) = 2
        /\ (role \o sign)[1] = 115 /\ (role \o sign)[2] = Colon
  <2>1. role \in Seq(Byte) /\ Len(role) = 1 /\ role[1] = 115
          /\ sign \in Seq(Byte) /\ Len(sign) = 1 /\ sign[1] = Colon
    BY DEF Colon, Byte
  <2> HIDE DEF role, sign
  <2>2. /\ role \o sign \in Seq(Byte) /\ Len(role \o sign) = Len(role) + Len(sign)
        /\ \A i \in 1..(Len(role) + Len(sign)) :
             (role \o sign)[i] = IF i <= Len(role) THEN role[i]
                                 ELSE sign[i - Len(role)]
    BY <2>1, TextsAreJoined
  <2> QED BY <2>1, <2>2
<1> DEFINE front == role \o sign
<1> HIDE DEF front
<1>4. /\ front \o name \in Seq(Byte) /\ Len(front \o name) = 2 + Len(name)
      /\ \A i \in 1..(2 + Len(name)) :
           (front \o name)[i] = IF i <= 2 THEN front[i] ELSE name[i - 2]
  <2>1. front \in Seq(Byte) /\ Len(front) = 2
    BY <1>3 DEF front
  <2>2. /\ front \o name \in Seq(Byte)
        /\ Len(front \o name) = Len(front) + Len(name)
        /\ \A i \in 1..(Len(front) + Len(name)) :
             (front \o name)[i] = IF i <= Len(front) THEN front[i]
                                  ELSE name[i - Len(front)]
    BY <2>1, TextsAreJoined
  <2> QED BY <2>1, <2>2
<1>5. text = front \o name
  BY DEF front
<1>6. front[1] = 115 /\ front[2] = Colon
  BY <1>3 DEF front
<1> HIDE DEF text, role, sign
<1>7. ASSUME NEW i \in DOMAIN text PROVE text[i] = Colon <=> i = 2
  <2>1. i \in 1..(2 + Len(name)) /\ i \in Nat
    BY <1>4, <1>5
  <2>2. CASE i = 1 \/ i = 2
    BY <1>4, <1>5, <1>6, <2>1, <2>2 DEF Colon
  <2>3. CASE i > 2
    <3>1. i - 2 \in 1..Len(name) /\ ~(i <= 2) /\ i # 2
      BY <1>2, <2>1, <2>3
    <3>2. text[i] = name[i - 2]
      BY <1>4, <1>5, <2>1, <3>1
    <3>3. name[i - 2] \in Byte /\ i - 2 \in DOMAIN name
      BY <3>1
    <3>4. IsAlnum(name[i - 2]) \/ name[i - 2] \in {Dot, Underscore, 43, 45}
      BY <3>3 DEF ValidSlotName
    <3>5. name[i - 2] # Colon
      BY <3>3, <3>4, NamesHaveNoSigns
    <3> QED BY <3>1, <3>2, <3>5
  <2> QED BY <2>1, <2>2, <2>3
<1>8. {i \in DOMAIN text : text[i] = Colon} = {2}
  <2>1. 2 \in DOMAIN text
    BY <1>2, <1>4, <1>5
  <2> QED BY <1>7, <2>1
<1>9. Cardinality({2}) = 1
  BY FS_Singleton
<1> QED BY <1>1, <1>8, <1>9 DEF role

(* Any variable and any slot name, in any locale: what was put together     *)
(* comes apart at the first equals sign or at the only colon                *)
(* (environment_variable and resource_slot::named of src/model.cpp).        *)
THEOREM AcceptedTextsComeApart == PoliciesSpec => []TextsComeApart
<1>1. PolicyInv => TextsComeApart
  <2> SUFFICES ASSUME PolicyInv, NEW a \in answers, Sealed(a)
               PROVE
    /\ a.kind = "variable" =>
         LET entry == a.declared.name \o <<Equals>> \o a.declared.value
         IN  /\ FirstPlace(Equals, entry) = Len(a.declared.name) + 1
             /\ a.declared.name # <<>>
             /\ ~ContainsNul(entry)
    /\ a.kind = "slot" =>
         LET text == SlotText(<<115>>, a.declared)
         IN  Cardinality({i \in DOMAIN text : text[i] = Colon}) = 1
    BY DEF TextsComeApart
  <2>1. Answered(a)
    BY DEF PolicyInv
  <2>2. CASE a.kind = "variable"
    <3>1. a.declared \in [name : AnyText, value : AnyText]
      BY <2>1, <2>2, DeclaredIsDeclarable DEF Declarable, TextKinds, AnyVariable
    <3>2. a.declared.name \in Seq(Byte) /\ a.declared.value \in Seq(Byte)
      BY <3>1 DEF AnyText, ListOf
    <3>3. VariableCode(a.declared.name, a.declared.value) = "ok"
      BY <2>1, <2>2 DEF Answered, TextKinds, TextCode
    <3> QED BY <2>2, <3>2, <3>3, EntriesComeApart
  <2>3. CASE a.kind = "slot"
    <3>1. a.declared \in Seq(Byte)
      BY <2>1, <2>3, DeclaredIsDeclarable DEF Declarable, TextKinds, AnyText, ListOf
    <3>2. ValidSlotName(a.declared)
      BY <2>1, <2>3 DEF Answered, TextKinds, TextCode
    <3> QED BY <2>3, <3>1, <3>2, SlotsComeApart
  <2> QED BY <2>2, <2>3
<1> QED BY <1>1, PolicyInvHolds, PTL

----------------------------------------------------------------------------
(* A digit and what it stands for. *)
LEMMA DigitsReadBack ==
  ASSUME NEW c \in Byte, IsHexDigit(c)
  PROVE  /\ DigitOf(c) \in 0..15
         /\ c = IF DigitOf(c) < 10 THEN 48 + DigitOf(c) ELSE 97 + DigitOf(c) - 10
<1>1. CASE c \in 48..57
  BY <1>1 DEF DigitOf
<1>2. CASE c \in 97..102
  <2>1. (c - 97 + 10) % 256 = c - 97 + 10
    BY <1>2
  <2>2. DigitOf(c) = c - 97 + 10
    BY <1>2, <2>1 DEF DigitOf
  <2> QED BY <1>2, <2>2
<1> QED BY <1>1, <1>2 DEF IsHexDigit

(* Two digits make a byte, and the byte gives them back. *)
LEMMA PairsComeApart ==
  ASSUME NEW x \in 0..15, NEW y \in 0..15
  PROVE  ((x * 16 + y) % 256) \div 16 = x /\ ((x * 16 + y) % 256) % 16 = y
<1>1. (x * 16 + y) % 256 = x * 16 + y
  OBVIOUS
<1> QED BY <1>1

(* An accepted identity is the text of its bytes. *)
LEMMA IdentitiesReadBack ==
  ASSUME NEW t \in Seq(Byte), IdentityCode(t) = "ok"
  PROVE  HexOf(BytesOf(t)) = t
<1> DEFINE n == Len(t)
           bytes == BytesOf(t)
           hexdigit(k) == IF k < 10 THEN 48 + k ELSE 97 + k - 10
<1>1. n = IdentityLength /\ \A i \in DOMAIN t : IsHexDigit(t[i])
  BY DEF IdentityCode
<1>2. n \in Nat /\ n % 2 = 0
  BY <1>1, TextsAssumption
<1>3. n \div 2 \in Nat /\ 2 * (n \div 2) = n
  BY <1>2
<1>4. \A i \in 1..n : /\ DigitOf(t[i]) \in 0..15
                      /\ t[i] = hexdigit(DigitOf(t[i]))
  BY <1>1, DigitsReadBack
<1>5. Len(bytes) = n \div 2
  BY <1>3 DEF BytesOf
<1>6. \A i \in 1..(n \div 2) :
        bytes[i] = (DigitOf(t[2 * i - 1]) * 16 + DigitOf(t[2 * i])) % 256
  BY DEF BytesOf
<1> HIDE DEF bytes, n
<1>7. \A i \in 1..(n \div 2) :
        /\ 2 * i - 1 \in 1..n /\ 2 * i \in 1..n
        /\ bytes[i] \div 16 = DigitOf(t[2 * i - 1])
        /\ bytes[i] % 16 = DigitOf(t[2 * i])
  <2> TAKE i \in 1..(n \div 2)
  <2>1. 2 * i - 1 \in 1..n /\ 2 * i \in 1..n
    BY <1>2, <1>3
  <2> DEFINE x == DigitOf(t[2 * i - 1])
             y == DigitOf(t[2 * i])
  <2>2. x \in 0..15 /\ y \in 0..15
    BY <1>4, <2>1
  <2>3. bytes[i] = (x * 16 + y) % 256
    BY <1>6
  <2> HIDE DEF x, y, hexdigit
  <2>4. bytes[i] \div 16 = x /\ bytes[i] % 16 = y
    BY <2>2, <2>3, PairsComeApart
  <2> QED BY <2>1, <2>4 DEF x, y
<1> DEFINE hex == [i \in 1..n |-> IF i % 2 = 1
                                   THEN hexdigit(bytes[(i + 1) \div 2] \div 16)
                                   ELSE hexdigit(bytes[i \div 2] % 16)]
<1>8. HexOf(bytes) = hex
  BY <1>3, <1>5 DEF HexOf
<1>9. ASSUME NEW i \in 1..n PROVE hex[i] = t[i]
  <2>1. CASE i % 2 = 1
    <3>1. (i + 1) \div 2 \in 1..(n \div 2) /\ 2 * ((i + 1) \div 2) - 1 = i
      BY <1>2, <1>3, <2>1
    <3>2. bytes[(i + 1) \div 2] \div 16 = DigitOf(t[i])
      BY <1>7, <3>1
    <3> QED BY <1>4, <2>1, <3>2
  <2>2. CASE i % 2 # 1
    <3>1. i \div 2 \in 1..(n \div 2) /\ 2 * (i \div 2) = i
      BY <1>2, <1>3, <2>2
    <3>2. bytes[i \div 2] % 16 = DigitOf(t[i])
      BY <1>7, <3>1
    <3> QED BY <1>4, <2>2, <3>2
  <2> QED BY <2>1, <2>2
<1>10. t = [i \in 1..n |-> t[i]]
  BY DEF n
<1>11. hex = t
  BY <1>9, <1>10
<1> QED BY <1>8, <1>11 DEF bytes

(* Any accepted identity: the bytes it is written as are read as the same   *)
(* text (require_sha256_hex of src/identity_support.cpp, writer and reader  *)
(* of src/result_codec.cpp).                                                *)
THEOREM AcceptedIdentitiesReadBack == PoliciesSpec => []IdentitiesRoundTrip
<1>1. PolicyInv => IdentitiesRoundTrip
  <2> SUFFICES ASSUME PolicyInv, NEW a \in answers, a.kind = "digest", Sealed(a)
               PROVE  HexOf(BytesOf(a.declared)) = a.declared
    BY DEF IdentitiesRoundTrip
  <2>1. Answered(a)
    BY DEF PolicyInv
  <2>2. a.declared \in Seq(Byte)
    BY <2>1, DeclaredIsDeclarable DEF Declarable, TextKinds, AnyText, ListOf
  <2>3. IdentityCode(a.declared) = "ok"
    BY <2>1 DEF Answered, TextKinds, TextCode
  <2> QED BY <2>2, <2>3, IdentitiesReadBack
<1> QED BY <1>1, PolicyInvHolds, PTL

----------------------------------------------------------------------------
(* normalize_guarantees() leaves of a list the set of its guarantees. *)
LEMMA GuaranteesAreASet ==
  ASSUME NEW s, NEW t, ToSet(s) = ToSet(t)
  PROVE  AddGuarantees(s) = AddGuarantees(t)
  BY DEF AddGuarantees

(* The bindings of a sealed layout differ; sorted, they are one list        *)
(* however they were declared.                                              *)
LEMMA LayoutsAreNormal ==
  ASSUME NEW d, NEW e, d.bindings \in Seq(AnyBinding), e.bindings \in Seq(AnyBinding),
         LayoutCode(d.bindings, d.working) = "sealed",
         LayoutCode(e.bindings, e.working) = "sealed",
         ToSet(d.bindings) = ToSet(e.bindings), d.working = e.working
  PROVE  LayoutBytes(d) = LayoutBytes(e)
<1>1. ASSUME NEW s \in Seq(AnyBinding), NEW w, LayoutCode(s, w) = "sealed"
      PROVE  Apart(s, Len(s))
  <2>1. \A i, j \in DOMAIN s : s[i].slot = s[j].slot => i = j
    BY <1>1, SealingIsExact
  <2>2. DOMAIN s = 1..Len(s)
    OBVIOUS
  <2> QED BY <2>1, <2>2 DEF Apart
<1> DEFINE s == d.bindings
           t == e.bindings
           ls == KeysLess(BindingKeys(s))
           lt == KeysLess(BindingKeys(t))
<1>2. Apart(s, Len(s)) /\ Apart(t, Len(t))
  BY <1>1
<1>3. /\ SortedBindings(s) = Sorted(s, ls) /\ ComparesBy(ls, BindingOrder, s)
      /\ SortedBindings(t) = Sorted(t, lt) /\ ComparesBy(lt, BindingOrder, t)
  BY BindingsCompare
<1>4. s \in Seq(AnyBinding) /\ t \in Seq(AnyBinding) /\ ToSet(s) = ToSet(t)
  OBVIOUS
<1> HIDE DEF s, t, ls, lt
<1>5. Sorted(s, ls) = Sorted(t, lt)
  BY <1>2, <1>3, <1>4, BindingsAreOrdered, SortedOfASet
<1>6. SortedBindings(d.bindings) = SortedBindings(e.bindings)
  BY <1>3, <1>5 DEF s, t
<1> QED BY <1>6 DEF LayoutBytes

(* So are the variables of a sealed environment, *)
LEMMA VariablesAreNormal ==
  ASSUME NEW s \in Seq(AnyVariable), NEW t \in Seq(AnyVariable),
         ToSet(s) = ToSet(t), NamesOnce(s), NamesOnce(t)
  PROVE  SortedVariables(s) = SortedVariables(t)
<1> DEFINE ls == VariablesLess(s)
           lt == VariablesLess(t)
<1>1. DOMAIN s = 1..Len(s) /\ DOMAIN t = 1..Len(t)
  OBVIOUS
<1>2. Apart(s, Len(s)) /\ Apart(t, Len(t))
  BY <1>1 DEF Apart, NamesOnce
<1>3. /\ SortedVariables(s) = Sorted(s, ls) /\ ComparesBy(ls, VariableOrder, s)
      /\ SortedVariables(t) = Sorted(t, lt) /\ ComparesBy(lt, VariableOrder, t)
  BY VariablesCompare
<1> HIDE DEF ls, lt
<1>4. Sorted(s, ls) = Sorted(t, lt)
  BY <1>2, <1>3, VariablesAreOrdered, SortedOfASet
<1> QED BY <1>3, <1>4

(* and the groups of sealed credentials. *)
LEMMA GroupsAreNormal ==
  ASSUME NEW s \in Seq(Nat), NEW t \in Seq(Nat), ToSet(s) = ToSet(t),
         Apart(s, Len(s)), Apart(t, Len(t))
  PROVE  SortedGroups(s) = SortedGroups(t)
<1> DEFINE ls == GroupsLess(s)
           lt == GroupsLess(t)
<1>1. /\ SortedGroups(s) = Sorted(s, ls) /\ ComparesBy(ls, NumberOrder, s)
      /\ SortedGroups(t) = Sorted(t, lt) /\ ComparesBy(lt, NumberOrder, t)
  BY GroupsCompare
<1> HIDE DEF ls, lt
<1>2. Sorted(s, ls) = Sorted(t, lt)
  BY <1>1, NumbersAreOrdered, SortedOfASet
<1> QED BY <1>1, <1>2

(* The groups that credentials are declared with are numbers. *)
LEMMA GroupsAreNumbers ==
  ASSUME NEW d \in AnyCredentials
  PROVE  d.groups \in Seq(Nat) /\ d.group \in Nat
<1>1. d.groups \in Seq(Unsigned(8)) /\ d.group \in Unsigned(8)
  BY DEF AnyCredentials, ListOf
<1>2. \A n \in Unsigned(8) : n \in Nat
  BY DEF Unsigned
<1> HIDE DEF Unsigned
<1>3. d.groups \in Seq(Nat)
  BY <1>1, <1>2
<1> QED BY <1>1, <1>2, <1>3

(* Environments that mean the same have one identity, *)
LEMMA EnvironmentsAreNormal ==
  ASSUME NEW d \in AnyEnvironment, NEW e \in AnyEnvironment,
         Verdict(EnvironmentChecks(d)) = "sealed",
         Verdict(EnvironmentChecks(e)) = "sealed",
         [d EXCEPT !.variables = ToSet(@)] = [e EXCEPT !.variables = ToSet(@)]
  PROVE  EnvironmentBytes(d) = EnvironmentBytes(e)
<1> DEFINE m == [d EXCEPT !.variables = ToSet(@)]
           n == [e EXCEPT !.variables = ToSet(@)]
<1>1. /\ m.network = d.network /\ m.stdin = d.stdin /\ m.stdout = d.stdout
      /\ m.stderr = d.stderr /\ m.path = d.path /\ m.home = d.home
      /\ m.tmp = d.tmp /\ m.parallelism = d.parallelism /\ m.mask = d.mask
      /\ m.epoch = d.epoch /\ m.variables = ToSet(d.variables)
  BY DEF AnyEnvironment
<1>2. /\ n.network = e.network /\ n.stdin = e.stdin /\ n.stdout = e.stdout
      /\ n.stderr = e.stderr /\ n.path = e.path /\ n.home = e.home
      /\ n.tmp = e.tmp /\ n.parallelism = e.parallelism /\ n.mask = e.mask
      /\ n.epoch = e.epoch /\ n.variables = ToSet(e.variables)
  BY DEF AnyEnvironment
<1>3. m = n
  OBVIOUS
<1> HIDE DEF m, n
<1>4. /\ d.network = e.network /\ d.stdin = e.stdin /\ d.stdout = e.stdout
      /\ d.stderr = e.stderr /\ d.path = e.path /\ d.home = e.home
      /\ d.tmp = e.tmp /\ d.parallelism = e.parallelism /\ d.mask = e.mask
      /\ d.epoch = e.epoch /\ ToSet(d.variables) = ToSet(e.variables)
  BY <1>1, <1>2, <1>3
<1>5. d.variables \in Seq(AnyVariable) /\ e.variables \in Seq(AnyVariable)
  BY DEF AnyEnvironment, ListOf
<1>6. NamesOnce(d.variables) /\ NamesOnce(e.variables)
  BY <1>5, EnvironmentsAreAnswered
<1>7. SortedVariables(d.variables) = SortedVariables(e.variables)
  BY <1>4, <1>5, <1>6, VariablesAreNormal
<1> QED BY <1>4, <1>7 DEF EnvironmentBytes

(* and so have credentials, *)
LEMMA CredentialsAreNormal ==
  ASSUME NEW d \in AnyCredentials, NEW e \in AnyCredentials,
         Verdict(CredentialsChecks(d)) = "sealed",
         Verdict(CredentialsChecks(e)) = "sealed",
         [d EXCEPT !.groups = ToSet(@)] = [e EXCEPT !.groups = ToSet(@)]
  PROVE  CredentialsBytes(d) = CredentialsBytes(e)
<1> DEFINE m == [d EXCEPT !.groups = ToSet(@)]
           n == [e EXCEPT !.groups = ToSet(@)]
<1>1. /\ m.user = d.user /\ m.group = d.group /\ m.restricted = d.restricted
      /\ m.groups = ToSet(d.groups)
      /\ n.user = e.user /\ n.group = e.group /\ n.restricted = e.restricted
      /\ n.groups = ToSet(e.groups)
  BY DEF AnyCredentials
<1>2. m = n
  OBVIOUS
<1> HIDE DEF m, n
<1>3. /\ d.user = e.user /\ d.group = e.group /\ d.restricted = e.restricted
      /\ ToSet(d.groups) = ToSet(e.groups)
  BY <1>1, <1>2
<1>4. /\ d.groups \in Seq(Nat) /\ d.group \in Nat
      /\ e.groups \in Seq(Nat) /\ e.group \in Nat
  BY GroupsAreNumbers
<1>5. Apart(d.groups, Len(d.groups)) /\ Apart(e.groups, Len(e.groups))
  BY <1>4, CredentialsAreAnswered
<1>6. SortedGroups(d.groups) = SortedGroups(e.groups)
  BY <1>3, <1>4, <1>5, GroupsAreNormal
<1> QED BY <1>3, <1>6 DEF CredentialsBytes

(* requests, *)
LEMMA RequestsAreNormal ==
  ASSUME NEW d \in AnyRequest, NEW e \in AnyRequest,
         [d EXCEPT !.guarantees = ToSet(@)] = [e EXCEPT !.guarantees = ToSet(@)]
  PROVE  RequestBytes(d) = RequestBytes(e)
<1> DEFINE m == [d EXCEPT !.guarantees = ToSet(@)]
           n == [e EXCEPT !.guarantees = ToSet(@)]
<1>1. /\ m.language = d.language /\ m.program = d.program
      /\ m.purpose = d.purpose /\ m.action = d.action
      /\ m.interpreter = d.interpreter /\ m.view = d.view /\ m.layout = d.layout
      /\ m.environment = d.environment /\ m.credentials = d.credentials
      /\ m.limits = d.limits /\ m.mode = d.mode /\ m.grace = d.grace
      /\ m.guarantees = ToSet(d.guarantees)
  BY DEF AnyRequest
<1>2. /\ n.language = e.language /\ n.program = e.program
      /\ n.purpose = e.purpose /\ n.action = e.action
      /\ n.interpreter = e.interpreter /\ n.view = e.view /\ n.layout = e.layout
      /\ n.environment = e.environment /\ n.credentials = e.credentials
      /\ n.limits = e.limits /\ n.mode = e.mode /\ n.grace = e.grace
      /\ n.guarantees = ToSet(e.guarantees)
  BY DEF AnyRequest
<1>3. m = n
  OBVIOUS
<1> HIDE DEF m, n
<1>4. /\ d.language = e.language /\ d.program = e.program
      /\ d.purpose = e.purpose /\ d.action = e.action
      /\ d.interpreter = e.interpreter /\ d.view = e.view /\ d.layout = e.layout
      /\ d.environment = e.environment /\ d.credentials = e.credentials
      /\ d.limits = e.limits /\ d.mode = e.mode /\ d.grace = e.grace
      /\ ToSet(d.guarantees) = ToSet(e.guarantees)
  BY <1>1, <1>2, <1>3
<1>5. AddGuarantees(d.guarantees) = AddGuarantees(e.guarantees)
  BY <1>4, GuaranteesAreASet
<1> QED BY <1>4, <1>5 DEF RequestBytes

(* profiles, *)
LEMMA ProfilesAreNormal ==
  ASSUME NEW d \in AnyProfile, NEW e \in AnyProfile,
         [d EXCEPT !.guarantees = ToSet(@)] = [e EXCEPT !.guarantees = ToSet(@)]
  PROVE  ProfileBytes(d) = ProfileBytes(e)
<1> DEFINE m == [d EXCEPT !.guarantees = ToSet(@)]
           n == [e EXCEPT !.guarantees = ToSet(@)]
<1>1. /\ m.backend = d.backend /\ m.guarantees = ToSet(d.guarantees)
      /\ n.backend = e.backend /\ n.guarantees = ToSet(e.guarantees)
  BY DEF AnyProfile
<1>2. m = n
  OBVIOUS
<1> HIDE DEF m, n
<1>3. d.backend = e.backend /\ ToSet(d.guarantees) = ToSet(e.guarantees)
  BY <1>1, <1>2
<1>4. AddGuarantees(d.guarantees) = AddGuarantees(e.guarantees)
  BY <1>3, GuaranteesAreASet
<1> QED BY <1>3, <1>4 DEF ProfileBytes

(* and evidence. *)
LEMMA EvidenceIsNormal ==
  ASSUME NEW d \in AnyEvidence, NEW e \in AnyEvidence,
         [d EXCEPT !.guarantees = ToSet(@)] = [e EXCEPT !.guarantees = ToSet(@)]
  PROVE  EvidenceBytes(d) = EvidenceBytes(e)
<1> DEFINE m == [d EXCEPT !.guarantees = ToSet(@)]
           n == [e EXCEPT !.guarantees = ToSet(@)]
<1>1. /\ m.status = d.status /\ m.start = d.start /\ m.request = d.request
      /\ m.profile = d.profile /\ m.interpreter = d.interpreter
      /\ m.termination = d.termination /\ m.stdout = d.stdout
      /\ m.stderr = d.stderr /\ m.cleanup = d.cleanup /\ m.failure = d.failure
      /\ m.guarantees = ToSet(d.guarantees)
  BY DEF AnyEvidence
<1>2. /\ n.status = e.status /\ n.start = e.start /\ n.request = e.request
      /\ n.profile = e.profile /\ n.interpreter = e.interpreter
      /\ n.termination = e.termination /\ n.stdout = e.stdout
      /\ n.stderr = e.stderr /\ n.cleanup = e.cleanup /\ n.failure = e.failure
      /\ n.guarantees = ToSet(e.guarantees)
  BY DEF AnyEvidence
<1>3. m = n
  OBVIOUS
<1> HIDE DEF m, n
<1>4. /\ d.status = e.status /\ d.start = e.start /\ d.request = e.request
      /\ d.profile = e.profile /\ d.interpreter = e.interpreter
      /\ d.termination = e.termination /\ d.stdout = e.stdout
      /\ d.stderr = e.stderr /\ d.cleanup = e.cleanup /\ d.failure = e.failure
      /\ ToSet(d.guarantees) = ToSet(e.guarantees)
  BY <1>1, <1>2, <1>3
<1>5. AddGuarantees(d.guarantees) = AddGuarantees(e.guarantees)
  BY <1>4, GuaranteesAreASet
<1> QED BY <1>4, <1>5 DEF EvidenceBytes

(* Declarations of one meaning, in whatever order they were made and        *)
(* however often a guarantee was said, get one identity, for declarations   *)
(* of any size (the factories of src/model.cpp, src/request.cpp and         *)
(* src/result.cpp).                                                         *)
THEOREM MeaningsHaveOneIdentity == PoliciesSpec => []OneIdentityPerMeaning
<1>1. PolicyInv => OneIdentityPerMeaning
  <2> SUFFICES ASSUME PolicyInv, NEW a \in Identified, NEW b \in Identified,
                      SameMeaning(a, b)
               PROVE  a.identity = b.identity
    BY DEF OneIdentityPerMeaning
  <2> DEFINE d == a.declared
             e == b.declared
             kind == a.kind
  <2>1. /\ Answered(a) /\ Answered(b) /\ Sealed(a) /\ Sealed(b)
        /\ a.kind \in Kinds /\ b.kind = kind /\ Meaning(a) = Meaning(b)
    BY DEF PolicyInv, Identified, SameMeaning
  <2>2. /\ a.identity = IdentityBytes(kind, d) /\ b.identity = IdentityBytes(kind, e)
        /\ VerdictOn(kind, d) = "sealed" /\ VerdictOn(kind, e) = "sealed"
    BY <2>1 DEF Answered, Sealed
  <2>3. d \in Declarable(kind) /\ e \in Declarable(kind)
    BY <2>1, DeclaredIsDeclarable
  <2>4. CASE kind = "layout"
    <3> DEFINE m == [d EXCEPT !.bindings = ToSet(@)]
               n == [e EXCEPT !.bindings = ToSet(@)]
    <3>1. m = n
      BY <2>1, <2>4 DEF Meaning
    <3>2. /\ m.working = d.working /\ m.bindings = ToSet(d.bindings)
          /\ n.working = e.working /\ n.bindings = ToSet(e.bindings)
          /\ d.bindings \in Seq(AnyBinding) /\ e.bindings \in Seq(AnyBinding)
      BY <2>3, <2>4 DEF Declarable, AnyLayout, ListOf
    <3> HIDE DEF m, n
    <3>3. d.working = e.working /\ ToSet(d.bindings) = ToSet(e.bindings)
      BY <3>1, <3>2
    <3>4. /\ LayoutCode(d.bindings, d.working) = "sealed"
          /\ LayoutCode(e.bindings, e.working) = "sealed"
      BY <2>2, <2>4 DEF VerdictOn
    <3>5. LayoutBytes(d) = LayoutBytes(e)
      BY <3>2, <3>3, <3>4, LayoutsAreNormal
    <3> QED BY <2>2, <2>4, <3>5 DEF IdentityBytes, FieldBytes
  <2>5. CASE kind = "environment"
    <3>1. /\ [d EXCEPT !.variables = ToSet(@)] = [e EXCEPT !.variables = ToSet(@)]
          /\ Verdict(EnvironmentChecks(d)) = "sealed"
          /\ Verdict(EnvironmentChecks(e)) = "sealed"
      BY <2>1, <2>2, <2>5 DEF Meaning, VerdictOn
    <3>2. EnvironmentBytes(d) = EnvironmentBytes(e)
      BY <2>3, <2>5, <3>1, EnvironmentsAreNormal DEF Declarable
    <3> QED BY <2>2, <2>5, <3>2 DEF IdentityBytes, FieldBytes
  <2>6. CASE kind = "credentials"
    <3>1. /\ [d EXCEPT !.groups = ToSet(@)] = [e EXCEPT !.groups = ToSet(@)]
          /\ Verdict(CredentialsChecks(d)) = "sealed"
          /\ Verdict(CredentialsChecks(e)) = "sealed"
      BY <2>1, <2>2, <2>6 DEF Meaning, VerdictOn
    <3>2. CredentialsBytes(d) = CredentialsBytes(e)
      BY <2>3, <2>6, <3>1, CredentialsAreNormal DEF Declarable
    <3> QED BY <2>2, <2>6, <3>2 DEF IdentityBytes, FieldBytes
  <2>7. CASE kind = "limits"
    <3>1. d = e
      BY <2>1, <2>7 DEF Meaning
    <3> QED BY <2>2, <3>1
  <2>8. CASE kind \in {"request", "profile", "evidence"}
    <3>1. [d EXCEPT !.guarantees = ToSet(@)] = [e EXCEPT !.guarantees = ToSet(@)]
      BY <2>1, <2>8 DEF Meaning
    <3>2. CASE kind = "request"
      <4>1. RequestBytes(d) = RequestBytes(e)
        BY <2>3, <3>1, <3>2, RequestsAreNormal DEF Declarable
      <4> QED BY <2>2, <3>2, <4>1 DEF IdentityBytes, FieldBytes
    <3>3. CASE kind = "profile"
      <4>1. ProfileBytes(d) = ProfileBytes(e)
        BY <2>3, <3>1, <3>3, ProfilesAreNormal DEF Declarable
      <4> QED BY <2>2, <3>3, <4>1 DEF IdentityBytes, FieldBytes
    <3>4. CASE kind = "evidence"
      <4>1. EvidenceBytes(d) = EvidenceBytes(e)
        BY <2>3, <3>1, <3>4, EvidenceIsNormal DEF Declarable
      <4> QED BY <2>2, <3>4, <4>1 DEF IdentityBytes, FieldBytes
    <3> QED BY <2>8, <3>2, <3>3, <3>4
  <2> QED BY <2>1, <2>4, <2>5, <2>6, <2>7, <2>8 DEF Kinds
<1> QED BY <1>1, PolicyInvHolds, PTL

(* However the variables and groups are ordered and however many there are, *)
(* a repeated one is found (environment_policy::hermetic() and              *)
(* credential_policy::fixed() of src/model.cpp).                            *)
THEOREM RepetitionsAreFound == PoliciesSpec => []DuplicatesAreRefused
<1>1. PolicyInv => DuplicatesAreRefused
  <2> SUFFICES ASSUME PolicyInv, NEW a \in answers
               PROVE  /\ a.kind = "environment" =>
                           /\ Sealed(a) => /\ NamesOnce(a.declared.variables)
                                           /\ NamesAreFree(a.declared.variables)
                           /\ a.verdict = "duplicate_environment_variable" =>
                                ~NamesOnce(a.declared.variables)
                      /\ a.kind = "credentials" =>
                           (Sealed(a) <=>
                              AllDiffer(<<a.declared.group>> \o a.declared.groups))
    BY DEF DuplicatesAreRefused, NamesOnce, NamesAreFree, AllDiffer
  <2>1. Answered(a) /\ a.declared \in Declarable(a.kind)
    BY DeclaredIsDeclarable DEF PolicyInv
  <2> DEFINE d == a.declared
  <2>2. CASE a.kind = "environment"
    <3>1. d.variables \in Seq(AnyVariable)
      BY <2>1, <2>2 DEF Declarable, AnyEnvironment, ListOf
    <3>2. a.verdict = Verdict(EnvironmentChecks(d))
      BY <2>1, <2>2 DEF Answered, Kinds, VerdictOn
    <3> HIDE DEF d
    <3>3. /\ a.verdict = "sealed" => NamesOnce(d.variables) /\ NamesAreFree(d.variables)
          /\ a.verdict = "duplicate_environment_variable" => ~NamesOnce(d.variables)
      BY <3>1, <3>2, EnvironmentsAreAnswered
    <3> QED BY <2>2, <3>3 DEF Sealed, d
  <2>3. CASE a.kind = "credentials"
    <3>1. d.groups \in Seq(Nat) /\ d.group \in Nat
      BY <2>1, <2>3, GroupsAreNumbers DEF Declarable
    <3>2. a.verdict = Verdict(CredentialsChecks(d))
      BY <2>1, <2>3 DEF Answered, Kinds, VerdictOn
    <3> HIDE DEF d
    <3>3. a.verdict = "sealed" <=>
            Apart(d.groups, Len(d.groups)) /\ ~Takes(d.groups, Len(d.groups), d.group)
      BY <3>1, <3>2, CredentialsAreAnswered
    <3>4. AllDiffer(<<d.group>> \o d.groups) <=>
            Apart(d.groups, Len(d.groups)) /\ ~Takes(d.groups, Len(d.groups), d.group)
      BY <3>1, GroupsTogether
    <3> QED BY <2>3, <3>3, <3>4 DEF Sealed, d
  <2> QED BY <2>2, <2>3
<1> QED BY <1>1, PolicyInvHolds, PTL

----------------------------------------------------------------------------
(* Identities are of everything they were given, and one failure only       *)
(* leaks, for any pieces and any number of them.                            *)

(* What the builder owns at each stage, and what the digest has taken. *)
BuilderInv ==
  /\ BuilderTypeOK
  /\ OnlyLostDomainLeaks
  /\ stage \in {"allocate", "create", "initialise", "domain"} =>
       ~finished /\ digested = <<>>
  /\ stage = "create" => held = {"implementation"}
  /\ stage = "allocate" => held = {}
  /\ stage = "lost" => held # {}
  /\ stage = "ready" /\ ~finished => digested = given
  /\ stage \in {"ready", "returned"} /\ finished => digest = given

(* The builder starts in the invariant. *)
LEMMA BuilderStarts == BuilderInit => BuilderInv
<1> SUFFICES ASSUME BuilderInit
             PROVE BuilderInv
  OBVIOUS
<1>1. <<>> \in Seq(Pieces \cup {DomainText})
  OBVIOUS
<1>2. BuilderTypeOK
  BY <1>1 DEF BuilderInit, BuilderTypeOK, Stages
<1> QED
  BY <1>2 DEF BuilderInit, BuilderInv, OnlyLostDomainLeaks

(* Every step of the constructor keeps it, failing ones included. *)
LEMMA ConstructorKeepsInv ==
  BuilderInv /\ (Allocate \/ CreateContext \/ Initialise \/ AddDomain) => BuilderInv'
<1> SUFFICES ASSUME BuilderInv, Allocate \/ CreateContext \/ Initialise \/ AddDomain
             PROVE BuilderInv'
  OBVIOUS
<1> USE DEF BuilderInv, BuilderTypeOK, Stages, OnlyLostDomainLeaks
<1>1. CASE Allocate
  BY <1>1 DEF Allocate
<1>2. CASE CreateContext
  BY <1>2 DEF CreateContext
<1>3. CASE Initialise
  BY <1>3 DEF Initialise
<1>4. CASE AddDomain
  <2>1. <<DomainText>> \in Seq(Pieces \cup {DomainText})
    OBVIOUS
  <2> QED
    BY <1>4, <2>1 DEF AddDomain
<1> QED
  BY <1>1, <1>2, <1>3, <1>4

(* So do the caller's calls and the destructor. *)
LEMMA CallerKeepsInv == BuilderInv /\ (AddBytes \/ Finish \/ Destroy) => BuilderInv'
<1> SUFFICES ASSUME BuilderInv, AddBytes \/ Finish \/ Destroy
             PROVE BuilderInv'
  OBVIOUS
<1> USE DEF BuilderInv, BuilderTypeOK, Stages, OnlyLostDomainLeaks
<1>1. CASE AddBytes
  BY <1>1 DEF AddBytes
<1>2. CASE Finish
  <2>1. <<>> \in Seq(Pieces \cup {DomainText})
    OBVIOUS
  <2> QED
    BY <1>2, <2>1 DEF Finish
<1>3. CASE Destroy
  BY <1>3 DEF Destroy
<1> QED
  BY <1>1, <1>2, <1>3

(* The invariant holds in every reachable state. *)
LEMMA BuilderAlways == BuilderSpec => []BuilderInv
<1>1. BuilderInv /\ [BuilderNext]_builder => BuilderInv'
  <2> SUFFICES ASSUME BuilderInv, [BuilderNext]_builder
               PROVE BuilderInv'
    OBVIOUS
  <2>1. CASE UNCHANGED builder
    BY <2>1 DEF builder, BuilderInv, BuilderTypeOK, Stages, OnlyLostDomainLeaks
  <2> QED
    BY <2>1, ConstructorKeepsInv, CallerKeepsInv DEF BuilderNext
<1> QED
  BY BuilderStarts, <1>1, PTL DEF BuilderSpec

(* A returned identity is the digest of the domain and of every piece the   *)
(* caller added, in their order: no failure of OpenSSL can leave one out.   *)
THEOREM IdentitiesAreOfEverything == BuilderSpec => []IdentityIsOfEverything
<1>1. BuilderInv => IdentityIsOfEverything
  BY DEF BuilderInv, IdentityIsOfEverything
<1> QED
  BY BuilderAlways, <1>1, PTL

(* Whatever fails, a builder releases what it acquired, unless the failure  *)
(* is that of adding the domain in the constructor.                         *)
THEOREM LeaksAreLostDomains == BuilderSpec => []OnlyLostDomainLeaks
<1>1. BuilderInv => OnlyLostDomainLeaks
  BY DEF BuilderInv
<1> QED
  BY BuilderAlways, <1>1, PTL

(* OpenSSL is called only with a context. *)
THEOREM BuilderTypeCorrect == BuilderSpec => []BuilderTypeOK
<1>1. BuilderInv => BuilderTypeOK
  BY DEF BuilderInv
<1> QED
  BY BuilderAlways, <1>1, PTL

----------------------------------------------------------------------------
(* Pieces put together, one after another. *)
Joined(s, f, n) ==
  f = [i \in 1..n |-> IF i = 1 THEN s[i] ELSE f[i - 1] \o s[i]]

(* One piece more is put behind those before it. *)
LEMMA JoinedAt ==
  ASSUME NEW s, NEW f, NEW n, Joined(s, f, n), NEW i \in 1..n
  PROVE  f[i] = IF i = 1 THEN s[i] ELSE f[i - 1] \o s[i]
<1> DEFINE F == [j \in 1..n |-> IF j = 1 THEN s[j] ELSE f[j - 1] \o s[j]]
<1>1. F[i] = IF i = 1 THEN s[i] ELSE f[i - 1] \o s[i]
  OBVIOUS
<1>2. f = F
  BY DEF Joined
<1>3. f[i] = F[i]
  <2> HIDE DEF F
  <2> QED BY <1>2
<1> QED BY <1>1, <1>3

(* Pieces can be put together, however many they are. *)
LEMMA JoinedExists ==
  ASSUME NEW s, NEW n \in Nat
  PROVE  \E f : Joined(s, f, n)
<1> DEFINE T == {k \in Nat : \A f : ~Joined(s, f, k)}
<1>1. SUFFICES ASSUME T # {} PROVE FALSE
  OBVIOUS
<1>2. PICK k \in T : \A m \in T : k <= m
  <2> HIDE DEF T
  <2>1. T \in SUBSET Nat
    BY DEF T
  <2> QED BY <1>1, <2>1, LeastNat
<1>3. CASE k = 0
  <2> DEFINE f == [i \in 1..0 |-> 0]
  <2>1. Joined(s, f, 0)
    BY DEF Joined
  <2> QED BY <1>2, <1>3, <2>1
<1>4. CASE k # 0
  <2>1. k - 1 \in Nat /\ k - 1 \notin T
    BY <1>2, <1>4
  <2>2. PICK f : Joined(s, f, k - 1)
    BY <2>1
  <2> DEFINE g == [i \in 1..k |-> IF i < k THEN f[i]
                                  ELSE IF i = 1 THEN s[i] ELSE f[i - 1] \o s[i]]
  <2>3. ASSUME NEW i \in 1..k
        PROVE  g[i] = IF i = 1 THEN s[i] ELSE g[i - 1] \o s[i]
    <3>1. CASE i = k
      BY <3>1, <1>4
    <3>2. CASE i < k
      <4>0. i \in 1..(k - 1)
        BY <3>2
      <4>1. f[i] = IF i = 1 THEN s[i] ELSE f[i - 1] \o s[i]
        BY <2>2, <4>0, JoinedAt
      <4>2. g[i] = f[i] /\ (i # 1 => g[i - 1] = f[i - 1])
        BY <3>2
      <4> QED BY <4>1, <4>2
    <3> QED BY <3>1, <3>2
  <2>4. Joined(s, g, k)
    <3>1. g = [i \in 1..k |-> g[i]]
      OBVIOUS
    <3> HIDE DEF g
    <3> QED BY <2>3, <3>1 DEF Joined
  <2> QED BY <1>2, <2>4
<1> QED BY <1>3, <1>4

(* Pieces that begin alike are put together alike, as far as they do. *)
LEMMA JoinedAlike ==
  ASSUME NEW s, NEW t, NEW f, NEW g, NEW m \in Nat, NEW n \in Nat, m <= n,
         Joined(s, f, m), Joined(t, g, n), \A i \in 1..m : s[i] = t[i]
  PROVE  \A i \in 1..m : f[i] = g[i]
<1> DEFINE T == {i \in 1..m : f[i] # g[i]}
<1>1. SUFFICES ASSUME T # {} PROVE FALSE
  OBVIOUS
<1>2. PICK k \in T : \A i \in T : k <= i
  <2> HIDE DEF T
  <2>1. T \in SUBSET Nat
    BY DEF T
  <2> QED BY <1>1, <2>1, LeastNat
<1>3. f[k] = IF k = 1 THEN s[k] ELSE f[k - 1] \o s[k]
  BY <1>2, JoinedAt
<1>4. g[k] = IF k = 1 THEN t[k] ELSE g[k - 1] \o t[k]
  <2>1. k \in 1..n
    BY <1>2
  <2> QED BY <2>1, JoinedAt
<1>5. k # 1 => f[k - 1] = g[k - 1]
  <2>1. k # 1 => k - 1 \in 1..m /\ k - 1 \notin T
    BY <1>2
  <2> QED BY <2>1
<1> QED BY <1>2, <1>3, <1>4, <1>5

(* FlattenSeq() puts its pieces together. *)
LEMMA FlattenJoins ==
  ASSUME NEW n \in Nat, n # 0, NEW s, s = [i \in 1..n |-> s[i]],
         NEW f, Joined(s, f, n)
  PROVE  FlattenSeq(s) = f[n]
<1>1. Len(s) = n
  OBVIOUS
<1> DEFINE g == CHOOSE h : Joined(s, h, n)
<1>2. FlattenSeq(s) = g[n]
  BY <1>1 DEF FlattenSeq, Joined
<1>3. Joined(s, g, n)
  OBVIOUS
<1> HIDE DEF g
<1>4. n \in 1..n
  OBVIOUS
<1> QED BY <1>2, <1>3, <1>4, JoinedAlike

----------------------------------------------------------------------------
(* h is n, and what is left of it after each of w bytes is cut off. *)
Shifts(h, n, w) ==
  h = [k \in 0..w |-> IF k = 0 THEN n ELSE h[k - 1] \div 256]

(* What is left is less and less. *)
Shrinks(h, n, w) ==
  /\ h \in [0..w -> Nat] /\ h[0] = n
  /\ \A k \in 0..w : k # 0 => h[k] = h[k - 1] \div 256

(* Bytes can be cut off a number, however many they are. *)
LEMMA ShiftsExist ==
  ASSUME NEW n \in Nat, NEW w \in Nat
  PROVE  \E h \in [0..w -> Nat] : Shifts(h, n, w)
<1> DEFINE T == {k \in Nat : \A h \in [0..k -> Nat] : ~Shifts(h, n, k)}
<1>1. SUFFICES ASSUME T # {} PROVE FALSE
  OBVIOUS
<1>2. PICK k \in T : \A m \in T : k <= m
  <2> HIDE DEF T
  <2>1. T \in SUBSET Nat
    BY DEF T
  <2> QED BY <1>1, <2>1, LeastNat
<1>3. CASE k = 0
  <2> DEFINE h == [i \in 0..0 |-> n]
  <2>1. h \in [0..0 -> Nat] /\ Shifts(h, n, 0)
    BY DEF Shifts
  <2> QED BY <1>2, <1>3, <2>1
<1>4. CASE k # 0
  <2>1. k - 1 \in Nat /\ k - 1 \notin T
    BY <1>2, <1>4
  <2>2. PICK h \in [0..(k - 1) -> Nat] : Shifts(h, n, k - 1)
    BY <2>1
  <2> DEFINE g == [i \in 0..k |-> IF i < k THEN h[i] ELSE h[k - 1] \div 256]
  <2>3. ASSUME NEW i \in 0..(k - 1)
        PROVE  h[i] = IF i = 0 THEN n ELSE h[i - 1] \div 256
    BY <2>2 DEF Shifts
  <2>4. ASSUME NEW i \in 0..k
        PROVE  g[i] = (IF i = 0 THEN n ELSE g[i - 1] \div 256) /\ g[i] \in Nat
    <3>1. CASE i = k
      <4>1. k - 1 \in 0..(k - 1)
        BY <2>1
      <4>2. g[i] = h[k - 1] \div 256 /\ g[i - 1] = h[k - 1] /\ h[k - 1] \in Nat
        BY <3>1, <4>1
      <4> QED BY <1>4, <3>1, <4>2
    <3>2. CASE i < k
      <4>1. i \in 0..(k - 1)
        BY <3>2
      <4>2. g[i] = h[i] /\ (i # 0 => g[i - 1] = h[i - 1])
        BY <3>2
      <4> QED BY <2>3, <4>1, <4>2
    <3> QED BY <3>1, <3>2
  <2>5. g \in [0..k -> Nat] /\ Shifts(g, n, k)
    <3>1. g = [i \in 0..k |-> g[i]]
      OBVIOUS
    <3> HIDE DEF g
    <3> QED BY <2>4, <3>1 DEF Shifts
  <2> QED BY <1>2, <2>5
<1> QED BY <1>3, <1>4

(* What Shifted() is: each number is what is left of the one before it. *)
LEMMA ShiftedAt ==
  ASSUME NEW n \in Nat, NEW w \in Nat
  PROVE  Shrinks(Shifted(n, w), n, w)
<1> DEFINE h == CHOOSE g : Shifts(g, n, w)
<1>1. Shifted(n, w) = h
  BY DEF Shifted, Shifts
<1>2. Shifts(h, n, w)
  BY ShiftsExist
<1> HIDE DEF h
<1>3. PICK g \in [0..w -> Nat] : Shifts(g, n, w)
  BY ShiftsExist
<1>4. \A k \in 0..w : h[k] = IF k = 0 THEN n ELSE h[k - 1] \div 256
  BY <1>2 DEF Shifts
<1>5. \A k \in 0..w : g[k] = IF k = 0 THEN n ELSE g[k - 1] \div 256
  BY <1>3 DEF Shifts
<1> DEFINE T == {k \in Nat : k \in 0..w /\ h[k] # g[k]}
<1>6. T = {}
  <2> SUFFICES ASSUME T # {} PROVE FALSE
    OBVIOUS
  <2>1. PICK k \in T : \A m \in T : k <= m
    <3> HIDE DEF T
    <3>1. T \in SUBSET Nat
      BY DEF T
    <3> QED BY <3>1, LeastNat
  <2>2. k # 0 => k - 1 \in 0..w /\ k - 1 \notin T
    BY <2>1
  <2>3. k # 0 => h[k - 1] = g[k - 1]
    BY <2>2
  <2> QED BY <1>4, <1>5, <2>1, <2>3
<1>7. \A k \in 0..w : h[k] \in Nat
  BY <1>6
<1>8. h \in [0..w -> Nat]
  <2>1. h = [k \in 0..w |-> IF k = 0 THEN n ELSE h[k - 1] \div 256]
    BY <1>2 DEF Shifts
  <2>2. h = [k \in 0..w |-> h[k]]
    BY <1>4, <2>1
  <2> QED BY <1>7, <2>2
<1> QED BY <1>1, <1>4, <1>8 DEF Shrinks

(* A byte and what is left when it is cut off tell a number. *)
LEMMA CutOff ==
  ASSUME NEW m \in Nat, NEW n \in Nat, m % 256 = n % 256, m \div 256 = n \div 256
  PROVE  m = n
  OBVIOUS

(* An integer that fits is known by its bytes (encode_u64()). *)
LEMMA BytesTellNumbers ==
  ASSUME NEW w \in Nat, NEW m \in Unsigned(w), NEW n \in Unsigned(w),
         BigEndian(m, w) = BigEndian(n, w)
  PROVE  m = n
<1> DEFINE f == Shifted(m, w)
           g == Shifted(n, w)
<1>1. m \in Nat /\ n \in Nat /\ f[w] = 0 /\ g[w] = 0
  BY DEF Unsigned
<1>2. /\ f \in [0..w -> Nat] /\ f[0] = m
      /\ \A k \in 0..w : k # 0 => f[k] = f[k - 1] \div 256
  <2>1. Shrinks(f, m, w)
    BY <1>1, ShiftedAt
  <2> HIDE DEF f
  <2> QED BY <2>1 DEF Shrinks
<1>3. /\ g \in [0..w -> Nat] /\ g[0] = n
      /\ \A k \in 0..w : k # 0 => g[k] = g[k - 1] \div 256
  <2>1. Shrinks(g, n, w)
    BY <1>1, ShiftedAt
  <2> HIDE DEF g
  <2> QED BY <2>1 DEF Shrinks
<1>4. \A i \in 1..w : f[w - i] % 256 = g[w - i] % 256
  <2>1. [i \in 1..w |-> f[w - i] % 256] = [i \in 1..w |-> g[w - i] % 256]
    BY DEF BigEndian
  <2> HIDE DEF f, g
  <2> QED BY <2>1
<1> HIDE DEF f, g
<1> DEFINE T == {i \in Nat : i \in 0..w /\ f[w - i] # g[w - i]}
<1>5. T = {}
  <2> SUFFICES ASSUME T # {} PROVE FALSE
    OBVIOUS
  <2>1. PICK i \in T : \A j \in T : i <= j
    <3> HIDE DEF T
    <3>1. T \in SUBSET Nat
      BY DEF T
    <3> QED BY <3>1, LeastNat
  <2>2. i # 0
    BY <1>1, <2>1
  <2>3. i - 1 \in 0..w /\ i - 1 \in Nat /\ i - 1 \notin T /\ w - (i - 1) = (w - i) + 1
    BY <2>1, <2>2
  <2>4. f[(w - i) + 1] = g[(w - i) + 1]
    BY <2>3
  <2>5. w - i \in 0..w /\ (w - i) + 1 \in 0..w /\ (w - i) + 1 # 0 /\ ((w - i) + 1) - 1 = w - i
    BY <2>1, <2>2
  <2>6. f[(w - i) + 1] = f[w - i] \div 256 /\ g[(w - i) + 1] = g[w - i] \div 256
    BY <1>2, <1>3, <2>5
  <2>7. f[w - i] \in Nat /\ g[w - i] \in Nat
    BY <1>2, <1>3, <2>5
  <2>8. f[w - i] % 256 = g[w - i] % 256
    BY <1>4, <2>1, <2>2
  <2>9. f[w - i] = g[w - i]
    BY <2>4, <2>6, <2>7, <2>8, CutOff
  <2> QED BY <2>1, <2>9
<1>6. w \in Nat /\ w \in 0..w /\ w - w = 0
  OBVIOUS
<1>7. f[0] = g[0]
  BY <1>5, <1>6
<1> QED BY <1>2, <1>3, <1>7

(* It has w bytes. *)
LEMMA BytesAreBytes ==
  ASSUME NEW w \in Nat, NEW n \in Nat
  PROVE  BigEndian(n, w) \in Seq(Nat) /\ Len(BigEndian(n, w)) = w
<1> DEFINE f == Shifted(n, w)
<1>1. \A k \in 0..w : f[k] \in Nat
  BY ShiftedAt DEF Shrinks
<1>2. \A i \in 1..w : w - i \in 0..w
  OBVIOUS
<1> HIDE DEF f
<1>3. \A i \in 1..w : f[w - i] % 256 \in Nat
  BY <1>1, <1>2
<1>4. BigEndian(n, w) = [i \in 1..w |-> f[w - i] % 256]
  BY DEF BigEndian, f
<1> QED BY <1>3, <1>4

(* Below an integer that fits, all do; *)
LEMMA SmallerOnesFit ==
  ASSUME NEW w \in Nat, NEW n \in Unsigned(w), NEW m \in Nat, m <= n
  PROVE  m \in Unsigned(w)
<1> DEFINE f == Shifted(m, w)
           g == Shifted(n, w)
<1>1. n \in Nat /\ g[w] = 0
  BY DEF Unsigned
<1>2. /\ f \in [0..w -> Nat] /\ f[0] = m
      /\ \A k \in 0..w : k # 0 => f[k] = f[k - 1] \div 256
  <2>1. Shrinks(f, m, w)
    BY <1>1, ShiftedAt
  <2> HIDE DEF f
  <2> QED BY <2>1 DEF Shrinks
<1>3. /\ g \in [0..w -> Nat] /\ g[0] = n
      /\ \A k \in 0..w : k # 0 => g[k] = g[k - 1] \div 256
  <2>1. Shrinks(g, n, w)
    BY <1>1, ShiftedAt
  <2> HIDE DEF g
  <2> QED BY <2>1 DEF Shrinks
<1> HIDE DEF f, g
<1> DEFINE T == {k \in Nat : k \in 0..w /\ ~(f[k] <= g[k])}
<1>4. T = {}
  <2> SUFFICES ASSUME T # {} PROVE FALSE
    OBVIOUS
  <2>1. PICK i \in T : \A j \in T : i <= j
    <3> HIDE DEF T
    <3>1. T \in SUBSET Nat
      BY DEF T
    <3> QED BY <3>1, LeastNat
  <2>2. i # 0
    BY <1>2, <1>3, <2>1
  <2>3. i - 1 \in 0..w /\ i - 1 \notin T
    BY <2>1, <2>2
  <2>4. f[i - 1] <= g[i - 1] /\ f[i - 1] \in Nat /\ g[i - 1] \in Nat
    BY <1>2, <1>3, <2>3
  <2>5. f[i] = f[i - 1] \div 256 /\ g[i] = g[i - 1] \div 256
    BY <1>2, <1>3, <2>1, <2>2
  <2>6. \A x, y \in Nat : x <= y => x \div 256 <= y \div 256
    OBVIOUS
  <2> QED BY <2>1, <2>4, <2>5, <2>6
<1>5. f[w] <= 0 /\ f[w] \in Nat
  BY <1>1, <1>2, <1>4
<1>6. f[w] = 0
  BY <1>5
<1> QED BY <1>6 DEF Unsigned, f

(* and so does one with a sign if it is not negative. *)
LEMMA SignedOnesFit ==
  ASSUME NEW n \in Signed(8), n >= 0
  PROVE  n \in Unsigned(8)
<1>1. n \in Nat /\ Shifted(n, 8)[7] < 128
  BY DEF Signed
<1>2. Shifted(n, 8)[7] \in Nat /\ Shifted(n, 8)[8] = Shifted(n, 8)[7] \div 256
  BY <1>1, ShiftedAt DEF Shrinks
<1> QED BY <1>1, <1>2 DEF Unsigned

----------------------------------------------------------------------------
(* What a digest is fed: a, and then b. *)
Fed(a, b) == a \o b

(* What is fed are numbers again, in whatever steps. *)
LEMMA FedIsFed ==
  /\ \A a, b \in Seq(Nat) : Fed(a, b) \in Seq(Nat)
  /\ \A a, b, c \in Seq(Nat) : Fed(Fed(a, b), c) = Fed(a, Fed(b, c))
<1>1. ASSUME NEW a \in Seq(Nat), NEW b \in Seq(Nat) PROVE a \o b \in Seq(Nat)
  OBVIOUS
<1>2. ASSUME NEW a \in Seq(Nat), NEW b \in Seq(Nat), NEW c \in Seq(Nat)
      PROVE  (a \o b) \o c = a \o (b \o c)
  OBVIOUS
<1> QED BY <1>1, <1>2 DEF Fed

(* What begins alike goes on alike. *)
LEMMA FedBehind ==
  ASSUME NEW a \in Seq(Nat), NEW p \in Seq(Nat), NEW q \in Seq(Nat),
         Fed(a, p) = Fed(a, q)
  PROVE  p = q
  BY ConcatSimplifications DEF Fed

(* Followed by whatever they are, one of a and b is not read as the other. *)
OneReading(a, b) == \A u, v \in Seq(Nat) : Fed(a, u) = Fed(b, v) => a = b

(* Two pieces of what a digest is fed that are read in one way *)
Readable(a, b) == a \in Seq(Nat) /\ b \in Seq(Nat) /\ OneReading(a, b)

(* Pieces of one length are read in one way. *)
LEMMA SameLengthReads ==
  ASSUME NEW a \in Seq(Nat), NEW b \in Seq(Nat), Len(a) = Len(b)
  PROVE  Readable(a, b)
<1> SUFFICES ASSUME NEW u \in Seq(Nat), NEW v \in Seq(Nat), a \o u = b \o v
             PROVE  a = b
  BY DEF Readable, OneReading, Fed
<1>1. \A i \in 1..Len(a) : (a \o u)[i] = a[i] /\ (b \o v)[i] = b[i]
  OBVIOUS
<1>2. \A i \in 1..Len(a) : a[i] = b[i]
  BY <1>1
<1> QED BY <1>2, SeqEqual

(* What follows the one follows the other. *)
LEMMA HeadsTell ==
  ASSUME NEW a, NEW b, Readable(a, b), NEW u \in Seq(Nat), NEW v \in Seq(Nat),
         Fed(a, u) = Fed(b, v)
  PROVE  a = b /\ u = v
<1>1. a \in Seq(Nat) /\ b \in Seq(Nat)
  BY DEF Readable
<1>2. a = b
  BY DEF Readable, OneReading
<1>3. Fed(a, u) = Fed(a, v)
  BY <1>2
<1>4. u = v
  BY <1>1, <1>3, FedBehind
<1> QED BY <1>2, <1>4

(* If what follows is read in one way too, so are both together. *)
LEMMA HeadsTogether ==
  ASSUME NEW a, NEW b, NEW p \in Seq(Nat), NEW q \in Seq(Nat),
         Readable(a, b), a = b => OneReading(p, q)
  PROVE  /\ Readable(Fed(a, p), Fed(b, q))
         /\ Fed(a, p) = Fed(b, q) => a = b /\ p = q
<1>1. a \in Seq(Nat) /\ b \in Seq(Nat)
  BY DEF Readable
<1>2. ASSUME NEW u \in Seq(Nat), NEW v \in Seq(Nat),
             Fed(Fed(a, p), u) = Fed(Fed(b, q), v)
      PROVE  Fed(a, p) = Fed(b, q)
  <2>1. /\ Fed(Fed(a, p), u) = Fed(a, Fed(p, u))
        /\ Fed(Fed(b, q), v) = Fed(b, Fed(q, v))
        /\ Fed(p, u) \in Seq(Nat) /\ Fed(q, v) \in Seq(Nat)
    BY <1>1, FedIsFed
  <2>2. a = b /\ Fed(p, u) = Fed(q, v)
    <3> DEFINE x == Fed(p, u)
               y == Fed(q, v)
    <3>1. x \in Seq(Nat) /\ y \in Seq(Nat) /\ Fed(a, x) = Fed(b, y)
      BY <1>2, <2>1
    <3> HIDE DEF x, y
    <3>2. a = b /\ x = y
      BY <3>1, HeadsTell
    <3> QED BY <3>2 DEF x, y
  <2>3. p = q
    BY <2>2 DEF OneReading
  <2> QED BY <2>2, <2>3
<1>3. Fed(a, p) \in Seq(Nat) /\ Fed(b, q) \in Seq(Nat)
  BY <1>1, FedIsFed
<1>4. Fed(a, p) = Fed(b, q) => a = b /\ p = q
  BY HeadsTell
<1>5. OneReading(Fed(a, p), Fed(b, q))
  BY <1>2 DEF OneReading
<1> QED BY <1>3, <1>4, <1>5 DEF Readable

(* Two pieces come apart when they are put together. *)
LEMMA TwoTogether ==
  ASSUME NEW a, NEW b, NEW p, NEW q, Readable(a, b), Readable(p, q)
  PROVE  /\ Readable(Fed(a, p), Fed(b, q))
         /\ Fed(a, p) = Fed(b, q) => a = b /\ p = q
<1>1. p \in Seq(Nat) /\ q \in Seq(Nat) /\ OneReading(p, q)
  BY DEF Readable
<1> QED BY <1>1, HeadsTogether

(* Three pieces. *)
Fed3(a, b, c) == Fed(Fed(a, b), c)

(* Three pieces come apart as two do. *)
LEMMA ThreeTogether ==
  ASSUME NEW a1, NEW b1, NEW a2, NEW b2, NEW a3, NEW b3,
         Readable(a1, b1), Readable(a2, b2), Readable(a3, b3)
  PROVE  /\ Readable(Fed3(a1, a2, a3), Fed3(b1, b2, b3))
         /\ Fed3(a1, a2, a3) = Fed3(b1, b2, b3) => a1 = b1 /\ a2 = b2 /\ a3 = b3
<1>1. /\ Readable(Fed(a1, a2), Fed(b1, b2))
      /\ Fed(a1, a2) = Fed(b1, b2) => a1 = b1 /\ a2 = b2
  BY TwoTogether
<1>2. /\ Readable(Fed(Fed(a1, a2), a3), Fed(Fed(b1, b2), b3))
      /\ Fed(Fed(a1, a2), a3) = Fed(Fed(b1, b2), b3) =>
           Fed(a1, a2) = Fed(b1, b2) /\ a3 = b3
  BY <1>1, TwoTogether
<1> QED BY <1>1, <1>2 DEF Fed3

(* Four pieces. *)
Fed4(a, b, c, d) == Fed(Fed3(a, b, c), d)

(* So do four. *)
LEMMA FourTogether ==
  ASSUME NEW a1, NEW b1, NEW a2, NEW b2, NEW a3, NEW b3, NEW a4, NEW b4,
         Readable(a1, b1), Readable(a2, b2), Readable(a3, b3), Readable(a4, b4)
  PROVE  /\ Readable(Fed4(a1, a2, a3, a4), Fed4(b1, b2, b3, b4))
         /\ Fed4(a1, a2, a3, a4) = Fed4(b1, b2, b3, b4) =>
              a1 = b1 /\ a2 = b2 /\ a3 = b3 /\ a4 = b4
<1>1. /\ Readable(Fed3(a1, a2, a3), Fed3(b1, b2, b3))
      /\ Fed3(a1, a2, a3) = Fed3(b1, b2, b3) => a1 = b1 /\ a2 = b2 /\ a3 = b3
  BY ThreeTogether
<1>2. /\ Readable(Fed4(a1, a2, a3, a4), Fed4(b1, b2, b3, b4))
      /\ Fed4(a1, a2, a3, a4) = Fed4(b1, b2, b3, b4) =>
           Fed3(a1, a2, a3) = Fed3(b1, b2, b3) /\ a4 = b4
  BY <1>1, TwoTogether DEF Fed4
<1> QED BY <1>1, <1>2

----------------------------------------------------------------------------
(* A byte tells an enumerator, *)
LEMMA EnumeratorsTell ==
  ASSUME NEW m \in Nat, NEW n \in Nat
  PROVE  Readable(AddU8(m), AddU8(n)) /\ (AddU8(m) = AddU8(n) => m = n)
<1>1. AddU8(m) \in Seq(Nat) /\ AddU8(n) \in Seq(Nat) /\ Len(AddU8(m)) = Len(AddU8(n))
  BY DEF AddU8
<1>2. AddU8(m) = AddU8(n) => m = n
  BY DEF AddU8
<1> QED BY <1>1, <1>2, SameLengthReads

(* another a Boolean value, *)
LEMMA BooleansTell ==
  ASSUME NEW P \in BOOLEAN, NEW Q \in BOOLEAN
  PROVE  Readable(AddBool(P), AddBool(Q)) /\ (AddBool(P) = AddBool(Q) => P = Q)
<1> DEFINE m == IF P THEN 1 ELSE 0
           n == IF Q THEN 1 ELSE 0
<1>1. m \in Nat /\ n \in Nat /\ (m = n => P = Q)
  OBVIOUS
<1>2. AddBool(P) = AddU8(m) /\ AddBool(Q) = AddU8(n)
  BY DEF AddBool
<1> HIDE DEF m, n
<1> QED BY <1>1, <1>2, EnumeratorsTell

(* w bytes an integer that fits, *)
LEMMA IntegersTell ==
  ASSUME NEW w \in Nat, NEW m \in Unsigned(w), NEW n \in Unsigned(w)
  PROVE  /\ Readable(BigEndian(m, w), BigEndian(n, w))
         /\ BigEndian(m, w) = BigEndian(n, w) => m = n
<1>1. m \in Nat /\ n \in Nat
  BY DEF Unsigned
<1>2. BigEndian(m, w) \in Seq(Nat) /\ Len(BigEndian(m, w)) = w
  BY <1>1, BytesAreBytes
<1>3. BigEndian(n, w) \in Seq(Nat) /\ Len(BigEndian(n, w)) = w
  BY <1>1, BytesAreBytes
<1>4. Readable(BigEndian(m, w), BigEndian(n, w))
  BY <1>2, <1>3, SameLengthReads
<1> QED BY <1>4, BytesTellNumbers

(* as add_u64() writes them, *)
LEMMA U64Tells ==
  ASSUME NEW m \in Unsigned(8), NEW n \in Unsigned(8)
  PROVE  Readable(AddU64(m), AddU64(n)) /\ (AddU64(m) = AddU64(n) => m = n)
  BY IntegersTell DEF AddU64

(* and as add_u32() does. *)
LEMMA U32Tells ==
  ASSUME NEW m \in Unsigned(4), NEW n \in Unsigned(4)
  PROVE  Readable(AddU32(m), AddU32(n)) /\ (AddU32(m) = AddU32(n) => m = n)
  BY IntegersTell DEF AddU32

(* a length and as many bytes a text, *)
LEMMA StringsTell ==
  ASSUME NEW s \in AnyText, NEW t \in AnyText
  PROVE  Readable(AddString(s), AddString(t)) /\ (AddString(s) = AddString(t) => s = t)
<1>1. /\ s \in Seq(Nat) /\ t \in Seq(Nat)
      /\ Len(s) \in Unsigned(8) /\ Len(t) \in Unsigned(8)
  <2>1. /\ s \in Seq(Byte) /\ t \in Seq(Byte)
        /\ Len(s) \in Unsigned(8) /\ Len(t) \in Unsigned(8)
    BY DEF AnyText, ListOf
  <2>2. \A n \in Byte : n \in Nat
    BY DEF Byte
  <2> QED BY <2>1, <2>2
<1>2. /\ Readable(AddU64(Len(s)), AddU64(Len(t)))
      /\ AddU64(Len(s)) = AddU64(Len(t)) => Len(s) = Len(t)
  BY <1>1, U64Tells
<1>3. AddU64(Len(s)) = AddU64(Len(t)) => OneReading(s, t)
  BY <1>1, <1>2, SameLengthReads DEF Readable
<1>4. AddString(s) = Fed(AddU64(Len(s)), s) /\ AddString(t) = Fed(AddU64(Len(t)), t)
  BY DEF AddString, Fed
<1> QED BY <1>1, <1>2, <1>3, <1>4, HeadsTogether

(* and a byte whether there is a value, whose bytes follow. *)
LEMMA OptionalsTell ==
  ASSUME NEW P \in BOOLEAN, NEW Q \in BOOLEAN,
         NEW x \in Seq(Nat), NEW y \in Seq(Nat),
         ~P => x = <<>>, ~Q => y = <<>>, P /\ Q => OneReading(x, y)
  PROVE  /\ Readable(Fed(AddBool(P), x), Fed(AddBool(Q), y))
         /\ Fed(AddBool(P), x) = Fed(AddBool(Q), y) => P = Q /\ x = y
<1>1. Readable(AddBool(P), AddBool(Q)) /\ (AddBool(P) = AddBool(Q) => P = Q)
  BY BooleansTell
<1>2. OneReading(<<>>, <<>>)
  BY DEF OneReading
<1>3. P = Q => OneReading(x, y)
  BY <1>2
<1> QED BY <1>1, <1>3, HeadsTogether

----------------------------------------------------------------------------
(* What is fed piece by piece are numbers, *)
LEMMA PiecesAreFed ==
  ASSUME NEW n \in Nat, NEW s \in [1..n -> Seq(Nat)], NEW f, Joined(s, f, n)
  PROVE  \A k \in 1..n : f[k] \in Seq(Nat)
<1> DEFINE T == {k \in Nat : k \in 1..n /\ f[k] \notin Seq(Nat)}
<1>1. SUFFICES ASSUME T # {} PROVE FALSE
  OBVIOUS
<1>2. PICK k \in T : \A j \in T : k <= j
  <2> HIDE DEF T
  <2>1. T \in SUBSET Nat
    BY DEF T
  <2> QED BY <1>1, <2>1, LeastNat
<1>3. k \in 1..n /\ f[k] \notin Seq(Nat)
  BY <1>2
<1>4. f[k] = IF k = 1 THEN s[k] ELSE f[k - 1] \o s[k]
  BY <1>3, JoinedAt
<1>5. k # 1 => f[k - 1] \in Seq(Nat)
  <2>1. k # 1 => k - 1 \in Nat /\ k - 1 \in 1..n /\ ~(k <= k - 1)
    BY <1>3
  <2> QED BY <1>2, <2>1
<1>6. s[k] \in Seq(Nat)
  BY <1>3
<1>7. k # 1 => f[k] = Fed(f[k - 1], s[k])
  BY <1>4 DEF Fed
<1>8. k = 1 => f[k] = s[k]
  BY <1>4
<1>9. k # 1 => Fed(f[k - 1], s[k]) \in Seq(Nat)
  BY <1>5, <1>6, FedIsFed
<1> QED BY <1>3, <1>6, <1>7, <1>8, <1>9

(* for FlattenSeq() too, *)
LEMMA FlatIsFed ==
  ASSUME NEW n \in Nat, NEW s \in [1..n -> Seq(Nat)]
  PROVE  FlattenSeq(s) \in Seq(Nat) /\ (n = 0 => FlattenSeq(s) = <<>>)
<1>1. CASE n = 0
  <2>1. s = <<>>
    BY <1>1
  <2>2. FlattenSeq(<<>>) = <<>>
    BY DEF FlattenSeq
  <2>3. <<>> \in Seq(Nat)
    OBVIOUS
  <2> QED BY <2>1, <2>2, <2>3
<1>2. CASE n # 0
  <2>1. PICK f : Joined(s, f, n)
    BY JoinedExists
  <2>2. s = [i \in 1..n |-> s[i]]
    OBVIOUS
  <2>3. FlattenSeq(s) = f[n]
    BY <1>2, <2>1, <2>2, FlattenJoins
  <2>4. n \in 1..n
    BY <1>2
  <2> QED BY <1>2, <2>1, <2>3, <2>4, PiecesAreFed
<1> QED BY <1>1, <1>2

(* and as many pieces that are read in one way come apart. *)
LEMMA PiecesTogether ==
  ASSUME NEW n \in Nat, NEW s \in [1..n -> Seq(Nat)], NEW t \in [1..n -> Seq(Nat)],
         \A i \in 1..n : OneReading(s[i], t[i])
  PROVE  /\ OneReading(FlattenSeq(s), FlattenSeq(t))
         /\ FlattenSeq(s) = FlattenSeq(t) => s = t
<1>1. CASE n = 0
  <2>1. s = t
    BY <1>1
  <2> QED BY <2>1 DEF OneReading
<1>2. CASE n # 0
  <2>1. PICK f : Joined(s, f, n)
    BY JoinedExists
  <2>2. PICK g : Joined(t, g, n)
    BY JoinedExists
  <2>3. \A k \in 1..n : f[k] \in Seq(Nat)
    BY <2>1, PiecesAreFed
  <2>4. \A k \in 1..n : g[k] \in Seq(Nat)
    BY <2>2, PiecesAreFed
  <2>13. ASSUME NEW k \in 1..n
         PROVE  f[k] = IF k = 1 THEN s[k] ELSE Fed(f[k - 1], s[k])
    BY <2>1, JoinedAt DEF Fed
  <2>14. ASSUME NEW k \in 1..n
         PROVE  g[k] = IF k = 1 THEN t[k] ELSE Fed(g[k - 1], t[k])
    BY <2>2, JoinedAt DEF Fed
  <2> DEFINE Told(k) == /\ Readable(f[k], g[k])
                        /\ f[k] = g[k] => \A i \in 1..k : s[i] = t[i]
             T == {k \in Nat : k \in 1..n /\ ~Told(k)}
  <2>5. T = {}
    <3> SUFFICES ASSUME T # {} PROVE FALSE
      OBVIOUS
    <3>1. PICK k \in T : \A j \in T : k <= j
      <4> HIDE DEF T
      <4>1. T \in SUBSET Nat
        BY DEF T
      <4> QED BY <4>1, LeastNat
    <3>2. k \in Nat /\ k \in 1..n /\ ~Told(k)
      BY <3>1
    <3>9. k \in 1..n
      BY <3>2
    <3>3. k # 1 => k - 1 \in 1..n /\ Told(k - 1)
      <4>1. k # 1 => k - 1 \in Nat /\ k - 1 \in 1..n /\ ~(k <= k - 1)
        BY <3>2
      <4> HIDE DEF Told
      <4> QED BY <3>1, <4>1
    <3>5. s[k] \in Seq(Nat) /\ t[k] \in Seq(Nat) /\ Readable(s[k], t[k])
      BY <3>2 DEF Readable
    <3>6. CASE k = 1
      <4>1. f[k] = s[k] /\ g[k] = t[k]
        BY <2>13, <2>14, <3>9, <3>6
      <4>2. \A i \in 1..k : i = k
        BY <3>6
      <4> QED BY <3>2, <3>5, <4>1, <4>2
    <3>7. CASE k # 1
      <4>1. f[k] = Fed(f[k - 1], s[k]) /\ g[k] = Fed(g[k - 1], t[k])
        BY <2>13, <2>14, <3>9, <3>7
      <4>2. /\ Readable(f[k - 1], g[k - 1])
            /\ f[k - 1] = g[k - 1] => \A i \in 1..(k - 1) : s[i] = t[i]
        BY <3>3, <3>7
      <4>3. /\ Readable(f[k], g[k])
            /\ f[k] = g[k] => f[k - 1] = g[k - 1] /\ s[k] = t[k]
        BY <3>5, <4>1, <4>2, TwoTogether
      <4>4. \A i \in 1..k : i = k \/ i \in 1..(k - 1)
        BY <3>2
      <4>5. f[k] = g[k] => \A i \in 1..k : s[i] = t[i]
        BY <4>2, <4>3, <4>4
      <4> QED BY <3>2, <4>3, <4>5
    <3> QED BY <3>6, <3>7
  <2>6. n \in Nat /\ n \in 1..n
    BY <1>2
  <2>7. Told(n)
    <3> HIDE DEF Told
    <3> QED BY <2>5, <2>6
  <2>8. s = [i \in 1..n |-> s[i]] /\ t = [i \in 1..n |-> t[i]]
    OBVIOUS
  <2>9. FlattenSeq(s) = f[n]
    BY <1>2, <2>1, <2>8, FlattenJoins
  <2>10. FlattenSeq(t) = g[n]
    BY <1>2, <2>2, <2>8, FlattenJoins
  <2>11. (\A i \in 1..n : s[i] = t[i]) => s = t
    BY <2>8
  <2>12. Readable(f[n], g[n]) /\ (f[n] = g[n] => \A i \in 1..n : s[i] = t[i])
    BY <2>7
  <2> QED BY <2>9, <2>10, <2>11, <2>12 DEF Readable
<1> QED BY <1>1, <1>2

(* What E makes of the elements of X tells them. *)
Tells(X, E) ==
  /\ E \in [X -> Seq(Nat)]
  /\ \A x, y \in X : Readable(E[x], E[y]) /\ (E[x] = E[y] => x = y)

(* A list as it is fed: its length, and E of each element. *)
Listed(s, E) == Fed(AddU64(Len(s)), FlattenSeq([i \in DOMAIN s |-> E[s[i]]]))

(* The elements of a list can be told if each of them can. *)
LEMMA ListsTell ==
  ASSUME NEW X, NEW E, Tells(X, E), NEW s \in ListOf(X), NEW t \in ListOf(X)
  PROVE  /\ Readable(Listed(s, E), Listed(t, E))
         /\ Listed(s, E) = Listed(t, E) => s = t
<1> DEFINE m == Len(s)
           n == Len(t)
           p == [i \in 1..m |-> E[s[i]]]
           q == [i \in 1..n |-> E[t[i]]]
<1>0. /\ E \in [X -> Seq(Nat)]
      /\ \A x, y \in X : Readable(E[x], E[y]) /\ (E[x] = E[y] => x = y)
  BY DEF Tells
<1>1. /\ s \in Seq(X) /\ t \in Seq(X)
      /\ m \in Unsigned(8) /\ n \in Unsigned(8)
  BY DEF ListOf
<1>2. /\ m \in Nat /\ DOMAIN s = 1..m /\ \A i \in 1..m : s[i] \in X
      /\ n \in Nat /\ DOMAIN t = 1..n /\ \A i \in 1..n : t[i] \in X
  BY <1>1
<1>3. /\ Listed(s, E) = Fed(AddU64(m), FlattenSeq(p))
      /\ Listed(t, E) = Fed(AddU64(n), FlattenSeq(q))
  BY <1>2 DEF Listed
<1>4. ASSUME m = n, \A i \in 1..n : s[i] = t[i] PROVE s = t
  BY <1>1, <1>4, SeqEqual
<1> HIDE DEF m, n
<1>5. p \in [1..m -> Seq(Nat)] /\ \A i \in 1..m : p[i] = E[s[i]]
  BY <1>0, <1>2
<1>6. q \in [1..n -> Seq(Nat)] /\ \A i \in 1..n : q[i] = E[t[i]]
  BY <1>0, <1>2
<1> HIDE DEF p, q
<1>7. FlattenSeq(p) \in Seq(Nat) /\ FlattenSeq(q) \in Seq(Nat)
  BY <1>2, <1>5, <1>6, FlatIsFed
<1>8. Readable(AddU64(m), AddU64(n)) /\ (AddU64(m) = AddU64(n) => m = n)
  BY <1>1, U64Tells
<1>9. ASSUME m = n
      PROVE  /\ OneReading(FlattenSeq(p), FlattenSeq(q))
             /\ FlattenSeq(p) = FlattenSeq(q) => p = q
  <2>1. \A i \in 1..n : OneReading(p[i], q[i])
    BY <1>0, <1>2, <1>5, <1>6, <1>9 DEF Readable
  <2>2. p \in [1..n -> Seq(Nat)]
    BY <1>5, <1>9
  <2>3. n \in Nat /\ q \in [1..n -> Seq(Nat)]
    BY <1>2, <1>6
  <2> QED BY <2>1, <2>2, <2>3, PiecesTogether
<1>10. ASSUME m = n, p = q PROVE s = t
  <2>1. \A i \in 1..n : E[s[i]] = E[t[i]] /\ s[i] \in X /\ t[i] \in X
    BY <1>2, <1>5, <1>6, <1>10
  <2> QED BY <1>0, <1>4, <1>10, <2>1
<1>11. AddU64(m) = AddU64(n) => OneReading(FlattenSeq(p), FlattenSeq(q))
  BY <1>8, <1>9
<1>12. /\ Readable(Listed(s, E), Listed(t, E))
       /\ Listed(s, E) = Listed(t, E) =>
            AddU64(m) = AddU64(n) /\ FlattenSeq(p) = FlattenSeq(q)
  BY <1>3, <1>7, <1>8, <1>11, HeadsTogether
<1> QED BY <1>8, <1>9, <1>10, <1>12

(* Two values in place of all. *)
LEMMA ToTell ==
  ASSUME NEW X, NEW E, E = [x \in X |-> E[x]],
         \A x, y \in X : Readable(E[x], E[y]) /\ (E[x] = E[y] => x = y)
  PROVE  Tells(X, E)
<1>1. \A x \in X : E[x] \in Seq(Nat)
  BY DEF Readable
<1>2. E \in [X -> Seq(Nat)]
  BY <1>1
<1> QED BY <1>2 DEF Tells

(* An optional value as it is fed: whether there is one, and E of it. *)
Given(o, E) == Fed(AddBool(o # <<>>), IF o = <<>> THEN <<>> ELSE E[o[1]])

(* It tells the value if E tells what there may be. *)
LEMMA OptionsTell ==
  ASSUME NEW X, NEW E, Tells(X, E), NEW o \in AtMostOne(X), NEW p \in AtMostOne(X)
  PROVE  /\ Readable(Given(o, E), Given(p, E))
         /\ Given(o, E) = Given(p, E) => o = p
<1> DEFINE x == IF o = <<>> THEN <<>> ELSE E[o[1]]
           y == IF p = <<>> THEN <<>> ELSE E[p[1]]
           P == o # <<>>
           Q == p # <<>>
<1>1. \A z \in AtMostOne(X) : z # <<>> => z[1] \in X /\ z = <<z[1]>>
  BY DEF AtMostOne
<1>2. P => o[1] \in X /\ o = <<o[1]>>
  BY <1>1
<1>3. Q => p[1] \in X /\ p = <<p[1]>>
  BY <1>1
<1>4. <<>> \in Seq(Nat)
  OBVIOUS
<1>5. P => x \in Seq(Nat)
  BY <1>2 DEF Tells
<1>6. Q => y \in Seq(Nat)
  BY <1>3 DEF Tells
<1>7. ~P => x = <<>> /\ o = <<>>
  OBVIOUS
<1>8. ~Q => y = <<>> /\ p = <<>>
  OBVIOUS
<1>9. P /\ Q => OneReading(x, y) /\ (x = y => o[1] = p[1])
  BY <1>2, <1>3 DEF Tells, Readable
<1>10. P \in BOOLEAN /\ Q \in BOOLEAN
  OBVIOUS
<1>11. Given(o, E) = Fed(AddBool(P), x) /\ Given(p, E) = Fed(AddBool(Q), y)
  BY DEF Given
<1> HIDE DEF P, Q, x, y
<1>12. x \in Seq(Nat) /\ y \in Seq(Nat)
  BY <1>4, <1>5, <1>6, <1>7, <1>8, <1>10
<1>13. /\ Readable(Fed(AddBool(P), x), Fed(AddBool(Q), y))
       /\ Fed(AddBool(P), x) = Fed(AddBool(Q), y) => P = Q /\ x = y
  BY <1>7, <1>8, <1>9, <1>10, <1>12, OptionalsTell
<1>14. P = Q /\ x = y => o = p
  <2>1. CASE P /\ Q
    BY <1>2, <1>3, <1>9, <2>1
  <2>2. CASE ~P /\ ~Q
    BY <1>7, <1>8, <2>2
  <2> QED BY <1>10, <2>1, <2>2
<1> QED BY <1>11, <1>13, <1>14

----------------------------------------------------------------------------
(* What identity_builder makes of each type tells its values. *)
Enumerators == [n \in Nat |-> AddU8(n)]
Longs == [n \in Unsigned(8) |-> AddU64(n)]
Words == [n \in Unsigned(4) |-> AddU32(n)]
Strings == [s \in AnyText |-> AddString(s)]

(* So no two values of a type are fed alike. *)
LEMMA TypesTell ==
  /\ Tells(Nat, Enumerators) /\ Tells(Unsigned(8), Longs)
  /\ Tells(Unsigned(4), Words) /\ Tells(AnyText, Strings)
<1>1. Tells(Nat, Enumerators)
  <2>1. \A n \in Nat : Enumerators[n] = AddU8(n)
    BY DEF Enumerators
  <2>2. Enumerators = [n \in Nat |-> Enumerators[n]]
    BY DEF Enumerators
  <2> QED BY <2>1, <2>2, EnumeratorsTell, ToTell
<1>2. Tells(Unsigned(8), Longs)
  <2>1. \A n \in Unsigned(8) : Longs[n] = AddU64(n)
    BY DEF Longs
  <2>2. Longs = [n \in Unsigned(8) |-> Longs[n]]
    BY DEF Longs
  <2> QED BY <2>1, <2>2, U64Tells, ToTell
<1>3. Tells(Unsigned(4), Words)
  <2>1. \A n \in Unsigned(4) : Words[n] = AddU32(n)
    BY DEF Words
  <2>2. Words = [n \in Unsigned(4) |-> Words[n]]
    BY DEF Words
  <2> QED BY <2>1, <2>2, U32Tells, ToTell
<1>4. Tells(AnyText, Strings)
  <2>1. \A s \in AnyText : Strings[s] = AddString(s)
    BY DEF Strings
  <2>2. Strings = [s \in AnyText |-> Strings[s]]
    BY DEF Strings
  <2> QED BY <2>1, <2>2, StringsTell, ToTell
<1> QED BY <1>1, <1>2, <1>3, <1>4

(* The first element of an optional value has its type. *)
LEMMA TheOne ==
  ASSUME NEW X, NEW o \in AtMostOne(X), o # <<>>
  PROVE  o[1] \in X
  BY DEF AtMostOne

(* Optional values of eight bytes, *)
LEMMA OptionalU64sTell ==
  ASSUME NEW o \in AtMostOne(Unsigned(8)), NEW p \in AtMostOne(Unsigned(8))
  PROVE  /\ Readable(AddOptionalU64(o), AddOptionalU64(p))
         /\ AddOptionalU64(o) = AddOptionalU64(p) => o = p
<1>1. ASSUME NEW q \in AtMostOne(Unsigned(8))
      PROVE  AddOptionalU64(q) = Given(q, Longs)
  <2>1. q # <<>> => Longs[q[1]] = AddU64(q[1])
    BY TheOne DEF Longs
  <2> QED BY <2>1 DEF AddOptionalU64, Given, Fed
<1> QED BY <1>1, TypesTell, OptionsTell

(* are told, whatever their width: four bytes, *)
LEMMA OptionalU32sTell ==
  ASSUME NEW o \in AtMostOne(Unsigned(4)), NEW p \in AtMostOne(Unsigned(4))
  PROVE  /\ Readable(AddOptionalU32(o), AddOptionalU32(p))
         /\ AddOptionalU32(o) = AddOptionalU32(p) => o = p
<1>1. ASSUME NEW q \in AtMostOne(Unsigned(4))
      PROVE  AddOptionalU32(q) = Given(q, Words)
  <2>1. q # <<>> => Words[q[1]] = AddU32(q[1])
    BY TheOne DEF Words
  <2> QED BY <2>1 DEF AddOptionalU32, Given, Fed
<1> QED BY <1>1, TypesTell, OptionsTell

(* one byte, *)
LEMMA OptionalU8sTell ==
  ASSUME NEW o \in AtMostOne(Nat), NEW p \in AtMostOne(Nat)
  PROVE  /\ Readable(AddOptionalU8(o), AddOptionalU8(p))
         /\ AddOptionalU8(o) = AddOptionalU8(p) => o = p
<1>1. ASSUME NEW q \in AtMostOne(Nat)
      PROVE  AddOptionalU8(q) = Given(q, Enumerators)
  <2>1. q # <<>> => Enumerators[q[1]] = AddU8(q[1])
    BY TheOne DEF Enumerators
  <2> QED BY <2>1 DEF AddOptionalU8, Given, Fed
<1> QED BY <1>1, TypesTell, OptionsTell

(* or a text. *)
LEMMA OptionalStringsTell ==
  ASSUME NEW o \in AtMostOne(AnyText), NEW p \in AtMostOne(AnyText)
  PROVE  /\ Readable(AddOptionalString(o), AddOptionalString(p))
         /\ AddOptionalString(o) = AddOptionalString(p) => o = p
<1>1. ASSUME NEW q \in AtMostOne(AnyText)
      PROVE  AddOptionalString(q) = Given(q, Strings)
  <2>1. q # <<>> => Strings[q[1]] = AddString(q[1])
    BY TheOne DEF Strings
  <2> QED BY <2>1 DEF AddOptionalString, Given, Fed
<1> QED BY <1>1, TypesTell, OptionsTell

(* The elements of a list are of its type. *)
LEMMA ElementsOf ==
  ASSUME NEW X, NEW s \in ListOf(X)
  PROVE  s \in Seq(X) /\ \A i \in DOMAIN s : s[i] \in X
  BY DEF ListOf

(* Lists are told by their lengths and their elements: those of texts, *)
LEMMA TextListsTell ==
  ASSUME NEW s \in ListOf(AnyText), NEW t \in ListOf(AnyText)
  PROVE  /\ Readable(AddEach(s, AddString), AddEach(t, AddString))
         /\ AddEach(s, AddString) = AddEach(t, AddString) => s = t
<1>1. ASSUME NEW q \in ListOf(AnyText)
      PROVE  AddEach(q, AddString) = Listed(q, Strings)
  <2>1. \A i \in DOMAIN q : Strings[q[i]] = AddString(q[i])
    BY ElementsOf DEF Strings
  <2>2. [i \in DOMAIN q |-> AddString(q[i])] = [i \in DOMAIN q |-> Strings[q[i]]]
    BY <2>1
  <2> QED BY <2>2 DEF AddEach, Listed, Fed
<1> QED BY <1>1, TypesTell, ListsTell

(* of groups, *)
LEMMA GroupListsTell ==
  ASSUME NEW s \in ListOf(Unsigned(8)), NEW t \in ListOf(Unsigned(8))
  PROVE  /\ Readable(AddEach(s, AddU64), AddEach(t, AddU64))
         /\ AddEach(s, AddU64) = AddEach(t, AddU64) => s = t
<1>1. ASSUME NEW q \in ListOf(Unsigned(8))
      PROVE  AddEach(q, AddU64) = Listed(q, Longs)
  <2>1. \A i \in DOMAIN q : Longs[q[i]] = AddU64(q[i])
    BY ElementsOf DEF Longs
  <2>2. [i \in DOMAIN q |-> AddU64(q[i])] = [i \in DOMAIN q |-> Longs[q[i]]]
    BY <2>1
  <2> QED BY <2>2 DEF AddEach, Listed, Fed
<1> QED BY <1>1, TypesTell, ListsTell

(* and enumerators. *)
(* and of enumerators. *)
LEMMA EnumeratorListsTell ==
  ASSUME NEW s \in ListOf(Nat), NEW t \in ListOf(Nat)
  PROVE  /\ Readable(AddEach(s, AddU8), AddEach(t, AddU8))
         /\ AddEach(s, AddU8) = AddEach(t, AddU8) => s = t
<1>1. ASSUME NEW q \in ListOf(Nat)
      PROVE  AddEach(q, AddU8) = Listed(q, Enumerators)
  <2>1. \A i \in DOMAIN q : Enumerators[q[i]] = AddU8(q[i])
    BY ElementsOf DEF Enumerators
  <2>2. [i \in DOMAIN q |-> AddU8(q[i])] = [i \in DOMAIN q |-> Enumerators[q[i]]]
    BY <2>1
  <2> QED BY <2>2 DEF AddEach, Listed, Fed
<1> QED BY <1>1, TypesTell, ListsTell

----------------------------------------------------------------------------
(* The numbers that stand for texts in a layout stand for different ones. *)
LEMMA NumbersTell ==
  ASSUME NEW m \in DOMAIN Text, NEW n \in DOMAIN Text
  PROVE  /\ Readable(AddString(Text[m]), AddString(Text[n]))
         /\ AddString(Text[m]) = AddString(Text[n]) => m = n
<1>1. /\ m \in Nat /\ n \in Nat /\ Text[m] \in AnyText /\ Text[n] \in AnyText
      /\ m < n => Precedes(Text[m], Text[n])
      /\ n < m => Precedes(Text[n], Text[m])
  BY IdentitiesAssumption
<1>2. \A t \in AnyText : ~Precedes(t, t)
  <2>1. \A t \in AnyText : <<t, t>> \notin TextOrder
    BY TextsAreOrdered DEF TotallyOrders
  <2> QED BY <2>1 DEF TextOrder
<1>3. Text[m] = Text[n] => m = n
  BY <1>1, <1>2
<1> QED BY <1>1, <1>3, StringsTell

(* A slot is told by its role and its name, *)
TextSlot == Nat \X DOMAIN Text

(* which are both fed: the role, and the text of the name; *)
LEMMA SlotsTell ==
  ASSUME NEW s \in TextSlot, NEW t \in TextSlot
  PROVE  Readable(AddSlot(s), AddSlot(t)) /\ (AddSlot(s) = AddSlot(t) => s = t)
<1>1. /\ Role(s) \in Nat /\ Name(s) \in DOMAIN Text /\ s = <<Role(s), Name(s)>>
      /\ Role(t) \in Nat /\ Name(t) \in DOMAIN Text /\ t = <<Role(t), Name(t)>>
  BY DEF TextSlot, Role, Name
<1>2. /\ Readable(AddU8(Role(s)), AddU8(Role(t)))
      /\ AddU8(Role(s)) = AddU8(Role(t)) => Role(s) = Role(t)
  BY <1>1, EnumeratorsTell
<1>3. /\ Readable(AddString(Text[Name(s)]), AddString(Text[Name(t)]))
      /\ AddString(Text[Name(s)]) = AddString(Text[Name(t)]) => Name(s) = Name(t)
  BY <1>1, NumbersTell
<1>4. /\ AddSlot(s) = Fed(AddU8(Role(s)), AddString(Text[Name(s)]))
      /\ AddSlot(t) = Fed(AddU8(Role(t)), AddString(Text[Name(t)]))
  BY DEF AddSlot, Fed
<1>5. /\ Readable(AddSlot(s), AddSlot(t))
      /\ AddSlot(s) = AddSlot(t) =>
           /\ AddU8(Role(s)) = AddU8(Role(t))
           /\ AddString(Text[Name(s)]) = AddString(Text[Name(t)])
  BY <1>2, <1>3, <1>4, TwoTogether
<1>6. Role(s) = Role(t) /\ Name(s) = Name(t) => s = t
  BY <1>1
<1> QED BY <1>2, <1>3, <1>5, <1>6

(* a binding by its fields, *)
TextBinding ==
  [slot : TextSlot, resource : DOMAIN Text, access : Nat, mount : DOMAIN Text]

(* of which each one is fed. *)
LEMMA BindingsTell ==
  ASSUME NEW a \in TextBinding, NEW b \in TextBinding
  PROVE  Readable(AddBinding(a), AddBinding(b)) /\ (AddBinding(a) = AddBinding(b) => a = b)
<1>1. /\ a.slot \in TextSlot /\ a.resource \in DOMAIN Text
      /\ a.access \in Nat /\ a.mount \in DOMAIN Text
      /\ b.slot \in TextSlot /\ b.resource \in DOMAIN Text
      /\ b.access \in Nat /\ b.mount \in DOMAIN Text
  BY DEF TextBinding
<1>2. /\ Readable(AddSlot(a.slot), AddSlot(b.slot))
      /\ AddSlot(a.slot) = AddSlot(b.slot) => a.slot = b.slot
  BY <1>1, SlotsTell
<1>3. /\ Readable(AddString(Text[a.resource]), AddString(Text[b.resource]))
      /\ AddString(Text[a.resource]) = AddString(Text[b.resource]) =>
           a.resource = b.resource
  BY <1>1, NumbersTell
<1>4. /\ Readable(AddU8(a.access), AddU8(b.access))
      /\ AddU8(a.access) = AddU8(b.access) => a.access = b.access
  BY <1>1, EnumeratorsTell
<1>5. /\ Readable(AddString(Text[a.mount]), AddString(Text[b.mount]))
      /\ AddString(Text[a.mount]) = AddString(Text[b.mount]) => a.mount = b.mount
  BY <1>1, NumbersTell
<1>6. /\ AddBinding(a) = Fed4(AddSlot(a.slot), AddString(Text[a.resource]),
                              AddU8(a.access), AddString(Text[a.mount]))
      /\ AddBinding(b) = Fed4(AddSlot(b.slot), AddString(Text[b.resource]),
                              AddU8(b.access), AddString(Text[b.mount]))
  BY DEF AddBinding, Fed4, Fed3, Fed
<1>7. /\ Readable(AddBinding(a), AddBinding(b))
      /\ AddBinding(a) = AddBinding(b) =>
           /\ AddSlot(a.slot) = AddSlot(b.slot)
           /\ AddString(Text[a.resource]) = AddString(Text[b.resource])
           /\ AddU8(a.access) = AddU8(b.access)
           /\ AddString(Text[a.mount]) = AddString(Text[b.mount])
  <2> DEFINE a1 == AddSlot(a.slot)
             b1 == AddSlot(b.slot)
             a2 == AddString(Text[a.resource])
             b2 == AddString(Text[b.resource])
             a3 == AddU8(a.access)
             b3 == AddU8(b.access)
             a4 == AddString(Text[a.mount])
             b4 == AddString(Text[b.mount])
  <2>1. /\ Readable(a1, b1) /\ Readable(a2, b2) /\ Readable(a3, b3) /\ Readable(a4, b4)
        /\ AddBinding(a) = Fed4(a1, a2, a3, a4) /\ AddBinding(b) = Fed4(b1, b2, b3, b4)
    BY <1>2, <1>3, <1>4, <1>5, <1>6
  <2> HIDE DEF a1, b1, a2, b2, a3, b3, a4, b4
  <2>2. /\ Readable(AddBinding(a), AddBinding(b))
        /\ AddBinding(a) = AddBinding(b) => a1 = b1 /\ a2 = b2 /\ a3 = b3 /\ a4 = b4
    BY <2>1, FourTogether
  <2> QED BY <2>2 DEF a1, b1, a2, b2, a3, b3, a4, b4
<1>8. (a.slot = b.slot /\ a.resource = b.resource
       /\ a.access = b.access /\ a.mount = b.mount) => a = b
  BY DEF TextBinding
<1> QED BY <1>2, <1>3, <1>4, <1>5, <1>7, <1>8

(* a variable by its name and its value, *)
LEMMA VariablesTell ==
  ASSUME NEW v \in AnyVariable, NEW w \in AnyVariable
  PROVE  /\ Readable(AddVariable(v), AddVariable(w))
         /\ AddVariable(v) = AddVariable(w) => v = w
<1>1. /\ v.name \in AnyText /\ v.value \in AnyText
      /\ w.name \in AnyText /\ w.value \in AnyText
      /\ v.name = w.name /\ v.value = w.value => v = w
  BY DEF AnyVariable
<1>2. /\ Readable(AddString(v.name), AddString(w.name))
      /\ AddString(v.name) = AddString(w.name) => v.name = w.name
  BY <1>1, StringsTell
<1>3. /\ Readable(AddString(v.value), AddString(w.value))
      /\ AddString(v.value) = AddString(w.value) => v.value = w.value
  BY <1>1, StringsTell
<1>4. /\ AddVariable(v) = Fed(AddString(v.name), AddString(v.value))
      /\ AddVariable(w) = Fed(AddString(w.name), AddString(w.value))
  BY DEF AddVariable, Fed
<1>5. /\ Readable(AddVariable(v), AddVariable(w))
      /\ AddVariable(v) = AddVariable(w) =>
           AddString(v.name) = AddString(w.name) /\ AddString(v.value) = AddString(w.value)
  BY <1>2, <1>3, <1>4, TwoTogether
<1> QED BY <1>1, <1>2, <1>3, <1>5

(* and lists of both by their elements. *)
LEMMA BindingListsTell ==
  ASSUME NEW s \in ListOf(TextBinding), NEW t \in ListOf(TextBinding)
  PROVE  /\ Readable(AddEach(s, AddBinding), AddEach(t, AddBinding))
         /\ AddEach(s, AddBinding) = AddEach(t, AddBinding) => s = t
<1> DEFINE E == [b \in TextBinding |-> AddBinding(b)]
<1>1. ASSUME NEW q \in ListOf(TextBinding)
      PROVE  AddEach(q, AddBinding) = Listed(q, E)
  <2>1. \A i \in DOMAIN q : E[q[i]] = AddBinding(q[i])
    BY ElementsOf
  <2> HIDE DEF E
  <2>2. [i \in DOMAIN q |-> AddBinding(q[i])] = [i \in DOMAIN q |-> E[q[i]]]
    BY <2>1
  <2> QED BY <2>2 DEF AddEach, Listed, Fed
<1>2. \A b \in TextBinding : E[b] = AddBinding(b)
  OBVIOUS
<1>3. E = [b \in TextBinding |-> E[b]]
  OBVIOUS
<1> HIDE DEF E
<1>4. Tells(TextBinding, E)
  BY <1>2, <1>3, BindingsTell, ToTell
<1> QED BY <1>1, <1>4, ListsTell

(* Lists of variables are told by their elements. *)
LEMMA VariableListsTell ==
  ASSUME NEW s \in ListOf(AnyVariable), NEW t \in ListOf(AnyVariable)
  PROVE  /\ Readable(AddEach(s, AddVariable), AddEach(t, AddVariable))
         /\ AddEach(s, AddVariable) = AddEach(t, AddVariable) => s = t
<1> DEFINE E == [v \in AnyVariable |-> AddVariable(v)]
<1>1. ASSUME NEW q \in ListOf(AnyVariable)
      PROVE  AddEach(q, AddVariable) = Listed(q, E)
  <2>1. \A i \in DOMAIN q : E[q[i]] = AddVariable(q[i])
    BY ElementsOf
  <2> HIDE DEF E
  <2>2. [i \in DOMAIN q |-> AddVariable(q[i])] = [i \in DOMAIN q |-> E[q[i]]]
    BY <2>1
  <2> QED BY <2>2 DEF AddEach, Listed, Fed
<1>2. \A v \in AnyVariable : E[v] = AddVariable(v)
  OBVIOUS
<1>3. E = [v \in AnyVariable |-> E[v]]
  OBVIOUS
<1> HIDE DEF E
<1>4. Tells(AnyVariable, E)
  BY <1>2, <1>3, VariablesTell, ToTell
<1> QED BY <1>1, <1>4, ListsTell

(* So are a termination, *)
LEMMA TerminationsTell ==
  ASSUME NEW o \in AtMostOne(AnyTermination), NEW p \in AtMostOne(AnyTermination)
  PROVE  /\ Readable(AddTermination(o), AddTermination(p))
         /\ AddTermination(o) = AddTermination(p) => o = p
<1> DEFINE B(t) == Fed3(AddU8(t.kind), AddOptionalU32(t.value), AddOptionalU8(t.limit))
           E == [t \in AnyTermination |-> B(t)]
<1>1. ASSUME NEW q \in AtMostOne(AnyTermination)
      PROVE  AddTermination(q) = Given(q, E)
  <2>1. q # <<>> => E[q[1]] = B(q[1])
    BY TheOne
  <2> HIDE DEF E
  <2> QED BY <2>1 DEF AddTermination, Given, Fed3, Fed
<1>2. ASSUME NEW t \in AnyTermination, NEW u \in AnyTermination
      PROVE  Readable(B(t), B(u)) /\ (B(t) = B(u) => t = u)
  <2>1. /\ t.kind \in Nat /\ t.value \in AtMostOne(Unsigned(4)) /\ t.limit \in AtMostOne(Nat)
        /\ u.kind \in Nat /\ u.value \in AtMostOne(Unsigned(4)) /\ u.limit \in AtMostOne(Nat)
        /\ t.kind = u.kind /\ t.value = u.value /\ t.limit = u.limit => t = u
    BY DEF AnyTermination
  <2>2. /\ Readable(AddU8(t.kind), AddU8(u.kind))
        /\ AddU8(t.kind) = AddU8(u.kind) => t.kind = u.kind
    BY <2>1, EnumeratorsTell
  <2>3. /\ Readable(AddOptionalU32(t.value), AddOptionalU32(u.value))
        /\ AddOptionalU32(t.value) = AddOptionalU32(u.value) => t.value = u.value
    BY <2>1, OptionalU32sTell
  <2>4. /\ Readable(AddOptionalU8(t.limit), AddOptionalU8(u.limit))
        /\ AddOptionalU8(t.limit) = AddOptionalU8(u.limit) => t.limit = u.limit
    BY <2>1, OptionalU8sTell
  <2>5. /\ Readable(B(t), B(u))
        /\ B(t) = B(u) =>
             /\ AddU8(t.kind) = AddU8(u.kind)
             /\ AddOptionalU32(t.value) = AddOptionalU32(u.value)
             /\ AddOptionalU8(t.limit) = AddOptionalU8(u.limit)
    BY <2>2, <2>3, <2>4, ThreeTogether
  <2> QED BY <2>1, <2>2, <2>3, <2>4, <2>5
<1>3. \A t \in AnyTermination : E[t] = B(t)
  OBVIOUS
<1>4. E = [t \in AnyTermination |-> E[t]]
  OBVIOUS
<1> HIDE DEF E, B
<1>5. Tells(AnyTermination, E)
  BY <1>2, <1>3, <1>4, ToTell
<1> QED BY <1>1, <1>5, OptionsTell

(* the capture of a stream, *)
LEMMA CapturesTell ==
  ASSUME NEW o \in AtMostOne(AnyCapture), NEW p \in AtMostOne(AnyCapture)
  PROVE  /\ Readable(AddCapture(o), AddCapture(p))
         /\ AddCapture(o) = AddCapture(p) => o = p
<1> DEFINE B(c) == Fed(AddU64(c.count), AddString(c.digest))
           E == [c \in AnyCapture |-> B(c)]
<1>1. ASSUME NEW q \in AtMostOne(AnyCapture)
      PROVE  AddCapture(q) = Given(q, E)
  <2>1. q # <<>> => E[q[1]] = B(q[1])
    BY TheOne
  <2> HIDE DEF E
  <2> QED BY <2>1 DEF AddCapture, Given, Fed
<1>2. ASSUME NEW c \in AnyCapture, NEW d \in AnyCapture
      PROVE  Readable(B(c), B(d)) /\ (B(c) = B(d) => c = d)
  <2>1. /\ c.count \in Unsigned(8) /\ c.digest \in AnyText
        /\ d.count \in Unsigned(8) /\ d.digest \in AnyText
        /\ c.count = d.count /\ c.digest = d.digest => c = d
    BY DEF AnyCapture
  <2>2. /\ Readable(AddU64(c.count), AddU64(d.count))
        /\ AddU64(c.count) = AddU64(d.count) => c.count = d.count
    BY <2>1, U64Tells
  <2>3. /\ Readable(AddString(c.digest), AddString(d.digest))
        /\ AddString(c.digest) = AddString(d.digest) => c.digest = d.digest
    BY <2>1, StringsTell
  <2>4. /\ Readable(B(c), B(d))
        /\ B(c) = B(d) => /\ AddU64(c.count) = AddU64(d.count)
                          /\ AddString(c.digest) = AddString(d.digest)
    BY <2>2, <2>3, TwoTogether
  <2> QED BY <2>1, <2>2, <2>3, <2>4
<1>3. \A c \in AnyCapture : E[c] = B(c)
  OBVIOUS
<1>4. E = [c \in AnyCapture |-> E[c]]
  OBVIOUS
<1> HIDE DEF E, B
<1>5. Tells(AnyCapture, E)
  BY <1>2, <1>3, <1>4, ToTell
<1> QED BY <1>1, <1>5, OptionsTell

----------------------------------------------------------------------------
(* normalize_guarantees() tells the set of the guarantees. *)
LEMMA GuaranteesAreListed ==
  ASSUME NEW s \in ListOf(Nat)
  PROVE  /\ Ascending(ToSet(s)) \in ListOf(Nat)
         /\ ToSet(Ascending(ToSet(s))) = ToSet(s)
<1> DEFINE n == Len(s)
           S == ToSet(s)
           k == Cardinality(S)
           r == Ascending(S)
<1>1. /\ n \in Nat /\ n \in Unsigned(8) /\ DOMAIN s = 1..n
      /\ s \in [1..n -> Nat]
  BY DEF ListOf
<1>2. S = {s[i] : i \in 1..n}
  BY <1>1 DEF ToSet
<1> HIDE DEF n, S
<1>3. IsFiniteSet(1..n) /\ Cardinality(1..n) = n
  BY <1>1, FS_Interval
<1>4. s \in Surjection(1..n, S)
  BY <1>1, <1>2 DEF Surjection
<1>5. IsFiniteSet(S) /\ k <= n
  BY <1>3, <1>4, FS_Surjection
<1>6. S \in SUBSET Nat
  BY <1>1, <1>2
<1>7. /\ k \in Nat
      /\ r \in [1..k -> S]
      /\ \A x \in S : Takes(r, k, x)
  BY <1>5, <1>6, AscendingAscends
<1>8. k \in Unsigned(8)
  BY <1>1, <1>5, <1>7, SmallerOnesFit
<1> HIDE DEF k, r
<1>9. r \in Seq(Nat) /\ Len(r) = k /\ DOMAIN r = 1..k
  <2>1. k \in Nat /\ r \in [1..k -> Nat]
    BY <1>6, <1>7
  <2> QED BY <2>1
<1>10. {r[a] : a \in 1..k} = S
  BY <1>7 DEF Takes
<1>11. ToSet(r) = S
  BY <1>9, <1>10 DEF ToSet
<1>12. r \in ListOf(Nat)
  BY <1>8, <1>9 DEF ListOf
<1> QED BY <1>11, <1>12 DEF r, S

(* Guarantees are fed as the ascending list of their set. *)
LEMMA GuaranteesTell ==
  ASSUME NEW s \in ListOf(Nat), NEW t \in ListOf(Nat)
  PROVE  /\ Readable(AddGuarantees(s), AddGuarantees(t))
         /\ AddGuarantees(s) = AddGuarantees(t) => ToSet(s) = ToSet(t)
<1> DEFINE u == Ascending(ToSet(s))
           v == Ascending(ToSet(t))
<1>1. u \in ListOf(Nat) /\ ToSet(u) = ToSet(s)
  BY GuaranteesAreListed
<1>2. v \in ListOf(Nat) /\ ToSet(v) = ToSet(t)
  BY GuaranteesAreListed
<1>3. AddGuarantees(s) = AddEach(u, AddU8) /\ AddGuarantees(t) = AddEach(v, AddU8)
  BY DEF AddGuarantees
<1> HIDE DEF u, v
<1>4. /\ Readable(AddEach(u, AddU8), AddEach(v, AddU8))
      /\ AddEach(u, AddU8) = AddEach(v, AddU8) => u = v
  BY <1>1, <1>2, EnumeratorListsTell
<1> QED BY <1>1, <1>2, <1>3, <1>4

(* A list that is sorted is still a list, of the same elements: *)
LEMMA RearrangedLists ==
  ASSUME NEW X, NEW Y, NEW s \in ListOf(X), NEW t \in Seq(Y), Rearranges(t, s)
  PROVE  t \in ListOf(X) /\ ToSet(t) = ToSet(s)
<1> DEFINE n == Len(s)
<1>1. /\ n \in Nat /\ n \in Unsigned(8) /\ DOMAIN s = 1..n
      /\ \A i \in 1..n : s[i] \in X
  BY DEF ListOf
<1>2. Len(t) = n /\ DOMAIN t = 1..n /\ t = [i \in 1..n |-> t[i]]
  BY DEF Rearranges
<1>3. PICK p \in [1..n -> 1..n] :
        /\ \A m \in 1..n : t[m] = s[p[m]]
        /\ \A i \in 1..n : \E m \in 1..n : p[m] = i
  BY DEF Rearranges
<1> HIDE DEF n
<1>4. \A m \in 1..n : p[m] \in 1..n /\ t[m] = s[p[m]]
  BY <1>3
<1>5. \A m \in 1..n : t[m] \in X
  BY <1>1, <1>4
<1>6. t \in Seq(X)
  BY <1>1, <1>2, <1>5
<1>7. {t[m] : m \in 1..n} = {s[i] : i \in 1..n}
  <2>1. \A m \in 1..n : \E i \in 1..n : t[m] = s[i]
    BY <1>4
  <2>2. \A i \in 1..n : \E m \in 1..n : t[m] = s[i]
    BY <1>3
  <2> DEFINE A == {t[m] : m \in 1..n}
             B == {s[i] : i \in 1..n}
  <2>3. \A x : x \in A <=> \E m \in 1..n : x = t[m]
    OBVIOUS
  <2>4. \A x : x \in B <=> \E i \in 1..n : x = s[i]
    OBVIOUS
  <2> HIDE DEF A, B
  <2>5. \A x : x \in A <=> x \in B
    BY <2>1, <2>2, <2>3, <2>4
  <2>6. A = B
    BY <2>5
  <2> QED BY <2>6 DEF A, B
<1> QED BY <1>1, <1>2, <1>6, <1>7 DEF ListOf, ToSet

(* of bindings, *)
LEMMA SortedBindingLists ==
  ASSUME NEW s \in ListOf(TextBinding)
  PROVE  /\ SortedBindings(s) \in ListOf(TextBinding)
         /\ ToSet(SortedBindings(s)) = ToSet(s)
<1> DEFINE less == KeysLess(BindingKeys(s))
<1>1. \A b \in TextBinding : b \in AnyBinding
  BY IdentitiesAssumption DEF TextBinding, TextSlot, AnyBinding
<1>2. s \in Seq(AnyBinding)
  BY <1>1 DEF ListOf
<1>3. SortedBindings(s) = Sorted(s, less) /\ ComparesBy(less, BindingOrder, s)
  BY <1>2, BindingsCompare
<1> HIDE DEF less
<1>4. Sorted(s, less) \in Seq(AnyBinding) /\ Rearranges(Sorted(s, less), s)
  BY <1>2, <1>3, BindingsAreOrdered, SortingOrders
<1> QED BY <1>3, <1>4, RearrangedLists

(* of variables *)
LEMMA SortedVariableLists ==
  ASSUME NEW s \in ListOf(AnyVariable)
  PROVE  /\ SortedVariables(s) \in ListOf(AnyVariable)
         /\ ToSet(SortedVariables(s)) = ToSet(s)
<1> DEFINE less == VariablesLess(s)
<1>1. s \in Seq(AnyVariable)
  BY DEF ListOf
<1>2. SortedVariables(s) = Sorted(s, less) /\ ComparesBy(less, VariableOrder, s)
  BY <1>1, VariablesCompare
<1> HIDE DEF less
<1>3. Sorted(s, less) \in Seq(AnyVariable) /\ Rearranges(Sorted(s, less), s)
  BY <1>1, <1>2, VariablesAreOrdered, SortingOrders
<1> QED BY <1>2, <1>3, RearrangedLists

(* and of groups. *)
LEMMA SortedGroupLists ==
  ASSUME NEW s \in ListOf(Unsigned(8))
  PROVE  /\ SortedGroups(s) \in ListOf(Unsigned(8))
         /\ ToSet(SortedGroups(s)) = ToSet(s)
<1> DEFINE less == GroupsLess(s)
<1>1. s \in Seq(Nat)
  <2>1. s \in Seq(Unsigned(8)) /\ \A n \in Unsigned(8) : n \in Nat
    BY DEF ListOf, Unsigned
  <2> QED BY <2>1
<1>2. SortedGroups(s) = Sorted(s, less) /\ ComparesBy(less, NumberOrder, s)
  BY <1>1, GroupsCompare
<1> HIDE DEF less
<1>3. Sorted(s, less) \in Seq(Nat) /\ Rearranges(Sorted(s, less), s)
  BY <1>1, <1>2, NumbersAreOrdered, SortingOrders
<1> QED BY <1>2, <1>3, RearrangedLists

(* execution_purpose lets no other action through than it has a text for. *)
LEMMA RequestsAreAnswered ==
  ASSUME NEW d, Verdict(RequestChecks(d)) = "sealed"
  PROVE  d.action # <<>> => d.action[1] \in 0..3
<1> DEFINE A == d.action # <<>> /\ d.action[1] \notin ValidAction
           B == (d.purpose = 2) # (d.action # <<>>)
           C == (d.mode = 0) = (d.grace # <<>>)
           D == d.grace = <<0>>
           checks == << <<A, "invalid_purpose">>, <<B, "invalid_purpose">>,
                        <<C, "invalid_policy">>, <<D, "invalid_policy">> >>
<1>1. RequestChecks(d) = checks
  BY DEF RequestChecks
<1> HIDE DEF A, B, C, D
<1>2. /\ DOMAIN checks = 1..4 /\ (checks[1][1] <=> A)
      /\ \A i \in 1..4 : checks[i][2] # "sealed"
  OBVIOUS
<1> HIDE DEF checks
<1>3. ASSUME ~Passes(checks) PROVE Code(checks) # "sealed"
  <2>1. PICK i \in 1..4 : checks[i][1] /\ Code(checks) = checks[i][2]
    BY <1>2, <1>3, RefusalIsOfACheck
  <2> QED BY <1>2, <2>1
<1>4. Passes(checks)
  BY <1>1, <1>3 DEF Verdict
<1>5. ~A
  BY <1>2, <1>4 DEF Passes
<1> QED BY <1>5 DEF A, ValidAction

----------------------------------------------------------------------------
(* A lifecycle action is told by its text, where there is one. *)
ActionTexts(q) == [i \in DOMAIN q |-> ActionText[q[i]]]

(* No two actions have one text. *)
LEMMA ActionsTell ==
  ASSUME NEW o \in AtMostOne(0..3), NEW p \in AtMostOne(0..3)
  PROVE  /\ Readable(AddOptionalString(ActionTexts(o)), AddOptionalString(ActionTexts(p)))
         /\ AddOptionalString(ActionTexts(o)) = AddOptionalString(ActionTexts(p)) => o = p
<1> DEFINE text(q) == ActionTexts(q)
<1>1. \A n \in 0..3 : ActionText[n] \in AnyText
  BY IdentitiesAssumption
<1>2. \A m, n \in 0..3 : ActionText[m] = ActionText[n] => m = n
  BY IdentitiesAssumption
<1>3. ASSUME NEW q \in AtMostOne(0..3)
      PROVE  /\ q = <<>> => text(q) = <<>>
             /\ q # <<>> => /\ q[1] \in 0..3 /\ q = <<q[1]>>
                            /\ text(q) = <<ActionText[q[1]]>>
             /\ text(q) \in AtMostOne(AnyText)
  <2>1. q \in Seq(0..3) /\ Len(q) <= 1
    BY DEF AtMostOne
  <2>2. CASE q = <<>>
    <3>1. text(q) = <<>>
      BY <2>2 DEF ActionTexts
    <3>2. <<>> \in AtMostOne(AnyText)
      BY DEF AtMostOne
    <3> HIDE DEF text
    <3> QED BY <2>2, <3>1, <3>2
  <2>3. CASE q # <<>>
    <3>1. q[1] \in 0..3 /\ q = <<q[1]>> /\ DOMAIN q = 1..1
      BY <2>1, <2>3
    <3>2. text(q) = <<ActionText[q[1]]>>
      BY <3>1 DEF ActionTexts
    <3>3. \A t \in AnyText : <<t>> \in AtMostOne(AnyText)
      BY DEF AtMostOne
    <3> HIDE DEF text
    <3>4. text(q) \in AtMostOne(AnyText)
      BY <1>1, <3>1, <3>2, <3>3
    <3> QED BY <2>3, <3>1, <3>2, <3>4
  <2> QED BY <2>2, <2>3
<1>4. text(o) \in AtMostOne(AnyText) /\ text(p) \in AtMostOne(AnyText)
  BY <1>3
<1>5. text(o) = text(p) => o = p
  <2> DEFINE t == text(o)
             u == text(p)
  <2>1. /\ o = <<>> => t = <<>>
        /\ o # <<>> => o[1] \in 0..3 /\ o = <<o[1]>> /\ t = <<ActionText[o[1]]>>
    BY <1>3
  <2>2. /\ p = <<>> => u = <<>>
        /\ p # <<>> => p[1] \in 0..3 /\ p = <<p[1]>> /\ u = <<ActionText[p[1]]>>
    BY <1>3
  <2> HIDE DEF t, u
  <2>3. t = u => o = p
    BY <1>2, <2>1, <2>2
  <2> QED BY <2>3 DEF t, u
<1> HIDE DEF text
<1>6. /\ Readable(AddOptionalString(text(o)), AddOptionalString(text(p)))
      /\ AddOptionalString(text(o)) = AddOptionalString(text(p)) => text(o) = text(p)
  BY <1>4, OptionalStringsTell
<1> QED BY <1>5, <1>6 DEF text

----------------------------------------------------------------------------
(* What is declared is told by what its identity is a digest of, but for    *)
(* the order of what is sorted: *)
(* Layouts, *)
LEMMA LayoutsTell ==
  ASSUME NEW d, NEW e,
         d.bindings \in ListOf(TextBinding), e.bindings \in ListOf(TextBinding),
         d.working \in TextSlot, e.working \in TextSlot
  PROVE  /\ Readable(LayoutBytes(d), LayoutBytes(e))
         /\ LayoutBytes(d) = LayoutBytes(e) =>
              /\ ToSet(d.bindings) = ToSet(e.bindings)
              /\ d.working = e.working
<1> DEFINE a1 == AddEach(SortedBindings(d.bindings), AddBinding)
           b1 == AddEach(SortedBindings(e.bindings), AddBinding)
           a2 == AddSlot(d.working)
           b2 == AddSlot(e.working)
<1>1. /\ d.bindings \in ListOf(TextBinding) /\ d.working \in TextSlot
  OBVIOUS
<1>2. /\ e.bindings \in ListOf(TextBinding) /\ e.working \in TextSlot
  OBVIOUS
<1>3. Readable(a1, b1) /\ (a1 = b1 => ToSet(d.bindings) = ToSet(e.bindings))
  BY <1>1, <1>2, SortedBindingLists, BindingListsTell
<1>4. Readable(a2, b2) /\ (a2 = b2 => d.working = e.working)
  BY <1>1, <1>2, SlotsTell
<1> DEFINE x1 == Fed(a1, a2)
           y1 == Fed(b1, b2)
<1>5. LayoutBytes(d) = x1 /\ LayoutBytes(e) = y1
  BY DEF LayoutBytes, Fed
<1> HIDE DEF a1, b1, a2, b2
<1>6. /\ Readable(x1, y1)
      /\ x1 = y1 => a1 = b1 /\ a2 = b2
  BY <1>3, <1>4, TwoTogether
<1> HIDE DEF x1, y1
<1> QED BY <1>3, <1>4, <1>5, <1>6

(* environments, *)
LEMMA EnvironmentsTell ==
  ASSUME NEW d \in AnyEnvironment, NEW e \in AnyEnvironment,
         d.epoch \in AtMostOne(Unsigned(8)), e.epoch \in AtMostOne(Unsigned(8))
  PROVE  /\ Readable(EnvironmentBytes(d), EnvironmentBytes(e))
         /\ EnvironmentBytes(d) = EnvironmentBytes(e) =>
              /\ d.network = e.network /\ d.stdin = e.stdin
              /\ d.stdout = e.stdout /\ d.stderr = e.stderr /\ d.path = e.path
              /\ d.home = e.home /\ d.tmp = e.tmp
              /\ d.parallelism = e.parallelism /\ d.mask = e.mask
              /\ d.epoch = e.epoch /\ ToSet(d.variables) = ToSet(e.variables)
<1> DEFINE a1 == <<0, 0, 0>>
           b1 == <<0, 0, 0>>
           a2 == AddU8(d.network)
           b2 == AddU8(e.network)
           a3 == AddU8(d.stdin)
           b3 == AddU8(e.stdin)
           a4 == AddU8(d.stdout)
           b4 == AddU8(e.stdout)
           a5 == AddU8(d.stderr)
           b5 == AddU8(e.stderr)
           a6 == AddEach(d.path, AddString)
           b6 == AddEach(e.path, AddString)
           a7 == AddString(d.home)
           b7 == AddString(e.home)
           a8 == AddString(d.tmp)
           b8 == AddString(e.tmp)
           a9 == AddU32(d.parallelism)
           b9 == AddU32(e.parallelism)
           a10 == AddU32(d.mask)
           b10 == AddU32(e.mask)
           a11 == AddOptionalU64(d.epoch)
           b11 == AddOptionalU64(e.epoch)
           a12 == AddEach(SortedVariables(d.variables), AddVariable)
           b12 == AddEach(SortedVariables(e.variables), AddVariable)
<1>1. /\ d.network \in Nat /\ d.stdin \in Nat /\ d.stdout \in Nat
      /\ d.stderr \in Nat /\ d.path \in ListOf(AnyText) /\ d.home \in AnyText
      /\ d.tmp \in AnyText /\ d.parallelism \in Unsigned(4)
      /\ d.mask \in Unsigned(4) /\ d.epoch \in AtMostOne(Unsigned(8))
      /\ d.variables \in ListOf(AnyVariable)
  BY DEF AnyEnvironment
<1>2. /\ e.network \in Nat /\ e.stdin \in Nat /\ e.stdout \in Nat
      /\ e.stderr \in Nat /\ e.path \in ListOf(AnyText) /\ e.home \in AnyText
      /\ e.tmp \in AnyText /\ e.parallelism \in Unsigned(4)
      /\ e.mask \in Unsigned(4) /\ e.epoch \in AtMostOne(Unsigned(8))
      /\ e.variables \in ListOf(AnyVariable)
  BY DEF AnyEnvironment
<1>3. Readable(a1, b1)
  <2>1. a1 \in Seq(Nat) /\ b1 \in Seq(Nat) /\ Len(a1) = Len(b1)
    OBVIOUS
  <2> HIDE DEF a1, b1
  <2> QED BY <2>1, SameLengthReads
<1>4. Readable(a2, b2) /\ (a2 = b2 => d.network = e.network)
  BY <1>1, <1>2, EnumeratorsTell
<1>5. Readable(a3, b3) /\ (a3 = b3 => d.stdin = e.stdin)
  BY <1>1, <1>2, EnumeratorsTell
<1>6. Readable(a4, b4) /\ (a4 = b4 => d.stdout = e.stdout)
  BY <1>1, <1>2, EnumeratorsTell
<1>7. Readable(a5, b5) /\ (a5 = b5 => d.stderr = e.stderr)
  BY <1>1, <1>2, EnumeratorsTell
<1>8. Readable(a6, b6) /\ (a6 = b6 => d.path = e.path)
  BY <1>1, <1>2, TextListsTell
<1>9. Readable(a7, b7) /\ (a7 = b7 => d.home = e.home)
  BY <1>1, <1>2, StringsTell
<1>10. Readable(a8, b8) /\ (a8 = b8 => d.tmp = e.tmp)
  BY <1>1, <1>2, StringsTell
<1>11. Readable(a9, b9) /\ (a9 = b9 => d.parallelism = e.parallelism)
  BY <1>1, <1>2, U32Tells
<1>12. Readable(a10, b10) /\ (a10 = b10 => d.mask = e.mask)
  BY <1>1, <1>2, U32Tells
<1>13. Readable(a11, b11) /\ (a11 = b11 => d.epoch = e.epoch)
  BY <1>1, <1>2, OptionalU64sTell
<1>14. Readable(a12, b12) /\ (a12 = b12 => ToSet(d.variables) = ToSet(e.variables))
  BY <1>1, <1>2, SortedVariableLists, VariableListsTell
<1> DEFINE x1 == Fed4(a1, a2, a3, a4)
           y1 == Fed4(b1, b2, b3, b4)
           x2 == Fed4(x1, a5, a6, a7)
           y2 == Fed4(y1, b5, b6, b7)
           x3 == Fed4(x2, a8, a9, a10)
           y3 == Fed4(y2, b8, b9, b10)
           x4 == Fed3(x3, a11, a12)
           y4 == Fed3(y3, b11, b12)
<1>15. EnvironmentBytes(d) = x4 /\ EnvironmentBytes(e) = y4
  BY DEF EnvironmentBytes, Fed4, Fed3, Fed
<1> HIDE DEF a1, b1, a2, b2, a3, b3, a4, b4, a5, b5, a6, b6, a7, b7, a8, b8,
           a9, b9, a10, b10, a11, b11, a12, b12
<1>16. /\ Readable(x1, y1)
       /\ x1 = y1 => a1 = b1 /\ a2 = b2 /\ a3 = b3 /\ a4 = b4
  BY <1>3, <1>4, <1>5, <1>6, FourTogether
<1>17. /\ Readable(x2, y2)
       /\ x2 = y2 => x1 = y1 /\ a5 = b5 /\ a6 = b6 /\ a7 = b7
  <2> HIDE DEF x1, y1
  <2> QED BY <1>16, <1>7, <1>8, <1>9, FourTogether
<1>18. /\ Readable(x3, y3)
       /\ x3 = y3 => x2 = y2 /\ a8 = b8 /\ a9 = b9 /\ a10 = b10
  <2> HIDE DEF x2, y2
  <2> QED BY <1>17, <1>10, <1>11, <1>12, FourTogether
<1>19. /\ Readable(x4, y4)
       /\ x4 = y4 => x3 = y3 /\ a11 = b11 /\ a12 = b12
  <2> HIDE DEF x3, y3
  <2> QED BY <1>18, <1>13, <1>14, ThreeTogether
<1> HIDE DEF x1, y1, x2, y2, x3, y3, x4, y4
<1> QED BY <1>4, <1>5, <1>6, <1>7, <1>8, <1>9, <1>10, <1>11, <1>12, <1>13,
           <1>14, <1>15, <1>16, <1>17, <1>18, <1>19

(* credentials, *)
LEMMA CredentialsTell ==
  ASSUME NEW d \in AnyCredentials, NEW e \in AnyCredentials
  PROVE  /\ Readable(CredentialsBytes(d), CredentialsBytes(e))
         /\ CredentialsBytes(d) = CredentialsBytes(e) =>
              /\ d.user = e.user /\ d.group = e.group
              /\ ToSet(d.groups) = ToSet(e.groups)
              /\ d.restricted = e.restricted
<1> DEFINE a1 == AddU64(d.user)
           b1 == AddU64(e.user)
           a2 == AddU64(d.group)
           b2 == AddU64(e.group)
           a3 == AddEach(SortedGroups(d.groups), AddU64)
           b3 == AddEach(SortedGroups(e.groups), AddU64)
           a4 == AddBool(d.restricted)
           b4 == AddBool(e.restricted)
<1>1. /\ d.user \in Unsigned(8) /\ d.group \in Unsigned(8)
      /\ d.groups \in ListOf(Unsigned(8)) /\ d.restricted \in BOOLEAN
  BY DEF AnyCredentials
<1>2. /\ e.user \in Unsigned(8) /\ e.group \in Unsigned(8)
      /\ e.groups \in ListOf(Unsigned(8)) /\ e.restricted \in BOOLEAN
  BY DEF AnyCredentials
<1>3. Readable(a1, b1) /\ (a1 = b1 => d.user = e.user)
  BY <1>1, <1>2, U64Tells
<1>4. Readable(a2, b2) /\ (a2 = b2 => d.group = e.group)
  BY <1>1, <1>2, U64Tells
<1>5. Readable(a3, b3) /\ (a3 = b3 => ToSet(d.groups) = ToSet(e.groups))
  BY <1>1, <1>2, SortedGroupLists, GroupListsTell
<1>6. Readable(a4, b4) /\ (a4 = b4 => d.restricted = e.restricted)
  BY <1>1, <1>2, BooleansTell
<1> DEFINE x1 == Fed4(a1, a2, a3, a4)
           y1 == Fed4(b1, b2, b3, b4)
<1>7. CredentialsBytes(d) = x1 /\ CredentialsBytes(e) = y1
  BY DEF CredentialsBytes, Fed4, Fed3, Fed
<1> HIDE DEF a1, b1, a2, b2, a3, b3, a4, b4
<1>8. /\ Readable(x1, y1)
      /\ x1 = y1 => a1 = b1 /\ a2 = b2 /\ a3 = b3 /\ a4 = b4
  BY <1>3, <1>4, <1>5, <1>6, FourTogether
<1> HIDE DEF x1, y1
<1> QED BY <1>3, <1>4, <1>5, <1>6, <1>7, <1>8

(* limits, *)
LEMMA LimitsTell ==
  ASSUME NEW d \in AnyLimits, NEW e \in AnyLimits
  PROVE  /\ Readable(LimitsBytes(d), LimitsBytes(e))
         /\ LimitsBytes(d) = LimitsBytes(e) =>
              /\ d.cpu = e.cpu /\ d.memory = e.memory /\ d.file = e.file
              /\ d.open = e.open /\ d.processes = e.processes
<1> DEFINE a1 == AddOptionalU64(d.cpu)
           b1 == AddOptionalU64(e.cpu)
           a2 == AddOptionalU64(d.memory)
           b2 == AddOptionalU64(e.memory)
           a3 == AddOptionalU64(d.file)
           b3 == AddOptionalU64(e.file)
           a4 == AddOptionalU64(d.open)
           b4 == AddOptionalU64(e.open)
           a5 == AddOptionalU64(d.processes)
           b5 == AddOptionalU64(e.processes)
<1>1. /\ d.cpu \in AtMostOne(Unsigned(8))
      /\ d.memory \in AtMostOne(Unsigned(8))
      /\ d.file \in AtMostOne(Unsigned(8))
      /\ d.open \in AtMostOne(Unsigned(8))
      /\ d.processes \in AtMostOne(Unsigned(8))
  BY DEF AnyLimits
<1>2. /\ e.cpu \in AtMostOne(Unsigned(8))
      /\ e.memory \in AtMostOne(Unsigned(8))
      /\ e.file \in AtMostOne(Unsigned(8))
      /\ e.open \in AtMostOne(Unsigned(8))
      /\ e.processes \in AtMostOne(Unsigned(8))
  BY DEF AnyLimits
<1>3. Readable(a1, b1) /\ (a1 = b1 => d.cpu = e.cpu)
  BY <1>1, <1>2, OptionalU64sTell
<1>4. Readable(a2, b2) /\ (a2 = b2 => d.memory = e.memory)
  BY <1>1, <1>2, OptionalU64sTell
<1>5. Readable(a3, b3) /\ (a3 = b3 => d.file = e.file)
  BY <1>1, <1>2, OptionalU64sTell
<1>6. Readable(a4, b4) /\ (a4 = b4 => d.open = e.open)
  BY <1>1, <1>2, OptionalU64sTell
<1>7. Readable(a5, b5) /\ (a5 = b5 => d.processes = e.processes)
  BY <1>1, <1>2, OptionalU64sTell
<1> DEFINE x1 == Fed4(a1, a2, a3, a4)
           y1 == Fed4(b1, b2, b3, b4)
           x2 == Fed(x1, a5)
           y2 == Fed(y1, b5)
<1>8. LimitsBytes(d) = x2 /\ LimitsBytes(e) = y2
  BY DEF LimitsBytes, Fed4, Fed3, Fed
<1> HIDE DEF a1, b1, a2, b2, a3, b3, a4, b4, a5, b5
<1>9. /\ Readable(x1, y1)
      /\ x1 = y1 => a1 = b1 /\ a2 = b2 /\ a3 = b3 /\ a4 = b4
  BY <1>3, <1>4, <1>5, <1>6, FourTogether
<1>10. /\ Readable(x2, y2)
       /\ x2 = y2 => x1 = y1 /\ a5 = b5
  <2> HIDE DEF x1, y1
  <2> QED BY <1>9, <1>7, TwoTogether
<1> HIDE DEF x1, y1, x2, y2
<1> QED BY <1>3, <1>4, <1>5, <1>6, <1>7, <1>8, <1>9, <1>10

(* requests, *)
LEMMA RequestsTell ==
  ASSUME NEW d \in AnyRequest, NEW e \in AnyRequest,
         d.action \in AtMostOne(0..3), e.action \in AtMostOne(0..3)
  PROVE  /\ Readable(RequestBytes(d), RequestBytes(e))
         /\ RequestBytes(d) = RequestBytes(e) =>
              /\ d.language = e.language /\ d.program = e.program
              /\ d.purpose = e.purpose /\ d.action = e.action
              /\ d.interpreter = e.interpreter /\ d.view = e.view
              /\ d.layout = e.layout /\ d.environment = e.environment
              /\ d.credentials = e.credentials /\ d.limits = e.limits
              /\ d.mode = e.mode /\ d.grace = e.grace
              /\ ToSet(d.guarantees) = ToSet(e.guarantees)
<1> DEFINE a1 == AddU16(Schema)
           b1 == AddU16(Schema)
           a2 == AddString(d.language)
           b2 == AddString(e.language)
           a3 == AddString(d.program)
           b3 == AddString(e.program)
           a4 == AddU8(d.purpose)
           b4 == AddU8(e.purpose)
           a5 == AddOptionalString(ActionTexts(d.action))
           b5 == AddOptionalString(ActionTexts(e.action))
           a6 == AddString(d.interpreter)
           b6 == AddString(e.interpreter)
           a7 == AddString(d.view)
           b7 == AddString(e.view)
           a8 == AddString(d.layout)
           b8 == AddString(e.layout)
           a9 == AddString(d.environment)
           b9 == AddString(e.environment)
           a10 == AddString(d.credentials)
           b10 == AddString(e.credentials)
           a11 == AddString(d.limits)
           b11 == AddString(e.limits)
           a12 == AddU8(d.mode)
           b12 == AddU8(e.mode)
           a13 == AddOptionalU64(d.grace)
           b13 == AddOptionalU64(e.grace)
           a14 == AddGuarantees(d.guarantees)
           b14 == AddGuarantees(e.guarantees)
<1>1. /\ d.language \in AnyText /\ d.program \in AnyText /\ d.purpose \in Nat
      /\ d.action \in AtMostOne(0..3) /\ d.interpreter \in AnyText
      /\ d.view \in AnyText /\ d.layout \in AnyText
      /\ d.environment \in AnyText /\ d.credentials \in AnyText
      /\ d.limits \in AnyText /\ d.mode \in Nat
      /\ d.grace \in AtMostOne(Unsigned(8)) /\ d.guarantees \in ListOf(Nat)
  BY DEF AnyRequest
<1>2. /\ e.language \in AnyText /\ e.program \in AnyText /\ e.purpose \in Nat
      /\ e.action \in AtMostOne(0..3) /\ e.interpreter \in AnyText
      /\ e.view \in AnyText /\ e.layout \in AnyText
      /\ e.environment \in AnyText /\ e.credentials \in AnyText
      /\ e.limits \in AnyText /\ e.mode \in Nat
      /\ e.grace \in AtMostOne(Unsigned(8)) /\ e.guarantees \in ListOf(Nat)
  BY DEF AnyRequest
<1>3. Readable(a1, b1)
  <2>1. a1 \in Seq(Nat) /\ b1 \in Seq(Nat) /\ Len(a1) = Len(b1)
    <3>1. Schema \in Byte
      BY IdentitiesAssumption
    <3>2. Schema \in Nat /\ 2 \in Nat
      BY <3>1 DEF Byte
    <3> QED BY <3>2, BytesAreBytes DEF AddU16
  <2> HIDE DEF a1, b1
  <2> QED BY <2>1, SameLengthReads
<1>4. Readable(a2, b2) /\ (a2 = b2 => d.language = e.language)
  BY <1>1, <1>2, StringsTell
<1>5. Readable(a3, b3) /\ (a3 = b3 => d.program = e.program)
  BY <1>1, <1>2, StringsTell
<1>6. Readable(a4, b4) /\ (a4 = b4 => d.purpose = e.purpose)
  BY <1>1, <1>2, EnumeratorsTell
<1>7. Readable(a5, b5) /\ (a5 = b5 => d.action = e.action)
  BY <1>1, <1>2, ActionsTell
<1>8. Readable(a6, b6) /\ (a6 = b6 => d.interpreter = e.interpreter)
  BY <1>1, <1>2, StringsTell
<1>9. Readable(a7, b7) /\ (a7 = b7 => d.view = e.view)
  BY <1>1, <1>2, StringsTell
<1>10. Readable(a8, b8) /\ (a8 = b8 => d.layout = e.layout)
  BY <1>1, <1>2, StringsTell
<1>11. Readable(a9, b9) /\ (a9 = b9 => d.environment = e.environment)
  BY <1>1, <1>2, StringsTell
<1>12. Readable(a10, b10) /\ (a10 = b10 => d.credentials = e.credentials)
  BY <1>1, <1>2, StringsTell
<1>13. Readable(a11, b11) /\ (a11 = b11 => d.limits = e.limits)
  BY <1>1, <1>2, StringsTell
<1>14. Readable(a12, b12) /\ (a12 = b12 => d.mode = e.mode)
  BY <1>1, <1>2, EnumeratorsTell
<1>15. Readable(a13, b13) /\ (a13 = b13 => d.grace = e.grace)
  BY <1>1, <1>2, OptionalU64sTell
<1>16. Readable(a14, b14) /\ (a14 = b14 => ToSet(d.guarantees) = ToSet(e.guarantees))
  BY <1>1, <1>2, GuaranteesTell
<1> DEFINE x1 == Fed4(a1, a2, a3, a4)
           y1 == Fed4(b1, b2, b3, b4)
           x2 == Fed4(x1, a5, a6, a7)
           y2 == Fed4(y1, b5, b6, b7)
           x3 == Fed4(x2, a8, a9, a10)
           y3 == Fed4(y2, b8, b9, b10)
           x4 == Fed4(x3, a11, a12, a13)
           y4 == Fed4(y3, b11, b12, b13)
           x5 == Fed(x4, a14)
           y5 == Fed(y4, b14)
<1>17. RequestBytes(d) = x5 /\ RequestBytes(e) = y5
  BY DEF RequestBytes, Fed4, Fed3, Fed, ActionTexts
<1> HIDE DEF a1, b1, a2, b2, a3, b3, a4, b4, a5, b5, a6, b6, a7, b7, a8, b8,
           a9, b9, a10, b10, a11, b11, a12, b12, a13, b13, a14, b14
<1>18. /\ Readable(x1, y1)
       /\ x1 = y1 => a1 = b1 /\ a2 = b2 /\ a3 = b3 /\ a4 = b4
  BY <1>3, <1>4, <1>5, <1>6, FourTogether
<1>19. /\ Readable(x2, y2)
       /\ x2 = y2 => x1 = y1 /\ a5 = b5 /\ a6 = b6 /\ a7 = b7
  <2> HIDE DEF x1, y1
  <2> QED BY <1>18, <1>7, <1>8, <1>9, FourTogether
<1>20. /\ Readable(x3, y3)
       /\ x3 = y3 => x2 = y2 /\ a8 = b8 /\ a9 = b9 /\ a10 = b10
  <2> HIDE DEF x2, y2
  <2> QED BY <1>19, <1>10, <1>11, <1>12, FourTogether
<1>21. /\ Readable(x4, y4)
       /\ x4 = y4 => x3 = y3 /\ a11 = b11 /\ a12 = b12 /\ a13 = b13
  <2> HIDE DEF x3, y3
  <2> QED BY <1>20, <1>13, <1>14, <1>15, FourTogether
<1>22. /\ Readable(x5, y5)
       /\ x5 = y5 => x4 = y4 /\ a14 = b14
  <2> HIDE DEF x4, y4
  <2> QED BY <1>21, <1>16, TwoTogether
<1> HIDE DEF x1, y1, x2, y2, x3, y3, x4, y4, x5, y5
<1> QED BY <1>4, <1>5, <1>6, <1>7, <1>8, <1>9, <1>10, <1>11, <1>12, <1>13,
           <1>14, <1>15, <1>16, <1>17, <1>18, <1>19, <1>20, <1>21, <1>22

(* profiles *)
LEMMA ProfilesTell ==
  ASSUME NEW d \in AnyProfile, NEW e \in AnyProfile
  PROVE  /\ Readable(ProfileBytes(d), ProfileBytes(e))
         /\ ProfileBytes(d) = ProfileBytes(e) =>
              /\ d.backend = e.backend
              /\ ToSet(d.guarantees) = ToSet(e.guarantees)
<1> DEFINE a1 == AddString(d.backend)
           b1 == AddString(e.backend)
           a2 == AddGuarantees(d.guarantees)
           b2 == AddGuarantees(e.guarantees)
<1>1. /\ d.backend \in AnyText /\ d.guarantees \in ListOf(Nat)
  BY DEF AnyProfile
<1>2. /\ e.backend \in AnyText /\ e.guarantees \in ListOf(Nat)
  BY DEF AnyProfile
<1>3. Readable(a1, b1) /\ (a1 = b1 => d.backend = e.backend)
  BY <1>1, <1>2, StringsTell
<1>4. Readable(a2, b2) /\ (a2 = b2 => ToSet(d.guarantees) = ToSet(e.guarantees))
  BY <1>1, <1>2, GuaranteesTell
<1> DEFINE x1 == Fed(a1, a2)
           y1 == Fed(b1, b2)
<1>5. ProfileBytes(d) = x1 /\ ProfileBytes(e) = y1
  BY DEF ProfileBytes, Fed
<1> HIDE DEF a1, b1, a2, b2
<1>6. /\ Readable(x1, y1)
      /\ x1 = y1 => a1 = b1 /\ a2 = b2
  BY <1>3, <1>4, TwoTogether
<1> HIDE DEF x1, y1
<1> QED BY <1>3, <1>4, <1>5, <1>6

(* and evidence. *)
LEMMA EvidenceTell ==
  ASSUME NEW d \in AnyEvidence, NEW e \in AnyEvidence
  PROVE  /\ Readable(EvidenceBytes(d), EvidenceBytes(e))
         /\ EvidenceBytes(d) = EvidenceBytes(e) =>
              /\ d.status = e.status /\ d.start = e.start
              /\ d.request = e.request /\ d.profile = e.profile
              /\ d.interpreter = e.interpreter
              /\ d.termination = e.termination /\ d.stdout = e.stdout
              /\ d.stderr = e.stderr
              /\ ToSet(d.guarantees) = ToSet(e.guarantees)
              /\ d.cleanup = e.cleanup /\ d.failure = e.failure
<1> DEFINE a1 == AddU8(d.status)
           b1 == AddU8(e.status)
           a2 == AddU8(d.start)
           b2 == AddU8(e.start)
           a3 == AddString(d.request)
           b3 == AddString(e.request)
           a4 == AddString(d.profile)
           b4 == AddString(e.profile)
           a5 == AddOptionalString(d.interpreter)
           b5 == AddOptionalString(e.interpreter)
           a6 == AddTermination(d.termination)
           b6 == AddTermination(e.termination)
           a7 == AddCapture(d.stdout)
           b7 == AddCapture(e.stdout)
           a8 == AddCapture(d.stderr)
           b8 == AddCapture(e.stderr)
           a9 == AddGuarantees(d.guarantees)
           b9 == AddGuarantees(e.guarantees)
           a10 == AddU8(d.cleanup)
           b10 == AddU8(e.cleanup)
           a11 == AddOptionalU8(d.failure)
           b11 == AddOptionalU8(e.failure)
<1>1. /\ d.status \in Nat /\ d.start \in Nat /\ d.request \in AnyText
      /\ d.profile \in AnyText /\ d.interpreter \in AtMostOne(AnyText)
      /\ d.termination \in AtMostOne(AnyTermination)
      /\ d.stdout \in AtMostOne(AnyCapture)
      /\ d.stderr \in AtMostOne(AnyCapture) /\ d.guarantees \in ListOf(Nat)
      /\ d.cleanup \in Nat /\ d.failure \in AtMostOne(Nat)
  BY DEF AnyEvidence
<1>2. /\ e.status \in Nat /\ e.start \in Nat /\ e.request \in AnyText
      /\ e.profile \in AnyText /\ e.interpreter \in AtMostOne(AnyText)
      /\ e.termination \in AtMostOne(AnyTermination)
      /\ e.stdout \in AtMostOne(AnyCapture)
      /\ e.stderr \in AtMostOne(AnyCapture) /\ e.guarantees \in ListOf(Nat)
      /\ e.cleanup \in Nat /\ e.failure \in AtMostOne(Nat)
  BY DEF AnyEvidence
<1>3. Readable(a1, b1) /\ (a1 = b1 => d.status = e.status)
  BY <1>1, <1>2, EnumeratorsTell
<1>4. Readable(a2, b2) /\ (a2 = b2 => d.start = e.start)
  BY <1>1, <1>2, EnumeratorsTell
<1>5. Readable(a3, b3) /\ (a3 = b3 => d.request = e.request)
  BY <1>1, <1>2, StringsTell
<1>6. Readable(a4, b4) /\ (a4 = b4 => d.profile = e.profile)
  BY <1>1, <1>2, StringsTell
<1>7. Readable(a5, b5) /\ (a5 = b5 => d.interpreter = e.interpreter)
  BY <1>1, <1>2, OptionalStringsTell
<1>8. Readable(a6, b6) /\ (a6 = b6 => d.termination = e.termination)
  BY <1>1, <1>2, TerminationsTell
<1>9. Readable(a7, b7) /\ (a7 = b7 => d.stdout = e.stdout)
  BY <1>1, <1>2, CapturesTell
<1>10. Readable(a8, b8) /\ (a8 = b8 => d.stderr = e.stderr)
  BY <1>1, <1>2, CapturesTell
<1>11. Readable(a9, b9) /\ (a9 = b9 => ToSet(d.guarantees) = ToSet(e.guarantees))
  BY <1>1, <1>2, GuaranteesTell
<1>12. Readable(a10, b10) /\ (a10 = b10 => d.cleanup = e.cleanup)
  BY <1>1, <1>2, EnumeratorsTell
<1>13. Readable(a11, b11) /\ (a11 = b11 => d.failure = e.failure)
  BY <1>1, <1>2, OptionalU8sTell
<1> DEFINE x1 == Fed4(a1, a2, a3, a4)
           y1 == Fed4(b1, b2, b3, b4)
           x2 == Fed4(x1, a5, a6, a7)
           y2 == Fed4(y1, b5, b6, b7)
           x3 == Fed4(x2, a8, a9, a10)
           y3 == Fed4(y2, b8, b9, b10)
           x4 == Fed(x3, a11)
           y4 == Fed(y3, b11)
<1>14. EvidenceBytes(d) = x4 /\ EvidenceBytes(e) = y4
  BY DEF EvidenceBytes, Fed4, Fed3, Fed
<1> HIDE DEF a1, b1, a2, b2, a3, b3, a4, b4, a5, b5, a6, b6, a7, b7, a8, b8,
           a9, b9, a10, b10, a11, b11
<1>15. /\ Readable(x1, y1)
       /\ x1 = y1 => a1 = b1 /\ a2 = b2 /\ a3 = b3 /\ a4 = b4
  BY <1>3, <1>4, <1>5, <1>6, FourTogether
<1>16. /\ Readable(x2, y2)
       /\ x2 = y2 => x1 = y1 /\ a5 = b5 /\ a6 = b6 /\ a7 = b7
  <2> HIDE DEF x1, y1
  <2> QED BY <1>15, <1>7, <1>8, <1>9, FourTogether
<1>17. /\ Readable(x3, y3)
       /\ x3 = y3 => x2 = y2 /\ a8 = b8 /\ a9 = b9 /\ a10 = b10
  <2> HIDE DEF x2, y2
  <2> QED BY <1>16, <1>10, <1>11, <1>12, FourTogether
<1>18. /\ Readable(x4, y4)
       /\ x4 = y4 => x3 = y3 /\ a11 = b11
  <2> HIDE DEF x3, y3
  <2> QED BY <1>17, <1>13, TwoTogether
<1> HIDE DEF x1, y1, x2, y2, x3, y3, x4, y4
<1> QED BY <1>3, <1>4, <1>5, <1>6, <1>7, <1>8, <1>9, <1>10, <1>11, <1>12,
           <1>13, <1>14, <1>15, <1>16, <1>17, <1>18

----------------------------------------------------------------------------
(* The numbers of a layout that is declared all stand for texts. *)
LEMMA LayoutsHaveTexts ==
  ASSUME NEW d \in AnyLayout, TextsOf(d) \subseteq DOMAIN Text
  PROVE  d.bindings \in ListOf(TextBinding) /\ d.working \in TextSlot
<1> DEFINE s == d.bindings
           n == Len(s)
<1>1. /\ s \in Seq(AnyBinding) /\ n \in Unsigned(8) /\ d.working \in Nat \X Nat
  BY DEF AnyLayout, ListOf
<1>2. Name(d.working) \in DOMAIN Text
  BY DEF TextsOf
<1>3. d.working \in TextSlot
  BY <1>1, <1>2 DEF TextSlot, Name
<1>4. ASSUME NEW i \in 1..n PROVE s[i] \in TextBinding
  <2> DEFINE b == s[i]
  <2>1. b \in AnyBinding
    BY <1>1
  <2>2. b \in ToSet(s)
    BY <1>1 DEF ToSet
  <2>3. {Name(b.slot), b.resource, b.mount} \subseteq DOMAIN Text
    BY <2>2 DEF TextsOf
  <2> HIDE DEF b
  <2>4. b.slot \in TextSlot
    BY <2>1, <2>3 DEF AnyBinding, TextSlot, Name
  <2>5. b \in TextBinding
    BY <2>1, <2>3, <2>4 DEF AnyBinding, TextBinding
  <2> QED BY <2>5 DEF b
<1> HIDE DEF s
<1>5. s \in Seq(TextBinding)
  BY <1>1, <1>4
<1>6. s \in ListOf(TextBinding)
  BY <1>1, <1>5 DEF ListOf
<1> QED BY <1>3, <1>6 DEF s

(* An optional value of one set that is in another is one of that. *)
LEMMA NarrowOptions ==
  ASSUME NEW X, NEW Y, NEW o \in AtMostOne(X), o # <<>> => o[1] \in Y
  PROVE  o \in AtMostOne(Y)
<1>1. o \in Seq(X) /\ Len(o) <= 1
  BY DEF AtMostOne
<1>2. CASE o = <<>>
  BY <1>2 DEF AtMostOne
<1>3. CASE o # <<>>
  <2>1. o = <<o[1]>> /\ o[1] \in Y
    BY <1>1, <1>3
  <2>2. \A y \in Y : <<y>> \in AtMostOne(Y)
    BY DEF AtMostOne
  <2> QED BY <2>1, <2>2
<1> QED BY <1>2, <1>3

(* What has been sealed is fed to the digest so that it can be told. *)
Tellable(kind, d) ==
  /\ d \in Declarable(kind)
  /\ kind = "layout" => d.bindings \in ListOf(TextBinding) /\ d.working \in TextSlot
  /\ kind = "environment" => d.epoch \in AtMostOne(Unsigned(8))
  /\ kind = "request" => d.action \in AtMostOne(0..3)

(* The constructors see to that. *)
LEMMA SealedIsTellable ==
  ASSUME NEW a, Answered(a), a.kind \in Kinds, Sealed(a)
  PROVE  Tellable(a.kind, a.declared)
<1> DEFINE d == a.declared
<1>1. d \in Declarable(a.kind) /\ d \in Declarations[a.kind]
  BY DeclaredIsDeclarable DEF Answered
<1>2. VerdictOn(a.kind, d) = "sealed"
  BY DEF Answered, Sealed
<1> HIDE DEF d
<1>3. ASSUME a.kind = "layout"
      PROVE  d.bindings \in ListOf(TextBinding) /\ d.working \in TextSlot
  <2>1. d \in AnyLayout /\ TextsOf(d) \subseteq DOMAIN Text
    BY <1>1, <1>3, PoliciesAssumption DEF Declarable
  <2> QED BY <2>1, LayoutsHaveTexts
<1>4. ASSUME a.kind = "environment" PROVE d.epoch \in AtMostOne(Unsigned(8))
  <2>1. d \in AnyEnvironment /\ Verdict(EnvironmentChecks(d)) = "sealed"
    BY <1>1, <1>2, <1>4 DEF Declarable, VerdictOn
  <2>2. d.variables \in Seq(AnyVariable) /\ d.epoch \in AtMostOne(Signed(8))
    BY <2>1 DEF AnyEnvironment, ListOf
  <2>3. ~(d.epoch # <<>> /\ d.epoch[1] < 0)
    BY <2>1, <2>2, EnvironmentsAreAnswered
  <2>4. d.epoch # <<>> => d.epoch[1] \in Unsigned(8)
    <3>1. \A n \in Signed(8) : n \in Int
      BY DEF Signed
    <3>2. d.epoch # <<>> => d.epoch[1] \in Signed(8) /\ d.epoch[1] >= 0
      <4>1. d.epoch # <<>> => d.epoch[1] \in Signed(8)
        BY <2>2, TheOne
      <4> QED BY <2>3, <3>1, <4>1
    <3> QED BY <3>2, SignedOnesFit
  <2> QED BY <2>2, <2>4, NarrowOptions
<1>5. ASSUME a.kind = "request" PROVE d.action \in AtMostOne(0..3)
  <2>1. d \in AnyRequest /\ Verdict(RequestChecks(d)) = "sealed"
    BY <1>1, <1>2, <1>5 DEF Declarable, VerdictOn
  <2>2. d.action \in AtMostOne(Nat)
    BY <2>1 DEF AnyRequest
  <2>3. d.action # <<>> => d.action[1] \in 0..3
    BY <2>1, RequestsAreAnswered
  <2> QED BY <2>2, <2>3, NarrowOptions
<1>6. Tellable(a.kind, d)
  BY <1>1, <1>3, <1>4, <1>5 DEF Tellable
<1> QED BY <1>6 DEF d

(* Field by field, two declarations mean the same. *)
LEMMA EqualFieldsMeanTheSame ==
  /\ \A d, e \in AnyLayout :
       ToSet(d.bindings) = ToSet(e.bindings) /\ d.working = e.working =>
         [d EXCEPT !.bindings = ToSet(@)] = [e EXCEPT !.bindings = ToSet(@)]
  /\ \A d, e \in AnyEnvironment :
       /\ d.network = e.network /\ d.stdin = e.stdin
       /\ d.stdout = e.stdout /\ d.stderr = e.stderr /\ d.path = e.path
       /\ d.home = e.home /\ d.tmp = e.tmp
       /\ d.parallelism = e.parallelism /\ d.mask = e.mask
       /\ d.epoch = e.epoch /\ ToSet(d.variables) = ToSet(e.variables)
       => [d EXCEPT !.variables = ToSet(@)] = [e EXCEPT !.variables = ToSet(@)]
  /\ \A d, e \in AnyCredentials :
       /\ d.user = e.user /\ d.group = e.group /\ d.restricted = e.restricted
       /\ ToSet(d.groups) = ToSet(e.groups)
       => [d EXCEPT !.groups = ToSet(@)] = [e EXCEPT !.groups = ToSet(@)]
  /\ \A d, e \in AnyLimits :
       /\ d.cpu = e.cpu /\ d.memory = e.memory /\ d.file = e.file
       /\ d.open = e.open /\ d.processes = e.processes
       => d = e
  /\ \A d, e \in AnyRequest :
       /\ d.language = e.language /\ d.program = e.program
       /\ d.purpose = e.purpose /\ d.action = e.action
       /\ d.interpreter = e.interpreter /\ d.view = e.view /\ d.layout = e.layout
       /\ d.environment = e.environment /\ d.credentials = e.credentials
       /\ d.limits = e.limits /\ d.mode = e.mode /\ d.grace = e.grace
       /\ ToSet(d.guarantees) = ToSet(e.guarantees)
       => [d EXCEPT !.guarantees = ToSet(@)] = [e EXCEPT !.guarantees = ToSet(@)]
  /\ \A d, e \in AnyProfile :
       d.backend = e.backend /\ ToSet(d.guarantees) = ToSet(e.guarantees) =>
         [d EXCEPT !.guarantees = ToSet(@)] = [e EXCEPT !.guarantees = ToSet(@)]
  /\ \A d, e \in AnyEvidence :
       /\ d.status = e.status /\ d.start = e.start /\ d.request = e.request
       /\ d.profile = e.profile /\ d.interpreter = e.interpreter
       /\ d.termination = e.termination /\ d.stdout = e.stdout
       /\ d.stderr = e.stderr /\ d.cleanup = e.cleanup /\ d.failure = e.failure
       /\ ToSet(d.guarantees) = ToSet(e.guarantees)
       => [d EXCEPT !.guarantees = ToSet(@)] = [e EXCEPT !.guarantees = ToSet(@)]
  BY DEF AnyLayout, AnyEnvironment, AnyCredentials, AnyLimits, AnyRequest,
         AnyProfile, AnyEvidence

----------------------------------------------------------------------------
(* The fields of two values of one kind tell what they mean. *)
LEMMA FieldsTell ==
  ASSUME NEW a, NEW b, a.kind \in Kinds, b.kind = a.kind,
         Tellable(a.kind, a.declared), Tellable(a.kind, b.declared)
  PROVE  /\ Readable(FieldBytes(a.kind, a.declared), FieldBytes(a.kind, b.declared))
         /\ FieldBytes(a.kind, a.declared) = FieldBytes(a.kind, b.declared) =>
              Meaning(a) = Meaning(b)
<1> DEFINE kind == a.kind
           d == a.declared
           e == b.declared
<1>1. d \in Declarable(kind) /\ e \in Declarable(kind)
  BY DEF Tellable
<1>2. CASE kind = "layout"
  <2>1. /\ d \in AnyLayout /\ e \in AnyLayout
        /\ d.bindings \in ListOf(TextBinding) /\ d.working \in TextSlot
        /\ e.bindings \in ListOf(TextBinding) /\ e.working \in TextSlot
    BY <1>1, <1>2 DEF Tellable, Declarable
  <2>2. /\ FieldBytes(kind, d) = LayoutBytes(d) /\ FieldBytes(kind, e) = LayoutBytes(e)
        /\ Meaning(a) = [d EXCEPT !.bindings = ToSet(@)]
        /\ Meaning(b) = [e EXCEPT !.bindings = ToSet(@)]
    BY <1>2 DEF FieldBytes, Meaning
  <2> HIDE DEF kind, d, e
  <2>3. /\ Readable(LayoutBytes(d), LayoutBytes(e))
        /\ LayoutBytes(d) = LayoutBytes(e) =>
             ToSet(d.bindings) = ToSet(e.bindings) /\ d.working = e.working
    BY <2>1, LayoutsTell
  <2>4. LayoutBytes(d) = LayoutBytes(e) => Meaning(a) = Meaning(b)
    BY <2>1, <2>2, <2>3, EqualFieldsMeanTheSame
  <2>5. /\ Readable(FieldBytes(kind, d), FieldBytes(kind, e))
        /\ FieldBytes(kind, d) = FieldBytes(kind, e) => Meaning(a) = Meaning(b)
    BY <2>2, <2>3, <2>4
  <2> QED BY <2>5 DEF kind, d, e
<1>3. CASE kind = "environment"
  <2>1. /\ d \in AnyEnvironment /\ e \in AnyEnvironment
        /\ d.epoch \in AtMostOne(Unsigned(8)) /\ e.epoch \in AtMostOne(Unsigned(8))
    BY <1>1, <1>3 DEF Tellable, Declarable
  <2>2. /\ FieldBytes(kind, d) = EnvironmentBytes(d)
        /\ FieldBytes(kind, e) = EnvironmentBytes(e)
        /\ Meaning(a) = [d EXCEPT !.variables = ToSet(@)]
        /\ Meaning(b) = [e EXCEPT !.variables = ToSet(@)]
    BY <1>3 DEF FieldBytes, Meaning
  <2> HIDE DEF kind, d, e
  <2>3. EnvironmentBytes(d) = EnvironmentBytes(e) => Meaning(a) = Meaning(b)
    BY <2>1, <2>2, EnvironmentsTell, EqualFieldsMeanTheSame
  <2>4. Readable(EnvironmentBytes(d), EnvironmentBytes(e))
    BY <2>1, EnvironmentsTell
  <2>5. /\ Readable(FieldBytes(kind, d), FieldBytes(kind, e))
        /\ FieldBytes(kind, d) = FieldBytes(kind, e) => Meaning(a) = Meaning(b)
    BY <2>2, <2>3, <2>4
  <2> QED BY <2>5 DEF kind, d, e
<1>4. CASE kind = "credentials"
  <2>1. d \in AnyCredentials /\ e \in AnyCredentials
    BY <1>1, <1>4 DEF Declarable
  <2>2. /\ FieldBytes(kind, d) = CredentialsBytes(d)
        /\ FieldBytes(kind, e) = CredentialsBytes(e)
        /\ Meaning(a) = [d EXCEPT !.groups = ToSet(@)]
        /\ Meaning(b) = [e EXCEPT !.groups = ToSet(@)]
    BY <1>4 DEF FieldBytes, Meaning
  <2> HIDE DEF kind, d, e
  <2>3. CredentialsBytes(d) = CredentialsBytes(e) => Meaning(a) = Meaning(b)
    BY <2>1, <2>2, CredentialsTell, EqualFieldsMeanTheSame
  <2>4. Readable(CredentialsBytes(d), CredentialsBytes(e))
    BY <2>1, CredentialsTell
  <2>5. /\ Readable(FieldBytes(kind, d), FieldBytes(kind, e))
        /\ FieldBytes(kind, d) = FieldBytes(kind, e) => Meaning(a) = Meaning(b)
    BY <2>2, <2>3, <2>4
  <2> QED BY <2>5 DEF kind, d, e
<1>5. CASE kind = "limits"
  <2>1. d \in AnyLimits /\ e \in AnyLimits
    BY <1>1, <1>5 DEF Declarable
  <2>2. /\ FieldBytes(kind, d) = LimitsBytes(d) /\ FieldBytes(kind, e) = LimitsBytes(e)
        /\ Meaning(a) = d /\ Meaning(b) = e
    BY <1>5 DEF FieldBytes, Meaning
  <2> HIDE DEF kind, d, e
  <2>3. LimitsBytes(d) = LimitsBytes(e) => Meaning(a) = Meaning(b)
    BY <2>1, <2>2, LimitsTell, EqualFieldsMeanTheSame
  <2>4. Readable(LimitsBytes(d), LimitsBytes(e))
    BY <2>1, LimitsTell
  <2>5. /\ Readable(FieldBytes(kind, d), FieldBytes(kind, e))
        /\ FieldBytes(kind, d) = FieldBytes(kind, e) => Meaning(a) = Meaning(b)
    BY <2>2, <2>3, <2>4
  <2> QED BY <2>5 DEF kind, d, e
<1>6. CASE kind = "request"
  <2>1. /\ d \in AnyRequest /\ e \in AnyRequest
        /\ d.action \in AtMostOne(0..3) /\ e.action \in AtMostOne(0..3)
    BY <1>1, <1>6 DEF Tellable, Declarable
  <2>2. /\ FieldBytes(kind, d) = RequestBytes(d) /\ FieldBytes(kind, e) = RequestBytes(e)
        /\ Meaning(a) = [d EXCEPT !.guarantees = ToSet(@)]
        /\ Meaning(b) = [e EXCEPT !.guarantees = ToSet(@)]
    BY <1>6 DEF FieldBytes, Meaning
  <2> HIDE DEF kind, d, e
  <2>3. RequestBytes(d) = RequestBytes(e) => Meaning(a) = Meaning(b)
    BY <2>1, <2>2, RequestsTell, EqualFieldsMeanTheSame
  <2>4. Readable(RequestBytes(d), RequestBytes(e))
    BY <2>1, RequestsTell
  <2>5. /\ Readable(FieldBytes(kind, d), FieldBytes(kind, e))
        /\ FieldBytes(kind, d) = FieldBytes(kind, e) => Meaning(a) = Meaning(b)
    BY <2>2, <2>3, <2>4
  <2> QED BY <2>5 DEF kind, d, e
<1>7. CASE kind = "profile"
  <2>1. d \in AnyProfile /\ e \in AnyProfile
    BY <1>1, <1>7 DEF Declarable
  <2>2. /\ FieldBytes(kind, d) = ProfileBytes(d) /\ FieldBytes(kind, e) = ProfileBytes(e)
        /\ Meaning(a) = [d EXCEPT !.guarantees = ToSet(@)]
        /\ Meaning(b) = [e EXCEPT !.guarantees = ToSet(@)]
    BY <1>7 DEF FieldBytes, Meaning
  <2> HIDE DEF kind, d, e
  <2>3. ProfileBytes(d) = ProfileBytes(e) => Meaning(a) = Meaning(b)
    BY <2>1, <2>2, ProfilesTell, EqualFieldsMeanTheSame
  <2>4. Readable(ProfileBytes(d), ProfileBytes(e))
    BY <2>1, ProfilesTell
  <2>5. /\ Readable(FieldBytes(kind, d), FieldBytes(kind, e))
        /\ FieldBytes(kind, d) = FieldBytes(kind, e) => Meaning(a) = Meaning(b)
    BY <2>2, <2>3, <2>4
  <2> QED BY <2>5 DEF kind, d, e
<1>8. CASE kind = "evidence"
  <2>1. d \in AnyEvidence /\ e \in AnyEvidence
    BY <1>1, <1>8 DEF Declarable
  <2>2. /\ FieldBytes(kind, d) = EvidenceBytes(d) /\ FieldBytes(kind, e) = EvidenceBytes(e)
        /\ Meaning(a) = [d EXCEPT !.guarantees = ToSet(@)]
        /\ Meaning(b) = [e EXCEPT !.guarantees = ToSet(@)]
    BY <1>8 DEF FieldBytes, Meaning
  <2> HIDE DEF kind, d, e
  <2>3. EvidenceBytes(d) = EvidenceBytes(e) => Meaning(a) = Meaning(b)
    BY <2>1, <2>2, EvidenceTell, EqualFieldsMeanTheSame
  <2>4. Readable(EvidenceBytes(d), EvidenceBytes(e))
    BY <2>1, EvidenceTell
  <2>5. /\ Readable(FieldBytes(kind, d), FieldBytes(kind, e))
        /\ FieldBytes(kind, d) = FieldBytes(kind, e) => Meaning(a) = Meaning(b)
    BY <2>2, <2>3, <2>4
  <2> QED BY <2>5 DEF kind, d, e
<1> QED BY <1>2, <1>3, <1>4, <1>5, <1>6, <1>7, <1>8 DEF Kinds

(* No identity of a sealed value stands for anything else than it means,    *)
(* whatever its texts, numbers and lists: the domain tells the kind, each   *)
(* length where a field ends, and each count how many there are             *)
(* (identity_builder of src/identity_support.cpp and its callers).          *)
THEOREM IdentitiesHaveOneMeaning == PoliciesSpec => []OneMeaningPerIdentity
<1>1. PolicyInv => OneMeaningPerIdentity
  <2> SUFFICES ASSUME PolicyInv, NEW a \in Identified, NEW b \in Identified,
                      a.identity = b.identity
               PROVE  a.kind = b.kind /\ Meaning(a) = Meaning(b)
    BY DEF OneMeaningPerIdentity, SameMeaning
  <2>1. /\ Answered(a) /\ Answered(b) /\ Sealed(a) /\ Sealed(b)
        /\ a.kind \in Kinds /\ b.kind \in Kinds
    BY DEF PolicyInv, Identified
  <2>2. Tellable(a.kind, a.declared) /\ Tellable(b.kind, b.declared)
    BY <2>1, SealedIsTellable
  <2> DEFINE u == FieldBytes(a.kind, a.declared)
             v == FieldBytes(b.kind, b.declared)
             p == Begin(a.kind)
             q == Begin(b.kind)
  <2>3. u \in Seq(Nat) /\ v \in Seq(Nat)
    <3>1. Readable(u, u) /\ Readable(v, v)
      BY <2>1, <2>2, FieldsTell
    <3> HIDE DEF u, v
    <3> QED BY <3>1 DEF Readable
  <2>4. Readable(p, q) /\ (p = q => a.kind = b.kind)
    <3>1. /\ Domain[a.kind] \in AnyText /\ Domain[b.kind] \in AnyText
          /\ Domain[a.kind] = Domain[b.kind] => a.kind = b.kind
      BY <2>1, IdentitiesAssumption
    <3> QED BY <3>1, StringsTell DEF Begin
  <2>5. Fed(p, u) = Fed(q, v)
    BY <2>1 DEF Answered, IdentityBytes, Fed
  <2> HIDE DEF u, v, p, q
  <2>6. p = q /\ u = v
    BY <2>3, <2>4, <2>5, HeadsTell
  <2>7. a.kind = b.kind
    BY <2>4, <2>6
  <2>8. FieldBytes(a.kind, a.declared) = FieldBytes(a.kind, b.declared)
    BY <2>6, <2>7 DEF u, v
  <2> QED BY <2>1, <2>2, <2>7, <2>8, FieldsTell
<1> QED BY <1>1, PolicyInvHolds, PTL

----------------------------------------------------------------------------
(* A path is walked from the root, one character after another. *)
AtRoot == [place |-> <<>>, component |-> <<>>]

Walks(w, t, n) ==
  w = [k \in 0..n |-> IF k = 0 THEN AtRoot ELSE Walk(w[k - 1], t[k])]

(* One character more is one step more. *)
LEMMA WalkedTo ==
  ASSUME NEW w, NEW t, NEW n, Walks(w, t, n), NEW k \in 0..n
  PROVE  w[k] = IF k = 0 THEN AtRoot ELSE Walk(w[k - 1], t[k])
<1> DEFINE F == [j \in 0..n |-> IF j = 0 THEN AtRoot ELSE Walk(w[j - 1], t[j])]
<1>1. F[k] = IF k = 0 THEN AtRoot ELSE Walk(w[k - 1], t[k])
  OBVIOUS
<1>2. w = F
  BY DEF Walks
<1>3. w[k] = F[k]
  <2> HIDE DEF F
  <2> QED BY <1>2
<1> QED BY <1>1, <1>3

(* A path can be walked, however long it is. *)
LEMMA WalkExists ==
  ASSUME NEW t, NEW n \in Nat
  PROVE  \E w : Walks(w, t, n)
<1> DEFINE T == {k \in Nat : \A w : ~Walks(w, t, k)}
<1>1. SUFFICES ASSUME T # {} PROVE FALSE
  OBVIOUS
<1>2. PICK k \in T : \A m \in T : k <= m
  <2> HIDE DEF T
  <2>1. T \in SUBSET Nat
    BY DEF T
  <2> QED BY <1>1, <2>1, LeastNat
<1>3. CASE k = 0
  <2> DEFINE g == [i \in 0..0 |-> AtRoot]
  <2>1. Walks(g, t, 0)
    BY DEF Walks
  <2> QED BY <1>2, <1>3, <2>1
<1>4. CASE k # 0
  <2>1. k - 1 \in Nat /\ k - 1 \notin T
    BY <1>2, <1>4
  <2>2. PICK f : Walks(f, t, k - 1)
    BY <2>1
  <2> DEFINE g == [i \in 0..k |-> IF i < k THEN f[i] ELSE Walk(f[i - 1], t[i])]
  <2>3. ASSUME NEW i \in 0..k
        PROVE  g[i] = IF i = 0 THEN AtRoot ELSE Walk(g[i - 1], t[i])
    <3>1. CASE i = k
      BY <3>1, <1>4
    <3>2. CASE i < k
      <4>0. i \in 0..(k - 1)
        BY <3>2
      <4>1. f[i] = IF i = 0 THEN AtRoot ELSE Walk(f[i - 1], t[i])
        BY <2>2, <4>0, WalkedTo
      <4>2. g[i] = f[i] /\ (i # 0 => g[i - 1] = f[i - 1])
        BY <3>2
      <4> QED BY <4>1, <4>2
    <3> QED BY <3>1, <3>2
  <2>4. Walks(g, t, k)
    <3>1. g = [i \in 0..k |-> g[i]]
      OBVIOUS
    <3> HIDE DEF g
    <3> QED BY <2>3, <3>1 DEF Walks
  <2> QED BY <1>2, <2>4
<1> QED BY <1>3, <1>4

(* So are the paths of the model. *)
LEMMA WalkedStepByStep ==
  ASSUME NEW t, Len(t) \in Nat
  PROVE  /\ Walked(t)[0] = AtRoot
         /\ \A k \in 1..Len(t) : Walked(t)[k] = Walk(Walked(t)[k - 1], t[k])
<1> DEFINE w == CHOOSE h : Walks(h, t, Len(t))
<1>1. Walked(t) = w
  BY DEF Walked, Walks, AtRoot
<1>2. Walks(w, t, Len(t))
  BY WalkExists
<1> HIDE DEF w
<1>3. \A k \in 0..Len(t) : w[k] = IF k = 0 THEN AtRoot ELSE Walk(w[k - 1], t[k])
  BY <1>2, WalkedTo
<1>4. 0 \in 0..Len(t) /\ \A k \in 1..Len(t) : k \in 0..Len(t) /\ k # 0
  OBVIOUS
<1> QED BY <1>1, <1>3, <1>4

----------------------------------------------------------------------------
(* What may stand between two slashes of a canonical path. *)
NoSlash(c) == \A i \in 1..Len(c) : c[i] # Slash

Proper ==
  {c \in Seq(Nat) : NoSlash(c) /\ c \notin {<<>>, <<Dot>>, <<Dot, Dot>>}}

(* c stands in t behind the first s characters, *)
Stands(c, t, s) ==
  s + Len(c) <= Len(t) /\ \A i \in 1..Len(c) : c[i] = t[s + i]

(* up to the next slash or the end. *)
Complete(c, t, s) ==
  /\ Stands(c, t, s) /\ NoSlash(c)
  /\ s + Len(c) = Len(t) \/ t[s + Len(c) + 1] = Slash

(* That is the component that parse() looks at. *)
LEMMA ComponentIsComplete ==
  ASSUME NEW t \in Seq(Nat), NEW c \in Seq(Nat), NEW s \in 1..Len(t),
         Complete(c, t, s)
  PROVE  ComponentAfter(t, s) = c
<1> DEFINE ends == {j \in (s + 1)..Len(t) : t[j] = Slash} \cup {Len(t) + 1}
           e == s + Len(c) + 1
           First(j) == j \in ends /\ \A k \in ends : j <= k
           m == CHOOSE j \in ends : \A k \in ends : j <= k
<1>0. Len(t) \in Nat /\ Len(c) \in Nat /\ s \in Nat /\ e \in Nat /\ e <= Len(t) + 1
  BY DEF Complete, Stands
<1>1. e \in ends
  BY <1>0 DEF Complete
<1>2. ASSUME NEW k \in ends PROVE e <= k
  <2>1. CASE k = Len(t) + 1
    BY <1>0, <2>1
  <2>2. CASE k \in (s + 1)..Len(t) /\ t[k] = Slash
    <3>1. SUFFICES ASSUME k < e PROVE FALSE
      BY <1>0, <2>2
    <3>2. k - s \in 1..Len(c)
      BY <1>0, <2>2, <3>1
    <3>3. c[k - s] = t[s + (k - s)] /\ c[k - s] # Slash
      BY <3>2 DEF Complete, Stands, NoSlash
    <3>4. s + (k - s) = k
      BY <1>0, <2>2
    <3> QED BY <2>2, <3>3, <3>4
  <2> QED BY <2>1, <2>2
<1>3. \A j \in ends : j \in Nat
  BY <1>0
<1>4. ComponentAfter(t, s) = SubSeq(t, s + 1, m - 1)
  BY DEF ComponentAfter
<1>5. m = e
  <2> HIDE DEF ends, e
  <2>1. m \in ends /\ \A k \in ends : m <= k
    BY <1>1, <1>2
  <2> HIDE DEF m
  <2>2. m <= e /\ e <= m /\ m \in Nat
    BY <1>1, <1>2, <1>3, <2>1
  <2> QED BY <1>0, <2>2
<1>6. ComponentAfter(t, s) = SubSeq(t, s + 1, e - 1)
  <2> HIDE DEF m, e
  <2> QED BY <1>4, <1>5
<1>7. e - 1 = s + Len(c)
  BY <1>0
<1>8. \A i \in (s + 1)..(s + Len(c)) : t[i] \in Nat
  <2>1. \A i \in (s + 1)..(s + Len(c)) : i \in 1..Len(t)
    BY <1>0
  <2>2. \A i \in 1..Len(t) : t[i] \in Nat
    OBVIOUS
  <2> QED BY <2>1, <2>2
<1> DEFINE u == SubSeq(t, s + 1, s + Len(c))
<1>9. s + 1 \in Int /\ s + Len(c) \in Int
  BY <1>0
<1> HIDE DEF ends, e, m, First
<1>10. /\ u \in Seq(Nat)
       /\ Len(u) = IF s + 1 <= s + Len(c) THEN s + Len(c) - (s + 1) + 1 ELSE 0
       /\ \A i \in 1..(s + Len(c) - (s + 1) + 1) : u[i] = t[s + 1 + i - 1]
  BY <1>8, <1>9, SubSeqProperties
<1> HIDE DEF u
<1>11. Len(u) = Len(c)
  BY <1>0, <1>10
<1>12. \A i \in 1..Len(u) : u[i] = c[i]
  <2> SUFFICES ASSUME NEW i \in 1..Len(u) PROVE u[i] = c[i]
    OBVIOUS
  <2>1. i \in 1..(s + Len(c) - (s + 1) + 1) /\ s + 1 + i - 1 = s + i /\ i \in 1..Len(c)
    BY <1>0, <1>11
  <2>2. c[i] = t[s + i]
    BY <2>1 DEF Complete, Stands
  <2> QED BY <1>10, <2>1, <2>2
<1>13. u = c
  BY <1>10, <1>11, <1>12, SeqEqual
<1> QED BY <1>6, <1>7, <1>13 DEF u

(* Two sequences begin alike, with n elements. *)
Alike(s, t, n) == \A i \in 1..n : s[i] = t[i]

(* So do what is put together of them. *)
LEMMA JoinedFromAlike ==
  ASSUME NEW s, NEW t, NEW f, NEW g, NEW m \in Nat, NEW n \in Nat, m <= n,
         Joined(s, f, m), Joined(t, g, n), Alike(s, t, m)
  PROVE  Alike(f, g, m)
<1>1. \A i \in 1..m : s[i] = t[i]
  BY DEF Alike
<1>2. \A i \in 1..m : f[i] = g[i]
  BY <1>1, JoinedAlike
<1> QED BY <1>2 DEF Alike

----------------------------------------------------------------------------
(* The text of a place, of which the root has nothing. *)
Written(place) ==
  IF place = <<>> THEN <<>>
  ELSE FlattenSeq([i \in DOMAIN place |-> <<Slash>> \o place[i]])

(* A text grows by a slash and a component. *)
Grown(u, c) == u \o (<<Slash>> \o c)

(* A text that has grown is what it was, a slash, and the component. *)
LEMMA GrownAt ==
  ASSUME NEW u \in Seq(Nat), NEW c \in Seq(Nat)
  PROVE  /\ Grown(u, c) \in Seq(Nat)
         /\ Len(Grown(u, c)) = Len(u) + 1 + Len(c)
         /\ \A i \in 1..Len(u) : Grown(u, c)[i] = u[i]
         /\ Grown(u, c)[Len(u) + 1] = Slash
         /\ \A i \in 1..Len(c) : Grown(u, c)[Len(u) + 1 + i] = c[i]
<1> DEFINE v == <<Slash>> \o c
           w == u \o v
<1>0. Len(u) \in Nat /\ Len(c) \in Nat
  OBVIOUS
<1>1. <<Slash>> \in Seq(Nat) /\ Len(<<Slash>>) = 1 /\ <<Slash>>[1] = Slash
  BY DEF Slash
<1>2. /\ v \in Seq(Nat) /\ Len(v) = 1 + Len(c)
      /\ \A i \in 1..(1 + Len(c)) :
            v[i] = IF i <= 1 THEN <<Slash>>[i] ELSE c[i - 1]
  <2> DEFINE one == <<Slash>>
  <2>1. one \in Seq(Nat) /\ Len(one) = 1
    BY <1>1
  <2> HIDE DEF one
  <2>2. /\ one \o c \in Seq(Nat) /\ Len(one \o c) = Len(one) + Len(c)
        /\ \A i \in 1..(Len(one) + Len(c)) :
              (one \o c)[i] = IF i <= Len(one) THEN one[i] ELSE c[i - Len(one)]
    BY <2>1, ConcatProperties
  <2> QED BY <2>1, <2>2 DEF one
<1> HIDE DEF v
<1>3. /\ w \in Seq(Nat) /\ Len(w) = Len(u) + Len(v)
      /\ \A i \in 1..(Len(u) + Len(v)) :
            w[i] = IF i <= Len(u) THEN u[i] ELSE v[i - Len(u)]
  BY <1>2, ConcatProperties
<1>4. Grown(u, c) = w
  BY DEF Grown, v
<1> HIDE DEF w
<1>5. ASSUME NEW i \in 1..Len(u) PROVE w[i] = u[i]
  BY <1>0, <1>2, <1>3
<1>6. w[Len(u) + 1] = Slash
  <2>1. w[Len(u) + 1] = v[Len(u) + 1 - Len(u)]
    <3>1. Len(u) + 1 \in 1..(Len(u) + Len(v)) /\ ~(Len(u) + 1 <= Len(u))
      BY <1>0, <1>2
    <3> QED BY <1>3, <3>1
  <2>2. Len(u) + 1 - Len(u) = 1
    BY <1>0
  <2>3. v[1] = <<Slash>>[1]
    BY <1>0, <1>2
  <2> QED BY <1>1, <2>1, <2>2, <2>3
<1>7. ASSUME NEW i \in 1..Len(c) PROVE w[Len(u) + 1 + i] = c[i]
  <2>1. w[Len(u) + 1 + i] = v[1 + i]
    <3>1. /\ Len(u) + 1 + i \in 1..(Len(u) + Len(v))
          /\ ~(Len(u) + 1 + i <= Len(u))
      BY <1>0, <1>2
    <3>2. w[Len(u) + 1 + i] = v[Len(u) + 1 + i - Len(u)]
      BY <1>3, <3>1
    <3>3. Len(u) + 1 + i - Len(u) = 1 + i
      BY <1>0
    <3> QED BY <3>2, <3>3
  <2>2. v[1 + i] = c[i]
    BY <1>0, <1>2
  <2> QED BY <2>1, <2>2
<1>8. w \in Seq(Nat)
  BY <1>3
<1>9. Len(w) = Len(u) + 1 + Len(c)
  <2>1. Len(w) = Len(u) + Len(v) /\ Len(v) = 1 + Len(c)
    BY <1>2, <1>3
  <2> QED BY <1>0, <2>1
<1>10. \A i \in 1..Len(u) : w[i] = u[i]
  BY <1>5
<1>11. \A i \in 1..Len(c) : w[Len(u) + 1 + i] = c[i]
  BY <1>7
<1> QED BY <1>4, <1>6, <1>8, <1>9, <1>10, <1>11, Zenon

(* One component more is one slash and the component more. *)
LEMMA WrittenAppend ==
  ASSUME NEW p \in Seq(Seq(Nat)), NEW c \in Seq(Nat)
  PROVE  Written(Append(p, c)) = Grown(Written(p), c)
<1> DEFINE q == Append(p, c)
           n == Len(p)
           m == n + 1
           s == [i \in DOMAIN p |-> <<Slash>> \o p[i]]
           r == [i \in DOMAIN q |-> <<Slash>> \o q[i]]
<1>1. n \in Nat /\ DOMAIN p = 1..n
  OBVIOUS
<1>2. /\ q # <<>> /\ DOMAIN q = 1..m
      /\ \A i \in 1..n : q[i] = p[i]
      /\ q[m] = c
  <2>1. /\ q \in Seq(Seq(Nat)) /\ q # <<>> /\ Len(q) = m
        /\ \A i \in 1..n : q[i] = p[i]
        /\ q[m] = c
    BY AppendProperties
  <2>2. DOMAIN q = 1..Len(q)
    <3> HIDE DEF q
    <3> QED BY <2>1
  <2> HIDE DEF q, n, m
  <2> QED BY <2>1, <2>2
<1>3. /\ m \in Nat /\ m # 0 /\ n <= m /\ m \in 1..m /\ m - 1 = n
      /\ \A i \in 1..n : i \in 1..m
      /\ m = 1 <=> n = 0
  BY <1>1
<1> HIDE DEF q, n, m
<1>4. s = [i \in 1..n |-> s[i]]
  <2>1. s = [i \in DOMAIN p |-> s[i]]
    OBVIOUS
  <2> QED BY <1>1, <2>1
<1>5. r = [i \in 1..m |-> r[i]]
  <2>1. r = [i \in DOMAIN q |-> r[i]]
    OBVIOUS
  <2> QED BY <1>2, <2>1
<1>6. \A i \in 1..n : s[i] = r[i]
  <2> SUFFICES ASSUME NEW i \in 1..n PROVE s[i] = r[i]
    OBVIOUS
  <2>1. i \in DOMAIN p /\ i \in DOMAIN q /\ q[i] = p[i]
    BY <1>1, <1>2, <1>3
  <2> QED BY <2>1
<1>7. r[m] = <<Slash>> \o c
  BY <1>2, <1>3
<1>8. Written(q) = FlattenSeq(r)
  BY <1>2 DEF Written
<1>9. Written(p) = IF p = <<>> THEN <<>> ELSE FlattenSeq(s)
  BY DEF Written
<1> HIDE DEF r, s
<1>10. PICK g : Joined(r, g, m)
  BY <1>3, JoinedExists
<1>11. FlattenSeq(r) = g[m]
  BY <1>3, <1>5, <1>10, FlattenJoins
<1>12. g[m] = IF m = 1 THEN r[m] ELSE g[m - 1] \o r[m]
  BY <1>3, <1>10, JoinedAt
<1>13. CASE n = 0
  <2>1. p = <<>>
    BY <1>13 DEF n
  <2>2. <<Slash>> \o c \in Seq(Nat)
    BY DEF Slash
  <2>3. <<>> \o (<<Slash>> \o c) = <<Slash>> \o c
    BY <2>2, ConcatEmptySeq
  <2>4. Written(q) = r[m]
    BY <1>3, <1>8, <1>11, <1>12, <1>13
  <2>5. Written(p) = <<>>
    BY <1>9, <2>1
  <2> QED BY <1>7, <2>3, <2>4, <2>5 DEF q, Grown
<1>14. CASE n # 0
  <2>1. PICK f : Joined(s, f, n)
    BY <1>1, JoinedExists
  <2>2. FlattenSeq(s) = f[n]
    BY <1>1, <1>4, <1>14, <2>1, FlattenJoins
  <2>3. n \in 1..n
    BY <1>1, <1>14
  <2>4. \A i \in 1..n : f[i] = g[i]
    <3>1. n \in Nat /\ m \in Nat /\ n <= m
      BY <1>1, <1>3
    <3>2. Alike(s, r, n)
      BY <1>6 DEF Alike
    <3>3. n \in Nat
      BY <3>1
    <3>4. m \in Nat
      BY <3>1
    <3>5. n <= m
      BY <3>1
    <3>6. Alike(f, g, n)
      BY <1>10, <2>1, <3>2, <3>3, <3>4, <3>5, JoinedFromAlike, Zenon
    <3> QED BY <3>6 DEF Alike
  <2>5. p # <<>>
    BY <1>14 DEF n
  <2>6. g[m] = g[n] \o r[m]
    BY <1>3, <1>12, <1>14
  <2>7. Written(q) = Written(p) \o r[m]
    BY <1>8, <1>9, <1>11, <2>2, <2>3, <2>4, <2>5, <2>6
  <2> QED BY <1>7, <2>7 DEF q, Grown
<1> QED BY <1>13, <1>14

(* A place is written in numbers. *)
LEMMA WrittenIsText ==
  ASSUME NEW p \in Seq(Seq(Nat))
  PROVE  Written(p) \in Seq(Nat)
<1> DEFINE T == {n \in Nat : \E q \in Seq(Seq(Nat)) :
                               Len(q) = n /\ Written(q) \notin Seq(Nat)}
<1>1. SUFFICES ASSUME T # {} PROVE FALSE
  <2>1. Len(p) \in Nat
    OBVIOUS
  <2> QED BY <2>1
<1>2. PICK k \in T : \A m \in T : k <= m
  <2> HIDE DEF T
  <2>1. T \in SUBSET Nat
    BY DEF T
  <2> QED BY <1>1, <2>1, LeastNat
<1>3. PICK q \in Seq(Seq(Nat)) : Len(q) = k /\ Written(q) \notin Seq(Nat)
  BY <1>2
<1>4. q # <<>>
  BY <1>3 DEF Written
<1>5. PICK r \in Seq(Seq(Nat)), c \in Seq(Nat) : q = Append(r, c)
  BY <1>4, SequenceEmptyOrAppend
<1>6. Len(r) \in Nat /\ Len(q) = Len(r) + 1
  BY <1>5, AppendProperties
<1>7. Len(r) \notin T
  <2> HIDE DEF T
  <2>1. ~(k <= Len(r))
    BY <1>3, <1>6
  <2> QED BY <1>2, <2>1
<1>8. Written(r) \in Seq(Nat)
  BY <1>6, <1>7
<1>9. Grown(Written(r), c) \in Seq(Nat)
  BY <1>8, GrownAt
<1> QED BY <1>3, <1>5, <1>9, WrittenAppend

(* A text that is where it should be grows by what follows. *)
LEMMA StandsGrown ==
  ASSUME NEW t \in Seq(Nat), NEW u \in Seq(Nat), NEW c \in Seq(Nat),
         NEW s \in 1..Len(t), Len(u) = s - 1, t[s] = Slash,
         Stands(u, t, 0), Stands(c, t, s)
  PROVE  Stands(Grown(u, c), t, 0) /\ Len(Grown(u, c)) = s + Len(c)
<1> DEFINE g == Grown(u, c)
<1>0. Len(u) \in Nat /\ Len(c) \in Nat /\ Len(t) \in Nat /\ s \in Nat
  OBVIOUS
<1>1. /\ Len(g) = Len(u) + 1 + Len(c)
      /\ \A i \in 1..Len(u) : g[i] = u[i]
      /\ g[Len(u) + 1] = Slash
      /\ \A i \in 1..Len(c) : g[Len(u) + 1 + i] = c[i]
  BY GrownAt
<1> HIDE DEF g
<1>2. Len(g) = s + Len(c) /\ 0 + Len(g) <= Len(t)
  BY <1>0, <1>1 DEF Stands
<1>3. ASSUME NEW i \in 1..Len(g) PROVE g[i] = t[0 + i]
  <2>0. i \in Nat /\ 0 + i = i
    OBVIOUS
  <2>1. CASE i < s
    <3>1. i \in 1..Len(u)
      BY <1>0, <2>0, <2>1
    <3>2. u[i] = t[0 + i]
      BY <3>1 DEF Stands
    <3> QED BY <1>1, <3>1, <3>2
  <2>2. CASE i = s
    <3>1. i = Len(u) + 1
      BY <1>0, <2>2
    <3> QED BY <1>1, <2>0, <2>2, <3>1
  <2>3. CASE i > s
    <3>1. i - s \in 1..Len(c) /\ Len(u) + 1 + (i - s) = i /\ s + (i - s) = i
      BY <1>0, <1>2, <2>0, <2>3
    <3>2. c[i - s] = t[s + (i - s)]
      BY <3>1 DEF Stands
    <3>3. g[Len(u) + 1 + (i - s)] = c[i - s]
      BY <1>1, <3>1
    <3> QED BY <2>0, <3>1, <3>2, <3>3
  <2> QED BY <1>0, <2>0, <2>1, <2>2, <2>3
<1>4. Stands(g, t, 0)
  BY <1>2, <1>3 DEF Stands
<1> QED BY <1>2, <1>4 DEF g

(* A component grows by the character that follows it. *)
LEMMA StandsLonger ==
  ASSUME NEW t \in Seq(Nat), NEW c \in Seq(Nat), NEW s \in Nat,
         Stands(c, t, s), NoSlash(c),
         s + Len(c) + 1 <= Len(t), t[s + Len(c) + 1] # Slash
  PROVE  LET d == Append(c, t[s + Len(c) + 1])
         IN  d \in Seq(Nat) /\ Stands(d, t, s) /\ NoSlash(d) /\ Len(d) = Len(c) + 1
<1> DEFINE x == t[s + Len(c) + 1]
           d == Append(c, x)
<1>0. Len(c) \in Nat /\ Len(t) \in Nat
  OBVIOUS
<1>1. x \in Nat
  <2>1. s + Len(c) + 1 \in 1..Len(t)
    BY <1>0
  <2> QED BY <2>1
<1>2. x # Slash /\ x = t[s + Len(c) + 1]
  OBVIOUS
<1> HIDE DEF x
<1>3. /\ d \in Seq(Nat) /\ Len(d) = Len(c) + 1
      /\ \A i \in 1..Len(c) : d[i] = c[i]
      /\ d[Len(c) + 1] = x
  BY <1>1, AppendProperties
<1> HIDE DEF d
<1>4. ASSUME NEW i \in 1..Len(d) PROVE d[i] = t[s + i] /\ d[i] # Slash
  <2>1. CASE i \in 1..Len(c)
    <3>1. c[i] = t[s + i] /\ c[i] # Slash
      BY <2>1 DEF Stands, NoSlash
    <3> QED BY <1>3, <2>1, <3>1
  <2>2. CASE i = Len(c) + 1
    <3>1. s + i = s + Len(c) + 1
      BY <1>0, <2>2
    <3> QED BY <1>2, <1>3, <2>2, <3>1
  <2> QED BY <1>0, <1>3, <2>1, <2>2
<1>5. s + Len(d) <= Len(t)
  BY <1>0, <1>3
<1>6. Stands(d, t, s) /\ NoSlash(d)
  BY <1>4, <1>5 DEF Stands, NoSlash
<1> QED BY <1>3, <1>6 DEF d, x

----------------------------------------------------------------------------
(* Of the first n characters of t, all that was read is written: the place  *)
(* reached, a slash, and the component that is being read.                  *)
Reached(t, a, n) ==
  \E s \in 1..n :
    /\ a \in [place : Seq(Seq(Nat)), component : Seq(Nat)]
    /\ t[s] = Slash /\ s + Len(a.component) = n
    /\ NoSlash(a.component) /\ Stands(a.component, t, s)
    /\ Stands(Written(a.place), t, 0) /\ Len(Written(a.place)) = s - 1

(* A text of which parse() refuses no component. *)
Canonical(t) ==
  /\ t \in Seq(Nat) /\ t # <<>> /\ t[1] = Slash
  /\ \A i \in 1..Len(t) :
       t[i] = Slash => ComponentAfter(t, i) \notin {<<>>, <<Dot>>, <<Dot, Dot>>}

(* A component that ends is entered. *)
LEMMA ComponentIsEntered ==
  ASSUME NEW t, Canonical(t), NEW s \in 1..Len(t), t[s] = Slash,
         NEW place, NEW c \in Seq(Nat), Complete(c, t, s)
  PROVE  Enter(place, c) = Append(place, c)
<1>1. ComponentAfter(t, s) = c
  BY ComponentIsComplete DEF Canonical
<1>2. c \notin {<<>>, <<Dot>>, <<Dot, Dot>>}
  BY <1>1 DEF Canonical
<1> QED BY <1>2 DEF Enter

(* The root is reached at the first slash, *)
LEMMA RootIsReached ==
  ASSUME NEW t, Canonical(t)
  PROVE  Reached(t, Walk(AtRoot, t[1]), 1)
<1> DEFINE a == Walk(AtRoot, t[1])
<1>1. a.place = <<>> /\ a.component = <<>>
  BY DEF Walk, AtRoot, Enter, Canonical
<1>6. a = [place |-> a.place, component |-> a.component]
  BY DEF Walk, AtRoot, Canonical
<1> HIDE DEF a
<1>7. a \in [place : Seq(Seq(Nat)), component : Seq(Nat)]
  <2>1. <<>> \in Seq(Seq(Nat)) /\ <<>> \in Seq(Nat)
    OBVIOUS
  <2>2. a.place \in Seq(Seq(Nat)) /\ a.component \in Seq(Nat)
    BY <1>1, <2>1
  <2> QED BY <1>6, <2>2
<1>2. Written(a.place) = <<>>
  BY <1>1 DEF Written
<1>3. /\ <<>> \in Seq(Nat) /\ <<>> \in Seq(Seq(Nat)) /\ Len(<<>>) = 0
      /\ Len(t) \in Nat /\ Len(t) >= 1
  BY DEF Canonical
<1>4. Stands(<<>>, t, 0) /\ Stands(<<>>, t, 1) /\ NoSlash(<<>>)
  BY <1>3 DEF Stands, NoSlash
<1>5. 1 \in 1..1 /\ t[1] = Slash
  BY DEF Canonical
<1> QED BY <1>1, <1>2, <1>3, <1>4, <1>5, <1>7 DEF Reached, a

(* each further slash enters the component before it, and any other         *)
(* character belongs to it.                                                 *)
LEMMA ReachedFurther ==
  ASSUME NEW t, Canonical(t), NEW n \in Nat, n + 1 <= Len(t),
         NEW a, Reached(t, a, n)
  PROVE  Reached(t, Walk(a, t[n + 1]), n + 1)
<1> DEFINE b == Walk(a, t[n + 1])
           c == a.component
           p == a.place
<1>0. t \in Seq(Nat) /\ Len(t) \in Nat
  BY DEF Canonical
<1>1. PICK s \in 1..n :
        /\ t[s] = Slash /\ s + Len(c) = n
        /\ c \in Seq(Nat) /\ NoSlash(c) /\ Stands(c, t, s)
        /\ p \in Seq(Seq(Nat))
        /\ Stands(Written(p), t, 0) /\ Len(Written(p)) = s - 1
  BY DEF Reached
<1>5. a \in [place : Seq(Seq(Nat)), component : Seq(Nat)]
  BY DEF Reached
<1>2. s \in Nat /\ s \in 1..Len(t) /\ s \in 1..(n + 1) /\ n + 1 \in 1..(n + 1)
  BY <1>0
<1>3. CASE t[n + 1] = Slash
  <2>1. b = [place |-> Enter(p, c), component |-> <<>>]
    BY <1>3 DEF Walk
  <2> HIDE DEF b, c, p
  <2>2. Complete(c, t, s)
    BY <1>1, <1>3 DEF Complete
  <2>3. Enter(p, c) = Append(p, c)
    BY <1>1, <1>2, <2>2, ComponentIsEntered
  <2>4. Append(p, c) \in Seq(Seq(Nat))
    BY <1>1, AppendProperties
  <2>5. Written(Append(p, c)) = Grown(Written(p), c)
    BY <1>1, WrittenAppend
  <2>6. Written(p) \in Seq(Nat)
    BY <1>1, WrittenIsText
  <2>7. Stands(Grown(Written(p), c), t, 0) /\ Len(Grown(Written(p), c)) = s + Len(c)
    BY <1>0, <1>1, <1>2, <2>6, StandsGrown
  <2>8. s + Len(c) = n + 1 - 1
    BY <1>1
  <2>9. /\ <<>> \in Seq(Nat) /\ NoSlash(<<>>) /\ Stands(<<>>, t, n + 1)
        /\ n + 1 + Len(<<>>) = n + 1
    BY <1>0 DEF NoSlash, Stands
  <2>10. /\ b \in [place : Seq(Seq(Nat)), component : Seq(Nat)]
         /\ b.component = <<>>
         /\ Stands(Written(b.place), t, 0) /\ Len(Written(b.place)) = n + 1 - 1
    BY <2>1, <2>3, <2>4, <2>5, <2>7, <2>8, <2>9
  <2>11. Reached(t, b, n + 1)
    BY <1>2, <1>3, <2>9, <2>10 DEF Reached
  <2> QED BY <2>11 DEF b
<1>4. CASE t[n + 1] # Slash
  <2> DEFINE d == Append(c, t[n + 1])
  <2>1. b = [place |-> p, component |-> d]
    <3>1. b = [a EXCEPT !.component = d]
      BY <1>4 DEF Walk
    <3> HIDE DEF b, d
    <3> QED BY <1>5, <3>1
  <2> HIDE DEF b, c, p
  <2>2. s + Len(c) + 1 = n + 1
    BY <1>1
  <2>3. d \in Seq(Nat) /\ Stands(d, t, s) /\ NoSlash(d) /\ Len(d) = Len(c) + 1
    <3>1. s + Len(c) + 1 <= Len(t) /\ t[s + Len(c) + 1] # Slash
      BY <1>4, <2>2
    <3>2. LET e == Append(c, t[s + Len(c) + 1])
          IN  e \in Seq(Nat) /\ Stands(e, t, s) /\ NoSlash(e) /\ Len(e) = Len(c) + 1
      BY <1>0, <1>1, <1>2, <3>1, StandsLonger
    <3> QED BY <2>2, <3>2
  <2> HIDE DEF d
  <2>4. Len(c) \in Nat
    BY <1>1
  <2>5. s + Len(d) = n + 1
    BY <1>2, <2>2, <2>3, <2>4
  <2>6. b \in [place : Seq(Seq(Nat)), component : Seq(Nat)]
    BY <1>1, <2>1, <2>3
  <2>7. b.place = p /\ b.component = d
    BY <2>1
  <2>8. Reached(t, b, n + 1)
    BY <1>1, <1>2, <1>4, <2>3, <2>5, <2>6, <2>7 DEF Reached
  <2> QED BY <2>8 DEF b
<1> QED BY <1>3, <1>4

(* So all of the text is reached. *)
LEMMA AllIsReached ==
  ASSUME NEW t, Canonical(t)
  PROVE  Reached(t, Walked(t)[Len(t)], Len(t))
<1> DEFINE w == Walked(t)
           N == Len(t)
           T == {n \in Nat : n \in 1..N /\ ~Reached(t, w[n], n)}
<1>1. N \in Nat /\ N # 0
  BY DEF Canonical
<1>2. w[0] = AtRoot /\ \A k \in 1..N : w[k] = Walk(w[k - 1], t[k])
  BY <1>1, WalkedStepByStep
<1> HIDE DEF w
<1>3. SUFFICES ASSUME T # {} PROVE FALSE
  BY <1>1 DEF w
<1>4. PICK n \in T : \A m \in T : n <= m
  <2> HIDE DEF T
  <2>1. T \in SUBSET Nat
    BY DEF T
  <2> QED BY <1>3, <2>1, LeastNat
<1>5. n \in 1..N /\ ~Reached(t, w[n], n)
  BY <1>4
<1>6. w[n] = Walk(w[n - 1], t[n])
  BY <1>2, <1>5
<1>7. CASE n = 1
  <2>1. w[n] = Walk(AtRoot, t[1])
    BY <1>2, <1>6, <1>7
  <2> QED BY <1>5, <1>7, <2>1, RootIsReached
<1>8. CASE n # 1
  <2>1. n - 1 \in Nat /\ n - 1 \in 1..N /\ ~(n <= n - 1) /\ n - 1 + 1 = n /\ n <= Len(t)
    BY <1>5, <1>8
  <2>2. n - 1 \notin T
    BY <1>4, <2>1
  <2>3. Reached(t, w[n - 1], n - 1)
    BY <2>1, <2>2
  <2> DEFINE m == n - 1
  <2>4. m \in Nat /\ m + 1 <= Len(t) /\ Reached(t, w[m], m)
    BY <2>1, <2>3
  <2> HIDE DEF m
  <2>5. Reached(t, Walk(w[m], t[m + 1]), m + 1)
    BY <2>4, ReachedFurther
  <2> QED BY <1>5, <1>6, <2>1, <2>5 DEF m
<1> QED BY <1>7, <1>8

(* A text of which no component is refused is how its place is written. *)
LEMMA CanonicalIsWritten ==
  ASSUME NEW t, Canonical(t)
  PROVE  t = PathTo(PlaceOf(t))
<1> DEFINE a == Walked(t)[Len(t)]
           c == a.component
           p == a.place
           N == Len(t)
<1>0. t \in Seq(Nat) /\ N \in Nat
  BY DEF Canonical
<1>1. PlaceOf(t) = Enter(p, c)
  BY DEF PlaceOf
<1>2. Reached(t, a, N)
  BY AllIsReached
<1> HIDE DEF a
<1>3. PICK s \in 1..N :
        /\ t[s] = Slash /\ s + Len(c) = N
        /\ c \in Seq(Nat) /\ NoSlash(c) /\ Stands(c, t, s)
        /\ p \in Seq(Seq(Nat))
        /\ Stands(Written(p), t, 0) /\ Len(Written(p)) = s - 1
  BY <1>2 DEF Reached
<1> HIDE DEF c, p
<1>4. Complete(c, t, s)
  BY <1>3 DEF Complete
<1>5. Enter(p, c) = Append(p, c)
  BY <1>3, <1>4, ComponentIsEntered
<1>6. Written(p) \in Seq(Nat)
  BY <1>3, WrittenIsText
<1> DEFINE g == Grown(Written(p), c)
<1>7. Stands(g, t, 0) /\ Len(g) = s + Len(c)
  BY <1>0, <1>3, <1>6, StandsGrown
<1>8. g \in Seq(Nat)
  BY <1>3, <1>6, GrownAt
<1>9. Written(Append(p, c)) = g
  BY <1>3, WrittenAppend
<1> HIDE DEF g
<1>10. \A i \in 1..Len(g) : g[i] = t[i]
  <2>1. \A i \in 1..Len(g) : g[i] = t[0 + i]
    BY <1>7 DEF Stands
  <2>2. \A i \in 1..Len(g) : 0 + i = i
    OBVIOUS
  <2> QED BY <2>1, <2>2
<1>11. Len(g) = Len(t)
  BY <1>3, <1>7
<1>12. g = t
  BY <1>0, <1>8, <1>10, <1>11, SeqEqual
<1>13. Append(p, c) # <<>>
  BY <1>3, AppendProperties
<1>14. PathTo(Append(p, c)) = Written(Append(p, c))
  BY <1>13 DEF PathTo, Written
<1> QED BY <1>1, <1>5, <1>9, <1>12, <1>14

(* Whatever is walked, only what may stand between slashes is entered. *)
Entered(a) ==
  /\ a \in [place : Seq(Proper), component : Seq(Nat)]
  /\ NoSlash(a.component)

(* Entering a component leaves such a place, *)
LEMMA ProperIsEntered ==
  ASSUME NEW place \in Seq(Proper), NEW c \in Seq(Nat), NoSlash(c)
  PROVE  Enter(place, c) \in Seq(Proper)
<1>0. <<Dot, Dot>> # <<>> /\ <<Dot, Dot>> # <<Dot>>
  <2>1. Len(<<Dot, Dot>>) = 2 /\ Len(<<>>) = 0 /\ Len(<<Dot>>) = 1
    OBVIOUS
  <2> QED BY <2>1
<1>1. CASE c \in {<<>>, <<Dot>>}
  <2>1. Enter(place, c) = place
    BY <1>0, <1>1 DEF Enter
  <2> QED BY <2>1
<1>2. CASE c = <<Dot, Dot>>
  <2>1. c \notin {<<>>, <<Dot>>}
    BY <1>0, <1>2
  <2>2. Enter(place, c) = IF place = <<>> THEN <<>> ELSE Front(place)
    BY <1>2, <2>1 DEF Enter
  <2>3. ASSUME place # <<>> PROVE Front(place) \in Seq(Proper)
    <3>1. Len(place) \in Nat /\ Len(place) - 1 \in Int /\ 1 \in Int
      OBVIOUS
    <3>2. \A i \in 1..(Len(place) - 1) : place[i] \in Proper
      <4>1. \A i \in 1..(Len(place) - 1) : i \in 1..Len(place)
        BY <3>1
      <4>2. \A i \in 1..Len(place) : place[i] \in Proper
        OBVIOUS
      <4> QED BY <4>1, <4>2
    <3>3. SubSeq(place, 1, Len(place) - 1) \in Seq(Proper)
      BY <3>1, <3>2, SubSeqProperties
    <3> QED BY <3>3 DEF Front
  <2> QED BY <2>2, <2>3
<1>3. CASE c \notin {<<>>, <<Dot>>, <<Dot, Dot>>}
  <2>1. c \in Proper
    BY <1>3 DEF Proper
  <2>2. Enter(place, c) = Append(place, c)
    BY <1>3 DEF Enter
  <2> QED BY <2>1, <2>2, AppendProperties
<1> QED BY <1>1, <1>2, <1>3

(* so every place on the way is one. *)
LEMMA EnteredAlways ==
  ASSUME NEW t \in Seq(Nat), NEW k \in 0..Len(t)
  PROVE  Entered(Walked(t)[k])
<1> DEFINE w == Walked(t)
           N == Len(t)
           T == {n \in Nat : n \in 0..N /\ ~Entered(w[n])}
<1>1. N \in Nat
  OBVIOUS
<1>2. w[0] = AtRoot /\ \A n \in 1..N : w[n] = Walk(w[n - 1], t[n])
  BY <1>1, WalkedStepByStep
<1> HIDE DEF w
<1>3. SUFFICES ASSUME T # {} PROVE FALSE
  BY <1>1 DEF w
<1>4. PICK n \in T : \A m \in T : n <= m
  <2> HIDE DEF T
  <2>1. T \in SUBSET Nat
    BY DEF T
  <2> QED BY <1>3, <2>1, LeastNat
<1>5. n \in 0..N /\ ~Entered(w[n])
  BY <1>4
<1>6. CASE n = 0
  <2>1. w[n] = [place |-> <<>>, component |-> <<>>]
    BY <1>2, <1>6 DEF AtRoot
  <2>2. <<>> \in Seq(Proper) /\ <<>> \in Seq(Nat) /\ NoSlash(<<>>)
    BY DEF NoSlash
  <2> QED BY <1>5, <2>1, <2>2 DEF Entered
<1>7. CASE n # 0
  <2>1. n \in 1..N /\ n - 1 \in Nat /\ n - 1 \in 0..N /\ ~(n <= n - 1)
    BY <1>5, <1>7
  <2>2. Entered(w[n - 1])
    BY <1>4, <2>1
  <2> DEFINE a == w[n - 1]
  <2>3. w[n] = Walk(a, t[n])
    BY <1>2, <2>1
  <2>4. /\ a \in [place : Seq(Proper), component : Seq(Nat)]
        /\ a.place \in Seq(Proper) /\ a.component \in Seq(Nat)
        /\ NoSlash(a.component)
    BY <2>2 DEF Entered
  <2> HIDE DEF a
  <2>5. CASE t[n] = Slash
    <3>1. w[n] = [place |-> Enter(a.place, a.component), component |-> <<>>]
      BY <2>3, <2>5 DEF Walk
    <3>2. <<>> \in Seq(Nat) /\ NoSlash(<<>>)
      BY DEF NoSlash
    <3>3. Enter(a.place, a.component) \in Seq(Proper)
      BY <2>4, ProperIsEntered
    <3> QED BY <1>5, <3>1, <3>2, <3>3 DEF Entered
  <2>6. CASE t[n] # Slash
    <3> DEFINE c == a.component
    <3>1. t[n] \in Nat
      BY <2>1
    <3>2. w[n] = [place |-> a.place, component |-> Append(c, t[n])]
      <4>1. w[n] = [a EXCEPT !.component = Append(c, t[n])]
        BY <2>3, <2>6 DEF Walk
      <4> HIDE DEF c
      <4> QED BY <2>4, <4>1
    <3> HIDE DEF c
    <3>3. c \in Seq(Nat) /\ NoSlash(c)
      BY <2>4 DEF c
    <3>4. Append(c, t[n]) \in Seq(Nat) /\ NoSlash(Append(c, t[n]))
      <4>1. /\ Append(c, t[n]) \in Seq(Nat) /\ Len(Append(c, t[n])) = Len(c) + 1
            /\ \A i \in 1..Len(c) : Append(c, t[n])[i] = c[i]
            /\ Append(c, t[n])[Len(c) + 1] = t[n]
        BY <3>1, <3>3, AppendProperties
      <4>2. \A i \in 1..(Len(c) + 1) : i \in 1..Len(c) \/ i = Len(c) + 1
        BY <3>3
      <4> QED BY <2>6, <3>3, <4>1, <4>2 DEF NoSlash
    <3> QED BY <1>5, <2>4, <3>2, <3>4 DEF Entered
  <2> QED BY <2>5, <2>6
<1> QED BY <1>6, <1>7

(* A path leads to such a place. *)
LEMMA PlacesAreProper ==
  ASSUME NEW t \in Seq(Nat)
  PROVE  PlaceOf(t) \in Seq(Proper)
<1>1. Len(t) \in 0..Len(t)
  OBVIOUS
<1>2. Entered(Walked(t)[Len(t)])
  BY <1>1, EnteredAlways
<1> DEFINE a == Walked(t)[Len(t)]
<1>3. PlaceOf(t) = Enter(a.place, a.component)
  BY DEF PlaceOf
<1> HIDE DEF a
<1>4. Entered(a)
  BY <1>2 DEF a
<1> QED BY <1>3, <1>4, ProperIsEntered DEF Entered

----------------------------------------------------------------------------
(* A text in which every slash is followed by what may follow it. *)
WellWritten(u) ==
  /\ u \in Seq(Nat) /\ (u # <<>> => u[1] = Slash)
  /\ \A j \in 1..Len(u) :
       u[j] = Slash => \E c \in Proper : Complete(c, u, j)

(* It stays so when a component is put behind it. *)
LEMMA WellWrittenGrows ==
  ASSUME NEW u, WellWritten(u), NEW c \in Proper
  PROVE  WellWritten(Grown(u, c))
<1> DEFINE g == Grown(u, c)
<1>0. u \in Seq(Nat) /\ c \in Seq(Nat) /\ Len(u) \in Nat /\ Len(c) \in Nat /\ NoSlash(c)
  BY DEF WellWritten, Proper
<1>1. /\ g \in Seq(Nat) /\ Len(g) = Len(u) + 1 + Len(c)
      /\ \A i \in 1..Len(u) : g[i] = u[i]
      /\ g[Len(u) + 1] = Slash
      /\ \A i \in 1..Len(c) : g[Len(u) + 1 + i] = c[i]
  BY <1>0, GrownAt
<1> HIDE DEF g
<1>2. g[1] = Slash
  <2>1. CASE u = <<>>
    <3>1. Len(u) + 1 = 1
      BY <2>1
    <3> QED BY <1>1, <3>1
  <2>2. CASE u # <<>>
    <3>1. 1 \in 1..Len(u)
      BY <1>0, <2>2
    <3>2. u[1] = Slash
      BY <2>2 DEF WellWritten
    <3> QED BY <1>1, <3>1, <3>2
  <2> QED BY <2>1, <2>2
<1>3. ASSUME NEW j \in 1..Len(g), g[j] = Slash
      PROVE  \E d \in Proper : Complete(d, g, j)
  <2>1. CASE j \in 1..Len(u)
    <3>1. u[j] = Slash
      BY <1>1, <1>3, <2>1
    <3>2. PICK d \in Proper : Complete(d, u, j)
      BY <2>1, <3>1 DEF WellWritten
    <3>3. d \in Seq(Nat) /\ Len(d) \in Nat
      BY DEF Proper
    <3>4. /\ j + Len(d) <= Len(u) /\ \A i \in 1..Len(d) : d[i] = u[j + i]
          /\ NoSlash(d)
          /\ j + Len(d) = Len(u) \/ u[j + Len(d) + 1] = Slash
      BY <3>2 DEF Complete, Stands
    <3>5. \A i \in 1..Len(d) : j + i \in 1..Len(u)
      BY <1>0, <2>1, <3>3, <3>4
    <3>6. \A i \in 1..Len(d) : d[i] = g[j + i]
      BY <1>1, <3>4, <3>5
    <3>7. j + Len(d) <= Len(g)
      BY <1>0, <1>1, <2>1, <3>3, <3>4
    <3>8. g[j + Len(d) + 1] = Slash
      <4>1. CASE j + Len(d) = Len(u)
        BY <1>1, <4>1
      <4>2. CASE j + Len(d) # Len(u)
        <5>1. j + Len(d) + 1 \in 1..Len(u)
          BY <1>0, <2>1, <3>3, <3>4, <4>2
        <5> QED BY <1>1, <3>4, <4>2, <5>1
      <4> QED BY <4>1, <4>2
    <3> QED BY <3>4, <3>6, <3>7, <3>8 DEF Complete, Stands
  <2>2. CASE j = Len(u) + 1
    <3>1. j + Len(c) = Len(g)
      BY <1>1, <2>2
    <3>2. \A i \in 1..Len(c) : c[i] = g[j + i]
      BY <1>1, <2>2
    <3>3. j + Len(c) <= Len(g)
      BY <1>0, <2>2, <3>1
    <3> QED BY <1>0, <3>1, <3>2, <3>3 DEF Complete, Stands
  <2>3. CASE j > Len(u) + 1
    <3>1. j - (Len(u) + 1) \in 1..Len(c) /\ Len(u) + 1 + (j - (Len(u) + 1)) = j
      BY <1>0, <1>1, <2>3
    <3>2. g[Len(u) + 1 + (j - (Len(u) + 1))] = c[j - (Len(u) + 1)]
      BY <1>1, <3>1
    <3>3. c[j - (Len(u) + 1)] # Slash
      BY <1>0, <3>1 DEF NoSlash
    <3> QED BY <1>3, <3>1, <3>2, <3>3
  <2> QED BY <1>0, <2>1, <2>2, <2>3
<1>4. WellWritten(g)
  BY <1>1, <1>2, <1>3 DEF WellWritten
<1> QED BY <1>4 DEF g

(* So is every place written. *)
LEMMA WrittenWell ==
  ASSUME NEW p \in Seq(Proper)
  PROVE  WellWritten(Written(p))
<1> DEFINE T == {n \in Nat : \E q \in Seq(Proper) :
                               Len(q) = n /\ ~WellWritten(Written(q))}
<1>1. SUFFICES ASSUME T # {} PROVE FALSE
  <2>1. Len(p) \in Nat
    OBVIOUS
  <2> QED BY <2>1
<1>2. PICK k \in T : \A m \in T : k <= m
  <2> HIDE DEF T
  <2>1. T \in SUBSET Nat
    BY DEF T
  <2> QED BY <1>1, <2>1, LeastNat
<1>3. PICK q \in Seq(Proper) : Len(q) = k /\ ~WellWritten(Written(q))
  BY <1>2
<1>4. q # <<>>
  <2>1. WellWritten(<<>>)
    <3>1. <<>> \in Seq(Nat) /\ Len(<<>>) = 0
      OBVIOUS
    <3> QED BY <3>1 DEF WellWritten
  <2> QED BY <1>3, <2>1 DEF Written
<1>5. PICK r \in Seq(Proper), c \in Proper : q = Append(r, c)
  BY <1>4, SequenceEmptyOrAppend
<1>6. Len(r) \in Nat /\ Len(q) = Len(r) + 1
  BY <1>5, AppendProperties
<1>7. Len(r) \notin T
  <2> HIDE DEF T
  <2>1. ~(k <= Len(r))
    BY <1>3, <1>6
  <2> QED BY <1>2, <2>1
<1>8. WellWritten(Written(r))
  BY <1>6, <1>7
<1>9. Proper \subseteq Seq(Nat)
  BY DEF Proper
<1>10. r \in Seq(Seq(Nat)) /\ c \in Seq(Nat)
  BY <1>9, SeqMonotonic
<1>11. Written(q) = Grown(Written(r), c)
  BY <1>5, <1>10, WrittenAppend
<1> QED BY <1>3, <1>8, <1>11, WellWrittenGrows

(* A path is accepted exactly if it is the one way to write its place. *)
LEMMA CodeIsCanonical ==
  ASSUME NEW t \in Seq(Nat)
  PROVE  PathCode(t) = "ok" <=> ~ContainsNul(t) /\ t = PathTo(PlaceOf(t))
<1>0. Len(t) \in Nat
  OBVIOUS
<1>1. ASSUME PathCode(t) = "ok" PROVE ~ContainsNul(t) /\ t = PathTo(PlaceOf(t))
  <2>1. t # <<>> /\ t[1] = Slash /\ ~ContainsNul(t)
    BY <1>1 DEF PathCode
  <2>2. CASE t = <<Slash>>
    <3> DEFINE w == Walked(t)
    <3>1. Len(t) = 1
      BY <2>2
    <3>2. w[0] = AtRoot /\ w[1] = Walk(w[0], t[1])
      <4>1. w[0] = AtRoot /\ \A k \in 1..1 : w[k] = Walk(w[k - 1], t[k])
        <5>1. Walked(t)[0] = AtRoot /\ \A k \in 1..Len(t) :
                Walked(t)[k] = Walk(Walked(t)[k - 1], t[k])
          BY <1>0, WalkedStepByStep
        <5> QED BY <3>1, <5>1
      <4> HIDE DEF w
      <4>2. w[1] = Walk(w[1 - 1], t[1])
        BY <4>1
      <4> QED BY <4>1, <4>2
    <3>3. PlaceOf(t) = Enter(w[1].place, w[1].component)
      BY <3>1 DEF PlaceOf
    <3> HIDE DEF w
    <3>4. w[1].place = <<>> /\ w[1].component = <<>>
      BY <2>1, <3>2 DEF Walk, AtRoot, Enter
    <3>5. PlaceOf(t) = <<>>
      BY <3>3, <3>4 DEF Enter
    <3> QED BY <2>1, <2>2, <3>5 DEF PathTo
  <2>3. CASE t # <<Slash>>
    <3>1. \A i \in DOMAIN t : t[i] = Slash =>
            ComponentAfter(t, i) \notin {<<>>, <<Dot>>, <<Dot, Dot>>}
      BY <1>1, <2>1, <2>3 DEF PathCode
    <3>2. DOMAIN t = 1..Len(t)
      OBVIOUS
    <3>3. Canonical(t)
      BY <2>1, <3>1, <3>2 DEF Canonical
    <3> QED BY <2>1, <3>3, CanonicalIsWritten
  <2> QED BY <2>2, <2>3
<1>2. ASSUME ~ContainsNul(t), t = PathTo(PlaceOf(t)) PROVE PathCode(t) = "ok"
  <2> DEFINE p == PlaceOf(t)
  <2>1. p \in Seq(Proper)
    BY PlacesAreProper
  <2>2. t = PathTo(p)
    BY <1>2
  <2> HIDE DEF p
  <2>3. CASE p = <<>>
    <3>1. t = <<Slash>>
      BY <2>2, <2>3 DEF PathTo
    <3>2. t # <<>> /\ t[1] = Slash
      BY <3>1
    <3> QED BY <1>2, <3>1, <3>2 DEF PathCode
  <2>4. CASE p # <<>>
    <3>1. t = Written(p)
      BY <2>2, <2>4 DEF PathTo, Written
    <3>2. WellWritten(t)
      BY <2>1, <3>1, WrittenWell
    <3>3. t # <<>>
      <4>1. PICK r \in Seq(Proper), c \in Proper : p = Append(r, c)
        BY <2>1, <2>4, SequenceEmptyOrAppend
      <4>2. Proper \subseteq Seq(Nat)
        BY DEF Proper
      <4>3. r \in Seq(Seq(Nat)) /\ c \in Seq(Nat)
        BY <4>2, SeqMonotonic
      <4>4. t = Grown(Written(r), c)
        BY <3>1, <4>1, <4>3, WrittenAppend
      <4>5. Written(r) \in Seq(Nat)
        BY <4>3, WrittenIsText
      <4>6. Len(t) = Len(Written(r)) + 1 + Len(c)
        BY <4>3, <4>4, <4>5, GrownAt
      <4>7. Len(Written(r)) \in Nat /\ Len(c) \in Nat
        BY <4>3, <4>5
      <4>8. Len(t) # 0
        BY <4>6, <4>7
      <4> QED BY <4>8
    <3>4. t[1] = Slash
      BY <3>2, <3>3 DEF WellWritten
    <3>5. ASSUME NEW j \in 1..Len(t), t[j] = Slash
          PROVE  /\ j # Len(t)
                 /\ ComponentAfter(t, j) \notin {<<>>, <<Dot>>, <<Dot, Dot>>}
      <4>1. PICK c \in Proper : Complete(c, t, j)
        BY <3>2, <3>5 DEF WellWritten
      <4>2. c \in Seq(Nat) /\ c \notin {<<>>, <<Dot>>, <<Dot, Dot>>}
        BY DEF Proper
      <4>3. ComponentAfter(t, j) = c
        BY <4>1, <4>2, ComponentIsComplete
      <4>4. j + Len(c) <= Len(t) /\ Len(c) \in Nat /\ Len(c) # 0
        BY <4>1, <4>2 DEF Complete, Stands
      <4> QED BY <4>2, <4>3, <4>4
    <3>6. Last(t) # Slash
      <4>1. Len(t) \in 1..Len(t)
        BY <1>0, <3>3
      <4> QED BY <3>5, <4>1 DEF Last
    <3>7. DOMAIN t = 1..Len(t)
      OBVIOUS
    <3> QED BY <1>2, <3>3, <3>4, <3>5, <3>6, <3>7 DEF PathCode
  <2> QED BY <2>3, <2>4
<1> QED BY <1>1, <1>2

(* logical_path::parse() takes a path exactly if it is the one way to write *)
(* the place it leads to, however long it is and in every locale.           *)
THEOREM AcceptedPathsAreCanonical == PoliciesSpec => []PathsAreCanonical
<1>1. ASSUME PolicyInv PROVE PathsAreCanonical
  <2> SUFFICES ASSUME NEW a \in answers, a.kind = "path"
               PROVE  Sealed(a) <=>
                        /\ ~ContainsNul(a.declared)
                        /\ a.declared = PathTo(PlaceOf(a.declared))
    BY DEF PathsAreCanonical
  <2> DEFINE t == a.declared
  <2>1. Answered(a) /\ a.kind \in TextKinds
    BY <1>1 DEF PolicyInv, TextKinds
  <2>2. Sealed(a) <=> TextCode("path", t) = "ok"
    BY <2>1 DEF Answered
  <2>3. TextCode("path", t) = PathCode(t)
    BY DEF TextCode
  <2>4. t \in AnyText
    <3>1. t \in Declarable("path")
      BY <2>1, DeclaredIsDeclarable
    <3> QED BY <3>1 DEF Declarable
  <2>5. t \in Seq(Nat)
    <3>1. t \in Seq(Byte)
      BY <2>4 DEF AnyText, ListOf
    <3>2. Byte \subseteq Nat
      BY DEF Byte
    <3> QED BY <3>1, <3>2, SeqMonotonic
  <2> HIDE DEF t
  <2>6. PathCode(t) = "ok" <=> ~ContainsNul(t) /\ t = PathTo(PlaceOf(t))
    BY <2>5, CodeIsCanonical
  <2>7. Sealed(a) <=> ~ContainsNul(t) /\ t = PathTo(PlaceOf(t))
    BY <2>2, <2>3, <2>6
  <2> QED BY <2>7 DEF t
<1> QED BY <1>1, PolicyInvHolds, PTL
=============================================================================

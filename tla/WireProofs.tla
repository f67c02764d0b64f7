----------------------------- MODULE WireProofs -----------------------------
(***************************************************************************)
(* The writer and the reader of the durable records stay within their      *)
(* limits and agree with each other, for every grammar, every record, every *)
(* size of a digest or a record, and whatever bytes are found in place of  *)
(* those written: a record is refused exactly if it is too large, what is  *)
(* stored is read as it was, and what is read is what would be written.    *)
(***************************************************************************)
EXTENDS Wire, WellFoundedInduction, TLAPS

(* A set of numbers that is not empty has a least one. *)
LEMMA LeastNat ==
  ASSUME NEW T \in SUBSET Nat, T # {}
  PROVE  \E n \in T : \A m \in T : n <= m
<1> DEFINE R == OpToRel(<, Nat)
<1>1. IsWellFoundedOn(R, Nat)
  BY NatLessThanWellFounded
<1>2. \A m, k \in Nat : m < k => <<m, k>> \in R
  BY DEF OpToRel
<1> HIDE DEF R
<1>3. PICK n \in T : \A m \in T : <<m, n>> \notin R
  BY <1>1, WFMin
<1>4. \A m \in T : ~(m < n)
  BY <1>2, <1>3
<1>5. \A m \in T : n <= m
  BY <1>4
<1> QED BY <1>5

----------------------------------------------------------------------------
(* Pieces put together, one after another. *)
Joined(s, f, n) ==
  f = [i \in 1..n |-> IF i = 1 THEN s[i] ELSE f[i - 1] \o s[i]]

(* One piece more is put behind those before it. *)
LEMMA JoinedAt ==
  ASSUME NEW s, NEW f, NEW n, Joined(s, f, n), NEW i \in 1..n
  PROVE  f[i] = IF i = 1 THEN s[i] ELSE f[i - 1] \o s[i]
<1> DEFINE F == [j \in 1..n |-> IF j = 1 THEN s[j] ELSE f[j - 1] \o s[j]]
<1>1. F[i] = IF i = 1 THEN s[i] ELSE f[i - 1] \o s[i]
  OBVIOUS
<1>2. f = F
  BY DEF Joined
<1>3. f[i] = F[i]
  <2> HIDE DEF F
  <2> QED BY <1>2
<1> QED BY <1>1, <1>3

(* Pieces can be put together, however many they are. *)
LEMMA JoinedExists ==
  ASSUME NEW s, NEW n \in Nat
  PROVE  \E f : Joined(s, f, n)
<1> DEFINE T == {k \in Nat : \A f : ~Joined(s, f, k)}
<1>1. SUFFICES ASSUME T # {} PROVE FALSE
  OBVIOUS
<1>2. PICK k \in T : \A m \in T : k <= m
  <2> HIDE DEF T
  <2>1. T \in SUBSET Nat
    BY DEF T
  <2> QED BY <1>1, <2>1, LeastNat
<1>3. CASE k = 0
  <2> DEFINE f == [i \in 1..0 |-> 0]
  <2>1. Joined(s, f, 0)
    BY DEF Joined
  <2> QED BY <1>2, <1>3, <2>1
<1>4. CASE k # 0
  <2>1. k - 1 \in Nat /\ k - 1 \notin T
    BY <1>2, <1>4
  <2>2. PICK f : Joined(s, f, k - 1)
    BY <2>1
  <2> DEFINE g == [i \in 1..k |-> IF i < k THEN f[i]
                                  ELSE IF i = 1 THEN s[i] ELSE f[i - 1] \o s[i]]
  <2>3. ASSUME NEW i \in 1..k
        PROVE  g[i] = IF i = 1 THEN s[i] ELSE g[i - 1] \o s[i]
    <3>1. CASE i = k
      BY <3>1, <1>4
    <3>2. CASE i < k
      <4>0. i \in 1..(k - 1)
        BY <3>2
      <4>1. f[i] = IF i = 1 THEN s[i] ELSE f[i - 1] \o s[i]
        BY <2>2, <4>0, JoinedAt
      <4>2. g[i] = f[i] /\ (i # 1 => g[i - 1] = f[i - 1])
        BY <3>2
      <4> QED BY <4>1, <4>2
    <3> QED BY <3>1, <3>2
  <2>4. Joined(s, g, k)
    <3>1. g = [i \in 1..k |-> g[i]]
      OBVIOUS
    <3> HIDE DEF g
    <3> QED BY <2>3, <3>1 DEF Joined
  <2> QED BY <1>2, <2>4
<1> QED BY <1>3, <1>4

(* Pieces that begin alike are put together alike, as far as they do. *)
LEMMA JoinedAlike ==
  ASSUME NEW s, NEW t, NEW f, NEW g, NEW m \in Nat, NEW n \in Nat, m <= n,
         Joined(s, f, m), Joined(t, g, n), \A i \in 1..m : s[i] = t[i]
  PROVE  \A i \in 1..m : f[i] = g[i]
<1> DEFINE T == {i \in 1..m : f[i] # g[i]}
<1>1. SUFFICES ASSUME T # {} PROVE FALSE
  OBVIOUS
<1>2. PICK k \in T : \A i \in T : k <= i
  <2> HIDE DEF T
  <2>1. T \in SUBSET Nat
    BY DEF T
  <2> QED BY <1>1, <2>1, LeastNat
<1>3. f[k] = IF k = 1 THEN s[k] ELSE f[k - 1] \o s[k]
  BY <1>2, JoinedAt
<1>4. g[k] = IF k = 1 THEN t[k] ELSE g[k - 1] \o t[k]
  <2>1. k \in 1..n
    BY <1>2
  <2> QED BY <2>1, JoinedAt
<1>5. k # 1 => f[k - 1] = g[k - 1]
  <2>1. k # 1 => k - 1 \in 1..m /\ k - 1 \notin T
    BY <1>2
  <2> QED BY <2>1
<1> QED BY <1>2, <1>3, <1>4, <1>5

(* FlattenSeq() puts its pieces together. *)
LEMMA FlattenJoins ==
  ASSUME NEW n \in Nat, n # 0, NEW s, s = [i \in 1..n |-> s[i]],
         NEW f, Joined(s, f, n)
  PROVE  FlattenSeq(s) = f[n]
<1>1. Len(s) = n
  OBVIOUS
<1> DEFINE g == CHOOSE h : Joined(s, h, n)
<1>2. FlattenSeq(s) = g[n]
  BY <1>1 DEF FlattenSeq, Joined
<1>3. Joined(s, g, n)
  OBVIOUS
<1> HIDE DEF g
<1>4. n \in 1..n
  OBVIOUS
<1> QED BY <1>2, <1>3, <1>4, JoinedAlike

(* The pieces a record is written as: each field there with what precedes   *)
(* it; and the payload up to a field.                                       *)
Piece(r, i) ==
  IF Present(r, i) THEN Prefix(r[i], Grammar[i]) \o r[i] ELSE <<>>

Upto(r, n) == FlattenSeq([i \in 1..n |-> Piece(r, i)])

LEMMA PayloadIsAll ==
  ASSUME NEW r
  PROVE  PayloadOf(r) = Upto(r, Len(Grammar))
<1>1. DOMAIN Grammar = 1..Len(Grammar)
  BY WireAssumption
<1> QED BY <1>1 DEF PayloadOf, Upto, Piece

(* Nothing is written before the first field. *)
LEMMA UptoNone ==
  ASSUME NEW r
  PROVE  Upto(r, 0) = <<>>
<1> DEFINE s == [i \in 1..0 |-> Piece(r, i)]
<1>1. s = <<>>
  OBVIOUS
<1>2. Len(s) = 0
  BY <1>1
<1> HIDE DEF s
<1>3. FlattenSeq(s) = s
  BY <1>2 DEF FlattenSeq
<1> QED BY <1>1, <1>3 DEF Upto, s

(* One field more is its piece more. *)
LEMMA UptoNext ==
  ASSUME NEW r, NEW n \in Nat, Piece(r, n + 1) \in Seq(Byte)
  PROVE  Upto(r, n + 1) = Upto(r, n) \o Piece(r, n + 1)
<1> DEFINE s == [i \in 1..n |-> Piece(r, i)]
           t == [i \in 1..(n + 1) |-> Piece(r, i)]
<1>1. PICK g : Joined(t, g, n + 1)
  <2>1. n + 1 \in Nat
    OBVIOUS
  <2> HIDE DEF t
  <2> QED BY <2>1, JoinedExists
<1>2. FlattenSeq(t) = g[n + 1]
  <2>1. t = [i \in 1..(n + 1) |-> t[i]]
    OBVIOUS
  <2> HIDE DEF t
  <2> QED BY <1>1, <2>1, FlattenJoins
<1>3. g[n + 1] = IF n + 1 = 1 THEN t[n + 1] ELSE g[(n + 1) - 1] \o t[n + 1]
  <2>1. n + 1 \in 1..(n + 1)
    OBVIOUS
  <2> HIDE DEF t
  <2> QED BY <1>1, <2>1, JoinedAt
<1>4. t[n + 1] = Piece(r, n + 1)
  OBVIOUS
<1>5. CASE n = 0
  <2>1. Upto(r, n) = <<>>
    BY <1>5, UptoNone
  <2>2. Upto(r, n + 1) = Piece(r, n + 1)
    <3> HIDE DEF t
    <3> QED BY <1>2, <1>3, <1>4, <1>5 DEF Upto, t
  <2> QED BY <2>1, <2>2
<1>6. CASE n # 0
  <2>1. PICK f : Joined(s, f, n)
    BY JoinedExists
  <2>2. FlattenSeq(s) = f[n]
    <3>1. s = [i \in 1..n |-> s[i]]
      OBVIOUS
    <3> HIDE DEF s
    <3> QED BY <1>6, <2>1, <3>1, FlattenJoins
  <2>3. f[n] = g[n]
    <3>1. \A i \in 1..n : s[i] = t[i]
      OBVIOUS
    <3>2. n \in 1..n /\ n <= n + 1
      BY <1>6
    <3> HIDE DEF s, t
    <3> QED BY <1>1, <2>1, <3>1, <3>2, JoinedAlike
  <2>4. (n + 1) - 1 = n /\ n + 1 # 1
    BY <1>6
  <2>5. g[n + 1] = g[n] \o t[n + 1]
    <3> HIDE DEF t
    <3> QED BY <1>3, <2>4
  <2>6. Upto(r, n + 1) = FlattenSeq(t) /\ Upto(r, n) = FlattenSeq(s)
    BY DEF Upto
  <2> HIDE DEF s, t
  <2> QED BY <1>2, <1>4, <2>2, <2>3, <2>5, <2>6
<1> QED BY <1>5, <1>6

(* The facts about the constants that the proofs use. *)
LEMMA GrammarIsOfFields ==
  /\ Len(Grammar) \in Nat /\ DOMAIN Grammar = 1..Len(Grammar)
  /\ \A i \in 1..Len(Grammar) :
       /\ Grammar[i].kind \in Kinds /\ Grammar[i].limit \in Nat
       /\ Grammar[i].under \in Nat /\ Grammar[i].under < i
       /\ LimitFits(Grammar[i])
<1>1. Grammar \in Seq(Fields)
  BY WireAssumption
<1>2. Len(Grammar) \in Nat /\ DOMAIN Grammar = 1..Len(Grammar)
  BY <1>1
<1>3. \A i \in 1..Len(Grammar) : Grammar[i] \in Fields
  BY <1>1
<1>4. \A i \in 1..Len(Grammar) : Grammar[i].under < i /\ LimitFits(Grammar[i])
  BY <1>2, WireAssumption
<1> QED BY <1>2, <1>3, <1>4 DEF Fields

LEMMA PrefixesAreBytes ==
  ASSUME NEW value \in Seq(Byte), NEW f
  PROVE  Prefix(value, f) \in Seq(Byte)
<1>1. ASSUME NEW n \in Nat PROVE n % 256 \in Byte
  BY DEF Byte
<1>2. Len(value) \in Nat
  OBVIOUS
<1>3. Len(value) \div 256 \in Nat /\ Len(value) \div (256 * 256) \in Nat
        /\ Len(value) \div (256 * 256 * 256) \in Nat
  BY <1>2
<1>4. Bytes32(Len(value)) \in Seq(Byte) /\ Bytes16(Len(value)) \in Seq(Byte)
  BY <1>1, <1>2, <1>3 DEF Bytes32, Bytes16
<1> QED BY <1>4 DEF Prefix

----------------------------------------------------------------------------
(* Whether a field is there depends on the fields before it. *)
LEMMA PresentAlike ==
  ASSUME NEW q, NEW r, NEW i \in 1..Len(Grammar),
         \A j \in 1..(i - 1) : q[j] = r[j]
  PROVE  Present(q, i) <=> Present(r, i)
<1>1. Grammar[i].under = 0 \/ Grammar[i].under \in 1..(i - 1)
  BY GrammarIsOfFields
<1> QED BY <1>1 DEF Present

(* Records that begin alike are written alike, as far as they do. *)
LEMMA UptoAlike ==
  ASSUME NEW q, NEW r, NEW n \in 0..Len(Grammar), \A i \in 1..n : q[i] = r[i]
  PROVE  Upto(q, n) = Upto(r, n)
<1>1. ASSUME NEW i \in 1..n PROVE Piece(q, i) = Piece(r, i)
  <2>1. i \in 1..Len(Grammar) /\ \A j \in 1..(i - 1) : q[j] = r[j]
    BY GrammarIsOfFields
  <2>2. Present(q, i) <=> Present(r, i)
    BY <2>1, PresentAlike
  <2> QED BY <2>2 DEF Piece
<1>2. [i \in 1..n |-> Piece(q, i)] = [i \in 1..n |-> Piece(r, i)]
  BY <1>1
<1> QED BY <1>2 DEF Upto

LEMMA PiecesAreBytes ==
  ASSUME NEW r \in Seq(Seq(Byte)), NEW i \in 1..Len(r)
  PROVE  Piece(r, i) \in Seq(Byte)
<1>1. r[i] \in Seq(Byte)
  OBVIOUS
<1>2. Prefix(r[i], Grammar[i]) \in Seq(Byte)
  BY <1>1, PrefixesAreBytes
<1>3. Prefix(r[i], Grammar[i]) \o r[i] \in Seq(Byte)
  BY <1>1, <1>2
<1>4. <<>> \in Seq(Byte)
  OBVIOUS
<1> QED BY <1>3, <1>4 DEF Piece

LEMMA UptoIsBytes ==
  ASSUME NEW r \in Seq(Seq(Byte)), NEW n \in 0..Len(r)
  PROVE  Upto(r, n) \in Seq(Byte)
<1> DEFINE T == {k \in 0..Len(r) : Upto(r, k) \notin Seq(Byte)}
<1>1. SUFFICES ASSUME T # {} PROVE FALSE
  OBVIOUS
<1>2. PICK k \in T : \A m \in T : k <= m
  <2>1. T \in SUBSET Nat
    OBVIOUS
  <2> HIDE DEF T
  <2> QED BY <1>1, <2>1, LeastNat
<1>3. k # 0
  <2>1. <<>> \in Seq(Byte)
    OBVIOUS
  <2> QED BY <1>2, <2>1, UptoNone
<1>4. k - 1 \in 0..Len(r) /\ k - 1 \notin T /\ k - 1 \in Nat /\ k \in 1..Len(r)
        /\ (k - 1) + 1 = k
  BY <1>2, <1>3
<1>5. Upto(r, k - 1) \in Seq(Byte)
  BY <1>4
<1>6. Piece(r, k) \in Seq(Byte)
  BY <1>4, PiecesAreBytes
<1>7. Upto(r, k) = Upto(r, k - 1) \o Piece(r, k)
  BY <1>4, <1>6, UptoNext
<1>8. \A a, b \in Seq(Byte) : a \o b \in Seq(Byte)
  OBVIOUS
<1>9. Upto(r, k) \in Seq(Byte)
  BY <1>5, <1>6, <1>7, <1>8
<1> QED BY <1>2, <1>9

(* What is written up to a field begins what is written up to a later one. *)
LEMMA UptoBegins ==
  ASSUME NEW r \in Seq(Seq(Byte)), NEW m \in 0..Len(r), NEW n \in 0..Len(r),
         m <= n
  PROVE  /\ Len(Upto(r, m)) <= Len(Upto(r, n))
         /\ \A i \in 1..Len(Upto(r, m)) : Upto(r, n)[i] = Upto(r, m)[i]
<1> DEFINE Begins(k) ==
             /\ Len(Upto(r, m)) <= Len(Upto(r, k))
             /\ \A i \in 1..Len(Upto(r, m)) : Upto(r, k)[i] = Upto(r, m)[i]
           T == {k \in m..Len(r) : ~Begins(k)}
<1>1. SUFFICES ASSUME T # {} PROVE FALSE
  <2>1. n \notin T => Begins(n)
    BY DEF T
  <2> QED BY <2>1
<1>2. PICK k \in T : \A j \in T : k <= j
  <2>1. T \in SUBSET Nat
    OBVIOUS
  <2> HIDE DEF T
  <2> QED BY <1>1, <2>1, LeastNat
<1>3. \A j \in 0..Len(r) : Len(Upto(r, j)) \in Nat
  BY UptoIsBytes
<1>4. k # m
  <2>1. Begins(m)
    BY <1>3
  <2> QED BY <1>2, <2>1
<1>5. k - 1 \in m..Len(r) /\ k - 1 \notin T /\ k - 1 \in Nat /\ k \in 1..Len(r)
        /\ (k - 1) + 1 = k /\ k - 1 \in 0..Len(r)
  BY <1>2, <1>4
<1>6. Begins(k - 1)
  BY <1>5
<1>7. Piece(r, k) \in Seq(Byte) /\ Upto(r, k - 1) \in Seq(Byte) /\ Upto(r, m) \in Seq(Byte)
  BY <1>5, PiecesAreBytes, UptoIsBytes
<1>8. Upto(r, k) = Upto(r, k - 1) \o Piece(r, k)
  BY <1>5, <1>7, UptoNext
<1>9. ASSUME NEW a \in Seq(Byte), NEW b \in Seq(Byte), NEW c \in Seq(Byte),
             Len(c) <= Len(a), \A i \in 1..Len(c) : a[i] = c[i]
      PROVE  /\ Len(c) <= Len(a \o b)
             /\ \A i \in 1..Len(c) : (a \o b)[i] = c[i]
  <2>1. Len(a \o b) = Len(a) + Len(b) /\ Len(a) \in Nat /\ Len(b) \in Nat
          /\ Len(c) \in Nat
    OBVIOUS
  <2>2. \A i \in 1..Len(a) : (a \o b)[i] = a[i]
    OBVIOUS
  <2>3. \A i \in 1..Len(c) : i \in 1..Len(a)
    BY <1>9, <2>1
  <2> QED BY <1>9, <2>1, <2>2, <2>3
<1>10. Begins(k)
  <2>1. /\ Len(Upto(r, m)) <= Len(Upto(r, k - 1))
        /\ \A i \in 1..Len(Upto(r, m)) : Upto(r, k - 1)[i] = Upto(r, m)[i]
    BY <1>6
  <2> QED BY <2>1, <1>7, <1>8, <1>9
<1> QED BY <1>2, <1>10

----------------------------------------------------------------------------
(* A number is its quotient and its remainder by 256 again. *)
LEMMA BytesSplit ==
  ASSUME NEW a \in Nat, NEW b \in Byte
  PROVE  (a * 256 + b) \div 256 = a /\ (a * 256 + b) % 256 = b
  BY DEF Byte

LEMMA BytesJoin ==
  ASSUME NEW n \in Nat
  PROVE  /\ (n \div 256) * 256 + (n % 256) = n
         /\ n \div 256 \in Nat /\ n % 256 \in Byte
  BY DEF Byte

LEMMA BytesOfBytes ==
  ASSUME NEW n \in Nat
  PROVE  /\ n \div (256 * 256) = (n \div 256) \div 256
         /\ n \div (256 * 256 * 256) = ((n \div 256) \div 256) \div 256
  OBVIOUS

(* The bytes of a size are those it was read from. *)
LEMMA SizesReadAreWritten ==
  /\ \A b \in [1..4 -> Byte] : Number32(b) \in Nat /\ Bytes32(Number32(b)) = b
  /\ \A b \in [1..2 -> Byte] : Number16(b) \in Nat /\ Bytes16(Number16(b)) = b
<1>1. \A a \in Byte : a \in Nat /\ a % 256 = a
  BY DEF Byte
<1>2. ASSUME NEW b \in [1..4 -> Byte]
      PROVE  Number32(b) \in Nat /\ Bytes32(Number32(b)) = b
  <2> DEFINE x == b[1] * 256 + b[2]
             y == x * 256 + b[3]
             z == y * 256 + b[4]
  <2>1. b[1] \in Byte /\ b[2] \in Byte /\ b[3] \in Byte /\ b[4] \in Byte
    OBVIOUS
  <2>2. b[1] \in Nat /\ x \in Nat /\ y \in Nat /\ z \in Nat
    BY <1>1, <2>1
  <2>3. Number32(b) = z
    BY DEF Number32
  <2>4. x \div 256 = b[1] /\ x % 256 = b[2]
    BY <2>1, <2>2, BytesSplit
  <2>5. y \div 256 = x /\ y % 256 = b[3]
    <3>1. y = x * 256 + b[3]
      OBVIOUS
    <3> HIDE DEF x, y
    <3> QED BY <2>1, <2>2, <3>1 DEF Byte
  <2>6. z \div 256 = y /\ z % 256 = b[4]
    <3>1. z = y * 256 + b[4]
      OBVIOUS
    <3>2. y \in Nat /\ b[4] \in Byte
      BY <2>1, <2>2
    <3> HIDE DEF y, z
    <3> QED BY <3>1, <3>2 DEF Byte
  <2> HIDE DEF x, y, z
  <2>7. z \div (256 * 256) = x /\ z \div (256 * 256 * 256) = b[1]
    BY <2>2, <2>4, <2>5, <2>6, BytesOfBytes
  <2>8. b[1] % 256 = b[1]
    BY <1>1, <2>1
  <2>9. Bytes32(z) = <<b[1], b[2], b[3], b[4]>>
    BY <2>4, <2>5, <2>6, <2>7, <2>8 DEF Bytes32
  <2>10. b = <<b[1], b[2], b[3], b[4]>>
    OBVIOUS
  <2> QED BY <2>2, <2>3, <2>9, <2>10
<1>3. ASSUME NEW b \in [1..2 -> Byte]
      PROVE  Number16(b) \in Nat /\ Bytes16(Number16(b)) = b
  <2> DEFINE x == b[1] * 256 + b[2]
  <2>1. b[1] \in Byte /\ b[2] \in Byte
    OBVIOUS
  <2>2. b[1] \in Nat /\ x \in Nat
    BY <1>1, <2>1
  <2>3. Number16(b) = x
    BY DEF Number16
  <2>4. x \div 256 = b[1] /\ x % 256 = b[2]
    BY <2>1, <2>2, BytesSplit
  <2> HIDE DEF x
  <2>8. b[1] % 256 = b[1]
    BY <1>1, <2>1
  <2>9. Bytes16(x) = <<b[1], b[2]>>
    BY <2>4, <2>8 DEF Bytes16
  <2>10. b = <<b[1], b[2]>>
    OBVIOUS
  <2> QED BY <2>2, <2>3, <2>9, <2>10
<1> QED BY <1>2, <1>3

(* A size that fits its bytes is read from them. *)
LEMMA SizesWrittenAreRead ==
  ASSUME NEW n \in Nat
  PROVE  /\ n \div (256 * 256 * 256) < 256 => Number32(Bytes32(n)) = n
         /\ n < 256 * 256 => Number16(Bytes16(n)) = n
<1> DEFINE x == n \div 256
           y == x \div 256
           z == y \div 256
<1>1. x \in Nat /\ x * 256 + (n % 256) = n
  BY BytesJoin
<1>2. y \in Nat /\ y * 256 + (x % 256) = x
  <2> HIDE DEF x
  <2> QED BY <1>1, BytesJoin
<1>3. z \in Nat /\ z * 256 + (y % 256) = y
  <2> HIDE DEF y
  <2> QED BY <1>2, BytesJoin
<1>4. n \div (256 * 256) = y /\ n \div (256 * 256 * 256) = z
  BY BytesOfBytes
<1>5. n < 256 * 256 => x < 256
  OBVIOUS
<1>6. \A k \in Nat : k < 256 => k % 256 = k
  OBVIOUS
<1> HIDE DEF x, y, z
<1>7. Bytes32(n) = <<z % 256, y % 256, x % 256, n % 256>>
        /\ Bytes16(n) = <<x % 256, n % 256>>
  <2>1. n \div 256 = x
    BY DEF x
  <2> QED BY <1>4, <2>1 DEF Bytes32, Bytes16
<1>8. ASSUME z < 256 PROVE Number32(Bytes32(n)) = n
  <2>1. z % 256 = z
    BY <1>3, <1>6, <1>8
  <2>2. Number32(Bytes32(n)) = ((z * 256 + (y % 256)) * 256 + (x % 256)) * 256 + (n % 256)
    BY <1>7, <2>1 DEF Number32
  <2> QED BY <1>1, <1>2, <1>3, <2>2
<1>9. ASSUME x < 256 PROVE Number16(Bytes16(n)) = n
  <2>1. x % 256 = x
    BY <1>1, <1>6, <1>9
  <2>2. Number16(Bytes16(n)) = x * 256 + (n % 256)
    BY <1>7, <2>1 DEF Number16
  <2> QED BY <1>1, <2>2
<1> QED BY <1>4, <1>5, <1>8, <1>9

----------------------------------------------------------------------------
(* Nothing has been read before the record is opened. *)
Unread ==
  stage \in {"writing", "refused", "stored", "found"} =>
    limit = 0 /\ offset = 0 /\ values = <<>>

Inv == TypeOK /\ EncodingsAreBounded /\ Unread /\ ReadsStayInside

LEMMA SequencesWiden ==
  ASSUME NEW S, NEW T, S \subseteq T, NEW s \in Seq(S)
  PROVE  s \in Seq(T)
<1>1. Len(s) \in Nat /\ s \in [1..Len(s) -> S]
  OBVIOUS
<1>2. s \in [1..Len(s) -> T]
  BY <1>1
<1> QED BY <1>1, <1>2

LEMMA BytesAreNumbers == \A b \in Byte : b \in Nat
  BY DEF Byte

LEMMA SizesAreGiven ==
  /\ DigestSize \in Nat /\ MaxEncoding \in Nat
  /\ Checksum \in Seq(Byte) /\ Len(Checksum) = DigestSize
<1>1. DigestSize \in Nat /\ MaxEncoding \in Nat
  BY WireAssumption
<1>2. 0 \in Byte
  BY DEF Byte
<1>3. Checksum \in [1..DigestSize -> Byte]
  BY <1>2 DEF Checksum
<1> QED BY <1>1, <1>3

(* A record has a sequence of bytes for each field of the grammar. *)
LEMMA RecordsAreBytes ==
  ASSUME NEW r \in Records
  PROVE  r \in Seq(Seq(Byte)) /\ Len(r) = Len(Grammar) /\ IsRecord(r)
<1>1. IsRecord(r)
  BY WireAssumption
<1> QED BY <1>1 DEF IsRecord

(* What the writer is given for a field is a sequence of bytes. *)
LEMMA FieldsAreBytes ==
  ASSUME NEW r \in Records, NEW i \in DOMAIN Grammar
  PROVE  r[i] \in Seq(Byte)
<1>1. r \in Seq(Seq(Byte)) /\ i \in 1..Len(r)
  BY RecordsAreBytes, GrammarIsOfFields
<1> QED BY <1>1

(* Bytes taken from the input, whatever lies beyond it, are bytes. *)
LEMMA BytesAreTaken ==
  ASSUME input \in Seq(Byte), NEW start \in Nat, NEW n \in Nat
  PROVE  BytesAt(start, n) \in [1..n -> Byte]
<1>1. ASSUME NEW i \in 1..n
      PROVE  (IF start + i <= Len(input) THEN input[start + i] ELSE 0) \in Byte
  <2>1. CASE start + i <= Len(input)
    <3>1. start + i \in 1..Len(input)
      BY <2>1
    <3> QED BY <2>1, <3>1
  <2>2. CASE ~(start + i <= Len(input))
    BY <2>2 DEF Byte
  <2> QED BY <2>1, <2>2
<1> QED BY <1>1 DEF BytesAt

(* A size the reader takes from the input is a natural number. *)
LEMMA SizesAreNatural ==
  ASSUME input \in Seq(Byte), offset \in Nat, NEW i \in DOMAIN Grammar
  PROVE  ValueSize(Grammar[i]) \in Nat /\ PrefixSize(Grammar[i]) \in Nat
<1>1. Grammar[i].limit \in Nat
  BY GrammarIsOfFields
<1>2. /\ BytesAt(offset, 4) \in [1..4 -> Byte]
      /\ BytesAt(offset, 2) \in [1..2 -> Byte]
  BY BytesAreTaken
<1>3. ASSUME NEW b \in [1..4 -> Byte] PROVE Number32(b) \in Nat
  <2>1. b[1] \in Byte /\ b[2] \in Byte /\ b[3] \in Byte /\ b[4] \in Byte
    OBVIOUS
  <2>2. b[1] \in Nat /\ b[2] \in Nat /\ b[3] \in Nat /\ b[4] \in Nat
    BY <2>1, BytesAreNumbers
  <2> QED BY <2>2 DEF Number32
<1>4. ASSUME NEW b \in [1..2 -> Byte] PROVE Number16(b) \in Nat
  <2>1. b[1] \in Byte /\ b[2] \in Byte
    OBVIOUS
  <2>2. b[1] \in Nat /\ b[2] \in Nat
    BY <2>1, BytesAreNumbers
  <2> QED BY <2>2 DEF Number16
<1> QED BY <1>1, <1>2, <1>3, <1>4 DEF ValueSize, PrefixSize

LEMMA InitInv == Init => Inv
<1> SUFFICES ASSUME Init PROVE Inv
  OBVIOUS
<1>1. 1 \in 1..(Len(Grammar) + 1) /\ 0 <= Len(Grammar)
  BY GrammarIsOfFields
<1>2. <<>> \in Seq(Byte) /\ <<>> \in Seq(Seq(Byte)) /\ Len(<<>>) = 0
  OBVIOUS
<1>3. TypeOK
  <2>1. limit \in 0..Len(input) /\ offset \in 0..Len(input)
    BY <1>2 DEF Init
  <2>2. Len(values) <= Len(Grammar)
    BY <1>1, <1>2 DEF Init
  <2> QED BY <1>1, <1>2, <2>1, <2>2 DEF Init, TypeOK
<1>4. EncodingsAreBounded
  BY <1>2, SizesAreGiven DEF Init, EncodingsAreBounded
<1> QED BY <1>3, <1>4 DEF Init, Inv, Unread, ReadsStayInside

LEMMA WriteFieldInv == Inv /\ WriteField => Inv'
<1> SUFFICES ASSUME Inv, WriteField PROVE Inv'
  OBVIOUS
<1> DEFINE f == Grammar[next]
           value == record[next]
           written == Len(output) + Len(Prefix(value, f))
<1>1. next \in DOMAIN Grammar /\ next \in Nat
  BY GrammarIsOfFields DEF Inv, TypeOK, WriteField
<1>2. value \in Seq(Byte) /\ Prefix(value, f) \in Seq(Byte)
  BY <1>1, FieldsAreBytes, PrefixesAreBytes DEF Inv, TypeOK
<1>3. output \in Seq(Byte) /\ MaxEncoding \in Nat /\ Len(output) <= MaxEncoding
  BY SizesAreGiven DEF Inv, TypeOK, EncodingsAreBounded
<1>4. output' \in Seq(Byte) /\ Len(output') <= MaxEncoding
  <2>1. CASE output' = output
    BY <2>1, <1>3
  <2>2. CASE Room(f, value) /\ output' = output \o Prefix(value, f) \o value
    <3>1. Len(output') = written + Len(value) /\ output' \in Seq(Byte)
      BY <2>2, <1>2, <1>3
    <3>2. written \in Nat /\ Len(value) \in Nat /\ written <= MaxEncoding
      BY <2>2, <1>2, <1>3 DEF Room
    <3>3. Minus(MaxEncoding, written) = MaxEncoding - written
      BY <3>2, <1>3 DEF Minus
    <3>4. value = <<>> => Len(value) = 0
      BY <1>2
    <3>5. \/ value = <<>> \/ Len(value) <= Minus(MaxEncoding, written)
          \/ written + Len(value) <= MaxEncoding
      BY <2>2 DEF Room
    <3>6. CASE value = <<>>
      <4>1. Len(output') = written
        BY <3>1, <3>2, <3>4, <3>6
      <4> QED BY <3>1, <3>2, <4>1
    <3>7. CASE Len(value) <= MaxEncoding - written
      <4>1. \A w, n, m \in Nat : n <= m - w => w + n <= m
        OBVIOUS
      <4>2. written + Len(value) <= MaxEncoding
        BY <3>2, <3>7, <4>1, <1>3
      <4> QED BY <3>1, <4>2
    <3>8. CASE written + Len(value) <= MaxEncoding
      BY <3>1, <3>8
    <3> QED BY <3>3, <3>5, <3>6, <3>7, <3>8
  <2> QED BY <2>1, <2>2 DEF WriteField
<1>5. stage' \in {"writing", "refused"}
  BY DEF WriteField
<1>6. next' \in 1..(Len(Grammar) + 1)
  BY <1>1, GrammarIsOfFields DEF WriteField
<1>7. UNCHANGED <<record, input, genuine, limit, offset, values>>
  BY DEF WriteField
<1>8. limit = 0 /\ offset = 0 /\ values = <<>>
  BY DEF Inv, Unread, WriteField
<1> QED BY <1>4, <1>5, <1>6, <1>7, <1>8
        DEF Inv, TypeOK, EncodingsAreBounded, Unread, ReadsStayInside

LEMMA WriteChecksumInv == Inv /\ WriteChecksum => Inv'
<1> SUFFICES ASSUME Inv, WriteChecksum PROVE Inv'
  OBVIOUS
<1>1. output \in Seq(Byte) /\ Len(output) <= MaxEncoding
  BY DEF Inv, TypeOK, EncodingsAreBounded
<1>2. output' \in Seq(Byte) /\ Len(output') <= MaxEncoding
  <2>1. CASE output' = output
    BY <1>1, <2>1
  <2>2. CASE /\ Len(output) + DigestSize <= MaxEncoding
             /\ output' = output \o Checksum
    <3>1. \A s, t \in Seq(Byte) : s \o t \in Seq(Byte)
                                /\ Len(s \o t) = Len(s) + Len(t)
      OBVIOUS
    <3>2. output' \in Seq(Byte) /\ Len(output') = Len(output) + DigestSize
      BY <1>1, <2>2, <3>1, SizesAreGiven
    <3> QED BY <2>2, <3>2
  <2> QED BY <2>1, <2>2 DEF WriteChecksum
<1>3. stage' \in {"stored", "refused"}
  BY DEF WriteChecksum
<1>4. UNCHANGED <<record, next, input, genuine, limit, offset, values>>
  BY DEF WriteChecksum
<1>5. limit = 0 /\ offset = 0 /\ values = <<>>
  BY DEF Inv, Unread, WriteChecksum
<1> QED BY <1>2, <1>3, <1>4, <1>5
        DEF Inv, TypeOK, EncodingsAreBounded, Unread, ReadsStayInside

(* Whatever is found is a sequence of bytes. *)
LEMMA FindInv ==
  ASSUME Inv, NEW bytes \in Seq(Byte), NEW right \in BOOLEAN, Find(bytes, right)
  PROVE  Inv'
<1>1. limit = 0 /\ offset = 0 /\ values = <<>> /\ Len(bytes) \in Nat
  BY DEF Inv, Unread, Find
<1>2. input' = bytes /\ genuine' = right /\ stage' = "found"
        /\ UNCHANGED <<record, next, output, limit, offset, values>>
  BY DEF Find
<1> QED BY <1>1, <1>2
        DEF Inv, TypeOK, EncodingsAreBounded, Unread, ReadsStayInside

LEMMA FindIntactInv == Inv /\ FindIntact => Inv'
  BY FindInv DEF FindIntact, Inv, TypeOK

LEMMA FindTruncatedInv == Inv /\ FindTruncated => Inv'
<1> SUFFICES ASSUME Inv, NEW n \in 0..(Len(output) - 1),
                    Find(SubSeq(output, 1, n), FALSE)
             PROVE  Inv'
  BY DEF FindTruncated
<1>1. SubSeq(output, 1, n) \in Seq(Byte)
  BY DEF Inv, TypeOK
<1> QED BY <1>1, FindInv

LEMMA FindForeignInv == Inv /\ FindForeign => Inv'
<1> SUFFICES ASSUME Inv, FindForeign PROVE Inv'
  OBVIOUS
<1> DEFINE size == Len(output) - DigestSize
           payload == SubSeq(output, 1, size)
<1>1. Checksum \in Seq(Byte)
  BY SizesAreGiven
<1>2. output \in Seq(Byte) /\ DigestSize \in Nat /\ Changes \subseteq Byte
  BY WireAssumption DEF Inv, TypeOK
<1>3. payload \in Seq(Byte)
  BY <1>2
<1>4. CASE \E i \in 1..size, b \in Changes :
             Find([payload EXCEPT ![i] = b] \o Checksum, TRUE)
  <2>1. PICK i \in 1..size, b \in Changes :
          Find([payload EXCEPT ![i] = b] \o Checksum, TRUE)
    BY <1>4
  <2>2. [payload EXCEPT ![i] = b] \in Seq(Byte)
    BY <1>2, <1>3
  <2>3. [payload EXCEPT ![i] = b] \o Checksum \in Seq(Byte)
    BY <1>1, <2>2
  <2> QED BY <2>1, <2>3, FindInv
<1>5. CASE \E n \in 0..(size - 1) :
             Find(SubSeq(payload, 1, n) \o Checksum, TRUE)
  <2>1. PICK n \in 0..(size - 1) : Find(SubSeq(payload, 1, n) \o Checksum, TRUE)
    BY <1>5
  <2>2. SubSeq(payload, 1, n) \o Checksum \in Seq(Byte)
    BY <1>1, <1>2, <1>3
  <2> QED BY <2>1, <2>2, FindInv
<1>6. CASE \E b \in Changes : Find(Append(payload, b) \o Checksum, TRUE)
  <2>1. PICK b \in Changes : Find(Append(payload, b) \o Checksum, TRUE)
    BY <1>6
  <2>2. Append(payload, b) \o Checksum \in Seq(Byte)
    BY <1>1, <1>2, <1>3
  <2> QED BY <2>1, <2>2, FindInv
<1> QED BY <1>4, <1>5, <1>6 DEF FindForeign

(* A record that is long enough has a payload before its checksum. *)
LEMMA OpenInv == Inv /\ Open => Inv'
<1> SUFFICES ASSUME Inv, Open PROVE Inv'
  OBVIOUS
<1>1. offset = 0 /\ limit = 0 /\ values = <<>>
  BY DEF Inv, Unread, Open
<1>2. DigestSize \in Nat /\ Len(Header) \in Nat /\ Len(input) \in Nat
  BY WireAssumption DEF Inv, TypeOK
<1>3. UNCHANGED <<record, next, output, input, genuine, offset, values>>
  BY DEF Open
<1>4. CASE stage' = "corrupt" /\ limit' = limit
  BY <1>1, <1>3, <1>4 DEF Inv, TypeOK, EncodingsAreBounded, Unread,
    ReadsStayInside
<1>5. CASE /\ stage' = "reading"
           /\ limit' = Minus(Len(input), DigestSize)
           /\ Len(input) >= Len(Header) + DigestSize
  <2>1. limit' = Len(input) - DigestSize /\ Len(input) >= DigestSize
    BY <1>2, <1>5 DEF Minus
  <2>2. /\ limit' \in 0..Len(input) /\ 0 <= limit'
        /\ limit' + DigestSize = Len(input)
    BY <1>2, <2>1
  <2> QED BY <1>1, <1>2, <1>3, <1>5, <2>2
          DEF Inv, TypeOK, EncodingsAreBounded, Unread, ReadsStayInside
<1> QED BY <1>2, <1>4, <1>5 DEF Open

(* What is required of the rest of the payload is there: the difference is  *)
(* the one of numbers, as the offset has not passed the limit.              *)
LEMMA ReadFieldInv == Inv /\ ReadField => Inv'
<1> SUFFICES ASSUME Inv, ReadField PROVE Inv'
  OBVIOUS
<1> DEFINE i == Len(values) + 1
           f == Grammar[i]
           size == ValueSize(f)
           value == BytesAt(offset + PrefixSize(f), size)
<1>1. values \in Seq(Seq(Byte)) /\ input \in Seq(Byte) /\ Len(input) \in Nat
        /\ limit \in Nat /\ offset \in Nat /\ DigestSize \in Nat
        /\ offset <= limit /\ limit + DigestSize = Len(input)
  BY WireAssumption DEF Inv, TypeOK, ReadsStayInside, ReadField
<1>2. i \in DOMAIN Grammar /\ i \in Nat /\ i <= Len(Grammar)
  BY <1>1, WireAssumption DEF ReadField
<1>3. size \in Nat /\ PrefixSize(f) \in Nat
  BY <1>1, <1>2, SizesAreNatural
<1>4. UNCHANGED <<record, next, output, input, genuine, limit>>
  BY DEF ReadField
<1>5. ASSUME NEW v \in Seq(Byte), NEW n \in Nat, n <= limit - offset,
             Take(v, n)
      PROVE  Inv'
  <2>1. stage' = stage /\ offset' = offset + n /\ values' = Append(values, v)
    BY <1>5 DEF Take
  <2>2. values' \in Seq(Seq(Byte)) /\ Len(values') <= Len(Grammar)
    BY <1>1, <1>2, <2>1
  <2>3. offset' \in 0..Len(input) /\ offset' <= limit
    BY <1>1, <1>5, <2>1
  <2>4. stage = "reading"
    BY DEF ReadField
  <2> QED BY <1>1, <1>4, <2>1, <2>2, <2>3, <2>4
          DEF Inv, TypeOK, EncodingsAreBounded, Unread, ReadsStayInside
<1>6. CASE Take(<<>>, 0)
  <2>1. <<>> \in Seq(Byte) /\ 0 \in Nat /\ 0 <= limit - offset
    BY <1>1
  <2> QED BY <1>5, <1>6, <2>1
<1>7. CASE Required(PrefixSize(f) + size) /\ Take(value, PrefixSize(f) + size)
  <2>1. PrefixSize(f) + size <= limit - offset
    BY <1>1, <1>7 DEF Required, Minus
  <2>2. value \in [1..size -> Byte]
    <3>1. offset + PrefixSize(f) \in Nat
      BY <1>1, <1>3
    <3> QED BY <1>1, <1>3, <3>1, BytesAreTaken
  <2>3. value \in Seq(Byte)
    BY <1>3, <2>2
  <2> QED BY <1>3, <1>5, <1>7, <2>1, <2>3
<1>8. CASE Corrupt
  BY <1>1, <1>4, <1>8 DEF Corrupt, Inv, TypeOK, EncodingsAreBounded, Unread,
    ReadsStayInside
<1> QED BY <1>6, <1>7, <1>8 DEF ReadField

LEMMA FinishReadingInv == Inv /\ FinishReading => Inv'
  BY DEF Inv, TypeOK, EncodingsAreBounded, Unread, ReadsStayInside,
    FinishReading

LEMMA StutterInv == Inv /\ UNCHANGED vars => Inv'
  BY DEF Inv, TypeOK, EncodingsAreBounded, Unread, ReadsStayInside, vars

LEMMA NextInv == Inv /\ [Next]_vars => Inv'
  BY WriteFieldInv, WriteChecksumInv, FindIntactInv, FindTruncatedInv,
    FindForeignInv, OpenInv, ReadFieldInv, FinishReadingInv, StutterInv
  DEF Next

LEMMA InvHolds == Spec => []Inv
  BY InitInv, NextInv, PTL DEF Spec

----------------------------------------------------------------------------
(* What the writer has written is its record up to the field it is at, and  *)
(* no text or list so far was beyond its limit.                             *)
Limited(n) ==
  \A i \in 1..n :
    Grammar[i].kind \in {"text", "list"} => Len(record[i]) <= Grammar[i].limit

TooLarge ==
  \/ Len(PayloadOf(record)) + DigestSize > MaxEncoding
  \/ \E i \in DOMAIN Grammar :
       /\ Grammar[i].kind \in {"text", "list"}
       /\ Len(record[i]) > Grammar[i].limit

WrittenSoFar ==
  /\ stage = "writing" =>
       output = Upto(record, next - 1) /\ Limited(next - 1)
  /\ stage \in {"stored", "found", "reading", "accepted", "corrupt"} =>
       output = PayloadOf(record) \o Checksum /\ Limited(Len(Grammar))
  /\ stage = "refused" => TooLarge

(* What the reader has taken fits its fields, and is what the input says up *)
(* to the offset.                                                           *)
ReadSoFar ==
  stage \in {"reading", "accepted"} =>
    /\ \A i \in 1..Len(values) :
         IF Present(values, i) THEN Fits(values[i], Grammar[i])
         ELSE values[i] = <<>>
    /\ Upto(values, Len(values)) = SubSeq(input, 1, offset)
    /\ stage = "accepted" => Len(values) = Len(Grammar) /\ offset = limit

(* Reading what was written never fails, and takes the fields of the record. *)
ReadsBack ==
  Given /\ genuine /\ input = output =>
    /\ stage # "corrupt"
    /\ \A i \in 1..Len(values) : values[i] = record[i]

Agreement == WrittenSoFar /\ ReadSoFar /\ ReadsBack

----------------------------------------------------------------------------
LEMMA InitAgrees == Init => Agreement
<1> SUFFICES ASSUME Init PROVE Agreement
  OBVIOUS
<1>1. stage = "writing" /\ next = 1 /\ output = <<>>
  BY DEF Init
<1>2. Upto(record, next - 1) = <<>>
  BY <1>1, UptoNone
<1>3. Limited(next - 1)
  BY <1>1 DEF Limited
<1> QED BY <1>1, <1>2, <1>3
        DEF Agreement, WrittenSoFar, ReadSoFar, ReadsBack, Given

(* Sequences of bytes, element by element. *)
LEMMA BytesAreJoined ==
  ASSUME NEW p \in Seq(Byte), NEW q \in Seq(Byte)
  PROVE  /\ p \o q \in Seq(Byte) /\ Len(p \o q) = Len(p) + Len(q)
         /\ \A i \in 1..(Len(p) + Len(q)) :
              (p \o q)[i] = IF i <= Len(p) THEN p[i] ELSE q[i - Len(p)]
  OBVIOUS

(* The checksum stands behind what it is of. *)
LEMMA ChecksumFollows ==
  ASSUME NEW p \in Seq(Byte)
  PROVE  /\ Len(p \o Checksum) = Len(p) + DigestSize /\ Len(p) \in Nat
         /\ \A i \in 1..Len(p) : (p \o Checksum)[i] = p[i]
<1>1. Checksum \in Seq(Byte) /\ Len(Checksum) = DigestSize
        /\ DigestSize \in Nat /\ Len(p) \in Nat
  BY SizesAreGiven
<1>2. /\ Len(p \o Checksum) = Len(p) + Len(Checksum)
      /\ \A i \in 1..(Len(p) + Len(Checksum)) :
           (p \o Checksum)[i] = IF i <= Len(p) THEN p[i]
                                ELSE Checksum[i - Len(p)]
  BY <1>1, BytesAreJoined
<1>3. ASSUME NEW i \in 1..Len(p) PROVE (p \o Checksum)[i] = p[i]
  <2>1. i \in 1..(Len(p) + Len(Checksum)) /\ i <= Len(p)
    BY <1>1
  <2> QED BY <1>2, <2>1
<1> QED BY <1>1, <1>2, <1>3

LEMMA BytesAreEqual ==
  ASSUME NEW p \in Seq(Byte), NEW q \in Seq(Byte),
         Len(p) = Len(q), \A i \in 1..Len(p) : p[i] = q[i]
  PROVE  p = q
  OBVIOUS

(* Sequences of bytes are joined in either order. *)
LEMMA ConcatIsAssociative ==
  ASSUME NEW a \in Seq(Byte), NEW b \in Seq(Byte), NEW c \in Seq(Byte)
  PROVE  (a \o b) \o c = a \o (b \o c)
<1> DEFINE x == (a \o b) \o c
           y == a \o (b \o c)
<1>1. \A p, q \in Seq(Byte) :
        /\ p \o q \in Seq(Byte) /\ Len(p \o q) = Len(p) + Len(q)
        /\ \A i \in 1..(Len(p) + Len(q)) :
             (p \o q)[i] = IF i <= Len(p) THEN p[i] ELSE q[i - Len(p)]
  BY BytesAreJoined
<1>2. Len(a) \in Nat /\ Len(b) \in Nat /\ Len(c) \in Nat
  OBVIOUS
<1>3. a \o b \in Seq(Byte) /\ b \o c \in Seq(Byte)
        /\ Len(a \o b) = Len(a) + Len(b) /\ Len(b \o c) = Len(b) + Len(c)
  BY <1>1
<1>4. x \in Seq(Byte) /\ y \in Seq(Byte)
        /\ Len(x) = Len(a) + Len(b) + Len(c) /\ Len(y) = Len(x)
  BY <1>1, <1>2, <1>3
<1>5. ASSUME NEW i \in 1..Len(x) PROVE x[i] = y[i]
  <2>1. i \in Nat /\ i <= Len(a) + Len(b) + Len(c) /\ 1 <= i
    BY <1>2, <1>4
  <2>2. x[i] = IF i <= Len(a) + Len(b) THEN (a \o b)[i]
               ELSE c[i - (Len(a) + Len(b))]
    BY <1>1, <1>2, <1>3, <2>1
  <2>3. y[i] = IF i <= Len(a) THEN a[i] ELSE (b \o c)[i - Len(a)]
    BY <1>1, <1>2, <1>3, <2>1
  <2>4. CASE i <= Len(a)
    <3>1. (a \o b)[i] = a[i]
      BY <1>1, <1>2, <2>1, <2>4
    <3> QED BY <1>2, <2>1, <2>2, <2>3, <2>4, <3>1
  <2>5. CASE ~(i <= Len(a)) /\ i <= Len(a) + Len(b)
    <3>1. (a \o b)[i] = b[i - Len(a)]
      BY <1>1, <1>2, <2>1, <2>5
    <3>2. i - Len(a) \in 1..(Len(b) + Len(c)) /\ i - Len(a) <= Len(b)
      BY <1>2, <2>1, <2>5
    <3>3. (b \o c)[i - Len(a)] = b[i - Len(a)]
      BY <1>1, <3>2
    <3> HIDE DEF x, y
    <3> QED BY <2>2, <2>3, <2>5, <3>1, <3>3
  <2>6. CASE ~(i <= Len(a) + Len(b))
    <3>1. i - Len(a) \in 1..(Len(b) + Len(c)) /\ ~(i - Len(a) <= Len(b))
            /\ (i - Len(a)) - Len(b) = i - (Len(a) + Len(b)) /\ ~(i <= Len(a))
      BY <1>2, <2>1, <2>6
    <3>2. (b \o c)[i - Len(a)] = c[(i - Len(a)) - Len(b)]
      BY <1>1, <3>1
    <3> HIDE DEF x, y
    <3> QED BY <2>2, <2>3, <2>6, <3>1, <3>2
  <2> QED BY <2>4, <2>5, <2>6
<1> HIDE DEF x, y
<1>7. x = y
  BY <1>4, <1>5, BytesAreEqual
<1> QED BY <1>7 DEF x, y

(* The payload is at least as long as what is written up to a field.        *)
LEMMA UptoIsWithin ==
  ASSUME NEW r \in Records, NEW n \in 0..Len(Grammar)
  PROVE  /\ PayloadOf(r) = Upto(r, Len(Grammar))
         /\ PayloadOf(r) \in Seq(Byte) /\ Upto(r, n) \in Seq(Byte)
         /\ Len(Upto(r, n)) <= Len(PayloadOf(r))
         /\ \A i \in 1..Len(Upto(r, n)) : PayloadOf(r)[i] = Upto(r, n)[i]
<1>1. r \in Seq(Seq(Byte)) /\ Len(r) = Len(Grammar) /\ Len(Grammar) \in Nat
  BY RecordsAreBytes, GrammarIsOfFields
<1>2. PayloadOf(r) = Upto(r, Len(Grammar))
  BY PayloadIsAll
<1>3. n \in 0..Len(r) /\ Len(Grammar) \in 0..Len(r) /\ n <= Len(Grammar)
  BY <1>1
<1>4. Upto(r, n) \in Seq(Byte) /\ Upto(r, Len(Grammar)) \in Seq(Byte)
  BY <1>1, <1>3, UptoIsBytes
<1>5. /\ Len(Upto(r, n)) <= Len(Upto(r, Len(Grammar)))
      /\ \A i \in 1..Len(Upto(r, n)) : Upto(r, Len(Grammar))[i] = Upto(r, n)[i]
  BY <1>1, <1>3, UptoBegins
<1> QED BY <1>2, <1>4, <1>5

(* One field more of a record. *)
LEMMA RecordNext ==
  ASSUME NEW r \in Records, NEW i \in 1..Len(Grammar)
  PROVE  /\ Upto(r, i) = Upto(r, i - 1) \o Piece(r, i)
         /\ Piece(r, i) \in Seq(Byte)
<1>1. r \in Seq(Seq(Byte)) /\ i \in 1..Len(r) /\ i - 1 \in Nat /\ (i - 1) + 1 = i
  BY RecordsAreBytes, GrammarIsOfFields
<1>2. Piece(r, i) \in Seq(Byte)
  BY <1>1, PiecesAreBytes
<1>3. Upto(r, (i - 1) + 1) = Upto(r, i - 1) \o Piece(r, (i - 1) + 1)
  BY <1>1, <1>2, UptoNext
<1> QED BY <1>1, <1>2, <1>3

(* Room() lets a field through exactly if it is within its own limit and    *)
(* the whole stays within the largest size.                                 *)
LEMMA RoomIsExact ==
  ASSUME NEW f \in Fields, NEW value \in Seq(Byte), output \in Seq(Byte)
  PROVE  Room(f, value) <=>
           /\ Len(output) + Len(Prefix(value, f)) + Len(value) <= MaxEncoding
           /\ f.kind \in {"text", "list"} => Len(value) <= f.limit
<1> DEFINE written == Len(output) + Len(Prefix(value, f))
<1>1. /\ Len(output) \in Nat /\ Len(Prefix(value, f)) \in Nat
      /\ Len(value) \in Nat /\ MaxEncoding \in Nat /\ written \in Nat
  BY PrefixesAreBytes, SizesAreGiven
<1>2. value = <<>> => Len(value) = 0
  OBVIOUS
<1>3. written <= MaxEncoding => Minus(MaxEncoding, written) = MaxEncoding - written
  BY <1>1 DEF Minus
<1> HIDE DEF written
<1>4. written <= MaxEncoding =>
        (Len(value) <= MaxEncoding - written <=> written + Len(value) <= MaxEncoding)
  BY <1>1
<1>5. written + Len(value) <= MaxEncoding => written <= MaxEncoding
  BY <1>1
<1>6. written <= MaxEncoding /\ value = <<>> => written + Len(value) <= MaxEncoding
  BY <1>1, <1>2
<1>7. Room(f, value) <=>
        /\ written <= MaxEncoding
        /\ f.kind \in {"text", "list"} => Len(value) <= f.limit
        /\ IF f.kind \in {"header", "text", "material"}
             THEN value = <<>> \/ Len(value) <= Minus(MaxEncoding, written)
             ELSE written + Len(value) <= MaxEncoding
  BY DEF Room, written
<1>8. Room(f, value) <=>
        /\ written + Len(value) <= MaxEncoding
        /\ f.kind \in {"text", "list"} => Len(value) <= f.limit
  BY <1>3, <1>4, <1>5, <1>6, <1>7
<1> QED BY <1>8 DEF written

LEMMA WriteFieldAgrees == Inv /\ Agreement /\ WriteField => Agreement'
<1> SUFFICES ASSUME Inv, Agreement, WriteField PROVE Agreement'
  OBVIOUS
<1> DEFINE f == Grammar[next]
           value == record[next]
<1>1. next \in 1..Len(Grammar) /\ next \in Nat /\ record \in Records
        /\ output \in Seq(Byte)
  BY GrammarIsOfFields DEF Inv, TypeOK, WriteField
<1>2. f \in Fields /\ value \in Seq(Byte) /\ Prefix(value, f) \in Seq(Byte)
        /\ f.limit \in Nat
  <2>1. Grammar[next] \in Fields
    BY <1>1, WireAssumption
  <2>2. next \in DOMAIN Grammar /\ Grammar[next].limit \in Nat
    BY <1>1, GrammarIsOfFields
  <2>3. record[next] \in Seq(Byte)
    BY <1>1, <2>2, FieldsAreBytes
  <2>4. Prefix(record[next], Grammar[next]) \in Seq(Byte)
    BY <2>3, PrefixesAreBytes
  <2> QED BY <2>1, <2>2, <2>3, <2>4
<1>3. stage = "writing" /\ output = Upto(record, next - 1) /\ Limited(next - 1)
  BY DEF Agreement, WrittenSoFar, WriteField
<1>4. UNCHANGED <<record, input, genuine, limit, offset, values>>
        /\ next' = next + 1 /\ next' - 1 = next
  BY <1>1 DEF WriteField
<1>5. Upto(record, next) = output \o Piece(record, next)
  BY <1>1, <1>3, RecordNext
<1>6. ASSUME value \in Seq(Byte), f.kind \in {"text", "list"} => Len(value) <= f.limit
      PROVE  Limited(next)
  <2>1. ASSUME NEW i \in 1..next, Grammar[i].kind \in {"text", "list"}
        PROVE  Len(record[i]) <= Grammar[i].limit
    <3>1. CASE i = next
      BY <1>6, <2>1, <3>1
    <3>2. CASE i # next
      <4>1. i \in 1..(next - 1)
        BY <1>1, <3>2
      <4> QED BY <1>3, <2>1, <4>1 DEF Limited
    <3> QED BY <3>1, <3>2
  <2> QED BY <2>1 DEF Limited
<1>7. ASSUME stage' = "writing", output' = Upto(record, next), Limited(next)
      PROVE  Agreement'
  <2>1. WrittenSoFar'
    <3>1. output' = Upto(record', next' - 1)
      BY <1>4, <1>7
    <3>2. Limited(next - 1)'
      BY <1>4, <1>7 DEF Limited
    <3> QED BY <1>7, <3>1, <3>2 DEF WrittenSoFar
  <2>2. ReadSoFar' /\ ReadsBack'
    BY <1>7 DEF ReadSoFar, ReadsBack, Given
  <2> QED BY <2>1, <2>2 DEF Agreement
<1>8. CASE ~Present(record, next)
  <2>1. value = <<>>
    <3>1. IsRecord(record) /\ next \in DOMAIN Grammar
      BY <1>1, RecordsAreBytes, GrammarIsOfFields
    <3> QED BY <1>8, <3>1 DEF IsRecord
  <2>2. Limited(next)
    <3>1. Len(value) = 0
      BY <2>1
    <3>2. Len(value) <= f.limit
      BY <1>2, <3>1
    <3> QED BY <1>2, <1>6, <3>2
  <2>3. Piece(record, next) = <<>>
    BY <1>8 DEF Piece
  <2>4. output \o <<>> = output
    BY <1>1
  <2>5. stage' = "writing" /\ output' = output
    BY <1>3, <1>8 DEF WriteField
  <2> QED BY <1>5, <1>7, <2>2, <2>3, <2>4, <2>5
<1>9. CASE Present(record, next) /\ Room(f, value)
  <2>1. Limited(next)
    BY <1>1, <1>2, <1>6, <1>9, RoomIsExact
  <2>2. Piece(record, next) = Prefix(value, f) \o value
    BY <1>9 DEF Piece
  <2>3. stage' = "writing" /\ output' = (output \o Prefix(value, f)) \o value
    BY <1>3, <1>9 DEF WriteField
  <2>4. output' = output \o Piece(record, next)
    <3> HIDE DEF f, value
    <3> QED BY <1>1, <1>2, <2>2, <2>3, ConcatIsAssociative
  <2> QED BY <1>5, <1>7, <2>1, <2>3, <2>4
<1>10. CASE Present(record, next) /\ ~Room(f, value)
  <2>1. \/ Len(output) + Len(Prefix(value, f)) + Len(value) > MaxEncoding
        \/ f.kind \in {"text", "list"} /\ Len(value) > f.limit
    <3>1. Len(output) \in Nat /\ Len(Prefix(value, f)) \in Nat
            /\ Len(value) \in Nat /\ MaxEncoding \in Nat
      BY <1>1, <1>2, SizesAreGiven
    <3>2. \/ ~(Len(output) + Len(Prefix(value, f)) + Len(value) <= MaxEncoding)
          \/ f.kind \in {"text", "list"} /\ ~(Len(value) <= f.limit)
      BY <1>1, <1>2, <1>10, RoomIsExact
    <3>3. f.limit \in Nat
      BY <1>2
    <3> HIDE DEF f, value
    <3> QED BY <3>1, <3>2, <3>3
  <2>2. TooLarge
    <3>1. CASE f.kind \in {"text", "list"} /\ Len(value) > f.limit
      <4>1. next \in DOMAIN Grammar
        BY <1>1, GrammarIsOfFields
      <4> QED BY <3>1, <4>1 DEF TooLarge
    <3>2. CASE Len(output) + Len(Prefix(value, f)) + Len(value) > MaxEncoding
      <4>1. Piece(record, next) = Prefix(value, f) \o value
        BY <1>10 DEF Piece
      <4>2. Len(Upto(record, next)) =
              Len(output) + Len(Prefix(value, f)) + Len(value)
        <5>1. \A a, b, c \in Seq(Byte) : Len(a \o (b \o c)) = Len(a) + Len(b) + Len(c)
          OBVIOUS
        <5> HIDE DEF f, value
        <5> QED BY <1>1, <1>2, <1>5, <4>1, <5>1
      <4>3. Len(Upto(record, next)) <= Len(PayloadOf(record))
              /\ PayloadOf(record) \in Seq(Byte) /\ Upto(record, next) \in Seq(Byte)
        <5>1. next \in 0..Len(Grammar)
          BY <1>1
        <5> QED BY <1>1, <5>1, UptoIsWithin
      <4>4. Len(PayloadOf(record)) \in Nat /\ Len(Upto(record, next)) \in Nat
              /\ DigestSize \in Nat /\ MaxEncoding \in Nat
        BY <4>3, SizesAreGiven
      <4>5. Len(PayloadOf(record)) + DigestSize > MaxEncoding
        <5> HIDE DEF f, value
        <5> QED BY <3>2, <4>2, <4>3, <4>4
      <4> QED BY <4>5 DEF TooLarge
    <3> QED BY <2>1, <3>1, <3>2
  <2>3. stage' = "refused" /\ record' = record
    BY <1>4, <1>10 DEF WriteField
  <2>4. TooLarge'
    BY <2>2, <2>3 DEF TooLarge, PayloadOf, Present
  <2> QED BY <2>3, <2>4 DEF Agreement, WrittenSoFar, ReadSoFar, ReadsBack, Given
<1> QED BY <1>8, <1>9, <1>10

LEMMA WriteChecksumAgrees == Inv /\ Agreement /\ WriteChecksum => Agreement'
<1> SUFFICES ASSUME Inv, Agreement, WriteChecksum PROVE Agreement'
  OBVIOUS
<1>1. next = Len(Grammar) + 1 /\ Len(Grammar) \in Nat /\ record \in Records
        /\ next - 1 = Len(Grammar)
  BY GrammarIsOfFields DEF Inv, TypeOK, WriteChecksum
<1>2. output = PayloadOf(record) /\ Limited(Len(Grammar))
  BY <1>1, PayloadIsAll DEF Agreement, WrittenSoFar, WriteChecksum
<1>3. record' = record /\ Len(output) \in Nat /\ DigestSize \in Nat
        /\ MaxEncoding \in Nat
  BY SizesAreGiven DEF WriteChecksum, Inv, TypeOK
<1>4. CASE stage' = "stored" /\ output' = output \o Checksum
  <2>1. WrittenSoFar'
    BY <1>2, <1>3, <1>4 DEF WrittenSoFar, Limited, PayloadOf, Present
  <2> QED BY <1>4, <2>1 DEF Agreement, ReadSoFar, ReadsBack, Given
<1>5. CASE stage' = "refused" /\ ~(Len(output) + DigestSize <= MaxEncoding)
  <2>1. TooLarge
    BY <1>2, <1>3, <1>5 DEF TooLarge
  <2>2. TooLarge'
    BY <1>3, <2>1 DEF TooLarge, PayloadOf, Present
  <2> QED BY <1>5, <2>2 DEF Agreement, WrittenSoFar, ReadSoFar, ReadsBack, Given
<1> QED BY <1>4, <1>5 DEF WriteChecksum

(* After the write nothing changes the record or what was written. *)
LEMMA StoredStaysWritten ==
  ASSUME WrittenSoFar, UNCHANGED <<record, output>>,
         stage \in {"stored", "found", "reading", "accepted", "corrupt"},
         stage' \in {"stored", "found", "reading", "accepted", "corrupt"}
  PROVE  WrittenSoFar'
  BY DEF WrittenSoFar, Limited, PayloadOf, Present

LEMMA FindAgrees ==
  ASSUME Inv, Agreement, NEW bytes, NEW right, Find(bytes, right)
  PROVE  Agreement'
<1>1. stage = "stored" /\ stage' = "found" /\ UNCHANGED <<record, output, values>>
  BY DEF Find
<1>2. WrittenSoFar'
  BY <1>1, StoredStaysWritten DEF Agreement
<1>3. values' = <<>>
  BY <1>1 DEF Inv, Unread
<1>4. \A i \in 1..Len(<<>>) : FALSE
  OBVIOUS
<1> QED BY <1>1, <1>2, <1>3, <1>4 DEF Agreement, ReadSoFar, ReadsBack

----------------------------------------------------------------------------
(* Bytes that follow in the input follow in what is read of it. *)
LEMMA InputJoins ==
  ASSUME NEW s \in Seq(Byte), NEW a \in Nat, NEW t \in Seq(Byte),
         a + Len(t) <= Len(s), \A j \in 1..Len(t) : t[j] = s[a + j]
  PROVE  SubSeq(s, 1, a) \o t = SubSeq(s, 1, a + Len(t))
<1> DEFINE x == SubSeq(s, 1, a) \o t
           y == SubSeq(s, 1, a + Len(t))
<1>1. Len(t) \in Nat /\ Len(s) \in Nat /\ a <= Len(s)
  OBVIOUS
<1>2. \A b \in 0..Len(s) :
        /\ SubSeq(s, 1, b) \in Seq(Byte) /\ Len(SubSeq(s, 1, b)) = b
        /\ \A i \in 1..b : SubSeq(s, 1, b)[i] = s[i]
  OBVIOUS
<1>3. /\ SubSeq(s, 1, a) \in Seq(Byte) /\ Len(SubSeq(s, 1, a)) = a
      /\ \A i \in 1..a : SubSeq(s, 1, a)[i] = s[i]
  <2>1. a \in 0..Len(s)
    BY <1>1
  <2> QED BY <1>2, <2>1
<1>4. /\ y \in Seq(Byte) /\ Len(y) = a + Len(t)
      /\ \A i \in 1..(a + Len(t)) : y[i] = s[i]
  <2>1. a + Len(t) \in 0..Len(s)
    BY <1>1
  <2> QED BY <1>2, <2>1
<1>5. \A p, q \in Seq(Byte) :
        /\ p \o q \in Seq(Byte) /\ Len(p \o q) = Len(p) + Len(q)
        /\ \A i \in 1..(Len(p) + Len(q)) :
             (p \o q)[i] = IF i <= Len(p) THEN p[i] ELSE q[i - Len(p)]
  BY BytesAreJoined
<1>6. /\ x \in Seq(Byte) /\ Len(x) = a + Len(t)
      /\ \A i \in 1..(a + Len(t)) :
           x[i] = IF i <= a THEN SubSeq(s, 1, a)[i] ELSE t[i - a]
  BY <1>3, <1>5
<1>7. ASSUME NEW i \in 1..(a + Len(t)) PROVE x[i] = s[i]
  <2>1. CASE i <= a
    BY <1>1, <1>3, <1>6, <2>1
  <2>2. CASE ~(i <= a)
    <3>1. i - a \in 1..Len(t) /\ a + (i - a) = i
      BY <1>1, <2>2
    <3>2. t[i - a] = s[i]
      BY <3>1
    <3> HIDE DEF x, y
    <3> QED BY <1>6, <2>2, <3>2
  <2> QED BY <2>1, <2>2
<1> HIDE DEF x, y
<1>9. x = y
  <2>1. \A i \in 1..Len(x) : x[i] = y[i]
    BY <1>4, <1>6, <1>7
  <2> QED BY <1>4, <1>6, <2>1, BytesAreEqual
<1> QED BY <1>9 DEF x, y

(* What was taken for a field, in a size within its limit and of a form it  *)
(* can be read from, is a value of the field.                               *)
LEMMA TakenFits ==
  ASSUME NEW i \in 1..Len(Grammar), input \in Seq(Byte), offset \in Nat,
         NEW value \in [1..ValueSize(Grammar[i]) -> Byte],
         ValueSize(Grammar[i]) \in Nat, Readable(Grammar[i], value)
  PROVE  Fits(value, Grammar[i])
<1> DEFINE f == Grammar[i]
           size == ValueSize(f)
<1>1. f.kind \in Kinds /\ f.limit \in Nat /\ LimitFits(f)
  BY GrammarIsOfFields
<1>2. value \in Seq(Byte) /\ Len(value) = size
  OBVIOUS
<1>3. CASE f.kind = "header"
  BY <1>3 DEF Readable, Fits
<1>4. CASE f.kind = "fixed"
  <2>1. size = f.limit
    BY <1>4 DEF ValueSize
  <2> QED BY <1>2, <1>4, <2>1 DEF Fits
<1>5. CASE f.kind \in {"number", "boolean"}
  <2>1. size = 1
    BY <1>5 DEF ValueSize
  <2>2. value[1] \in Byte /\ value = <<value[1]>>
    BY <2>1
  <2>3. value[1] \in 0..f.limit
    <3>1. value[1] <= f.limit
      BY <1>5 DEF Readable
    <3>2. \A b \in Byte : \A m \in Nat : b <= m => b \in 0..m
      BY DEF Byte
    <3>3. f.limit \in Nat
      BY <1>1
    <3> HIDE DEF f
    <3> QED BY <2>2, <3>1, <3>2, <3>3
  <2>4. CASE f.kind = "number"
    <3>1. \E n \in 0..f.limit : value = <<n>>
      BY <2>2, <2>3
    <3> QED BY <2>4, <3>1 DEF Fits
  <2>5. CASE f.kind = "boolean"
    <3>1. value[1] = 0 \/ value[1] = 1
      BY <1>1, <2>3, <2>5 DEF LimitFits
    <3> QED BY <2>2, <2>5, <3>1 DEF Fits
  <2> QED BY <1>5, <2>4, <2>5
<1>6. CASE f.kind = "list"
  <2>1. \A j \in 1..size : value[j] \in 0..LastGuarantee
    <3>1. \A j \in DOMAIN value : value[j] <= LastGuarantee
      BY <1>6 DEF Readable
    <3>2. DOMAIN value = 1..size /\ \A j \in 1..size : value[j] \in Byte
      OBVIOUS
    <3>3. \A b \in Byte : b <= LastGuarantee => b \in 0..LastGuarantee
      BY DEF Byte, LastGuarantee
    <3> QED BY <3>1, <3>2, <3>3
  <2>2. value \in [1..size -> 0..LastGuarantee]
    <3>1. value \in [1..size -> Byte]
      OBVIOUS
    <3> HIDE DEF size, f
    <3>2. \A S, T : \A g \in [1..size -> S] :
            (\A j \in 1..size : g[j] \in T) => g \in [1..size -> T]
      OBVIOUS
    <3> QED BY <2>1, <3>1, <3>2
  <2>3. value \in Seq(0..LastGuarantee)
    <3>1. size \in Nat
      OBVIOUS
    <3>2. \A n \in Nat : \A S : \A g \in [1..n -> S] : g \in Seq(S)
      OBVIOUS
    <3> HIDE DEF size, f
    <3> QED BY <2>2, <3>1, <3>2
  <2> QED BY <1>6, <2>3 DEF Fits
<1>7. CASE f.kind \in {"material", "text"}
  BY <1>2, <1>7 DEF Fits
<1> QED BY <1>1, <1>3, <1>4, <1>5, <1>6, <1>7 DEF Kinds

(* What precedes a value in the input is what a writer puts before it. *)
LEMMA TakenPrefix ==
  ASSUME NEW i \in 1..Len(Grammar), input \in Seq(Byte), offset \in Nat,
         NEW value, Len(value) = ValueSize(Grammar[i])
  PROVE  /\ Prefix(value, Grammar[i]) = BytesAt(offset, PrefixSize(Grammar[i]))
         /\ PrefixSize(Grammar[i]) \in Nat
<1> DEFINE f == Grammar[i]
<1>1. f.kind \in Kinds
  BY GrammarIsOfFields
<1>2. CASE f.kind \in {"text", "material"}
  <2>1. BytesAt(offset, 4) \in [1..4 -> Byte]
    BY BytesAreTaken
  <2>2. Len(value) = Number32(BytesAt(offset, 4))
    BY <1>2 DEF ValueSize
  <2>3. Bytes32(Len(value)) = BytesAt(offset, 4)
    BY <2>1, <2>2, SizesReadAreWritten
  <2> QED BY <1>2, <2>3 DEF Prefix, PrefixSize
<1>3. CASE f.kind = "list"
  <2>1. BytesAt(offset, 2) \in [1..2 -> Byte]
    BY BytesAreTaken
  <2>2. Len(value) = Number16(BytesAt(offset, 2))
    BY <1>3 DEF ValueSize
  <2>3. Bytes16(Len(value)) = BytesAt(offset, 2)
    BY <2>1, <2>2, SizesReadAreWritten
  <2> QED BY <1>3, <2>3 DEF Prefix, PrefixSize
<1>4. CASE f.kind \notin {"text", "material", "list"}
  <2>1. Prefix(value, f) = <<>> /\ PrefixSize(f) = 0
    BY <1>4 DEF Prefix, PrefixSize
  <2>2. BytesAt(offset, 0) = <<>>
    BY DEF BytesAt
  <2> QED BY <2>1, <2>2
<1> QED BY <1>2, <1>3, <1>4

(* Bytes taken from inside the input are those of the input. *)
LEMMA TakenInside ==
  ASSUME input \in Seq(Byte), NEW a \in Nat, NEW p \in Nat, NEW n \in Nat,
         a + p + n <= Len(input)
  PROVE  SubSeq(input, 1, a) \o (BytesAt(a, p) \o BytesAt(a + p, n)) =
           SubSeq(input, 1, a + (p + n))
<1> DEFINE s == BytesAt(a, p)
           u == BytesAt(a + p, n)
           t == s \o u
<1>1. s \in [1..p -> Byte] /\ u \in [1..n -> Byte] /\ a + p \in Nat
        /\ Len(input) \in Nat
  BY BytesAreTaken
<1>2. s \in Seq(Byte) /\ Len(s) = p /\ u \in Seq(Byte) /\ Len(u) = n
  BY <1>1
<1>3. \A j \in 1..p : s[j] = input[a + j]
  BY <1>1 DEF BytesAt
<1>4. \A j \in 1..n : u[j] = input[(a + p) + j]
  BY <1>1 DEF BytesAt
<1> HIDE DEF s, u
<1>5. t \in Seq(Byte) /\ Len(t) = p + n
  BY <1>2, BytesAreJoined
<1>6. \A j \in 1..(p + n) : t[j] = IF j <= p THEN s[j] ELSE u[j - p]
  BY <1>2, BytesAreJoined
<1>7. ASSUME NEW j \in 1..(p + n) PROVE t[j] = input[a + j]
  <2>1. CASE j <= p
    <3>1. j \in 1..p
      BY <2>1
    <3> HIDE DEF t
    <3> QED BY <1>3, <1>6, <2>1, <3>1
  <2>2. CASE ~(j <= p)
    <3>1. j - p \in 1..n /\ (a + p) + (j - p) = a + j
      BY <2>2
    <3>2. u[j - p] = input[a + j]
      BY <1>4, <3>1
    <3> HIDE DEF t
    <3> QED BY <1>6, <2>2, <3>2
  <2> QED BY <2>1, <2>2
<1> HIDE DEF t
<1>8. SubSeq(input, 1, a) \o t = SubSeq(input, 1, a + Len(t))
  <2>1. a + Len(t) <= Len(input)
    BY <1>5
  <2>2. \A j \in 1..Len(t) : t[j] = input[a + j]
    BY <1>5, <1>7
  <2> QED BY <1>5, <2>1, <2>2, InputJoins
<1> QED BY <1>5, <1>8 DEF s, u, t

(* A value taken leaves those before it as they were. *)
LEMMA ValuesBefore ==
  ASSUME NEW v \in Seq(Seq(Byte)), NEW x \in Seq(Byte)
  PROVE  /\ Append(v, x) \in Seq(Seq(Byte)) /\ Len(Append(v, x)) = Len(v) + 1
         /\ \A i \in 1..Len(v) : Append(v, x)[i] = v[i]
         /\ Append(v, x)[Len(v) + 1] = x
  OBVIOUS

(* One value more keeps what is read so far, if it is one of the field and  *)
(* what the input has next.                                                 *)
LEMMA TakeReads ==
  ASSUME Inv, ReadSoFar, stage = "reading", UNCHANGED <<stage, input>>,
         Len(values) < Len(Grammar),
         NEW x \in Seq(Byte), values' = Append(values, x),
         IF Present(values, Len(values) + 1)
           THEN Fits(x, Grammar[Len(values) + 1]) ELSE x = <<>>,
         SubSeq(input, 1, offset) \o Piece(values', Len(values) + 1) =
           SubSeq(input, 1, offset')
  PROVE  ReadSoFar'
<1> DEFINE n == Len(values)
<1>1. values \in Seq(Seq(Byte)) /\ n \in Nat /\ n + 1 \in 1..Len(Grammar)
        /\ n \in 0..Len(Grammar) /\ Len(Grammar) \in Nat
  BY GrammarIsOfFields DEF Inv, TypeOK
<1>2. /\ values' \in Seq(Seq(Byte)) /\ Len(values') = n + 1
      /\ \A i \in 1..n : values'[i] = values[i]
      /\ values'[n + 1] = x
  BY <1>1, ValuesBefore
<1>3. ASSUME NEW i \in 1..(n + 1)
      PROVE  IF Present(values', i) THEN Fits(values'[i], Grammar[i])
             ELSE values'[i] = <<>>
  <2>1. i \in 1..Len(Grammar) /\ \A j \in 1..(i - 1) : values'[j] = values[j]
    BY <1>1, <1>2
  <2>2. Present(values', i) <=> Present(values, i)
    BY <2>1, PresentAlike
  <2>3. CASE i = n + 1
    BY <1>2, <2>2, <2>3
  <2>4. CASE i # n + 1
    <3>1. i \in 1..n
      BY <1>1, <2>4
    <3>2. values'[i] = values[i]
      BY <1>2, <3>1
    <3> QED BY <2>2, <3>1, <3>2 DEF ReadSoFar
  <2> QED BY <2>3, <2>4
<1>4. Upto(values', n + 1) = SubSeq(input, 1, offset')
  <2>1. Upto(values', n) = Upto(values, n)
    BY <1>1, <1>2, UptoAlike
  <2>2. Upto(values, n) = SubSeq(input, 1, offset)
    BY DEF ReadSoFar
  <2>3. Piece(values', n + 1) \in Seq(Byte)
    <3>1. n + 1 \in 1..Len(values')
      BY <1>1, <1>2
    <3> QED BY <1>2, <3>1, PiecesAreBytes
  <2>4. Upto(values', n + 1) = Upto(values', n) \o Piece(values', n + 1)
    BY <1>1, <2>3, UptoNext
  <2> QED BY <2>1, <2>2, <2>4
<1> QED BY <1>2, <1>3, <1>4 DEF ReadSoFar

LEMMA ReadFieldReads == Inv /\ ReadSoFar /\ ReadField => ReadSoFar'
<1> SUFFICES ASSUME Inv, ReadSoFar, ReadField PROVE ReadSoFar'
  OBVIOUS
<1> DEFINE i == Len(values) + 1
           f == Grammar[i]
           size == ValueSize(f)
           value == BytesAt(offset + PrefixSize(f), size)
<1>1. values \in Seq(Seq(Byte)) /\ input \in Seq(Byte) /\ Len(input) \in Nat
        /\ limit \in Nat /\ offset \in Nat /\ DigestSize \in Nat
        /\ offset <= limit /\ limit + DigestSize = Len(input)
        /\ stage = "reading"
  BY WireAssumption DEF Inv, TypeOK, ReadsStayInside, ReadField
<1>2. i \in 1..Len(Grammar) /\ i \in DOMAIN Grammar /\ Len(values) < Len(Grammar)
  BY <1>1, GrammarIsOfFields DEF ReadField
<1>3. size \in Nat /\ PrefixSize(f) \in Nat
  BY <1>1, <1>2, SizesAreNatural
<1>4. input' = input
  BY DEF ReadField
<1>5. ASSUME NEW x \in Seq(Byte), values' = Append(values, x)
      PROVE  /\ Present(values', i) <=> Present(values, i)
             /\ values'[i] = x
  <2>1. \A j \in 1..(i - 1) : values'[j] = values[j]
    BY <1>1, <1>5, ValuesBefore
  <2>2. Present(values', i) <=> Present(values, i)
    BY <1>2, <2>1, PresentAlike
  <2> QED BY <1>1, <1>5, <2>2, ValuesBefore
<1>6. CASE ~Present(values, i) /\ Take(<<>>, 0)
  <2>1. <<>> \in Seq(Byte)
    OBVIOUS
  <2>2. values' = Append(values, <<>>) /\ offset' = offset + 0 /\ stage' = stage
    BY <1>6 DEF Take
  <2>3. Piece(values', i) = <<>>
    BY <1>5, <1>6, <2>1, <2>2 DEF Piece
  <2>4. SubSeq(input, 1, offset) \o <<>> = SubSeq(input, 1, offset')
    BY <1>1, <2>2
  <2> QED BY <1>1, <1>2, <1>4, <1>6, <2>1, <2>2, <2>3, <2>4, TakeReads
<1>7. CASE /\ Present(values, i)
           /\ Required(PrefixSize(f) + size) /\ Readable(f, value)
           /\ Take(value, PrefixSize(f) + size)
  <2>1. PrefixSize(f) + size <= limit - offset
    BY <1>1, <1>7 DEF Required, Minus
  <2>2. value \in [1..size -> Byte]
    <3>1. offset + PrefixSize(f) \in Nat
      BY <1>1, <1>3
    <3> QED BY <1>1, <1>3, <3>1, BytesAreTaken
  <2>3. value \in Seq(Byte) /\ Len(value) = size
    BY <1>3, <2>2
  <2>4. values' = Append(values, value) /\ stage' = stage
          /\ offset' = offset + (PrefixSize(f) + size)
    BY <1>7 DEF Take
  <2>5. Fits(value, f)
    BY <1>1, <1>2, <1>3, <1>7, <2>2, TakenFits
  <2>6. Prefix(value, f) = BytesAt(offset, PrefixSize(f))
    BY <1>1, <1>2, <2>3, TakenPrefix
  <2>7. Piece(values', i) = Prefix(value, f) \o value
    BY <1>5, <1>7, <2>3, <2>4 DEF Piece
  <2>8. offset + PrefixSize(f) + size <= Len(input)
    <3> HIDE DEF size, f
    <3> QED BY <1>1, <1>3, <2>1
  <2>9. SubSeq(input, 1, offset) \o Piece(values', i) = SubSeq(input, 1, offset')
    <3>1. SubSeq(input, 1, offset)
            \o (BytesAt(offset, PrefixSize(f)) \o BytesAt(offset + PrefixSize(f), size))
            = SubSeq(input, 1, offset + (PrefixSize(f) + size))
      <4> HIDE DEF size, f
      <4> QED BY <1>1, <1>3, <2>8, TakenInside
    <3> QED BY <2>4, <2>6, <2>7, <3>1
  <2> HIDE DEF value, size
  <2> QED BY <1>1, <1>2, <1>4, <1>7, <2>3, <2>4, <2>5, <2>9, TakeReads
<1>8. CASE Corrupt
  BY <1>8 DEF Corrupt, ReadSoFar
<1> QED BY <1>6, <1>7, <1>8 DEF ReadField

----------------------------------------------------------------------------
(* While an unspoiled record is read, the next field of it is what the      *)
(* input has next, and lies in the payload.                                 *)
LEMMA NextFieldIsAhead ==
  ASSUME Inv, Agreement, stage = "reading", input = output,
         \A j \in 1..Len(values) : values[j] = record[j],
         NEW i \in 1..Len(Grammar), i = Len(values) + 1
  PROVE  /\ Piece(record, i) \in Seq(Byte)
         /\ offset + Len(Piece(record, i)) <= limit
         /\ \A j \in 1..Len(Piece(record, i)) :
              input[offset + j] = Piece(record, i)[j]
         /\ limit = Len(PayloadOf(record)) /\ limit + DigestSize <= MaxEncoding
<1> DEFINE P == PayloadOf(record)
           U == Upto(record, i - 1)
           Q == Piece(record, i)
<1>1. record \in Records /\ input \in Seq(Byte) /\ limit \in Nat
        /\ offset \in Nat /\ DigestSize \in Nat /\ offset <= limit
        /\ limit + DigestSize = Len(input) /\ Len(output) <= MaxEncoding
        /\ values \in Seq(Seq(Byte))
  BY WireAssumption DEF Inv, TypeOK, ReadsStayInside, EncodingsAreBounded
<1>2. i - 1 = Len(values) /\ i - 1 \in 0..Len(Grammar)
  BY <1>1, GrammarIsOfFields
<1>3. P \in Seq(Byte) /\ input = P \o Checksum
  <2>1. output = P \o Checksum
    BY DEF Agreement, WrittenSoFar
  <2> QED BY <1>1, <1>2, <2>1, UptoIsWithin
<1>4. Checksum \in Seq(Byte) /\ Len(Checksum) = DigestSize
  BY SizesAreGiven
<1>5. /\ Len(input) = Len(P) + DigestSize
      /\ \A j \in 1..Len(P) : input[j] = P[j]
  <2> HIDE DEF P
  <2> QED BY <1>3, ChecksumFollows
<1>6. limit = Len(P)
  <2>1. Len(P) \in Nat
    BY <1>3
  <2> HIDE DEF P
  <2> QED BY <1>1, <1>5, <2>1
<1>7. U = SubSeq(input, 1, offset)
  <2>1. U = Upto(values, i - 1)
    BY <1>2, UptoAlike
  <2> QED BY <1>2, <2>1 DEF Agreement, ReadSoFar
<1>8. Len(U) = offset /\ U \in Seq(Byte)
  <2>1. offset \in 0..Len(input)
    BY <1>1
  <2> HIDE DEF U
  <2> QED BY <1>1, <1>7, <2>1
<1>9. Q \in Seq(Byte) /\ Upto(record, i) = U \o Q
  BY <1>1, RecordNext
<1>10. /\ Len(Upto(record, i)) <= Len(P)
       /\ \A j \in 1..Len(Upto(record, i)) : P[j] = Upto(record, i)[j]
  <2>1. i \in 0..Len(Grammar)
    OBVIOUS
  <2> QED BY <1>1, <2>1, UptoIsWithin
<1> HIDE DEF P, U, Q
<1>11. /\ Len(Upto(record, i)) = offset + Len(Q)
       /\ \A j \in 1..(offset + Len(Q)) :
            Upto(record, i)[j] = IF j <= offset THEN U[j] ELSE Q[j - offset]
  <2>1. /\ Len(U \o Q) = Len(U) + Len(Q)
        /\ \A j \in 1..(Len(U) + Len(Q)) :
             (U \o Q)[j] = IF j <= Len(U) THEN U[j] ELSE Q[j - Len(U)]
    BY <1>8, <1>9, BytesAreJoined
  <2> QED BY <1>8, <1>9, <2>1
<1>12. Len(Q) \in Nat
  BY <1>9
<1>13. offset + Len(Q) <= limit
  BY <1>6, <1>10, <1>11
<1>14. ASSUME NEW j \in 1..Len(Q) PROVE input[offset + j] = Q[j]
  <2>1. offset + j \in 1..(offset + Len(Q)) /\ ~(offset + j <= offset)
          /\ (offset + j) - offset = j
    BY <1>1, <1>12
  <2>2. Upto(record, i)[offset + j] = Q[j]
    BY <1>11, <2>1
  <2>3. offset + j \in 1..Len(P) /\ offset + j \in 1..Len(Upto(record, i))
    BY <1>1, <1>6, <1>11, <1>12, <1>13, <2>1
  <2> QED BY <1>5, <1>10, <2>2, <2>3
<1> QED BY <1>1, <1>6, <1>9, <1>13, <1>14 DEF P, Q

(* Bytes that the input is known to have next are those taken from it. *)
LEMMA TakenAhead ==
  ASSUME input \in Seq(Byte), NEW a \in Nat, NEW s \in Seq(Byte),
         a + Len(s) <= Len(input), \A j \in 1..Len(s) : input[a + j] = s[j]
  PROVE  BytesAt(a, Len(s)) = s
<1>1. Len(s) \in Nat /\ BytesAt(a, Len(s)) \in [1..Len(s) -> Byte]
  BY BytesAreTaken
<1>2. ASSUME NEW j \in 1..Len(s) PROVE BytesAt(a, Len(s))[j] = s[j]
  BY <1>1, <1>2 DEF BytesAt
<1>3. BytesAt(a, Len(s)) \in Seq(Byte) /\ Len(BytesAt(a, Len(s))) = Len(s)
  BY <1>1
<1> QED BY <1>2, <1>3, BytesAreEqual

(* The reader finds the size the writer gave a field, and the field, and    *)
(* refuses neither.                                                         *)
LEMMA WrittenFieldIsTaken ==
  ASSUME input \in Seq(Byte), offset \in Nat, limit \in Nat,
         limit + DigestSize = Len(input), Len(input) <= MaxEncoding,
         NEW i \in 1..Len(Grammar), NEW v \in Seq(Byte), Fits(v, Grammar[i]),
         Grammar[i].kind \in {"text", "list"} => Len(v) <= Grammar[i].limit,
         NEW q \in Seq(Byte), q = Prefix(v, Grammar[i]) \o v,
         offset + Len(q) <= limit, \A j \in 1..Len(q) : input[offset + j] = q[j]
  PROVE  /\ ValueSize(Grammar[i]) = Len(v)
         /\ PrefixSize(Grammar[i]) = Len(Prefix(v, Grammar[i]))
         /\ BytesAt(offset + PrefixSize(Grammar[i]), Len(v)) = v
         /\ Within(Grammar[i], Len(v)) /\ Readable(Grammar[i], v)
         /\ PrefixSize(Grammar[i]) + Len(v) = Len(q)
<1> DEFINE f == Grammar[i]
           p == Prefix(v, f)
<1>1. /\ f.kind \in Kinds /\ f.limit \in Nat /\ LimitFits(f)
      /\ DigestSize \in Nat /\ MaxEncoding \in Nat
      /\ MaxEncoding \div (256 * 256 * 256) < 256
      /\ Len(input) \in Nat
  BY GrammarIsOfFields, WireAssumption
<1>2. p \in Seq(Byte) /\ Len(p) \in Nat /\ Len(v) \in Nat
  BY PrefixesAreBytes
<1> HIDE DEF p
<1>3. Len(q) = Len(p) + Len(v)
  BY <1>2, BytesAreJoined DEF p
<1>4. \A j \in 1..Len(q) : q[j] = IF j <= Len(p) THEN p[j] ELSE v[j - Len(p)]
  BY <1>2, <1>3, BytesAreJoined DEF p
<1>5. BytesAt(offset, Len(p)) = p
  <2>1. offset + Len(p) <= Len(input)
    BY <1>1, <1>2, <1>3
  <2>2. \A j \in 1..Len(p) : input[offset + j] = p[j]
    BY <1>2, <1>3, <1>4
  <2> QED BY <1>2, <2>1, <2>2, TakenAhead
<1>6. BytesAt(offset + Len(p), Len(v)) = v
  <2>1. offset + Len(p) \in Nat /\ (offset + Len(p)) + Len(v) <= Len(input)
    BY <1>1, <1>2, <1>3
  <2>2. ASSUME NEW j \in 1..Len(v) PROVE input[(offset + Len(p)) + j] = v[j]
    <3>1. Len(p) + j \in 1..Len(q) /\ ~(Len(p) + j <= Len(p))
            /\ (Len(p) + j) - Len(p) = j
            /\ offset + (Len(p) + j) = (offset + Len(p)) + j
      BY <1>2, <1>3
    <3>2. q[Len(p) + j] = v[j]
      BY <1>4, <3>1
    <3>3. input[offset + (Len(p) + j)] = q[Len(p) + j]
      BY <3>1
    <3> QED BY <3>1, <3>2, <3>3
  <2> QED BY <2>1, <2>2, TakenAhead
<1>7. Len(v) + DigestSize <= MaxEncoding
  BY <1>1, <1>2, <1>3
<1>8. Len(v) \div (256 * 256 * 256) < 256
  <2>1. Len(v) <= MaxEncoding
    BY <1>1, <1>2, <1>7
  <2>2. \A m, n \in Nat : m <= n => m \div 16777216 <= n \div 16777216
    OBVIOUS
  <2> QED BY <1>1, <1>2, <2>1, <2>2
<1>9. Number32(Bytes32(Len(v))) = Len(v)
        /\ (Len(v) < 256 * 256 => Number16(Bytes16(Len(v))) = Len(v))
  BY <1>2, <1>8, SizesWrittenAreRead
<1>10. PrefixSize(f) = Len(p)
  <2>1. Len(Bytes32(Len(v))) = 4 /\ Len(Bytes16(Len(v))) = 2 /\ Len(<<>>) = 0
    BY DEF Bytes32, Bytes16
  <2>2. p = CASE f.kind \in {"text", "material"} -> Bytes32(Len(v))
              [] f.kind = "list"                 -> Bytes16(Len(v))
              [] OTHER                           -> <<>>
    BY DEF p, Prefix
  <2>3. CASE f.kind \in {"text", "material"}
    BY <2>1, <2>2, <2>3 DEF PrefixSize
  <2>4. CASE f.kind = "list"
    BY <2>1, <2>2, <2>4 DEF PrefixSize
  <2>5. CASE f.kind \notin {"text", "material", "list"}
    BY <2>1, <2>2, <2>5 DEF PrefixSize
  <2> QED BY <2>3, <2>4, <2>5
<1>11. /\ ValueSize(f) = Len(v) /\ Within(f, Len(v)) /\ Readable(f, v)
  <2>1. CASE f.kind \in {"text", "material"}
    <3>1. p = Bytes32(Len(v)) /\ Len(p) = 4
      BY <1>10, <2>1 DEF p, Prefix, PrefixSize
    <3>2. ValueSize(f) = Len(v)
      BY <1>5, <1>9, <2>1, <3>1 DEF ValueSize
    <3>3. Len(v) <= f.limit
      <4>1. CASE f.kind = "text"
        BY <4>1
      <4>2. CASE f.kind = "material"
        <5>1. f.limit = MaxEncoding - DigestSize
          BY <1>1, <4>2 DEF LimitFits, MaxMaterial
        <5> HIDE DEF f
        <5> QED BY <1>1, <1>2, <1>7, <5>1
      <4> QED BY <2>1, <4>1, <4>2
    <3> QED BY <2>1, <3>2, <3>3 DEF Within, Readable
  <2>2. CASE f.kind = "list"
    <3>1. p = Bytes16(Len(v)) /\ Len(p) = 2
      BY <1>10, <2>2 DEF p, Prefix, PrefixSize
    <3>2. Len(v) <= f.limit /\ f.limit < 256 * 256
      BY <1>1, <2>2 DEF LimitFits
    <3>3. Len(v) < 256 * 256
      <4>1. f.limit \in Nat
        BY <1>1
      <4> HIDE DEF f
      <4> QED BY <1>2, <3>2, <4>1
    <3>4. ValueSize(f) = Len(v)
      BY <1>5, <1>9, <2>2, <3>1, <3>3 DEF ValueSize
    <3>5. v \in Seq(0..LastGuarantee)
      BY <2>2 DEF Fits
    <3>6. \A j \in DOMAIN v : v[j] <= LastGuarantee
      <4>1. \A S : \A s \in Seq(S) : \A j \in DOMAIN s : s[j] \in S
        OBVIOUS
      <4>2. \A n \in 0..LastGuarantee : n <= LastGuarantee
        BY DEF LastGuarantee
      <4> QED BY <3>5, <4>1, <4>2
    <3> QED BY <2>2, <3>2, <3>4, <3>6 DEF Within, Readable
  <2>3. CASE f.kind = "header"
    <3>1. v = Header /\ f.limit = Len(Header)
      BY <1>1, <2>3 DEF Fits, LimitFits
    <3> QED BY <2>3, <3>1 DEF ValueSize, Within, Readable
  <2>4. CASE f.kind = "fixed"
    <3>1. Len(v) = f.limit
      BY <2>4 DEF Fits
    <3> QED BY <2>4, <3>1 DEF ValueSize, Within, Readable
  <2>5. CASE f.kind = "number"
    <3>1. PICK n \in 0..f.limit : v = <<n>>
      BY <2>5 DEF Fits
    <3>2. Len(v) = 1 /\ v[1] = n /\ n <= f.limit
      BY <1>1, <3>1
    <3> QED BY <2>5, <3>2 DEF ValueSize, Within, Readable
  <2>6. CASE f.kind = "boolean"
    <3>1. v = <<0>> \/ v = <<1>>
      BY <2>6 DEF Fits
    <3>2. f.limit = 1
      BY <1>1, <2>6 DEF LimitFits
    <3>3. Len(v) = 1 /\ v[1] <= f.limit
      BY <3>1, <3>2
    <3> QED BY <2>6, <3>3 DEF ValueSize, Within, Readable
  <2> QED BY <1>1, <2>1, <2>2, <2>3, <2>4, <2>5, <2>6 DEF Kinds
<1> QED BY <1>3, <1>6, <1>10, <1>11 DEF p

LEMMA ReadFieldReadsBack == Inv /\ Agreement /\ ReadField => ReadsBack'
<1> SUFFICES ASSUME Inv, Agreement, ReadField, genuine', input' = output'
             PROVE  /\ stage' # "corrupt"
                    /\ \A j \in 1..Len(values') : values'[j] = record'[j]
  BY DEF ReadsBack
<1> DEFINE i == Len(values) + 1
           f == Grammar[i]
           size == ValueSize(f)
           value == BytesAt(offset + PrefixSize(f), size)
           v == record[i]
           q == Piece(record, i)
<1>1. /\ values \in Seq(Seq(Byte)) /\ input \in Seq(Byte) /\ Len(input) \in Nat
      /\ limit \in Nat /\ offset \in Nat /\ DigestSize \in Nat
      /\ offset <= limit /\ limit + DigestSize = Len(input)
      /\ record \in Records /\ stage = "reading" /\ Len(output) <= MaxEncoding
  BY WireAssumption
  DEF Inv, TypeOK, ReadsStayInside, EncodingsAreBounded, ReadField
<1>2. i \in 1..Len(Grammar) /\ i \in DOMAIN Grammar
  BY <1>1, GrammarIsOfFields DEF ReadField
<1>3. genuine /\ input = output /\ record' = record
  BY DEF ReadField
<1>4. \A j \in 1..Len(values) : values[j] = record[j]
  BY <1>1, <1>3 DEF Agreement, ReadsBack, Given
<1>5. Present(values, i) <=> Present(record, i)
  <2>1. \A j \in 1..(i - 1) : values[j] = record[j]
    BY <1>1, <1>4
  <2> QED BY <1>2, <2>1, PresentAlike
<1>6. IF Present(record, i) THEN Fits(v, f) ELSE v = <<>>
  BY <1>1, <1>2, RecordsAreBytes DEF IsRecord
<1>7. v \in Seq(Byte)
  BY <1>1, <1>2, FieldsAreBytes
<1>8. ASSUME NEW x, x = v, x \in Seq(Byte), NEW n, Take(x, n)
      PROVE  /\ stage' # "corrupt"
             /\ \A j \in 1..Len(values') : values'[j] = record'[j]
  <2>1. values' = Append(values, x) /\ stage' = stage
    BY <1>8 DEF Take
  <2>2. /\ Len(values') = i /\ values'[i] = v
        /\ \A j \in 1..Len(values) : values'[j] = values[j]
    BY <1>1, <1>8, <2>1, ValuesBefore
  <2>3. ASSUME NEW j \in 1..i PROVE values'[j] = record[j]
    <3>1. CASE j = i
      BY <2>2, <3>1
    <3>2. CASE j # i
      <4>1. j \in 1..Len(values)
        BY <1>1, <3>2
      <4> QED BY <1>4, <2>2, <4>1
    <3> QED BY <3>1, <3>2
  <2> QED BY <1>1, <1>3, <2>1, <2>2, <2>3
<1>9. CASE ~Present(values, i)
  <2>1. Take(<<>>, 0) /\ v = <<>>
    BY <1>5, <1>6, <1>9 DEF ReadField
  <2> QED BY <1>7, <1>8, <2>1
<1>10. CASE Present(values, i)
  <2>1. q = Prefix(v, f) \o v /\ Fits(v, f)
    BY <1>5, <1>6, <1>10 DEF Piece
  <2>2. /\ q \in Seq(Byte) /\ offset + Len(q) <= limit
        /\ \A j \in 1..Len(q) : input[offset + j] = q[j]
    BY <1>1, <1>2, <1>3, <1>4, NextFieldIsAhead
  <2>3. f.kind \in {"text", "list"} => Len(v) <= f.limit
    BY <1>1, <1>2 DEF Agreement, WrittenSoFar, Limited
  <2>4. Len(input) <= MaxEncoding
    BY <1>1, <1>3
  <2>5. /\ size = Len(v) /\ PrefixSize(f) = Len(Prefix(v, f))
        /\ BytesAt(offset + PrefixSize(f), Len(v)) = v
        /\ Within(f, Len(v)) /\ Readable(f, v)
        /\ PrefixSize(f) + Len(v) = Len(q)
    <3>1. /\ Fits(v, Grammar[i]) /\ q = Prefix(v, Grammar[i]) \o v
          /\ Grammar[i].kind \in {"text", "list"} => Len(v) <= Grammar[i].limit
      BY <2>1, <2>3
    <3> HIDE DEF v, q, size, i
    <3>2. /\ ValueSize(Grammar[i]) = Len(v)
          /\ PrefixSize(Grammar[i]) = Len(Prefix(v, Grammar[i]))
          /\ BytesAt(offset + PrefixSize(Grammar[i]), Len(v)) = v
          /\ Within(Grammar[i], Len(v)) /\ Readable(Grammar[i], v)
          /\ PrefixSize(Grammar[i]) + Len(v) = Len(q)
      BY <1>1, <1>2, <1>7, <2>2, <2>4, <3>1, WrittenFieldIsTaken
    <3> QED BY <3>2 DEF size
  <2>6. value = v
    BY <2>5
  <2>7. /\ Minus(limit, offset) = limit - offset
        /\ PrefixSize(f) \in Nat /\ Len(v) \in Nat /\ Len(q) \in Nat
    BY <1>1, <1>2, <1>3, <1>7, <2>2, SizesAreNatural DEF Minus
  <2>8. Required(PrefixSize(f)) /\ Required(PrefixSize(f) + size)
    <3>1. PrefixSize(f) + Len(v) <= limit - offset
      <4> HIDE DEF q, v, f
      <4> QED BY <1>1, <2>2, <2>5, <2>7
    <3>2. PrefixSize(f) <= limit - offset
      <4> HIDE DEF q, v, f
      <4> QED BY <1>1, <2>7, <3>1
    <3> QED BY <2>5, <2>7, <3>1, <3>2 DEF Required
  <2>9. Take(value, PrefixSize(f) + size)
    <3>1. Within(f, size) /\ Readable(f, value)
      BY <2>5, <2>6
    <3> QED BY <1>10, <2>8, <3>1 DEF ReadField
  <2> HIDE DEF value, size, f, v
  <2> QED BY <1>7, <1>8, <2>6, <2>9
<1> QED BY <1>9, <1>10

LEMMA ReadFieldAgrees == Inv /\ Agreement /\ ReadField => Agreement'
<1> SUFFICES ASSUME Inv, Agreement, ReadField PROVE Agreement'
  OBVIOUS
<1>1. stage = "reading" /\ stage' \in {"reading", "corrupt"}
        /\ UNCHANGED <<record, output>>
  BY DEF ReadField, Take, Corrupt
<1>2. WrittenSoFar'
  BY <1>1, StoredStaysWritten DEF Agreement
<1> QED BY <1>2, ReadFieldReads, ReadFieldReadsBack DEF Agreement

(* An unspoiled record is long enough, and no longer than a record may be. *)
LEMMA OpenAgrees == Inv /\ Agreement /\ Open => Agreement'
<1> SUFFICES ASSUME Inv, Agreement, Open PROVE Agreement'
  OBVIOUS
<1>1. /\ stage = "found" /\ stage' \in {"corrupt", "reading"}
      /\ UNCHANGED <<record, output, input, genuine, offset, values>>
      /\ offset = 0 /\ values = <<>> /\ record \in Records
      /\ input \in Seq(Byte) /\ Len(output) <= MaxEncoding
  BY DEF Inv, TypeOK, Unread, EncodingsAreBounded, Open
<1>2. WrittenSoFar'
  BY <1>1, StoredStaysWritten DEF Agreement
<1>3. Len(values') = 0 /\ \A i \in 1..Len(values') : FALSE
  BY <1>1
<1>4. ReadSoFar'
  <2>1. Upto(values', Len(values')) = <<>>
    BY <1>3, UptoNone
  <2>2. SubSeq(input', 1, offset') = <<>>
    BY <1>1
  <2> QED BY <1>1, <1>3, <2>1, <2>2 DEF ReadSoFar
<1>5. ReadsBack'
  <2> SUFFICES ASSUME genuine', input' = output' PROVE stage' # "corrupt"
    BY <1>3 DEF ReadsBack
  <2>1. genuine /\ input = output
    BY <1>1
  <2>2. 1 \in 1..Len(Grammar) /\ Grammar[1].kind = "header" /\ Grammar[1].under = 0
    <3>1. Len(Grammar) \in Nat /\ Grammar # <<>> /\ Grammar[1].kind = "header"
            /\ Grammar \in Seq(Fields)
      BY WireAssumption, GrammarIsOfFields
    <3>2. 1 \in 1..Len(Grammar)
      BY <3>1
    <3>3. Grammar[1].under \in Nat /\ Grammar[1].under < 1
      BY <3>2, GrammarIsOfFields
    <3> QED BY <3>1, <3>2, <3>3
  <2>3. Present(record, 1)
    BY <2>2 DEF Present
  <2>4. record[1] = Header
    <3>1. IsRecord(record) /\ 1 \in DOMAIN Grammar
      BY <1>1, <2>2, RecordsAreBytes, GrammarIsOfFields
    <3>2. Fits(record[1], Grammar[1])
      BY <2>3, <3>1 DEF IsRecord
    <3> QED BY <2>2, <3>2 DEF Fits
  <2>5. Header \in Seq(Byte) /\ Len(Header) \in Nat /\ DigestSize \in Nat
    BY WireAssumption
  <2>6. Upto(record, 1) = Header
    <3>1. Upto(record, 1) = Upto(record, 0) \o Piece(record, 1)
      BY <1>1, <2>2, RecordNext
    <3>2. Prefix(record[1], Grammar[1]) = <<>>
      BY <2>2 DEF Prefix
    <3>3. Piece(record, 1) = <<>> \o Header
      BY <2>3, <2>4, <3>2 DEF Piece
    <3>4. Upto(record, 0) = <<>>
      BY UptoNone
    <3> QED BY <2>5, <3>1, <3>3, <3>4
  <2>7. Len(Header) <= Len(PayloadOf(record)) /\ PayloadOf(record) \in Seq(Byte)
    <3>1. 1 \in 0..Len(Grammar)
      BY <2>2
    <3> QED BY <1>1, <2>6, <3>1, UptoIsWithin
  <2>8. input = PayloadOf(record) \o Checksum
    BY <1>1, <2>1 DEF Agreement, WrittenSoFar
  <2>9. Len(input) = Len(PayloadOf(record)) + DigestSize
          /\ Len(PayloadOf(record)) \in Nat
    BY <2>7, <2>8, ChecksumFollows
  <2>10. ~(Len(input) > MaxEncoding) /\ ~(Len(input) < Len(Header) + DigestSize)
    BY <1>1, <2>1, <2>5, <2>7, <2>9, SizesAreGiven
  <2> QED BY <2>1, <2>10 DEF Open
<1> QED BY <1>2, <1>4, <1>5 DEF Agreement

(* When all fields of an unspoiled record are read, nothing of it is left. *)
LEMMA FinishReadingAgrees == Inv /\ Agreement /\ FinishReading => Agreement'
<1> SUFFICES ASSUME Inv, Agreement, FinishReading PROVE Agreement'
  OBVIOUS
<1>1. /\ stage = "reading" /\ Len(values) = Len(Grammar)
      /\ stage' = IF offset = limit THEN "accepted" ELSE "corrupt"
      /\ UNCHANGED <<record, next, output, input, genuine, limit, offset, values>>
  BY DEF FinishReading
<1>2. WrittenSoFar'
  BY <1>1, StoredStaysWritten DEF Agreement
<1>3. ReadSoFar'
  BY <1>1 DEF Agreement, ReadSoFar, Upto, Piece, Present
<1>4. ReadsBack'
  <2> SUFFICES ASSUME genuine', input' = output'
               PROVE  /\ stage' # "corrupt"
                      /\ \A i \in 1..Len(values') : values'[i] = record'[i]
    BY DEF ReadsBack
  <2>1. genuine /\ input = output
    BY <1>1
  <2>2. \A i \in 1..Len(values) : values[i] = record[i]
    BY <1>1, <2>1 DEF Agreement, ReadsBack, Given
  <2>3. /\ record \in Records /\ input \in Seq(Byte) /\ limit \in Nat
        /\ offset \in 0..Len(input) /\ DigestSize \in Nat
        /\ limit + DigestSize = Len(input) /\ Len(Grammar) \in Nat
    BY <1>1, WireAssumption, GrammarIsOfFields DEF Inv, TypeOK, ReadsStayInside
  <2>4. PayloadOf(record) = SubSeq(input, 1, offset)
    <3>1. Upto(values, Len(Grammar)) = Upto(record, Len(Grammar))
      BY <1>1, <2>2, <2>3, UptoAlike
    <3> QED BY <1>1, <3>1, PayloadIsAll DEF Agreement, ReadSoFar
  <2>5. Len(PayloadOf(record)) = offset /\ PayloadOf(record) \in Seq(Byte)
    BY <2>3, <2>4
  <2>6. input = PayloadOf(record) \o Checksum
    BY <1>1, <2>1 DEF Agreement, WrittenSoFar
  <2>7. Len(input) = offset + DigestSize
    BY <2>5, <2>6, ChecksumFollows
  <2>8. offset = limit
    BY <2>3, <2>7
  <2> QED BY <1>1, <2>2, <2>8
<1> QED BY <1>2, <1>3, <1>4 DEF Agreement

LEMMA NextAgrees == Inv /\ Agreement /\ [Next]_vars => Agreement'
<1> SUFFICES ASSUME Inv, Agreement, [Next]_vars PROVE Agreement'
  OBVIOUS
<1>1. CASE UNCHANGED vars
  BY <1>1 DEF vars, Agreement, WrittenSoFar, ReadSoFar, ReadsBack, Given,
    Limited, TooLarge, PayloadOf, Upto, Piece, Present
<1>2. CASE FindIntact \/ FindTruncated \/ FindForeign
  BY <1>2, FindAgrees DEF FindIntact, FindTruncated, FindForeign
<1> QED BY <1>1, <1>2, WriteFieldAgrees, WriteChecksumAgrees, OpenAgrees,
           ReadFieldAgrees, FinishReadingAgrees
        DEF Next

LEMMA AgreementHolds == Spec => [](Inv /\ Agreement)
  BY InitInv, InitAgrees, NextInv, NextAgrees, PTL DEF Spec

----------------------------------------------------------------------------
(* The states are those of the writer and of the reader, whose limit and    *)
(* offset stay positions in its input (TypeOK).                             *)
THEOREM WireTypes == Spec => []TypeOK
<1>1. Inv => TypeOK
  BY DEF Inv
<1> QED BY <1>1, InvHolds, PTL

(* No record outgrows the largest size of an encoding, by whatever way its  *)
(* bytes are added (writer::check_size, writer::raw).                       *)
THEOREM RecordsAreBounded == Spec => []EncodingsAreBounded
<1>1. Inv => EncodingsAreBounded
  BY DEF Inv
<1> QED BY <1>1, InvHolds, PTL

(* Whatever bytes the reader is given, it stays before the checksum, and    *)
(* the subtraction in reader::require does not wrap around.                 *)
THEOREM ReaderStaysInside == Spec => []ReadsStayInside
<1>1. Inv => ReadsStayInside
  BY DEF Inv
<1> QED BY <1>1, InvHolds, PTL

(* For any grammar and records: the encoder refuses exactly the records of  *)
(* which a part or the whole is too large, although some fields are checked *)
(* before and some after they are written (writer::raw, writer::byte).      *)
THEOREM OnlyTooLargeIsRefused == Spec => []RefusalIsExact
<1>1. Inv /\ Agreement => RefusalIsExact
  <2> SUFFICES ASSUME Inv, Agreement PROVE RefusalIsExact
    OBVIOUS
  <2>1. stage = "refused" => TooLarge
    BY DEF Agreement, WrittenSoFar
  <2>2. stage = "stored" => ~TooLarge
    <3> SUFFICES ASSUME stage = "stored" PROVE ~TooLarge
      OBVIOUS
    <3>1. output = PayloadOf(record) \o Checksum /\ Limited(Len(Grammar))
      BY DEF Agreement, WrittenSoFar
    <3>2. record \in Records /\ Len(output) <= MaxEncoding
            /\ Len(Grammar) \in 0..Len(Grammar)
      BY GrammarIsOfFields DEF Inv, TypeOK, EncodingsAreBounded
    <3>3. PayloadOf(record) \in Seq(Byte)
      BY <3>2, UptoIsWithin
    <3>4. Len(output) = Len(PayloadOf(record)) + DigestSize
            /\ Len(PayloadOf(record)) \in Nat
      BY <3>1, <3>3, ChecksumFollows
    <3>5. ~(Len(PayloadOf(record)) + DigestSize > MaxEncoding)
      BY <3>2, <3>4, SizesAreGiven
    <3>6. ASSUME NEW i \in DOMAIN Grammar, Grammar[i].kind \in {"text", "list"}
          PROVE  ~(Len(record[i]) > Grammar[i].limit)
      <4>1. i \in 1..Len(Grammar) /\ Grammar[i].limit \in Nat
        BY GrammarIsOfFields
      <4>2. Len(record[i]) <= Grammar[i].limit
        BY <3>1, <3>6, <4>1 DEF Limited
      <4>3. record[i] \in Seq(Byte)
        BY <3>2, FieldsAreBytes
      <4>4. Len(record[i]) \in Nat
        BY <4>3
      <4> QED BY <4>1, <4>2, <4>4
    <3> QED BY <3>5, <3>6 DEF TooLarge
  <2> QED BY <2>1, <2>2 DEF RefusalIsExact, TooLarge
<1> QED BY <1>1, AgreementHolds, PTL

(* For any bytes found, with whatever sizes in them: what the reader        *)
(* accepts is a record, and these bytes are that record written; nothing is *)
(* skipped, read twice or read in two ways (the reader of                   *)
(* src/result_codec.cpp, down to finish()).                                 *)
THEOREM AcceptedIsWritten == Spec => []ReadIsWritten
<1>1. Inv /\ Agreement => ReadIsWritten
  <2> SUFFICES ASSUME Inv, Agreement, stage = "accepted"
               PROVE  IsRecord(values)
                        /\ PayloadOf(values) = SubSeq(input, 1, limit)
    BY DEF ReadIsWritten
  <2>1. values \in Seq(Seq(Byte)) /\ DOMAIN Grammar = 1..Len(Grammar)
    BY GrammarIsOfFields DEF Inv, TypeOK
  <2>2. /\ \A i \in 1..Len(values) :
             IF Present(values, i) THEN Fits(values[i], Grammar[i])
             ELSE values[i] = <<>>
        /\ Upto(values, Len(values)) = SubSeq(input, 1, offset)
        /\ Len(values) = Len(Grammar) /\ offset = limit
    BY DEF Agreement, ReadSoFar
  <2>3. IsRecord(values)
    BY <2>1, <2>2 DEF IsRecord
  <2> QED BY <2>2, <2>3, PayloadIsAll
<1> QED BY <1>1, AgreementHolds, PTL

(* For any grammar and records: what the writer stores the reader takes,    *)
(* field by field as it was; none of its limits is below the writer's, and  *)
(* no size is too large for the bytes it is written in.                     *)
THEOREM StoredIsAccepted == Spec => []WrittenIsRead
<1>1. Inv /\ Agreement => WrittenIsRead
  <2> SUFFICES ASSUME Inv, Agreement, Given, genuine, input = output
               PROVE  stage # "corrupt" /\ (stage = "accepted" => values = record)
    BY DEF WrittenIsRead
  <2>1. stage # "corrupt" /\ \A i \in 1..Len(values) : values[i] = record[i]
    BY DEF Agreement, ReadsBack
  <2>2. ASSUME stage = "accepted" PROVE values = record
    <3>1. Len(values) = Len(Grammar)
      BY <2>2 DEF Agreement, ReadSoFar
    <3>2. values \in Seq(Seq(Byte)) /\ record \in Records
      BY DEF Inv, TypeOK
    <3>3. record \in Seq(Seq(Byte)) /\ Len(record) = Len(Grammar)
      BY <3>2, RecordsAreBytes
    <3>4. \A S : \A s, t \in Seq(S) :
            Len(s) = Len(t) /\ (\A i \in 1..Len(s) : s[i] = t[i]) => s = t
      OBVIOUS
    <3> QED BY <2>1, <3>1, <3>2, <3>3, <3>4
  <2> QED BY <2>1, <2>2
<1> QED BY <1>1, AgreementHolds, PTL
=============================================================================

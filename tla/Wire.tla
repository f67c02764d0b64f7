-------------------------------- MODULE Wire --------------------------------
(***************************************************************************)
(* The bytes of the durable records: the writer and the reader of          *)
(* src/result_codec.cpp and src/profile_codec.cpp, one field after         *)
(* another, with the sizes they compare and the subtractions of size_t     *)
(* they compare them with.  A record is written, and may then be replaced  *)
(* by the record of another implementation, which has the right checksum,  *)
(* or lose its end.  What the fields mean is left to Codecs.               *)
(*                                                                         *)
(* The value of a field is a sequence of bytes; of a field that is left    *)
(* out, the empty one.                                                     *)
(***************************************************************************)
EXTENDS Naturals, Sequences, SequencesExt

CONSTANTS
  Grammar,          \* the fields of the record, in order
  Records,          \* the records written: the values of their fields
  Header,           \* encoding_magic and the version
  DigestSize,       \* checksum_size, and the size of an identity
  MaxEncoding,      \* maximum_execution_result_encoding_size
  MaxDiagnostic,    \* maximum_diagnostic_size
  MaxCount,         \* maximum_guarantee_count
  SizeModulus,      \* the number of values of size_t
  Changes           \* bytes another implementation may write instead

Byte == 0..255

MaxMaterial == MaxEncoding - DigestSize

(* A field of one size, a number with its largest value, a boolean, a text  *)
(* or a list with its limit, kept material with the limit of the reader;    *)
(* under is the boolean that says whether the field is there, 0 if it       *)
(* always is.                                                               *)
Field(kind, limit, under) == [kind |-> kind, limit |-> limit, under |-> under]

CaptureFields(under) ==
  <<Field("boolean", 1, 0), Field("fixed", 8, under),
    Field("fixed", DigestSize, under), Field("boolean", 1, under),
    Field("material", MaxMaterial, under + 3)>>

ResultGrammar ==
  <<Field("header", Len(Header), 0),
    Field("fixed", DigestSize, 0), Field("fixed", DigestSize, 0),
    Field("fixed", DigestSize, 0),
    Field("number", 1, 0), Field("number", 1, 0),
    Field("boolean", 1, 0), Field("fixed", DigestSize, 7),
    Field("boolean", 1, 0), Field("number", 3, 9), Field("boolean", 1, 9),
    Field("fixed", 4, 11), Field("boolean", 1, 9), Field("number", 4, 13)>>
  \o CaptureFields(15) \o CaptureFields(20)
  \o <<Field("list", MaxCount, 0), Field("number", 2, 0),
       Field("boolean", 1, 0), Field("number", 11, 27),
       Field("text", MaxDiagnostic, 0)>>

LastGuarantee == 17

(* Is the i-th field there, given the values of those before it? *)
Present(values, i) ==
  Grammar[i].under = 0 \/ values[Grammar[i].under] = <<1>>

(* A value the program can hold for a field; sizes are the writer's to check *)
Fits(value, f) ==
  CASE f.kind = "header"  -> value = Header
    [] f.kind = "fixed"   -> value \in Seq(Byte) /\ Len(value) = f.limit
    [] f.kind = "number"  -> value \in {<<n>> : n \in 0..f.limit}
    [] f.kind = "boolean" -> value \in {<<0>>, <<1>>}
    [] f.kind = "list"    -> value \in Seq(0..LastGuarantee)
    [] OTHER              -> value \in Seq(Byte)

IsRecord(r) ==
  /\ r \in Seq(Seq(Byte)) /\ Len(r) = Len(Grammar)
  /\ \A i \in DOMAIN Grammar :
       IF Present(r, i) THEN Fits(r[i], Grammar[i]) ELSE r[i] = <<>>

(* The limit that the format gives to a field of its kind; those of a text, *)
(* of fixed bytes and of the largest number of a list vary with the field.  *)
LimitFits(f) ==
  /\ f.kind = "header"   => f.limit = Len(Header)
  /\ f.kind = "number"   => f.limit <= 255
  /\ f.kind = "boolean"  => f.limit = 1
  /\ f.kind = "material" => f.limit = MaxMaterial
  /\ f.kind = "list"     => f.limit < 256 * 256

Kinds == {"header", "fixed", "number", "boolean", "material", "text", "list"}
Fields == [kind : Kinds, limit : Nat, under : Nat]

ASSUME WireAssumption ==
  /\ {DigestSize, MaxEncoding, MaxDiagnostic, MaxCount, SizeModulus}
       \subseteq Nat
  /\ Header \in Seq(Byte)
  /\ Len(Header) + DigestSize <= MaxEncoding
  /\ MaxEncoding < SizeModulus /\ MaxEncoding \div (256 * 256 * 256) < 256
  /\ Changes \subseteq Byte
  /\ Grammar \in Seq(Fields)
  /\ Grammar # <<>> /\ Grammar[1].kind = "header"
  /\ \A i \in DOMAIN Grammar :
       Grammar[i].under < i /\ LimitFits(Grammar[i])
  /\ \A r \in Records : IsRecord(r)

VARIABLES
  stage,            \* where the record is, see TypeOK
  record,           \* what is written
  next,             \* the field the writer is at
  output,           \* what it has written
  input,            \* what the reader is given
  genuine,          \* whether its last DigestSize bytes are its checksum
  limit, offset,    \* limit_ and offset_ of the reader
  values            \* the fields it has read

vars == <<stage, record, next, output, input, genuine, limit, offset, values>>

----------------------------------------------------------------------------
(* Subtraction of size_t. *)
Minus(a, b) == IF a >= b THEN a - b ELSE a - b + SizeModulus

(* The four or two bytes of a size, the high ones first. *)
Bytes32(n) ==
  <<(n \div (256 * 256 * 256)) % 256, (n \div (256 * 256)) % 256,
    (n \div 256) % 256, n % 256>>
Bytes16(n) == <<(n \div 256) % 256, n % 256>>

Number32(b) == ((b[1] * 256 + b[2]) * 256 + b[3]) * 256 + b[4]
Number16(b) == b[1] * 256 + b[2]

(* What precedes the value of a field. *)
Prefix(value, f) ==
  CASE f.kind \in {"text", "material"} -> Bytes32(Len(value))
    [] f.kind = "list"                 -> Bytes16(Len(value))
    [] OTHER                           -> <<>>

(* The payload of a record, as the writer would write it without limits. *)
PayloadOf(r) ==
  FlattenSeq([i \in DOMAIN Grammar |->
                IF Present(r, i) THEN Prefix(r[i], Grammar[i]) \o r[i]
                ELSE <<>>])

Checksum == [i \in 1..DigestSize |-> 0]

----------------------------------------------------------------------------
(* The writer *)

(* Mutant of Room: the diagnostic and the guarantees have no limit. *)
RoomUnlimited(f, value) ==
  Len(output) + Len(Prefix(value, f)) + Len(value) <= MaxEncoding

(* A field is refused by its own limit, then by raw(), which compares with  *)
(* what is left, or by byte(), which looks at the size afterwards.          *)
Room(f, value) ==
  LET written == Len(output) + Len(Prefix(value, f))
  IN  /\ written <= MaxEncoding
      /\ f.kind \in {"text", "list"} => Len(value) <= f.limit
      /\ IF f.kind \in {"header", "text", "material"}
           THEN value = <<>> \/ Len(value) <= Minus(MaxEncoding, written)
           ELSE written + Len(value) <= MaxEncoding

WriteField ==
  /\ stage = "writing"
  /\ next <= Len(Grammar)
  /\ LET f == Grammar[next]
         value == record[next]
     IN  IF ~Present(record, next) THEN UNCHANGED <<stage, output>>
         ELSE IF Room(f, value)
           THEN /\ output' = output \o Prefix(value, f) \o value
                /\ UNCHANGED stage
         ELSE stage' = "refused" /\ UNCHANGED output
  /\ next' = next + 1
  /\ UNCHANGED <<record, input, genuine, limit, offset, values>>

WriteChecksum ==
  /\ stage = "writing"
  /\ next > Len(Grammar)
  /\ IF Len(output) + DigestSize <= MaxEncoding
       THEN stage' = "stored" /\ output' = output \o Checksum
       ELSE stage' = "refused" /\ UNCHANGED output
  /\ UNCHANGED <<record, next, input, genuine, limit, offset, values>>

----------------------------------------------------------------------------
(* What may be found in place of what was stored. *)

Find(bytes, right) ==
  /\ stage = "stored"
  /\ stage' = "found"
  /\ input' = bytes
  /\ genuine' = right
  /\ UNCHANGED <<record, next, output, limit, offset, values>>

FindIntact == Find(output, TRUE)

(* The end is lost. *)
FindTruncated ==
  /\ stage = "stored"
  /\ \E n \in 0..(Len(output) - 1) : Find(SubSeq(output, 1, n), FALSE)

(* Another implementation wrote one byte otherwise, too many or too few. *)
FindForeign ==
  /\ stage = "stored"
  /\ LET size == Len(output) - DigestSize
         payload == SubSeq(output, 1, size)
     IN  \/ \E i \in 1..size, b \in Changes :
              Find([payload EXCEPT ![i] = b] \o Checksum, TRUE)
         \/ \E n \in 0..(size - 1) :
              Find(SubSeq(payload, 1, n) \o Checksum, TRUE)
         \/ \E b \in Changes : Find(Append(payload, b) \o Checksum, TRUE)

----------------------------------------------------------------------------
(* The reader *)

Open ==
  /\ stage = "found"
  /\ IF \/ Len(input) > MaxEncoding
        \/ Len(input) < Len(Header) + DigestSize
        \/ ~genuine
       THEN stage' = "corrupt" /\ UNCHANGED limit
       ELSE stage' = "reading" /\ limit' = Minus(Len(input), DigestSize)
  /\ UNCHANGED <<record, next, output, input, genuine, offset, values>>

(* Mutant of Required: what is needed is compared with the whole record. *)
RequiredOfRecord(n) == n <= Minus(Len(input), offset)

(* require(), which has to hold for n more bytes. *)
Required(n) == n <= Minus(limit, offset)

(* n bytes from an offset on; beyond the input there could be anything. *)
BytesAt(start, n) ==
  [i \in 1..n |-> IF start + i <= Len(input) THEN input[start + i] ELSE 0]

PrefixSize(f) ==
  CASE f.kind \in {"text", "material"} -> 4
    [] f.kind = "list"                 -> 2
    [] OTHER                           -> 0

(* How many bytes the value of a field has, by what precedes it. *)
ValueSize(f) ==
  CASE f.kind \in {"text", "material"} -> Number32(BytesAt(offset, 4))
    [] f.kind = "list"                 -> Number16(BytesAt(offset, 2))
    [] f.kind \in {"header", "fixed"}  -> f.limit
    [] OTHER                           -> 1

(* Mutant of Readable: any byte but one is a false boolean. *)
ReadableLoosely(f, value) ==
  CASE f.kind = "header" -> value = Header
    [] f.kind = "number" -> value[1] <= f.limit
    [] f.kind = "list"   -> \A i \in DOMAIN value : value[i] <= LastGuarantee
    [] OTHER             -> TRUE

Readable(f, value) ==
  CASE f.kind = "header"                -> value = Header
    [] f.kind \in {"number", "boolean"} -> value[1] <= f.limit
    [] f.kind = "list"   -> \A i \in DOMAIN value : value[i] <= LastGuarantee
    [] OTHER             -> TRUE

(* Mutant of Within: a size at its limit is refused. *)
WithinLimit(f, size) ==
  f.kind \in {"material", "text", "list"} => size < f.limit

Within(f, size) ==
  f.kind \in {"material", "text", "list"} => size <= f.limit

Corrupt ==
  /\ stage' = "corrupt"
  /\ UNCHANGED <<offset, values>>

Take(value, size) ==
  /\ values' = Append(values, value)
  /\ offset' = offset + size
  /\ UNCHANGED stage

ReadField ==
  LET i == Len(values) + 1
      f == Grammar[i]
      size == ValueSize(f)
      value == BytesAt(offset + PrefixSize(f), size)
  IN  /\ stage = "reading"
      /\ i <= Len(Grammar)
      /\ IF ~Present(values, i) THEN Take(<<>>, 0)
         ELSE IF /\ Required(PrefixSize(f))
                 /\ Within(f, size)
                 /\ Required(PrefixSize(f) + size)
                 /\ Readable(f, value)
           THEN Take(value, PrefixSize(f) + size)
           ELSE Corrupt
      /\ UNCHANGED <<record, next, output, input, genuine, limit>>

(* reader::finish() *)
FinishReading ==
  /\ stage = "reading"
  /\ Len(values) = Len(Grammar)
  /\ stage' = IF offset = limit THEN "accepted" ELSE "corrupt"
  /\ UNCHANGED <<record, next, output, input, genuine, limit, offset, values>>

----------------------------------------------------------------------------
Init ==
  /\ stage = "writing"
  /\ record \in Records
  /\ next = 1
  /\ output = <<>> /\ input = <<>> /\ values = <<>>
  /\ genuine = FALSE
  /\ limit = 0 /\ offset = 0

Next ==
  \/ WriteField \/ WriteChecksum
  \/ FindIntact \/ FindTruncated \/ FindForeign
  \/ Open \/ ReadField \/ FinishReading

Spec == Init /\ [][Next]_vars

----------------------------------------------------------------------------
Given == stage \in {"found", "reading", "accepted", "corrupt"}

(* The states of the writer and the reader; the reader's limit and offset    *)
(* are positions in its input.                                              *)
TypeOK ==
  /\ stage \in {"writing", "refused", "stored", "found", "reading", "accepted",
               "corrupt"}
  /\ record \in Records
  /\ next \in 1..(Len(Grammar) + 1)
  /\ output \in Seq(Byte) /\ input \in Seq(Byte)
  /\ genuine \in BOOLEAN
  /\ limit \in 0..Len(input) /\ offset \in 0..Len(input)
  /\ values \in Seq(Seq(Byte)) /\ Len(values) <= Len(Grammar)

(* The record never outgrows its largest size, whatever is in it: what is   *)
(* left, which raw() takes from that size, is never below zero.             *)
EncodingsAreBounded == Len(output) <= MaxEncoding

(* The encoder refuses a record exactly when the guarantees, the diagnostic *)
(* or the whole is too large; the two ways its writer looks at the size,    *)
(* before a text and after a byte, agree.                                   *)
RefusalIsExact ==
  LET toolarge ==
        \/ Len(PayloadOf(record)) + DigestSize > MaxEncoding
        \/ \E i \in DOMAIN Grammar :
             /\ Grammar[i].kind \in {"text", "list"}
             /\ Len(record[i]) > Grammar[i].limit
  IN  /\ stage = "refused" => toolarge
      /\ stage = "stored" => ~toolarge

(* Whatever the bytes say, the reader stays in the payload: no size in a    *)
(* record takes it into the checksum or beyond the input, and limit_ -      *)
(* offset_ never wraps around.                                              *)
ReadsStayInside ==
  stage \in {"reading", "accepted"} =>
    offset <= limit /\ limit + DigestSize = Len(input)

(* What the reader takes from any bytes is a record the program can hold,   *)
(* and these bytes are that record written: nothing in them is skipped,     *)
(* read twice or read in two ways.                                          *)
ReadIsWritten ==
  stage = "accepted" =>
    IsRecord(values) /\ PayloadOf(values) = SubSeq(input, 1, limit)

(* What the writer stores the reader takes, as it was: no limit of the      *)
(* reader is below one of the writer.                                       *)
WrittenIsRead ==
  Given /\ genuine /\ input = output =>
    stage # "corrupt" /\ (stage = "accepted" => values = record)
=============================================================================

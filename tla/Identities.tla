----------------------------- MODULE Identities -----------------------------
(***************************************************************************)
(* What an identity is a digest of: the bytes that identity_builder        *)
(* (src/identity_support.cpp) is fed for a layout, an environment, the     *)
(* credentials, the limits (src/model.cpp), a request (src/request.cpp), a *)
(* backend profile and execution evidence (src/result.cpp).  SHA-256 is    *)
(* taken to have no collisions, so an identity stands for its bytes.       *)
(*                                                                         *)
(* A text is a sequence of bytes, an optional value a sequence of at most  *)
(* one, an enumerator its number.                                          *)
(***************************************************************************)
EXTENDS Layouts, Integers

CONSTANTS
  Domain,         \* the domain text of each kind of identity
  Text,           \* the text of each slot name, resource and mount point
  ActionText,     \* the text of each lifecycle action
  Schema          \* execution_request_schema_version

Byte == 0..255

(* n, and what is left of it after each of the w bytes cut off its end *)
Shifted(n, w) ==
  LET shifted[k \in 0..w] == IF k = 0 THEN n ELSE shifted[k - 1] \div 256
  IN  shifted

(* The integers of w bytes: those of two's complement have a bit less. *)
Unsigned(w) == {n \in Nat : Shifted(n, w)[w] = 0}
Signed(w) ==
  {n \in Int : Shifted(IF n < 0 THEN -(n + 1) ELSE n, w)[w - 1] < 128}

(* A size is an integer of eight bytes. *)
ListOf(S) == {s \in Seq(S) : Len(s) \in Unsigned(8)}
AnyText == ListOf(Byte)

(* As std::string compares: byte by byte, a prefix before what it begins. *)
Precedes(a, b) ==
  \/ \E i \in DOMAIN a \cap DOMAIN b :
       a[i] < b[i] /\ \A j \in 1..(i - 1) : a[j] = b[j]
  \/ Len(a) < Len(b) /\ \A i \in DOMAIN a : a[i] = b[i]

Kinds ==
  {"layout", "environment", "credentials", "limits", "request", "profile",
   "evidence"}

(* The domains differ, and Layouts sorts by numbers what the code sorts by  *)
(* text; only the name of a slot may be empty.                              *)
ASSUME IdentitiesAssumption ==
  /\ \A k \in Kinds : Domain[k] \in AnyText
  /\ \A k, l \in Kinds : Domain[k] = Domain[l] => k = l
  /\ ActionText \in [0..3 -> AnyText]
  /\ \A a, b \in DOMAIN ActionText : ActionText[a] = ActionText[b] => a = b
  /\ 0 \in DOMAIN Text /\ DOMAIN Text \subseteq Nat
  /\ \A n \in DOMAIN Text : Text[n] \in AnyText
  /\ Text[0] = <<>>
  /\ \A m \in DOMAIN Text : \A n \in DOMAIN Text :
       m < n => Precedes(Text[m], Text[n])
  /\ Schema \in Byte

----------------------------------------------------------------------------
(* Mutant of BigEndian: what exceeds a byte is not cut off. *)
BigEndianWhole(n, w) == [i \in 1..w |-> Shifted(n, w)[w - i]]

(* encode_u64() and its narrower forms: the w low bytes, high ones first *)
BigEndian(n, w) == [i \in 1..w |-> Shifted(n, w)[w - i] % 256]

AddU8(n) == <<n>>
AddU16(n) == BigEndian(n, 2)
AddU32(n) == BigEndian(n, 4)
AddU64(n) == BigEndian(n, 8)
AddBool(b) == AddU8(IF b THEN 1 ELSE 0)

(* Mutant of AddString: the text without its length. *)
AddBareString(s) == s

AddString(s) == AddU64(Len(s)) \o s

AddOptionalU64(o) ==
  AddBool(o # <<>>) \o (IF o = <<>> THEN <<>> ELSE AddU64(o[1]))

AddOptionalU32(o) ==
  AddBool(o # <<>>) \o (IF o = <<>> THEN <<>> ELSE AddU32(o[1]))

AddOptionalU8(o) ==
  AddBool(o # <<>>) \o (IF o = <<>> THEN <<>> ELSE AddU8(o[1]))

AddOptionalString(o) ==
  AddBool(o # <<>>) \o (IF o = <<>> THEN <<>> ELSE AddString(o[1]))

(* A list is its length and then its elements. *)
AddEach(s, Add(_)) ==
  AddU64(Len(s)) \o FlattenSeq([i \in DOMAIN s |-> Add(s[i])])

(* normalize_guarantees(): sorted, each once *)
AddGuarantees(s) == AddEach(Ascending(ToSet(s)), AddU8)

Begin(kind) == AddString(Domain[kind])

----------------------------------------------------------------------------
AddSlot(slot) == AddU8(Role(slot)) \o AddString(Text[Name(slot)])

AddBinding(b) ==
  AddSlot(b.slot) \o AddString(Text[b.resource]) \o AddU8(b.access)
  \o AddString(Text[b.mount])

LayoutBytes(d) ==
  AddEach(SortedBindings(d.bindings), AddBinding) \o AddSlot(d.working)

AddVariable(v) == AddString(v.name) \o AddString(v.value)

VariablePrecedes(a, b) ==
  \/ Precedes(a.name, b.name)
  \/ a.name = b.name /\ Precedes(a.value, b.value)

(* Mutant of SortedVariables: they stay in the caller's order. *)
UnsortedVariables(s) == s

SortedVariables(s) ==
  Sorted(s, {p \in PlacePairs(s) : VariablePrecedes(s[p[1]], s[p[2]])})

(* The three leading zeros are the locale, time zone and home policies, of  *)
(* one value each.                                                          *)
EnvironmentBytes(d) ==
  <<0, 0, 0>>
  \o AddU8(d.network) \o AddU8(d.stdin) \o AddU8(d.stdout) \o AddU8(d.stderr)
  \o AddEach(d.path, AddString) \o AddString(d.home) \o AddString(d.tmp)
  \o AddU32(d.parallelism) \o AddU32(d.mask) \o AddOptionalU64(d.epoch)
  \o AddEach(SortedVariables(d.variables), AddVariable)

SortedGroups(s) == Sorted(s, {p \in PlacePairs(s) : s[p[1]] < s[p[2]]})

CredentialsBytes(d) ==
  AddU64(d.user) \o AddU64(d.group)
  \o AddEach(SortedGroups(d.groups), AddU64) \o AddBool(d.restricted)

LimitsBytes(d) ==
  AddOptionalU64(d.cpu) \o AddOptionalU64(d.memory)
  \o AddOptionalU64(d.file) \o AddOptionalU64(d.open)
  \o AddOptionalU64(d.processes)

RequestBytes(d) ==
  AddU16(Schema) \o AddString(d.language) \o AddString(d.program)
  \o AddU8(d.purpose)
  \o AddOptionalString([i \in DOMAIN d.action |-> ActionText[d.action[i]]])
  \o AddString(d.interpreter) \o AddString(d.view) \o AddString(d.layout)
  \o AddString(d.environment) \o AddString(d.credentials)
  \o AddString(d.limits)
  \o AddU8(d.mode) \o AddOptionalU64(d.grace)
  \o AddGuarantees(d.guarantees)

ProfileBytes(d) ==
  AddString(d.backend) \o AddGuarantees(d.guarantees)

AddTermination(o) ==
  AddBool(o # <<>>)
  \o (IF o = <<>> THEN <<>>
      ELSE AddU8(o[1].kind) \o AddOptionalU32(o[1].value)
           \o AddOptionalU8(o[1].limit))

AddCapture(o) ==
  AddBool(o # <<>>)
  \o (IF o = <<>> THEN <<>> ELSE AddU64(o[1].count) \o AddString(o[1].digest))

EvidenceBytes(d) ==
  AddU8(d.status) \o AddU8(d.start)
  \o AddString(d.request) \o AddString(d.profile)
  \o AddOptionalString(d.interpreter) \o AddTermination(d.termination)
  \o AddCapture(d.stdout) \o AddCapture(d.stderr)
  \o AddGuarantees(d.guarantees) \o AddU8(d.cleanup)
  \o AddOptionalU8(d.failure)

FieldBytes(kind, d) ==
  CASE kind = "layout"      -> LayoutBytes(d)
    [] kind = "environment" -> EnvironmentBytes(d)
    [] kind = "credentials" -> CredentialsBytes(d)
    [] kind = "limits"      -> LimitsBytes(d)
    [] kind = "request"     -> RequestBytes(d)
    [] kind = "profile"     -> ProfileBytes(d)
    [] kind = "evidence"    -> EvidenceBytes(d)

(* The domain comes first. *)
IdentityBytes(kind, d) == Begin(kind) \o FieldBytes(kind, d)
=============================================================================

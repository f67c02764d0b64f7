------------------------------ MODULE Policies ------------------------------
(***************************************************************************)
(* The values a request and its evidence are made of (src/model.cpp):      *)
(* callers declare them, constructors validate and normalise them, and     *)
(* what is accepted gets an identity by which it is known ever after, to   *)
(* tokens, backends and stored evidence.  What makes a combination of      *)
(* guarantees or of evidence consistent is left to Requests and Evidence.  *)
(* The texts among these values are declared one at a time as well.        *)
(***************************************************************************)
EXTENDS Identities, Checks, Texts

CONSTANTS
  Declarations,     \* what callers may declare, for each kind
  MaxDeclared       \* bound: declarations made

TextKinds == {"path", "slot", "variable", "digest"}

(* The parameters of the constructors: a text is any bytes, an enumerator   *)
(* any number that converts to it.                                          *)
AtMostOne(S) == {o \in Seq(S) : Len(o) <= 1}

AnyVariable == [name : AnyText, value : AnyText]
AnyTermination ==
  [kind : Nat, value : AtMostOne(Unsigned(4)), limit : AtMostOne(Nat)]
AnyCapture == [count : Unsigned(8), digest : AnyText]

AnyLayout == [bindings : ListOf(AnyBinding), working : Nat \X Nat]

AnyEnvironment ==
  [path : ListOf(AnyText), home : AnyText, tmp : AnyText,
   parallelism : Unsigned(4), mask : Unsigned(4), epoch : AtMostOne(Signed(8)),
   network : Nat, stdin : Nat, stdout : Nat, stderr : Nat,
   variables : ListOf(AnyVariable)]

AnyCredentials ==
  [user : Unsigned(8), group : Unsigned(8), groups : ListOf(Unsigned(8)),
   restricted : BOOLEAN]

AnyLimits ==
  [cpu : AtMostOne(Unsigned(8)), memory : AtMostOne(Unsigned(8)),
   file : AtMostOne(Unsigned(8)), open : AtMostOne(Unsigned(8)),
   processes : AtMostOne(Unsigned(8))]

AnyRequest ==
  [language : AnyText, program : AnyText, purpose : Nat, action : AtMostOne(Nat),
   interpreter : AnyText, view : AnyText, layout : AnyText,
   environment : AnyText, credentials : AnyText, limits : AnyText, mode : Nat,
   grace : AtMostOne(Unsigned(8)), guarantees : ListOf(Nat)]

AnyProfile == [backend : AnyText, guarantees : ListOf(Nat)]

AnyEvidence ==
  [status : Nat, start : Nat, request : AnyText, profile : AnyText,
   interpreter : AtMostOne(AnyText), termination : AtMostOne(AnyTermination),
   stdout : AtMostOne(AnyCapture), stderr : AtMostOne(AnyCapture),
   guarantees : ListOf(Nat), cleanup : Nat, failure : AtMostOne(Nat)]

Declarable(kind) ==
  CASE kind = "layout"      -> AnyLayout
    [] kind = "environment" -> AnyEnvironment
    [] kind = "credentials" -> AnyCredentials
    [] kind = "limits"      -> AnyLimits
    [] kind = "request"     -> AnyRequest
    [] kind = "profile"     -> AnyProfile
    [] kind = "evidence"    -> AnyEvidence
    [] kind = "variable"    -> AnyVariable
    [] kind \in {"path", "slot", "digest"} -> AnyText

(* The numbers that stand for texts in a layout *)
TextsOf(d) ==
  {Name(d.working)} \cup
    UNION {{Name(b.slot), b.resource, b.mount} : b \in ToSet(d.bindings)}

ASSUME PoliciesAssumption ==
  /\ DOMAIN Declarations = Kinds \cup TextKinds
  /\ \A k \in Kinds \cup TextKinds : Declarations[k] \subseteq Declarable(k)
  /\ \A d \in Declarations["layout"] : TextsOf(d) \subseteq DOMAIN Text
  /\ MaxDeclared \in Nat

VARIABLE answers    \* what was declared, and what the constructors answered

----------------------------------------------------------------------------
(* The vocabularies of detail::valid(), by the numbers of the enumerators *)
ValidNetwork == 0..2
ValidStdin == 0..1
ValidStream == 0..1
ValidAction == 0..3
ValidLimit == 0..4

(* Mutant of SameName: a repeated name needs a repeated value. *)
SameVariable(v, w) == v = w

SameName(v, w) == v.name = w.name

(* environment_variable for each variable, then environment_policy's        *)
(* hermetic(); duplicates are neighbours once the variables are sorted.     *)
EnvironmentChecks(d) ==
  LET sorted == SortedVariables(d.variables)
      code == [i \in DOMAIN d.variables |->
                 TextCode("variable", d.variables[i])]
  IN  [i \in DOMAIN d.variables |-> <<code[i] # "ok", code[i]>>] \o
      << <<d.network \notin ValidNetwork, "invalid_policy">>,
         <<d.stdin \notin ValidStdin, "invalid_policy">>,
         <<{d.stdout, d.stderr} \ ValidStream # {}, "invalid_policy">>,
         <<d.path = <<>>, "invalid_policy">>,
         <<d.parallelism = 0, "invalid_policy">>,
         <<d.mask > 511, "invalid_policy">>,
         <<d.epoch # <<>> /\ d.epoch[1] < 0, "invalid_policy">>,
         <<Cardinality(ToSet(d.path)) # Len(d.path), "invalid_policy">>,
         <<\E i \in 2..Len(sorted) : SameName(sorted[i - 1], sorted[i]),
           "duplicate_environment_variable">> >>

(* Mutant of CredentialsChecks: neighbours are compared as declared. *)
CredentialsChecksUnsorted(d) ==
  << <<\E i \in 2..Len(d.groups) : d.groups[i - 1] = d.groups[i],
       "invalid_policy">>,
     <<d.group \in ToSet(d.groups), "invalid_policy">> >>

(* credential_policy::fixed() *)
CredentialsChecks(d) ==
  LET sorted == SortedGroups(d.groups)
  IN  << <<\E i \in 2..Len(sorted) : sorted[i - 1] = sorted[i],
           "invalid_policy">>,
         <<\E i \in DOMAIN sorted : sorted[i] = d.group, "invalid_policy">> >>

(* resource_limits::make(), which calls require_positive() for each limit *)
LimitsChecks(d) ==
  << <<<<0>> \in {d.cpu, d.memory, d.file, d.open, d.processes},
       "invalid_policy">> >>

(* execution_purpose and cancellation_policy, which execution_request::seal *)
(* is given                                                                 *)
RequestChecks(d) ==
  << <<d.action # <<>> /\ d.action[1] \notin ValidAction, "invalid_purpose">>,
     <<(d.purpose = 2) # (d.action # <<>>), "invalid_purpose">>,
     <<(d.mode = 0) = (d.grace # <<>>), "invalid_policy">>,
     <<d.grace = <<0>>, "invalid_policy">> >>

(* process_termination: an exit status fits a byte, a signal has a number,  *)
(* a limit has a kind.                                                      *)
EvidenceChecks(d) ==
  LET ended == ToSet(d.termination)
  IN  << <<\E t \in ended : t.kind = 0 /\ t.value[1] > 255, "invalid_value">>,
         <<\E t \in ended : t.kind = 1 /\ t.value[1] = 0, "invalid_value">>,
         <<\E t \in ended : t.kind = 3 /\ t.limit[1] \notin ValidLimit,
           "invalid_value">> >>

VerdictOn(kind, d) ==
  CASE kind = "layout"      -> LayoutCode(d.bindings, d.working)
    [] kind = "environment" -> Verdict(EnvironmentChecks(d))
    [] kind = "credentials" -> Verdict(CredentialsChecks(d))
    [] kind = "limits"      -> Verdict(LimitsChecks(d))
    [] kind = "request"     -> Verdict(RequestChecks(d))
    [] kind = "evidence"    -> Verdict(EvidenceChecks(d))
    [] kind = "profile"     -> "sealed"

----------------------------------------------------------------------------
Sealed(a) == a.verdict = "sealed"

(* What stands for a value ever after. *)
Identified == {a \in answers : a.kind \in Kinds /\ Sealed(a)}

PoliciesInit == answers = {}

(* A constructor answers; after a refusal the caller gives up. *)
DeclareValue(kind) ==
  /\ Cardinality(answers) < MaxDeclared
  /\ answers = Identified
  /\ \E d \in Declarations[kind] :
       LET verdict == VerdictOn(kind, d)
       IN  /\ verdict = "sealed" \/ answers = {}
           /\ answers' = answers \cup
                {[kind |-> kind, declared |-> d, verdict |-> verdict,
                  identity |-> IF verdict = "sealed"
                                 THEN IdentityBytes(kind, d) ELSE <<>>]}

(* A text has no identity; a caller declares nothing beside it. *)
DeclareText(kind) ==
  /\ answers = {}
  /\ \E t \in Declarations[kind] :
       LET code == TextCode(kind, t)
       IN  answers' =
             {[kind |-> kind, declared |-> t, identity |-> <<>>,
               verdict |-> IF code = "ok" THEN "sealed" ELSE code]}

PoliciesNext ==
  \/ \E kind \in Kinds : DeclareValue(kind)
  \/ \E kind \in TextKinds : DeclareText(kind)

PoliciesSpec == PoliciesInit /\ [][PoliciesNext]_answers

----------------------------------------------------------------------------
(* What a declaration means: the order of bindings, variables, groups and   *)
(* guarantees is not semantic, nor is a guarantee said twice; the order of  *)
(* the search path is.                                                      *)
Meaning(a) ==
  LET d == a.declared
  IN  CASE a.kind = "layout" -> [d EXCEPT !.bindings = ToSet(@)]
        [] a.kind = "environment" -> [d EXCEPT !.variables = ToSet(@)]
        [] a.kind = "credentials" -> [d EXCEPT !.groups = ToSet(@)]
        [] a.kind = "limits" -> d
        [] OTHER -> [d EXCEPT !.guarantees = ToSet(@)]

SameMeaning(a, b) == a.kind = b.kind /\ Meaning(a) = Meaning(b)

(* pkgexec_request(3): "Environment-variable order and resource declaration *)
(* order are normalized where order is not semantic."  Two declarations of  *)
(* one meaning get one identity, so evidence of one is evidence of the      *)
(* other.                                                                   *)
OneIdentityPerMeaning ==
  \A a, b \in Identified :
    SameMeaning(a, b) => a.identity = b.identity

(* And no identity stands for two meanings, of one kind or of two: no value *)
(* can pass for another because the bytes of its fields fall together.      *)
OneMeaningPerIdentity ==
  \A a, b \in Identified :
    a.identity = b.identity => SameMeaning(a, b)

(* Repetitions are found wherever they stand: a sealed environment gives    *)
(* each variable one value and none that the policy owns, and credentials   *)
(* are sealed exactly when no group appears twice among the primary and the *)
(* supplementary ones.                                                      *)
DuplicatesAreRefused ==
  \A a \in answers :
    /\ a.kind = "environment" =>
         LET v == a.declared.variables
             once == \A i, j \in DOMAIN v : v[i].name = v[j].name => i = j
         IN  /\ Sealed(a) =>
                  once /\ \A i \in DOMAIN v : v[i].name \notin Reserved
             /\ a.verdict = "duplicate_environment_variable" => ~once
    /\ a.kind = "credentials" =>
         LET groups == <<a.declared.group>> \o a.declared.groups
         IN  Sealed(a) <=>
               \A i, j \in DOMAIN groups : groups[i] = groups[j] => i = j

(* The paths that logical_path::parse() takes are those written in the one  *)
(* way there is to write where they lead.  seal() compares mount points as  *)
(* texts: no two of a layout are one place, and none leaves the root.       *)
PathsAreCanonical ==
  \A a \in {x \in answers : x.kind = "path"} :
    Sealed(a) <=>
      ~ContainsNul(a.declared) /\ a.declared = PathTo(PlaceOf(a.declared))

(* The place where the first of these characters stands in a text. *)
FirstPlace(c, t) ==
  CHOOSE i \in DOMAIN t : t[i] = c /\ \A j \in 1..(i - 1) : t[j] # c

(* Texts that are put together come apart in one way only: NAME=value, as a *)
(* process is given a variable, into the name and the value that were       *)
(* accepted, at no zero byte; role:name, as messages show a slot, at its    *)
(* only colon.                                                              *)
TextsComeApart ==
  \A a \in {x \in answers : Sealed(x)} :
    /\ a.kind = "variable" =>
         LET entry == a.declared.name \o <<Equals>> \o a.declared.value
         IN  /\ FirstPlace(Equals, entry) = Len(a.declared.name) + 1
             /\ a.declared.name # <<>>
             /\ ~ContainsNul(entry)
    /\ a.kind = "slot" =>
         LET text == SlotText(<<115>>, a.declared)
         IN  Cardinality({i \in DOMAIN text : text[i] = Colon}) = 1

(* An accepted identity is the text of its bytes again: written to a record *)
(* and read from it, it compares equal, as the decoders demand of the       *)
(* identities they are given.                                               *)
IdentitiesRoundTrip ==
  \A a \in {x \in answers : x.kind = "digest" /\ Sealed(x)} :
    HexOf(BytesOf(a.declared)) = a.declared
=============================================================================

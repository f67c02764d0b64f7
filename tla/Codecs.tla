------------------------------- MODULE Codecs -------------------------------
(***************************************************************************)
(* The durable records of evidence and of backend profiles                 *)
(* (src/result_codec.cpp, src/profile_codec.cpp).  A record is its fields, *)
(* in place of its bytes; a digest over something is that thing, so equal  *)
(* digests are equal contents, and the checksum of a record is either the  *)
(* right one for its payload or stale.  A reader takes the fields in order *)
(* and may find fewer, or more, than it needs; one cut before the end of   *)
(* its identities has none to compare.                                     *)
(*                                                                         *)
(* The bytes of a stream are their number.  A list of guarantees is the    *)
(* set of its members and whether it is in canonical order.                *)
(***************************************************************************)
EXTENDS Evidence

CONSTANTS
  Absent,           \* an optional field without a value
  Fixed,            \* size of a record without materials and diagnostic
  ChecksumSize,     \* checksum_size
  MaxEncoding,      \* maximum_execution_result_encoding_size
  MaxDiagnostic     \* maximum_diagnostic_size

ASSUME CodecsAssumption ==
  /\ {Fixed, ChecksumSize, MaxEncoding, MaxDiagnostic} \subseteq Nat
  /\ ChecksumSize <= Fixed
  /\ Fixed + MaxDiagnostic <= MaxEncoding

(* A sealed result with what Evidence leaves out: the backend, the streams  *)
(* as counted, digested and perhaps kept, and the length of the diagnostic. *)
ProfileOf(v) == [backend |-> v.backend, guarantees |-> v.evidence.profile]

NotKept(capture) ==
  IF capture = Absent THEN Absent ELSE [capture EXCEPT !.material = Absent]

(* The evidence identity covers neither kept bytes nor the diagnostic. *)
IdentityOf(v) ==
  [v EXCEPT !.out = NotKept(@), !.err = NotKept(@), !.diagnostic = 0]

----------------------------------------------------------------------------
(* Encoding *)

Listed(guarantees) == [members |-> guarantees, canonical |-> TRUE]

WireTermination(t) ==
  CASE t.kind = "none"             -> Absent
    [] t.kind = "exited"           -> [kind |-> "exited", limit |-> Absent,
                                       value |-> IF t.detail = "zero" THEN 0 ELSE 1]
    [] t.kind = "signaled"         -> [kind |-> "signaled", limit |-> Absent,
                                       value |-> 1]
    [] t.kind = "cancelled"        -> [kind |-> "cancelled", limit |-> Absent,
                                       value |-> Absent]
    [] t.kind = "resource_limited" -> [kind |-> "resource_limited",
                                       limit |-> t.detail, value |-> Absent]

Frame == [version |-> 1, fields |-> "all", checksum |-> "right"]

Encode(v) ==
  LET e == v.evidence
  IN  [frame       |-> Frame,
       request     |-> e.request,
       profile     |-> ProfileOf(v),
       identity    |-> IdentityOf(v),
       status      |-> e.status,
       start       |-> e.start,
       interpreter |-> IF e.start = "started"
                         THEN e.request.policy.interpreter ELSE Absent,
       termination |-> WireTermination(e.termination),
       out         |-> v.out,
       err         |-> v.err,
       guarantees  |-> Listed(e.established),
       cleanup     |-> e.cleanup,
       failure     |-> e.failure,
       diagnostic  |-> v.diagnostic]

MaterialSize(capture) ==
  IF capture = Absent THEN 0
  ELSE IF capture.material = Absent THEN 0 ELSE capture.material

Size(x) == Fixed + MaterialSize(x.out) + MaterialSize(x.err) + x.diagnostic

(* What the encoder refuses with inconsistent_result. *)
Encodes(v) == v.diagnostic <= MaxDiagnostic /\ Size(Encode(v)) <= MaxEncoding

EncodeProfile(p) ==
  [frame |-> Frame, backend |-> p.backend, identity |-> p,
   guarantees |-> Listed(p.guarantees)]

----------------------------------------------------------------------------
(* Decoding *)

(* What is checked before any field is interpreted; a record too short for  *)
(* its identities goes no further, whatever they would have been.           *)
Framed(x) ==
  /\ x.frame.checksum = "right"
  /\ x.frame.version = 1
  /\ x.frame.fields # "no identities"

(* Numbers outside an enumeration, booleans above one, a value or a limit   *)
(* where the kind has none, or an exit status or signal out of range.       *)
TerminationReads(t) ==
  \/ t.kind = "exited" /\ t.value \in 0..255 /\ t.limit = Absent
  \/ t.kind = "signaled" /\ t.value \in Nat \ {0} /\ t.limit = Absent
  \/ t.kind = "cancelled" /\ t.value = Absent /\ t.limit = Absent
  \/ t.kind = "resource_limited" /\ t.value = Absent /\ t.limit \in LimitKinds

TerminationRead(t) ==
  CASE t.kind = "exited" -> Ended("exited", IF t.value = 0 THEN "zero" ELSE "nonzero")
    [] t.kind = "signaled" -> Ended("signaled", "none")
    [] t.kind = "cancelled" -> Ended("cancelled", "none")
    [] t.kind = "resource_limited" -> Ended("resource_limited", t.limit)

(* Kept bytes must fit, and be the bytes counted and digested. *)
CaptureReads(c) ==
  c # Absent /\ c.material # Absent =>
    /\ c.material <= MaxEncoding - ChecksumSize
    /\ c.material = c.count
    /\ c.material = c.digest

Readable(x) ==
  /\ x.status \in {"succeeded", "failed"}
  /\ x.start \in {"not_started", "started"}
  /\ x.termination # Absent => TerminationReads(x.termination)
  /\ CaptureReads(x.out)
  /\ CaptureReads(x.err)
  /\ x.guarantees.members \subseteq Guarantees /\ x.guarantees.canonical
  /\ x.cleanup \in Cleanups
  /\ x.failure \in FailureKinds \cup {"none"}
  /\ x.diagnostic <= MaxDiagnostic
  /\ x.frame.fields = "all"

(* Mutant of FreshToken: the source is made, but not signalled. *)
FreshTokenUnraised(r) == [request |-> r, raised |-> FALSE]

(* The token of a source made for the purpose, and signalled at once. *)
FreshToken(r) == [request |-> r, raised |-> TRUE]

ProcessSeen(x) == x.interpreter # Absent /\ x.termination # Absent

(* Mutant of RebuildsSuccess: the record is believed. *)
RebuildsSuccessUnchecked(x, r, g) ==
  x.status = "succeeded" /\ x.start = "started" /\ ProcessSeen(x)

(* The factory of each shape of record accepts what the record says. *)
RebuildsSuccess(x, r, g) ==
  /\ x.status = "succeeded"
  /\ x.start = "started"
  /\ ProcessSeen(x)
  /\ x.failure = "none"
  /\ x.cleanup = "verified"
  /\ Passes(Succeeded(r, g, x.guarantees.members, x.interpreter,
                      x.out # Absent, x.err # Absent))

RebuildsNotStarted(x, r, g) ==
  /\ x.status = "failed"
  /\ x.failure # "none"
  /\ x.start = "not_started"
  /\ {x.interpreter, x.termination, x.out, x.err} = {Absent}
  /\ x.cleanup = "not_required"
  /\ IF x.failure = "cancelled"
       THEN /\ ~Disabled(r)
            /\ Passes(CancelledBeforeStart(r, g, x.guarantees.members,
                                           FreshToken(r)))
       ELSE Passes(FailedBeforeStart(r, g, x.guarantees.members, x.failure))

RebuildsFailure(x, r, g) ==
  /\ x.status = "failed"
  /\ x.failure # "none"
  /\ x.start = "started"
  /\ ProcessSeen(x)
  /\ IF x.failure = "cancelled"
       THEN /\ ~Disabled(r)
            /\ Passes(CancelledAfterStart(r, g, x.guarantees.members,
                        FreshToken(r), x.interpreter, x.out # Absent,
                        x.err # Absent, x.cleanup))
       ELSE Passes(FailedAfterStart(r, g, x.guarantees.members, x.interpreter,
                     TerminationRead(x.termination), x.out # Absent,
                     x.err # Absent, x.cleanup, x.failure, FALSE))

Rebuilds(x, r, g) ==
  RebuildsSuccess(x, r, g) \/ RebuildsNotStarted(x, r, g) \/ RebuildsFailure(x, r, g)

(* What that factory seals; it has its own idea of a cancelled termination. *)
RebuiltEvidence(x, r, g) ==
  CASE x.status = "succeeded" ->
         Success(r, g, x.guarantees.members, x.out # Absent, x.err # Absent)
    [] x.start = "not_started" ->
         NotStarted(r, g, x.guarantees.members, x.failure)
    [] OTHER ->
         Failure(r, g, x.guarantees.members,
                 IF x.failure = "cancelled" THEN Ended("cancelled", "none")
                   ELSE TerminationRead(x.termination),
                 x.out # Absent, x.err # Absent, x.cleanup, x.failure)

Rebuilt(x, r, p) ==
  [evidence |-> RebuiltEvidence(x, r, p.guarantees), backend |-> p.backend,
   out |-> x.out, err |-> x.err, diagnostic |-> x.diagnostic]

(* Mutant of Canonical: the identity is enough. *)
CanonicalIdentity(x, v) == x.identity = IdentityOf(v)

Canonical(x, v) == x.identity = IdentityOf(v) /\ Encodes(v) /\ Encode(v) = x

Refused(code) == [code |-> code, value |-> Absent]
Decoded(value) == [code |-> "decoded", value |-> value]

(* Mutant of Decode: errors of the factories escape as they are. *)
DecodeUnmapped(x, r, p) ==
  IF Size(x) > MaxEncoding \/ ~Framed(x) THEN Refused("corrupt_encoding")
  ELSE IF x.request # r \/ x.profile # p THEN Refused("authority_mismatch")
  ELSE IF ~Readable(x) THEN Refused("corrupt_encoding")
  ELSE IF ~Rebuilds(x, r, p.guarantees) THEN Refused("inconsistent_result")
  ELSE IF Canonical(x, Rebuilt(x, r, p)) THEN Decoded(Rebuilt(x, r, p))
  ELSE Refused("corrupt_encoding")

(* Errors of the factories are reported as corrupt_encoding, too. *)
Decode(x, r, p) ==
  IF Size(x) > MaxEncoding \/ ~Framed(x) THEN Refused("corrupt_encoding")
  ELSE IF x.request # r \/ x.profile # p THEN Refused("authority_mismatch")
  ELSE IF /\ Readable(x)
          /\ Rebuilds(x, r, p.guarantees)
          /\ Canonical(x, Rebuilt(x, r, p))
    THEN Decoded(Rebuilt(x, r, p))
  ELSE Refused("corrupt_encoding")

(* Mutant of ProfileCanonical: the identity is enough. *)
ProfileCanonicalIdentity(x, p) == x.identity = p

ProfileCanonical(x, p) == x.identity = p /\ EncodeProfile(p) = x

DecodeProfile(x) ==
  LET p == [backend |-> x.backend, guarantees |-> x.guarantees.members]
  IN  IF /\ Framed(x) /\ x.frame.fields = "all"
         /\ Passes(ProfileChecks(p.guarantees))
         /\ ProfileCanonical(x, p)
        THEN Decoded(p) ELSE Refused("corrupt_encoding")
=============================================================================

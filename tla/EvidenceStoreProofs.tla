------------------------- MODULE EvidenceStoreProofs -------------------------
(***************************************************************************)
(* The records of src/result_codec.cpp and src/profile_codec.cpp, for any  *)
(* requests, results and writers: what decodes is what the encoder would   *)
(* have written, and as good as sealed evidence; and what a process saved  *)
(* comes back exactly, whatever crashed in between.                        *)
(***************************************************************************)
EXTENDS EvidenceStore, EvidenceProofs

(* The requests of the later process are what request.cpp seals. *)
LEMMA RequestsAreGenuine ==
  ASSUME NEW r \in Requests PROVE Genuine(r)
<1>1. r.required = Seal(r.policy, {}).required
  BY ValuesAssumption
<1> QED BY <1>1, ValuesAssumption DEF Genuine, Seal

----------------------------------------------------------------------------
(* Decoding *)

(* A record decodes only if it is readable, its factory accepts it and its  *)
(* value encodes to it; otherwise a code says why not.                      *)
LEMMA DecodeCases ==
  ASSUME NEW x, NEW r, NEW p
  PROVE  /\ Decode(x, r, p).code \in {"decoded", "corrupt_encoding", "authority_mismatch"}
         /\ Decode(x, r, p).code = "decoded" =>
              /\ Decode(x, r, p).value = Rebuilt(x, r, p)
              /\ Rebuilds(x, r, p.guarantees)
              /\ CaptureReads(x.out) /\ CaptureReads(x.err)
              /\ Canonical(x, Rebuilt(x, r, p))
<1> DEFINE v == Rebuilt(x, r, p)
           fits == Rebuilds(x, r, p.guarantees)
           canonical == Canonical(x, v)
<1>1. Decode(x, r, p) =
        IF Size(x) > MaxEncoding \/ ~Framed(x) THEN Refused("corrupt_encoding")
        ELSE IF x.request # r \/ x.profile # p THEN Refused("authority_mismatch")
        ELSE IF Readable(x) /\ fits /\ canonical THEN Decoded(v)
        ELSE Refused("corrupt_encoding")
  BY DEF Decode
<1>2. /\ Refused("corrupt_encoding").code = "corrupt_encoding"
      /\ Refused("authority_mismatch").code = "authority_mismatch"
      /\ Decoded(v).code = "decoded" /\ Decoded(v).value = v
  BY DEF Refused, Decoded
<1>3. Readable(x) => CaptureReads(x.out) /\ CaptureReads(x.err)
  BY DEF Readable
<1> HIDE DEF v, fits, canonical
<1>4. /\ Decode(x, r, p).code \in {"decoded", "corrupt_encoding", "authority_mismatch"}
      /\ Decode(x, r, p).code = "decoded" =>
           Decode(x, r, p).value = v /\ Readable(x) /\ fits /\ canonical
  BY <1>1, <1>2
<1> QED BY <1>3, <1>4 DEF v, fits, canonical

(* What decodes encodes to the record it was read from. *)
LEMMA DecodedEncodesBack ==
  ASSUME NEW x, NEW r, NEW p, Decode(x, r, p).code = "decoded"
  PROVE  x = Encode(Decode(x, r, p).value)
<1>1. /\ Decode(x, r, p).value = Rebuilt(x, r, p)
      /\ Canonical(x, Rebuilt(x, r, p))
  BY DecodeCases
<1> QED BY <1>1 DEF Canonical

(* A profile decodes only if it is well formed and encodes to its record. *)
LEMMA DecodedProfileEncodesBack ==
  ASSUME NEW x, DecodeProfile(x).code = "decoded"
  PROVE  /\ x = EncodeProfile(DecodeProfile(x).value)
         /\ DecodeProfile(x).value =
              [backend |-> x.backend, guarantees |-> x.guarantees.members]
<1> DEFINE p == [backend |-> x.backend, guarantees |-> x.guarantees.members]
           fits == /\ Framed(x) /\ x.frame.fields = "all"
                   /\ Passes(ProfileChecks(p.guarantees))
                   /\ ProfileCanonical(x, p)
<1>1. DecodeProfile(x) = IF fits THEN Decoded(p) ELSE Refused("corrupt_encoding")
  BY DEF DecodeProfile
<1>2. Refused("corrupt_encoding").code # "decoded" /\ Decoded(p).value = p
  BY DEF Refused, Decoded
<1>3. fits => ProfileCanonical(x, p)
  OBVIOUS
<1> HIDE DEF fits, p
<1>4. DecodeProfile(x).value = p /\ ProfileCanonical(x, p)
  BY <1>1, <1>2, <1>3
<1> QED BY <1>4 DEF ProfileCanonical, p

(* What a factory accepts of a record is sound evidence. *)
LEMMA RebuiltIsSound ==
  ASSUME NEW x, NEW r \in Requests, NEW p, Rebuilds(x, r, p)
  PROVE  Sound(r, p, Requests, RebuiltEvidence(x, r, p))
<1> DEFINE g == x.guarantees.members
           out == x.out # Absent
           err == x.err # Absent
<1>0. Genuine(r)
  BY RequestsAreGenuine
<1>1. CASE RebuildsSuccess(x, r, p)
  <2>1. /\ x.status = "succeeded" /\ x.start = "started"
        /\ Passes(Succeeded(r, p, g, x.interpreter, out, err))
    BY <1>1 DEF RebuildsSuccess
  <2>2. RebuiltEvidence(x, r, p) = Success(r, p, g, out, err)
    BY <2>1 DEF RebuiltEvidence
  <2>3. out \in BOOLEAN /\ err \in BOOLEAN
    OBVIOUS
  <2> HIDE DEF out, err, g
  <2> QED BY <1>0, <2>1, <2>2, <2>3, SuccessIsSound
<1>2. CASE RebuildsNotStarted(x, r, p)
  <2>1. /\ x.status = "failed" /\ x.start = "not_started"
        /\ IF x.failure = "cancelled"
             THEN Passes(CancelledBeforeStart(r, p, g, FreshToken(r)))
             ELSE Passes(FailedBeforeStart(r, p, g, x.failure))
    BY <1>2 DEF RebuildsNotStarted
  <2>2. RebuiltEvidence(x, r, p) = NotStarted(r, p, g, x.failure)
    BY <2>1 DEF RebuiltEvidence
  <2> HIDE DEF g
  <2>3. CASE x.failure = "cancelled"
    <3>1. Admissible(r, p, g) /\ "cancellation" \in g
      BY <2>1, <2>3, CancelledBeforeStartSeals
    <3>2. x.failure \in FailureKinds
      BY <2>3 DEF FailureKinds, StartedFailures
    <3> QED BY <2>2, <3>1, <3>2, NotStartedIsSound
  <2>4. CASE x.failure # "cancelled"
    <3>1. Admissible(r, p, g) /\ x.failure \in PreStartFailures
      BY <2>1, <2>4, FailedBeforeStartSeals
    <3>2. x.failure \in FailureKinds
      BY <3>1 DEF FailureKinds
    <3> QED BY <2>2, <2>4, <3>1, <3>2, NotStartedIsSound
  <2> QED BY <2>3, <2>4
<1>3. CASE RebuildsFailure(x, r, p)
  <2> DEFINE t == IF x.failure = "cancelled" THEN Ended("cancelled", "none")
                  ELSE TerminationRead(x.termination)
  <2>1. /\ x.status = "failed" /\ x.start = "started"
        /\ IF x.failure = "cancelled"
             THEN /\ ~Disabled(r)
                  /\ Passes(CancelledAfterStart(r, p, g, FreshToken(r), x.interpreter,
                                                out, err, x.cleanup))
             ELSE Passes(FailedAfterStart(r, p, g, x.interpreter,
                           TerminationRead(x.termination), out, err, x.cleanup,
                           x.failure, FALSE))
    BY <1>3 DEF RebuildsFailure
  <2>2. RebuiltEvidence(x, r, p) = Failure(r, p, g, t, out, err, x.cleanup, x.failure)
    BY <2>1 DEF RebuiltEvidence
  <2> HIDE DEF g, out, err
  <2>3. CASE x.failure = "cancelled"
    <3>1. Passes(FailedAfterStart(r, p, g, x.interpreter, Ended("cancelled", "none"),
                                  out, err, x.cleanup, "cancelled", TRUE))
      BY <2>1, <2>3, CancelledAfterStartSeals
    <3>2. Sound(r, p, Requests, Failure(r, p, g, Ended("cancelled", "none"), out, err,
                                        x.cleanup, "cancelled"))
      BY <1>0, <2>1, <2>3, <3>1, FailureIsSound
    <3> QED BY <2>2, <2>3, <3>2
  <2>4. CASE x.failure # "cancelled"
    <3> DEFINE u == TerminationRead(x.termination)
    <3>1. Passes(FailedAfterStart(r, p, g, x.interpreter, u, out, err, x.cleanup,
                                  x.failure, FALSE))
      BY <2>1, <2>4
    <3>2. t = u
      BY <2>4
    <3> HIDE DEF u, t
    <3>3. Sound(r, p, Requests, Failure(r, p, g, u, out, err, x.cleanup, x.failure))
      BY <1>0, <3>1, FailureIsSound
    <3> QED BY <2>2, <3>2, <3>3
  <2> QED BY <2>3, <2>4
<1> QED BY <1>1, <1>2, <1>3 DEF Rebuilds

----------------------------------------------------------------------------
(* Encoding *)

LEMMA TerminationsReadBack ==
  ASSUME NEW t \in Terminations
  PROVE  /\ WireTermination(t) # Absent
         /\ TerminationReads(WireTermination(t))
         /\ TerminationRead(WireTermination(t)) = t
<1>1. WireTermination(t) # Absent
  BY AbsentAssumption
<1>2. PICK kind, detail : t = Ended(kind, detail)
  BY DEF Terminations
<1>3. CASE t = Ended("exited", "zero")
  <2>1. WireTermination(t) = [kind |-> "exited", limit |-> Absent, value |-> 0]
    BY <1>3 DEF WireTermination, Ended
  <2> QED BY <1>1, <1>3, <2>1 DEF TerminationReads, TerminationRead
<1>4. CASE t = Ended("exited", "nonzero")
  <2>1. WireTermination(t) = [kind |-> "exited", limit |-> Absent, value |-> 1]
    BY <1>4 DEF WireTermination, Ended
  <2> QED BY <1>1, <1>4, <2>1 DEF TerminationReads, TerminationRead
<1>5. CASE t = Ended("signaled", "none")
  <2>1. WireTermination(t) = [kind |-> "signaled", limit |-> Absent, value |-> 1]
    BY <1>5 DEF WireTermination, Ended
  <2> QED BY <1>1, <1>5, <2>1 DEF TerminationReads, TerminationRead
<1>6. CASE t = Ended("cancelled", "none")
  <2>1. WireTermination(t) = [kind |-> "cancelled", limit |-> Absent, value |-> Absent]
    BY <1>6 DEF WireTermination, Ended
  <2> QED BY <1>1, <1>6, <2>1 DEF TerminationReads, TerminationRead
<1>7. ASSUME NEW k \in LimitKinds, t = Ended("resource_limited", k)
      PROVE  /\ TerminationReads(WireTermination(t))
             /\ TerminationRead(WireTermination(t)) = t
  <2>1. WireTermination(t) = [kind |-> "resource_limited", limit |-> k, value |-> Absent]
    BY <1>7 DEF WireTermination, Ended
  <2> QED BY <1>7, <2>1 DEF TerminationReads, TerminationRead
<1> QED BY <1>1, <1>3, <1>4, <1>5, <1>6, <1>7 DEF Terminations

(* The fields of a record of sealed evidence. *)
LEMMA EncodedFields ==
  ASSUME NEW v
  PROVE  /\ Encode(v).frame = Frame /\ Encode(v).request = v.evidence.request
         /\ Encode(v).profile = ProfileOf(v) /\ Encode(v).identity = IdentityOf(v)
         /\ Encode(v).status = v.evidence.status
         /\ Encode(v).start = v.evidence.start
         /\ v.evidence.start = "started" =>
              Encode(v).interpreter = v.evidence.request.policy.interpreter
         /\ v.evidence.start # "started" => Encode(v).interpreter = Absent
         /\ Encode(v).termination = WireTermination(v.evidence.termination)
         /\ Encode(v).out = v.out /\ Encode(v).err = v.err
         /\ Encode(v).guarantees = Listed(v.evidence.established)
         /\ Encode(v).cleanup = v.evidence.cleanup
         /\ Encode(v).failure = v.evidence.failure
         /\ Encode(v).diagnostic = v.diagnostic
  BY DEF Encode

(* Sizes are numbers, and what fits was kept within its limits. *)
LEMMA EncodedFits ==
  ASSUME NEW v \in Values, Encodes(v)
  PROVE  /\ ~(Size(Encode(v)) > MaxEncoding)
         /\ CaptureReads(v.out) /\ CaptureReads(v.err)
         /\ v.diagnostic <= MaxDiagnostic
<1>1. /\ Captured(v.out) /\ Captured(v.err) /\ v.diagnostic \in Nat
      /\ MaxEncoding \in Nat /\ Fixed \in Nat /\ ChecksumSize \in Nat
      /\ ChecksumSize <= Fixed
  BY ValuesAssumption, CodecsAssumption
<1>2. /\ MaterialSize(v.out) \in Nat /\ MaterialSize(v.err) \in Nat
      /\ v.out # Absent /\ v.out.material # Absent =>
           MaterialSize(v.out) = v.out.material
      /\ v.err # Absent /\ v.err.material # Absent =>
           MaterialSize(v.err) = v.err.material
  BY <1>1 DEF MaterialSize, Captured
<1>3. Size(Encode(v)) = Fixed + MaterialSize(v.out) + MaterialSize(v.err) + v.diagnostic
  BY EncodedFields DEF Size
<1>4. v.diagnostic <= MaxDiagnostic /\ Size(Encode(v)) <= MaxEncoding
  BY DEF Encodes
<1>5. /\ MaterialSize(v.out) <= MaxEncoding - ChecksumSize
      /\ MaterialSize(v.err) <= MaxEncoding - ChecksumSize
      /\ ~(Size(Encode(v)) > MaxEncoding)
  BY <1>1, <1>2, <1>3, <1>4
<1> QED BY <1>1, <1>2, <1>4, <1>5 DEF CaptureReads, Captured

(* What a factory sealed it accepts again, and seals the same. *)
LEMMA SealedRebuilds ==
  ASSUME NEW v \in Values
  PROVE  LET x == Encode(v)
             e == v.evidence
         IN  /\ Rebuilds(x, e.request, e.profile)
             /\ RebuiltEvidence(x, e.request, e.profile) = e
             /\ e.status \in {"succeeded", "failed"}
             /\ e.start \in {"not_started", "started"}
             /\ x.termination # Absent => TerminationReads(x.termination)
             /\ e.established \subseteq Guarantees
             /\ e.cleanup \in Cleanups
             /\ e.failure \in FailureKinds \cup {"none"}
<1> DEFINE e == v.evidence
           r == e.request
           p == e.profile
           g == e.established
           i == r.policy.interpreter
           token == [request |-> r, raised |-> TRUE]
           x == Encode(v)
           out == x.out # Absent
           err == x.err # Absent
<1>1. /\ r \in Requests /\ SealedEvidence(e) /\ i # Absent
      /\ e.out \in BOOLEAN /\ e.err \in BOOLEAN
      /\ e.out <=> v.out # Absent
      /\ e.err <=> v.err # Absent
  BY ValuesAssumption
<1>2. /\ x.status = e.status /\ x.start = e.start
      /\ e.start = "started" => x.interpreter = i
      /\ e.start # "started" => x.interpreter = Absent
      /\ x.termination = WireTermination(e.termination)
      /\ x.out = v.out /\ x.err = v.err
      /\ x.guarantees.members = g
      /\ x.cleanup = e.cleanup /\ x.failure = e.failure
  <2>1. x.guarantees = Listed(g) /\ Listed(g).members = g
    BY EncodedFields DEF Listed
  <2>2. /\ x.status = e.status /\ x.start = e.start
        /\ e.start = "started" => x.interpreter = i
        /\ e.start # "started" => x.interpreter = Absent
        /\ x.termination = WireTermination(e.termination)
        /\ x.out = v.out /\ x.err = v.err
        /\ x.cleanup = e.cleanup /\ x.failure = e.failure
    BY EncodedFields
  <2> HIDE DEF x, e, r, g, i
  <2> QED BY <2>1, <2>2
<1>3. e.out = out /\ e.err = err
  <2>1. \A b, c \in BOOLEAN : (b <=> c) => b = c
    OBVIOUS
  <2>2. /\ e.out \in BOOLEAN /\ out \in BOOLEAN /\ (e.out <=> out)
        /\ e.err \in BOOLEAN /\ err \in BOOLEAN /\ (e.err <=> err)
    BY <1>1, <1>2
  <2> HIDE DEF e, out, err
  <2> QED BY <2>1, <2>2
<1>4. FreshToken(r) = token
  BY DEF FreshToken
<1> DEFINE Kept == /\ Rebuilds(x, r, p)
                   /\ RebuiltEvidence(x, r, p) = e
                   /\ e.status \in {"succeeded", "failed"}
                   /\ e.start \in {"not_started", "started"}
                   /\ x.termination # Absent => TerminationReads(x.termination)
                   /\ g \subseteq Guarantees
                   /\ e.cleanup \in Cleanups
                   /\ e.failure \in FailureKinds \cup {"none"}
<1> SUFFICES Kept
  OBVIOUS
<1>5. CASE e = Success(r, p, g, e.out, e.err)
           /\ Passes(Succeeded(r, p, g, i, e.out, e.err))
  <2>1. /\ e.status = "succeeded" /\ e.start = "started" /\ e.failure = "none"
        /\ e.cleanup = "verified" /\ e.termination = Ended("exited", "zero")
    <3> DEFINE s == Success(r, p, g, e.out, e.err)
    <3>1. /\ s.status = "succeeded" /\ s.start = "started" /\ s.failure = "none"
          /\ s.cleanup = "verified" /\ s.termination = Ended("exited", "zero")
      BY DEF Success
    <3>2. e = s
      BY <1>5
    <3> HIDE DEF s, e
    <3> QED BY <3>1, <3>2
  <2>2. /\ x.termination # Absent /\ TerminationReads(x.termination)
    <3>1. e.termination \in Terminations
      BY <2>1 DEF Terminations
    <3> QED BY <1>2, <3>1, TerminationsReadBack
  <2>3. g \subseteq Guarantees
    <3>1. Passes(Succeeded(r, p, g, i, e.out, e.err))
      BY <1>5
    <3> HIDE DEF e, r, p, g, i
    <3> QED BY <3>1, SucceededSeals DEF WellFormed
  <2>4. Passes(Succeeded(r, p, g, i, out, err))
    BY <1>3, <1>5
  <2> HIDE DEF x, e, r, p, g, i, out, err
  <2>5. RebuildsSuccess(x, r, p)
    BY <1>1, <1>2, <2>1, <2>2, <2>4 DEF RebuildsSuccess, ProcessSeen, out, err
  <2>6. RebuiltEvidence(x, r, p) = Success(r, p, g, out, err)
    BY <1>2, <2>1 DEF RebuiltEvidence, out, err
  <2>7. RebuiltEvidence(x, r, p) = e
    BY <1>3, <1>5, <2>6
  <2> QED BY <2>1, <2>2, <2>3, <2>5, <2>7 DEF Rebuilds, Cleanups, Kept
<1>6. CASE e = NotStarted(r, p, g, e.failure)
           /\ IF e.failure = "cancelled"
                THEN Passes(CancelledBeforeStart(r, p, g, token))
                ELSE Passes(FailedBeforeStart(r, p, g, e.failure))
  <2>1. /\ e.status = "failed" /\ e.start = "not_started"
        /\ e.cleanup = "not_required" /\ e.termination = Ended("none", "none")
        /\ e.out = FALSE /\ e.err = FALSE
    <3> DEFINE s == NotStarted(r, p, g, e.failure)
    <3>1. /\ s.status = "failed" /\ s.start = "not_started"
          /\ s.cleanup = "not_required" /\ s.termination = Ended("none", "none")
          /\ s.out = FALSE /\ s.err = FALSE
      BY DEF NotStarted
    <3>2. e = s
      BY <1>6
    <3> HIDE DEF s, e
    <3> QED BY <3>1, <3>2
  <2>2. x.termination = Absent /\ x.interpreter = Absent
    <3>1. WireTermination(Ended("none", "none")) = Absent
      BY DEF WireTermination, Ended
    <3> QED BY <1>2, <2>1, <3>1
  <2>3. x.out = Absent /\ x.err = Absent
    BY <1>1, <1>2, <2>1
  <2>4. CASE e.failure = "cancelled"
    <3>1. Passes(CancelledBeforeStart(r, p, g, token))
      BY <1>6, <2>4
    <3>2. ~Disabled(r) /\ Admissible(r, p, g)
      <4>1. Admissible(r, p, g) /\ "cancellation" \in g
        BY <3>1, CancelledBeforeStartSeals
      <4>2. "cancellation" \in r.required
        BY <4>1 DEF Admissible
      <4>3. Genuine(r)
        BY <1>1, RequestsAreGenuine
      <4> QED BY <4>1, <4>2, <4>3, GenuineRequires
    <3>3. e.failure \in FailureKinds /\ e.failure # "none"
      BY <2>4 DEF FailureKinds, StartedFailures
    <3> HIDE DEF x, e, r, p, g, i, out, err, token
    <3>4. RebuildsNotStarted(x, r, p)
      BY <1>2, <1>4, <2>1, <2>2, <2>3, <2>4, <3>1, <3>2, <3>3 DEF RebuildsNotStarted
    <3>5. RebuiltEvidence(x, r, p) = NotStarted(r, p, g, e.failure)
      BY <1>2, <2>1 DEF RebuiltEvidence
    <3> QED BY <1>6, <2>1, <2>2, <3>2, <3>3, <3>4, <3>5
            DEF Rebuilds, Cleanups, Admissible, WellFormed, Kept
  <2>5. CASE e.failure # "cancelled"
    <3>1. Passes(FailedBeforeStart(r, p, g, e.failure))
      BY <1>6, <2>5
    <3>2. Admissible(r, p, g) /\ e.failure \in PreStartFailures
      BY <3>1, FailedBeforeStartSeals
    <3>3. e.failure \in FailureKinds /\ e.failure # "none"
      BY <3>2 DEF FailureKinds, PreStartFailures
    <3> HIDE DEF x, e, r, p, g, i, out, err, token
    <3>4. RebuildsNotStarted(x, r, p)
      BY <1>2, <2>1, <2>2, <2>3, <2>5, <3>1, <3>3 DEF RebuildsNotStarted
    <3>5. RebuiltEvidence(x, r, p) = NotStarted(r, p, g, e.failure)
      BY <1>2, <2>1 DEF RebuiltEvidence
    <3> QED BY <1>6, <2>1, <2>2, <3>2, <3>3, <3>4, <3>5
            DEF Rebuilds, Cleanups, Admissible, WellFormed, Kept
  <2> QED BY <2>4, <2>5
<1>7. CASE /\ e = Failure(r, p, g, e.termination, e.out, e.err, e.cleanup, e.failure)
           /\ e.termination \in Terminations
           /\ e.failure = "cancelled" => e.termination = Ended("cancelled", "none")
           /\ IF e.failure = "cancelled"
                THEN Passes(CancelledAfterStart(r, p, g, token, i, e.out, e.err, e.cleanup))
                ELSE Passes(FailedAfterStart(r, p, g, i, e.termination, e.out, e.err,
                                             e.cleanup, e.failure, FALSE))
  <2> DEFINE t == e.termination
  <2>1. e.status = "failed" /\ e.start = "started"
    <3> DEFINE s == Failure(r, p, g, e.termination, e.out, e.err, e.cleanup, e.failure)
    <3>1. s.status = "failed" /\ s.start = "started"
      BY DEF Failure
    <3>2. e = s
      BY <1>7
    <3> HIDE DEF s, e
    <3> QED BY <3>1, <3>2
  <2>2. /\ x.termination # Absent /\ TerminationReads(x.termination)
        /\ TerminationRead(x.termination) = t
    BY <1>2, <1>7, TerminationsReadBack
  <2>3. ProcessSeen(x)
    BY <1>1, <1>2, <2>1, <2>2 DEF ProcessSeen
  <2>4. CASE e.failure = "cancelled"
    <3>1. Passes(CancelledAfterStart(r, p, g, token, i, out, err, x.cleanup))
      BY <1>2, <1>3, <1>7, <2>4
    <3>2. ~Disabled(r) /\ Passes(FailedAfterStart(r, p, g, i, Ended("cancelled", "none"),
                                   out, err, x.cleanup, "cancelled", TRUE))
      BY <3>1, CancelledAfterStartSeals
    <3>3. Admissible(r, p, g) /\ x.cleanup \in {"verified", "failed"}
      <4> HIDE DEF x, e, r, p, g, i, out, err
      <4> QED BY <3>2, FailedAfterStartSeals
    <3>4. e.failure \in FailureKinds /\ e.failure # "none"
      BY <2>4 DEF FailureKinds, StartedFailures
    <3>5. t = Ended("cancelled", "none")
      BY <1>7, <2>4
    <3> HIDE DEF x, e, r, p, g, i, out, err, token, t
    <3>6. RebuildsFailure(x, r, p)
      BY <1>2, <1>4, <2>1, <2>3, <2>4, <3>1, <3>2, <3>4
         DEF RebuildsFailure, out, err
    <3>7. RebuiltEvidence(x, r, p) =
            Failure(r, p, g, t, e.out, e.err, e.cleanup, e.failure)
      BY <1>2, <1>3, <2>1, <2>4, <3>5 DEF RebuiltEvidence, out, err
    <3>8. RebuiltEvidence(x, r, p) = e
      BY <1>7, <3>7 DEF t
    <3> QED BY <1>2, <2>1, <2>2, <3>3, <3>4, <3>6, <3>8
            DEF Rebuilds, Cleanups, Admissible, WellFormed, Kept
  <2>5. CASE e.failure # "cancelled"
    <3>1. Passes(FailedAfterStart(r, p, g, i, t, out, err, x.cleanup, x.failure, FALSE))
      BY <1>2, <1>3, <1>7, <2>5
    <3>2. /\ Admissible(r, p, g) /\ x.cleanup \in {"verified", "failed"}
          /\ x.failure \in StartedFailures
      <4> HIDE DEF x, e, r, p, g, i, out, err, t
      <4> QED BY <3>1, FailedAfterStartSeals
    <3>4. e.failure \in FailureKinds /\ e.failure # "none"
      BY <1>2, <3>2 DEF FailureKinds, StartedFailures
    <3> HIDE DEF x, e, r, p, g, i, out, err, token, t
    <3>6. RebuildsFailure(x, r, p)
      BY <1>2, <2>1, <2>2, <2>3, <2>5, <3>1, <3>4 DEF RebuildsFailure, out, err
    <3>7. RebuiltEvidence(x, r, p) =
            Failure(r, p, g, t, e.out, e.err, e.cleanup, e.failure)
      BY <1>2, <1>3, <2>1, <2>2, <2>5 DEF RebuiltEvidence, out, err
    <3>8. RebuiltEvidence(x, r, p) = e
      BY <1>7, <3>7 DEF t
    <3> QED BY <1>2, <2>1, <2>2, <3>2, <3>4, <3>6, <3>8
            DEF Rebuilds, Cleanups, Admissible, WellFormed, Kept
  <2> QED BY <2>4, <2>5
<1> HIDE DEF Kept, x
<1> QED BY <1>1, <1>5, <1>6, <1>7 DEF SealedEvidence

(* What was encoded decodes to what it was, under its own request and       *)
(* profile, and under no others.                                            *)
LEMMA EncodedDecodes ==
  ASSUME NEW v \in Values, Encodes(v), NEW r, NEW p
  PROVE  Decode(Encode(v), r, p) =
           IF r = v.evidence.request /\ p = ProfileOf(v)
             THEN Decoded(v) ELSE Refused("authority_mismatch")
<1> DEFINE x == Encode(v)
           e == v.evidence
<1>1. /\ x.frame = Frame /\ x.request = e.request /\ x.profile = ProfileOf(v)
      /\ x.identity = IdentityOf(v) /\ x.status = e.status /\ x.start = e.start
      /\ x.out = v.out /\ x.err = v.err
      /\ x.guarantees = Listed(e.established)
      /\ x.cleanup = e.cleanup /\ x.failure = e.failure
      /\ x.diagnostic = v.diagnostic
  BY EncodedFields
<1>2. ~(Size(x) > MaxEncoding) /\ Framed(x)
  BY <1>1, EncodedFits DEF Framed, Frame
<1>3. CASE r # e.request \/ p # ProfileOf(v)
  <2>1. Decode(x, r, p) = Refused("authority_mismatch")
    <3> HIDE DEF x, e
    <3> QED BY <1>1, <1>2, <1>3 DEF Decode
  <2> QED BY <1>3, <2>1
<1>4. CASE r = e.request /\ p = ProfileOf(v)
  <2>1. p.guarantees = e.profile /\ p.backend = v.backend
    BY <1>4 DEF ProfileOf
  <2>2. /\ Rebuilds(x, r, p.guarantees)
        /\ RebuiltEvidence(x, r, p.guarantees) = e
    BY <1>4, <2>1, SealedRebuilds
  <2>3. Rebuilt(x, r, p) = v
    <3>1. Rebuilt(x, r, p) = [evidence |-> e, backend |-> v.backend,
                              out |-> v.out, err |-> v.err,
                              diagnostic |-> v.diagnostic]
      BY <1>1, <2>1, <2>2 DEF Rebuilt
    <3> QED BY <3>1, ValuesAssumption
  <2>4. Readable(x)
    <3>1. /\ e.status \in {"succeeded", "failed"}
          /\ e.start \in {"not_started", "started"}
          /\ x.termination # Absent => TerminationReads(x.termination)
          /\ e.established \subseteq Guarantees
          /\ e.cleanup \in Cleanups
          /\ e.failure \in FailureKinds \cup {"none"}
      BY SealedRebuilds
    <3>2. CaptureReads(v.out) /\ CaptureReads(v.err) /\ v.diagnostic <= MaxDiagnostic
      BY EncodedFits
    <3>3. x.guarantees.members = e.established /\ x.guarantees.canonical
      BY <1>1 DEF Listed
    <3>4. x.frame.fields = "all"
      BY <1>1 DEF Frame
    <3> HIDE DEF x, e
    <3> QED BY <1>1, <3>1, <3>2, <3>3, <3>4 DEF Readable
  <2>5. Canonical(x, v)
    BY <1>1 DEF Canonical
  <2>6. Decode(x, r, p) = Decoded(v)
    <3> HIDE DEF x, e
    <3> QED BY <1>1, <1>2, <1>4, <2>2, <2>3, <2>4, <2>5 DEF Decode
  <2> QED BY <1>4, <2>6
<1> QED BY <1>3, <1>4

(* A profile record gives back the profile it was written from. *)
LEMMA EncodedProfileDecodes ==
  ASSUME NEW v, DecodeProfile(EncodeProfile(ProfileOf(v))).code = "decoded"
  PROVE  DecodeProfile(EncodeProfile(ProfileOf(v))).value = ProfileOf(v)
<1> DEFINE q == ProfileOf(v)
           x == EncodeProfile(q)
<1>1. x.backend = q.backend /\ x.guarantees.members = q.guarantees
  BY DEF EncodeProfile, Listed
<1>2. q = [backend |-> q.backend, guarantees |-> q.guarantees]
  BY DEF ProfileOf
<1> HIDE DEF q, x
<1>3. DecodeProfile(x).value = [backend |-> x.backend, guarantees |-> x.guarantees.members]
  BY DecodedProfileEncodesBack DEF x, q
<1> QED BY <1>1, <1>2, <1>3 DEF x, q

----------------------------------------------------------------------------
(* What is held, what unspoiled records say, and where an answer came from. *)
StoreInv ==
  /\ memory \in Values \cup {Absent}
  /\ runs \in 0..MaxRuns
  /\ savedProfile # Absent =>
       \E v \in Values : /\ savedProfile = ProfileOf(v)
                        /\ profileRecord = EncodeProfile(savedProfile)
  /\ savedResult # Absent =>
       /\ savedResult \in Values /\ Encodes(savedResult)
       /\ resultRecord = Encode(savedResult)
  /\ memory # Absent => answer = Absent
  /\ answer # Absent =>
       /\ DecodeProfile(profileRecord).code = "decoded"
       /\ \E r \in Requests :
            answer = [request |-> r,
                      profile |-> DecodeProfile(profileRecord).value,
                      outcome |-> Decode(resultRecord, r,
                                         DecodeProfile(profileRecord).value)]

(* No record was written at first. *)
LEMMA StoreInit == Init => StoreInv
  BY ValuesAssumption DEF Init, StoreInv

(* Executions, writes, crashes, damage and other writers keep the invariant. *)
LEMMA StoreNext == StoreInv /\ [Next]_vars => StoreInv'
<1> SUFFICES ASSUME StoreInv, [Next]_vars PROVE StoreInv'
  OBVIOUS
<1> USE DEF StoreInv
<1>1. CASE Execute
  BY <1>1, ValuesAssumption DEF Execute, stored
<1>2. CASE SaveProfile
  BY <1>2 DEF SaveProfile
<1>3. CASE SaveResult
  BY <1>3 DEF SaveResult
<1>4. CASE Crash
  BY <1>4 DEF Crash, stored
<1>5. CASE CrashInSave
  BY <1>5 DEF CrashInSave
<1>6. CASE Damage
  BY <1>6 DEF Damage
<1>7. CASE Replace
  BY <1>7 DEF Replace
<1>8. CASE Recover
  <2> DEFINE read == DecodeProfile(profileRecord)
  <2>1. /\ memory = Absent /\ read.code = "decoded"
        /\ \E r \in Requests :
             answer' = [request |-> r, profile |-> read.value,
                        outcome |-> Decode(resultRecord, r, read.value)]
        /\ UNCHANGED <<memory, runs, profileRecord, resultRecord, savedProfile,
                       savedResult>>
    BY <1>8 DEF Recover, stored
  <2> QED BY <2>1
<1>9. CASE UNCHANGED vars
  BY <1>9 DEF vars, stored
<1> QED BY <1>1, <1>2, <1>3, <1>4, <1>5, <1>6, <1>7, <1>8, <1>9 DEF Next

(* The invariant holds in every state. *)
LEMMA StoreInvHolds == Spec => []StoreInv
  BY StoreInit, StoreNext, PTL DEF Spec

(* Every variable has its type, and every answer one of the three outcomes  *)
(* of decode_execution_result().                                            *)
THEOREM StoreTypes == Spec => []TypeOK
<1>1. StoreInv => TypeOK
  <2> SUFFICES ASSUME StoreInv PROVE TypeOK
    OBVIOUS
  <2>1. ASSUME answer # Absent
        PROVE  /\ answer.request \in Requests
               /\ answer.outcome.code \in
                    {"decoded", "corrupt_encoding", "authority_mismatch"}
    <3> DEFINE q == DecodeProfile(profileRecord).value
    <3>1. PICK r \in Requests :
            answer = [request |-> r, profile |-> q,
                      outcome |-> Decode(resultRecord, r, q)]
      BY <2>1 DEF StoreInv
    <3> HIDE DEF q
    <3>2. Decode(resultRecord, r, q).code \in
            {"decoded", "corrupt_encoding", "authority_mismatch"}
      BY DecodeCases
    <3> QED BY <3>1, <3>2
  <2> QED BY <2>1 DEF StoreInv, TypeOK
<1> QED BY <1>1, StoreInvHolds, PTL

(* Whatever the crashes, two unspoiled records give back exactly the result *)
(* that was saved, if the request and the profile are its own, and          *)
(* otherwise name the authority as the cause (result_codec.cpp,             *)
(* profile_codec.cpp).                                                      *)
THEOREM SavedIsRecovered == Spec => []RecoveryIsExact
<1>1. StoreInv => RecoveryIsExact
  <2> SUFFICES ASSUME StoreInv, answer # Absent, savedProfile # Absent,
                      savedResult # Absent
               PROVE  answer.outcome =
                        IF answer.request = savedResult.evidence.request
                             /\ savedProfile = ProfileOf(savedResult)
                          THEN Decoded(savedResult)
                          ELSE Refused("authority_mismatch")
    BY DEF RecoveryIsExact
  <2>1. PICK w \in Values : /\ savedProfile = ProfileOf(w)
                           /\ profileRecord = EncodeProfile(savedProfile)
    BY DEF StoreInv
  <2>2. DecodeProfile(profileRecord).value = savedProfile
    BY <2>1, EncodedProfileDecodes DEF StoreInv
  <2>3. PICK r \in Requests :
          answer = [request |-> r, profile |-> savedProfile,
                    outcome |-> Decode(resultRecord, r, savedProfile)]
    BY <2>2 DEF StoreInv
  <2>4. Decode(resultRecord, r, savedProfile) =
          IF r = savedResult.evidence.request /\ savedProfile = ProfileOf(savedResult)
            THEN Decoded(savedResult) ELSE Refused("authority_mismatch")
    BY EncodedDecodes DEF StoreInv
  <2> QED BY <2>3, <2>4
<1> QED BY <1>1, StoreInvHolds, PTL

(* Nothing decodes but what the encoder would have written for it: one      *)
(* result has one record, one profile has one (result_codec.cpp,            *)
(* profile_codec.cpp).                                                      *)
THEOREM DecodingIsCanonical == Spec => []OnlyEncodingsDecode
<1>1. StoreInv => OnlyEncodingsDecode
  <2> SUFFICES ASSUME StoreInv PROVE OnlyEncodingsDecode
    OBVIOUS
  <2>1. ASSUME Recovered PROVE resultRecord = Encode(answer.outcome.value)
    <3> DEFINE q == DecodeProfile(profileRecord).value
    <3>1. PICK r \in Requests :
            answer = [request |-> r, profile |-> q,
                      outcome |-> Decode(resultRecord, r, q)]
      BY <2>1 DEF StoreInv, Recovered
    <3> HIDE DEF q
    <3>2. Decode(resultRecord, r, q).code = "decoded"
      BY <2>1, <3>1 DEF Recovered
    <3> QED BY <3>1, <3>2, DecodedEncodesBack
  <2>2. ASSUME DecodeProfile(profileRecord).code = "decoded"
        PROVE  profileRecord = EncodeProfile(DecodeProfile(profileRecord).value)
    BY <2>2, DecodedProfileEncodesBack
  <2> QED BY <2>1, <2>2 DEF OnlyEncodingsDecode
<1> QED BY <1>1, StoreInvHolds, PTL

(* Recovered evidence is as good as sealed evidence, whoever wrote the      *)
(* record: the factories judge it again (result_codec.cpp).                 *)
THEOREM RecoveredEvidenceIsSound == Spec => []RecoveredIsSound
<1>1. StoreInv => RecoveredIsSound
  <2> SUFFICES ASSUME StoreInv, Recovered
               PROVE  Sound(answer.request, answer.profile.guarantees, Requests,
                            answer.outcome.value.evidence)
    BY DEF RecoveredIsSound
  <2> DEFINE q == DecodeProfile(profileRecord).value
  <2>1. PICK r \in Requests :
          answer = [request |-> r, profile |-> q,
                    outcome |-> Decode(resultRecord, r, q)]
    BY DEF StoreInv, Recovered
  <2> HIDE DEF q
  <2>2. Decode(resultRecord, r, q).code = "decoded"
    BY <2>1 DEF Recovered
  <2>3. /\ Decode(resultRecord, r, q).value = Rebuilt(resultRecord, r, q)
        /\ Rebuilds(resultRecord, r, q.guarantees)
    BY <2>2, DecodeCases
  <2>4. Rebuilt(resultRecord, r, q).evidence =
          RebuiltEvidence(resultRecord, r, q.guarantees)
    BY DEF Rebuilt
  <2>5. Sound(r, q.guarantees, Requests,
              RebuiltEvidence(resultRecord, r, q.guarantees))
    BY <2>3, RebuiltIsSound
  <2> QED BY <2>1, <2>3, <2>4, <2>5
<1> QED BY <1>1, StoreInvHolds, PTL
=============================================================================

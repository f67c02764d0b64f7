--------------------------- MODULE EvidenceStore ---------------------------
(***************************************************************************)
(* Evidence that outlives its process.  One process executes a request and *)
(* stores the profile of its backend and the result, as two records; it    *)
(* may crash before, between and within the writes.  What is stored may be *)
(* damaged, or come from another writer.  A later process declares a       *)
(* request, reads the profile and, under both, the result.                 *)
(*                                                                         *)
(* The codecs are the library's.  The store is its callers'.               *)
(***************************************************************************)
EXTENDS Codecs

CONSTANTS
  Requests,         \* requests the later process may declare
  Values,           \* sealed results of executions
  Claims,           \* results as another writer may encode them
  MaxRuns           \* bound: executions

(* Evidence as one of the factories seals it, of a token that was raised. *)
SealedEvidence(e) ==
  LET r == e.request
      p == e.profile
      g == e.established
      i == r.policy.interpreter
      token == [request |-> r, raised |-> TRUE]
      cancelled == e.failure = "cancelled"
  IN  \/ /\ e = Success(r, p, g, e.out, e.err)
         /\ Passes(Succeeded(r, p, g, i, e.out, e.err))
      \/ /\ e = NotStarted(r, p, g, e.failure)
         /\ IF cancelled THEN Passes(CancelledBeforeStart(r, p, g, token))
            ELSE Passes(FailedBeforeStart(r, p, g, e.failure))
      \/ /\ e = Failure(r, p, g, e.termination, e.out, e.err, e.cleanup, e.failure)
         /\ e.termination \in Terminations
         /\ cancelled => e.termination = Ended("cancelled", "none")
         /\ IF cancelled
              THEN Passes(CancelledAfterStart(r, p, g, token, i, e.out, e.err, e.cleanup))
              ELSE Passes(FailedAfterStart(r, p, g, i, e.termination, e.out, e.err,
                                           e.cleanup, e.failure, FALSE))

(* A stream, if it was captured: kept bytes are those counted and digested. *)
Captured(c) ==
  c # Absent =>
    /\ c \in [count : Nat, digest : Nat, material : Nat \cup {Absent}]
    /\ c.material # Absent => c.material = c.count /\ c.material = c.digest

(* Executions return what the factories seal, for genuine requests. *)
ASSUME ValuesAssumption ==
  /\ MaxRuns \in Nat
  /\ \A r \in Requests :
       /\ r = Seal(r.policy, {}) /\ r.policy.limits \subseteq LimitKinds
       /\ r.policy.interpreter # Absent
  /\ \A v \in Values :
       /\ v = [evidence |-> v.evidence, backend |-> v.backend,
               out |-> v.out, err |-> v.err, diagnostic |-> v.diagnostic]
       /\ v.evidence.request \in Requests /\ SealedEvidence(v.evidence)
       /\ v.evidence.out \in BOOLEAN /\ v.evidence.err \in BOOLEAN
       /\ v.evidence.out <=> v.out # Absent
       /\ v.evidence.err <=> v.err # Absent
       /\ Captured(v.out) /\ Captured(v.err) /\ v.diagnostic \in Nat

(* A field without a value is none of the values. *)
ASSUME AbsentAssumption ==
  /\ Absent \notin Nat \cup LimitKinds
  /\ \A t \in Terminations : WireTermination(t) # Absent

VARIABLES
  memory,           \* the result the running process holds
  runs,             \* executions so far
  profileRecord,    \* the stored records
  resultRecord,
  savedProfile,     \* history: what an unspoiled record was written from
  savedResult,
  answer            \* what a later process read, under what

stored == <<profileRecord, resultRecord, savedProfile, savedResult>>
vars == <<memory, runs, stored, answer>>

Streams == {Absent} \cup [count : {0, 1}, digest : {0, 1}, material : {Absent, 0, 1}]

OtherLengths == {"no identities", "too few", "too many"}

(* The same record with one field changed, its checksum right again. *)
Edits(x) ==
  {[x EXCEPT !.frame.version = 2], [x EXCEPT !.interpreter = Absent],
   [x EXCEPT !.termination = Absent], [x EXCEPT !.guarantees.canonical = FALSE],
   [x EXCEPT !.diagnostic = 0], [x EXCEPT !.diagnostic = MaxDiagnostic + 1]}
  \cup {[x EXCEPT !.frame.fields = f] : f \in OtherLengths}
  \cup {[x EXCEPT !.request = r] : r \in Requests}
  \cup {[x EXCEPT !.profile = ProfileOf(v)] : v \in Values}
  \cup {[x EXCEPT !.identity = IdentityOf(v)] : v \in Values}
  \cup {[x EXCEPT !.status = s] : s \in {"succeeded", "failed", "unknown"}}
  \cup {[x EXCEPT !.start = s] : s \in {"started", "not_started", "unknown"}}
  \cup {[x EXCEPT !.termination = WireTermination(t)] : t \in Terminations}
  \cup {[x EXCEPT !.out = c] : c \in Streams}
  \cup {[x EXCEPT !.guarantees.members = @ \ {g}] : g \in AfterStart}
  \cup {[x EXCEPT !.guarantees.members = @ \cup {g}] : g \in Guarantees \cup {"unknown"}}
  \cup {[x EXCEPT !.cleanup = c] : c \in Cleanups \cup {"unknown"}}
  \cup {[x EXCEPT !.failure = f] : f \in FailureKinds \cup {"none", "unknown"}}

ProfileEdits(x) ==
  {[x EXCEPT !.frame.version = 2], [x EXCEPT !.guarantees.canonical = FALSE]}
  \cup {[x EXCEPT !.frame.fields = f] : f \in OtherLengths}
  \cup {[x EXCEPT !.identity = ProfileOf(v)] : v \in Values}
  \cup {[x EXCEPT !.backend = v.backend] : v \in Values}
  \cup {[x EXCEPT !.guarantees.members = @ \ {g}] : g \in Guarantees}
  \cup {[x EXCEPT !.guarantees.members = @ \cup {"unknown"}]}

Spoilt(x) == [x EXCEPT !.frame.checksum = "stale"]
Torn(x) == [Spoilt(x) EXCEPT !.frame.fields = "too few"]

----------------------------------------------------------------------------
Init ==
  /\ memory = Absent
  /\ runs = 0
  /\ profileRecord = Absent
  /\ resultRecord = Absent
  /\ savedProfile = Absent
  /\ savedResult = Absent
  /\ answer = Absent

Execute ==
  /\ memory = Absent
  /\ runs < MaxRuns
  /\ \E v \in Values : memory' = v
  /\ runs' = runs + 1
  /\ answer' = Absent
  /\ UNCHANGED stored

SaveProfile ==
  /\ memory # Absent
  /\ profileRecord' = EncodeProfile(ProfileOf(memory))
  /\ savedProfile' = ProfileOf(memory)
  /\ UNCHANGED <<memory, runs, resultRecord, savedResult, answer>>

(* The encoder may refuse, and then nothing is written. *)
SaveResult ==
  /\ memory # Absent
  /\ Encodes(memory)
  /\ resultRecord' = Encode(memory)
  /\ savedResult' = memory
  /\ UNCHANGED <<memory, runs, profileRecord, savedProfile, answer>>

Crash ==
  /\ memory # Absent
  /\ memory' = Absent
  /\ answer' = Absent
  /\ UNCHANGED <<runs, stored>>

CrashInSave ==
  /\ memory # Absent
  /\ \/ /\ profileRecord' = Torn(EncodeProfile(ProfileOf(memory)))
        /\ savedProfile' = Absent
        /\ UNCHANGED <<resultRecord, savedResult>>
     \/ /\ Encodes(memory)
        /\ resultRecord' = Torn(Encode(memory))
        /\ savedResult' = Absent
        /\ UNCHANGED <<profileRecord, savedProfile>>
  /\ memory' = Absent
  /\ answer' = Absent
  /\ UNCHANGED runs

(* A stored record changes under its checksum. *)
Damage ==
  /\ memory = Absent
  /\ \/ /\ savedProfile # Absent
        /\ \E x \in ProfileEdits(profileRecord) \cup {profileRecord} :
             profileRecord' = Spoilt(x)
        /\ savedProfile' = Absent
        /\ UNCHANGED <<resultRecord, savedResult>>
     \/ /\ savedResult # Absent
        /\ \E x \in Edits(resultRecord) \cup {resultRecord} :
             resultRecord' = Spoilt(x)
        /\ savedResult' = Absent
        /\ UNCHANGED <<profileRecord, savedProfile>>
  /\ answer' = Absent
  /\ UNCHANGED <<memory, runs>>

(* Another writer stores a record of its own, with a right checksum. *)
Replace ==
  /\ memory = Absent
  /\ \/ /\ savedProfile # Absent
        /\ profileRecord' \in ProfileEdits(profileRecord)
        /\ savedProfile' = Absent
        /\ UNCHANGED <<resultRecord, savedResult>>
     \/ /\ savedResult # Absent
        /\ resultRecord' \in Edits(resultRecord) \cup {Encode(v) : v \in Claims}
        /\ savedResult' = Absent
        /\ UNCHANGED <<profileRecord, savedProfile>>
  /\ answer' = Absent
  /\ UNCHANGED <<memory, runs>>

(* The later process; a profile that does not decode ends it. *)
Recover ==
  /\ memory = Absent
  /\ profileRecord # Absent
  /\ resultRecord # Absent
  /\ LET read == DecodeProfile(profileRecord)
     IN  /\ read.code = "decoded"
         /\ \E r \in Requests :
              answer' = [request |-> r, profile |-> read.value,
                         outcome |-> Decode(resultRecord, r, read.value)]
  /\ UNCHANGED <<memory, runs, stored>>

Next ==
  \/ Execute
  \/ SaveProfile
  \/ SaveResult
  \/ Crash
  \/ CrashInSave
  \/ Damage
  \/ Replace
  \/ Recover

Spec == Init /\ [][Next]_vars

----------------------------------------------------------------------------
Recovered == answer # Absent /\ answer.outcome.code = "decoded"

(* Type invariant. *)
TypeOK ==
  /\ memory \in Values \cup {Absent}
  /\ runs \in 0..MaxRuns
  /\ savedProfile # Absent => profileRecord = EncodeProfile(savedProfile)
  /\ savedResult # Absent => savedResult \in Values
  /\ answer # Absent =>
       /\ answer.request \in Requests
       /\ answer.outcome.code \in
            {"decoded", "corrupt_encoding", "authority_mismatch"}

(* Whatever the crashes, two unspoiled records give back exactly the result *)
(* that was saved, kept bytes and diagnostic included, if the request and   *)
(* the profile are its own, and otherwise name the authority as the cause.  *)
RecoveryIsExact ==
  answer # Absent /\ savedProfile # Absent /\ savedResult # Absent =>
    answer.outcome =
      IF answer.request = savedResult.evidence.request
           /\ savedProfile = ProfileOf(savedResult)
        THEN Decoded(savedResult)
        ELSE Refused("authority_mismatch")

(* Nothing decodes but what the encoder would have written for it: one      *)
(* result has one record, one profile has one, and no damage to either goes *)
(* unnoticed.                                                               *)
OnlyEncodingsDecode ==
  /\ Recovered => resultRecord = Encode(answer.outcome.value)
  /\ profileRecord # Absent =>
       LET read == DecodeProfile(profileRecord)
       IN  read.code = "decoded" => profileRecord = EncodeProfile(read.value)

(* Recovered evidence is as good as sealed evidence, whoever wrote the      *)
(* record; only that somebody raised the signal is taken on its word.       *)
RecoveredIsSound ==
  Recovered =>
    Sound(answer.request, answer.profile.guarantees, Requests,
          answer.outcome.value.evidence)
=============================================================================

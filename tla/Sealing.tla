------------------------------ MODULE Sealing ------------------------------
(***************************************************************************)
(* One request, one backend profile and one piece of evidence, sealed by   *)
(* the factories of the library from whatever callers and backends ask and *)
(* claim, truthfully or not.  The properties are what a consumer of the    *)
(* evidence may rely on without trusting the backend's bookkeeping.        *)
(***************************************************************************)
EXTENDS Evidence

CONSTANTS
  Policies,         \* the policies callers declare
  Additional,       \* sets of guarantees they ask for on top
  Profiles,         \* sets of guarantees backends advertise
  Claims,           \* sets of guarantees they claim of an execution
  Interpreters,     \* interpreters a backend may have observed
  None              \* nothing sealed yet

ASSUME PoliciesAssumption ==
  Policies \subseteq PolicyOver({p.program : p \in Policies}, Interpreters)

VARIABLES
  request,          \* the sealed request
  profile,          \* the guarantees of the sealed backend profile
  raised,           \* requests whose token reports cancellation
  result,           \* the sealed evidence
  verdict           \* what the last factory did: "sealed" or its code

vars == <<request, profile, raised, result, verdict>>

(* What callers of control.h may have a token for. *)
Controllable ==
  {Seal(p, {}) : p \in {q \in Policies : q.cancellation # "disabled"}}

Token(q) == [request |-> q, raised |-> q \in raised]

Outcome(checks, evidence) ==
  /\ verdict' = Verdict(checks)
  /\ result' = IF Passes(checks) THEN evidence ELSE None

----------------------------------------------------------------------------
Init ==
  /\ request = None
  /\ profile = None
  /\ raised = {}
  /\ result = None
  /\ verdict = "none"

(* execution_request::seal() *)
SealRequest ==
  /\ request = None
  /\ \E p \in Policies, additional \in Additional :
       IF Sealable(p, additional)
         THEN request' = Seal(p, additional) /\ verdict' = "sealed"
         ELSE request' = None /\ verdict' = "invalid_policy"
  /\ UNCHANGED <<profile, raised, result>>

(* backend_capability_profile::seal() *)
SealProfile ==
  /\ profile = None
  /\ \E g \in Profiles :
       /\ profile' = IF Passes(ProfileChecks(g)) THEN g ELSE None
       /\ verdict' = Verdict(ProfileChecks(g))
  /\ UNCHANGED <<request, raised, result>>

(* cancellation_source::request_cancellation(), as tokens report it *)
RequestCancellation ==
  /\ \E q \in Controllable \ raised : raised' = raised \cup {q}
  /\ UNCHANGED <<request, profile, result, verdict>>

(* A backend asks for evidence.  The factories keep no state, so a refused  *)
(* claim says nothing of the next one: bound, one claim per behaviour.      *)
Asking ==
  /\ request # None
  /\ profile # None
  /\ verdict \in {"none", "sealed"}
  /\ result = None

SealFailedBeforeStart ==
  /\ Asking
  /\ \E g \in Claims, failure \in FailureKinds \cup {"unknown"} :
       Outcome(FailedBeforeStart(request, profile, g, failure),
               NotStarted(request, profile, g, failure))
  /\ UNCHANGED <<request, profile, raised>>

SealCancelledBeforeStart ==
  /\ Asking
  /\ \E g \in Claims, q \in Controllable :
       Outcome(CancelledBeforeStart(request, profile, g, Token(q)),
               NotStarted(request, profile, g, "cancelled"))
  /\ UNCHANGED <<request, profile, raised>>

SealSucceeded ==
  /\ Asking
  /\ \E g \in Claims, i \in Interpreters, out, err \in BOOLEAN :
       Outcome(Succeeded(request, profile, g, i, out, err),
               Success(request, profile, g, out, err))
  /\ UNCHANGED <<request, profile, raised>>

SealFailedAfterStart ==
  /\ Asking
  /\ \E g \in Claims, i \in Interpreters, t \in Terminations,
        out, err \in BOOLEAN, cleanup \in Cleanups,
        failure \in FailureKinds :
       Outcome(FailedAfterStart(request, profile, g, i, t, out, err, cleanup,
                                failure, FALSE),
               Failure(request, profile, g, t, out, err, cleanup, failure))
  /\ UNCHANGED <<request, profile, raised>>

SealCancelledAfterStart ==
  /\ Asking
  /\ \E g \in Claims, q \in Controllable, i \in Interpreters,
        out, err \in BOOLEAN, cleanup \in Cleanups :
       Outcome(CancelledAfterStart(request, profile, g, Token(q), i, out, err,
                                   cleanup),
               Failure(request, profile, g, Ended("cancelled", "none"), out,
                       err, cleanup, "cancelled"))
  /\ UNCHANGED <<request, profile, raised>>

Next ==
  \/ SealRequest
  \/ SealProfile
  \/ RequestCancellation
  \/ SealFailedBeforeStart
  \/ SealCancelledBeforeStart
  \/ SealSucceeded
  \/ SealFailedAfterStart
  \/ SealCancelledAfterStart

Spec == Init /\ [][Next]_vars

----------------------------------------------------------------------------
(* Results of this kind, if one is sealed. *)
Sealed == result # None
Started == Sealed /\ result.start = "started"

(* Type invariant. *)
TypeOK ==
  /\ raised \subseteq Controllable
  /\ request # None =>
       request.policy \in Policies /\ request.required \subseteq Guarantees
  /\ profile # None => profile \subseteq Guarantees
  /\ Sealed =>
       /\ result.request = request
       /\ result.profile = profile
       /\ result.established \subseteq Guarantees
       /\ result.cleanup \in Cleanups
       /\ result.failure \in FailureKinds \cup {"none"}

(* The two tables of request.cpp agree: every policy seals, and what a      *)
(* caller asks for on top is refused unless the policy derives it anyway.   *)
(* So callers who declare one policy hold one request identity.             *)
PolicyDecidesRequest ==
  /\ request # None => request.required = Derived(request.policy)
  /\ \A p \in Policies, additional \in Additional :
       Sealable(p, additional) <=> additional \subseteq Derived(p)

(* No evidence claims a policy the caller did not request or the backend    *)
(* did not advertise, nor a limit without its exact kind.                   *)
EvidenceWithinAuthority ==
  Sealed =>
    /\ result.established \subseteq request.required \cap profile
    /\ LimitShape(result.established)

(* Success says the whole contract was kept: every required guarantee and   *)
(* nothing else, every wanted stream, verified cleanup and status zero.     *)
SuccessIsExact ==
  Sealed /\ result.status = "succeeded" =>
    /\ result.established = request.required
    /\ result.out = Wants(request, "stdout")
    /\ result.err = Wants(request, "stderr")
    /\ result.termination = Ended("exited", "zero")
    /\ "cleanup_verified" \in result.established

(* A backend that cannot keep the contract does not start the program, and  *)
(* everything that has to hold before the start held.                       *)
StartedMeansIsolated ==
  Started =>
    /\ request.required \subseteq profile
    /\ \A g \in request.required \ AfterStart : g \in result.established

(* Evidence of a cancelled execution exists only after the caller raised    *)
(* the signal of this very request, whose policy allows it.                 *)
CancelledMeansRaised ==
  Sealed /\ result.failure = "cancelled" =>
    /\ request \in raised
    /\ "cancellation" \in result.established

(* Failed cleanup is never hidden behind another outcome, and captures are  *)
(* present exactly where their guarantee was established.                   *)
AfterStartIsAccounted ==
  Started =>
    /\ result.failure = "cleanup_failed" <=> result.cleanup = "failed"
    /\ "cleanup_verified" \in result.established <=> result.cleanup = "verified"
    /\ "complete_stdout_capture" \in result.established <=> result.out
    /\ "complete_stderr_capture" \in result.established <=> result.err

(* DESIGN.md: "Resource-limit termination evidence must name a requested    *)
(* limit whose exact guarantee was established."                            *)
LimitTerminationIsExact ==
  Sealed /\ result.termination.kind = "resource_limited" =>
    /\ result.termination.detail \in request.policy.limits
    /\ LimitEstablished(result.termination, result.established)

(* result.cpp: "log-capture failure requires missing requested stream       *)
(* evidence".                                                               *)
CaptureFailureMissesStream ==
  Sealed /\ result.failure = "log_capture_failed" =>
    \/ Wants(request, "stdout") /\ ~result.out
    \/ Wants(request, "stderr") /\ ~result.err
=============================================================================

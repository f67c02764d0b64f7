------------------------------ MODULE Evidence ------------------------------
(***************************************************************************)
(* The factories of execution evidence (src/result.cpp).  A factory takes  *)
(* what a backend claims of an execution and either seals it or throws.    *)
(* It is the list of its checks, in order.                                 *)
(*                                                                         *)
(* A capture is present or absent: the bytes and their digest are not      *)
(* looked at.  Diagnostics are text and are left out.                      *)
(***************************************************************************)
EXTENDS Requests, Checks, Naturals

PreStartFailures ==
  {"request_rejected", "backend_unsupported", "resource_admission_failed",
   "interpreter_unavailable", "isolation_setup_failed", "process_start_failed"}

StartedFailures ==
  {"program_exited_nonzero", "program_terminated_by_signal",
   "resource_limit_exceeded", "cancelled", "log_capture_failed",
   "cleanup_failed"}

FailureKinds == PreStartFailures \cup StartedFailures

(* The detail is the exit status, zero or not, or the limit kind. *)
Ended(kind, detail) == [kind |-> kind, detail |-> detail]
Terminations ==
  {Ended("exited", "zero"), Ended("exited", "nonzero"),
   Ended("signaled", "none"), Ended("cancelled", "none")}
  \cup {Ended("resource_limited", k) : k \in LimitKinds}

Cleanups == {"not_required", "verified", "failed"}

----------------------------------------------------------------------------
(* The aggregate limit guarantee comes with an exact kind, and never alone. *)
LimitShape(g) == "resource_limits" \in g <=> g \cap KindSpecific # {}

Supports(profile, r) == r.required \subseteq profile

(* Mutant of WellFormed: values outside the vocabulary pass. *)
WellShaped(g) == LimitShape(g)

WellFormed(g) == g \subseteq Guarantees /\ LimitShape(g)

ProfileChecks(g) ==
  << <<~WellFormed(g), "invalid_capability_profile">> >>

(* Mutant of Admissible: the profile is not consulted. *)
AdmissibleAnywhere(r, profile, g) == WellFormed(g) /\ g \subseteq r.required

(* What every factory demands of the established guarantees. *)
Admissible(r, profile, g) ==
  /\ WellFormed(g)
  /\ g \subseteq r.required
  /\ g \subseteq profile

Wants(r, stream) == r.policy[stream] = "capture_complete"

(* Mutant of BeforeStart: the filter is inverted. *)
BeforeStartInverted(r) == r.required \cap AfterStart

BeforeStart(r) == r.required \ AfterStart

(* Mutant of CaptureShape: the error stream is forgotten. *)
CaptureShapeOut(r, out, err, mayMiss) ==
  IF Wants(r, "stdout") THEN out \/ mayMiss ELSE ~out

(* Each stream is captured exactly when the request wants it; with          *)
(* mayMiss, a wanted stream may be missing.                                 *)
CaptureShape(r, out, err, mayMiss) ==
  /\ IF Wants(r, "stdout") THEN out \/ mayMiss ELSE ~out
  /\ IF Wants(r, "stderr") THEN err \/ mayMiss ELSE ~err

(* Mutant of StreamsAgree: the error stream is forgotten. *)
StreamsAgreeOut(g, out, err) == "complete_stdout_capture" \in g <=> out

StreamsAgree(g, out, err) ==
  /\ "complete_stdout_capture" \in g <=> out
  /\ "complete_stderr_capture" \in g <=> err

CleanupAgrees(g, cleanup) == "cleanup_verified" \in g <=> cleanup = "verified"

(* Mutant of AppliesTo: any token will do. *)
AppliesToAny(token, r) == TRUE

(* A token is bound to a request; raised is what it reports when asked. *)
Disabled(r) == r.policy.cancellation = "disabled"
AppliesTo(token, r) == token.request = r

----------------------------------------------------------------------------
FailedBeforeStart(r, profile, g, failure) ==
  << <<failure \notin FailureKinds, "invalid_failure">>,
     <<failure = "cancelled", "invalid_control">>,
     <<failure \notin PreStartFailures, "invalid_failure">>,
     <<~Admissible(r, profile, g), "inconsistent_result">>,
     <<g \cap AfterStart # {}, "inconsistent_result">>,
     <<failure # "backend_unsupported" /\ ~Supports(profile, r),
       "unsupported_request">> >>

CancelledBeforeStart(r, profile, g, token) ==
  << <<Disabled(r), "invalid_control">>,
     <<~AppliesTo(token, r), "control_mismatch">>,
     <<~token.raised, "invalid_control">>,
     <<~Admissible(r, profile, g), "inconsistent_result">>,
     <<~Supports(profile, r), "unsupported_request">>,
     <<"cancellation" \notin g, "inconsistent_result">>,
     <<g \cap AfterStart # {}, "inconsistent_result">> >>

Succeeded(r, profile, g, interpreter, out, err) ==
  << <<~WellFormed(g) \/ ~(g \subseteq r.required), "inconsistent_result">>,
     <<~Supports(profile, r) \/ ~(r.required \subseteq g),
       "unsupported_request">>,
     <<~(g \subseteq profile), "inconsistent_result">>,
     <<interpreter # r.policy.interpreter, "inconsistent_result">>,
     <<~CaptureShape(r, out, err, FALSE), "inconsistent_result">> >>

(* The termination a failure kind calls for; the last two take any. *)
TerminationFits(r, failure, t) ==
  /\ failure = "program_exited_nonzero" => t = Ended("exited", "nonzero")
  /\ failure = "program_terminated_by_signal" => t.kind = "signaled"
  /\ failure = "resource_limit_exceeded" =>
       t.kind = "resource_limited" /\ t.detail \in r.policy.limits
  /\ failure = "cancelled" => t.kind = "cancelled"

LimitEstablished(t, g) ==
  /\ t.detail \in LimitKinds
  /\ {"resource_limits", LimitGuarantee[t.detail]} \subseteq g

(* Mutant of NothingMissing: one complete stream is enough to refuse. *)
SomethingCaptured(r, out, err) ==
  \/ Wants(r, "stdout") /\ out
  \/ Wants(r, "stderr") /\ err

(* As in the code, both streams must be wanted for this to be refused. *)
NothingMissing(r, out, err) ==
  Wants(r, "stdout") /\ out /\ Wants(r, "stderr") /\ err

(* failed_after_start() with admitted = FALSE; cancelled_after_start() asks  *)
(* for the control first and calls it with admitted = TRUE.                 *)
FailedAfterStart(r, profile, g, i, t, out, err, cleanup, failure, admitted) ==
  << <<failure \notin FailureKinds, "invalid_failure">>,
     <<cleanup \notin Cleanups, "inconsistent_result">>,
     <<failure \in PreStartFailures, "invalid_failure">>,
     <<cleanup = "not_required", "inconsistent_result">>,
     <<i # r.policy.interpreter, "inconsistent_result">>,
     <<~Admissible(r, profile, g), "inconsistent_result">>,
     <<~Supports(profile, r), "unsupported_request">>,
     <<~(BeforeStart(r) \subseteq g), "inconsistent_result">>,
     <<~StreamsAgree(g, out, err), "inconsistent_result">>,
     <<~CleanupAgrees(g, cleanup), "inconsistent_result">>,
     <<failure = "cancelled" /\ ~admitted, "invalid_control">>,
     <<~TerminationFits(r, failure, t), "invalid_failure">>,
     <<failure = "resource_limit_exceeded" /\ ~LimitEstablished(t, g),
       "inconsistent_result">>,
     <<failure = "log_capture_failed" /\ ~CaptureShape(r, out, err, TRUE),
       "inconsistent_result">>,
     <<failure = "log_capture_failed" /\ NothingMissing(r, out, err),
       "invalid_failure">>,
     <<failure = "cleanup_failed" /\ cleanup # "failed", "invalid_failure">>,
     <<failure # "log_capture_failed" /\ ~CaptureShape(r, out, err, FALSE),
       "inconsistent_result">>,
     <<failure # "cleanup_failed" /\ cleanup # "verified",
       "inconsistent_result">> >>

CancelledAfterStart(r, profile, g, token, interpreter, out, err, cleanup) ==
  LET inner == FailedAfterStart(r, profile, g, interpreter,
                                Ended("cancelled", "none"), out, err, cleanup,
                                "cancelled", TRUE)
  IN  << <<Disabled(r), "invalid_control">>,
         <<~AppliesTo(token, r), "control_mismatch">>,
         <<~token.raised, "invalid_control">>,
         <<~Passes(inner), Verdict(inner)>> >>

----------------------------------------------------------------------------
(* What each factory seals. *)
NotStarted(r, profile, g, failure) ==
  [status |-> "failed", start |-> "not_started", request |-> r,
   profile |-> profile, termination |-> Ended("none", "none"),
   out |-> FALSE, err |-> FALSE, established |-> g,
   cleanup |-> "not_required", failure |-> failure]

Success(r, profile, g, out, err) ==
  [status |-> "succeeded", start |-> "started", request |-> r,
   profile |-> profile, termination |-> Ended("exited", "zero"),
   out |-> out, err |-> err, established |-> g,
   cleanup |-> "verified", failure |-> "none"]

(* Mutant of Failure: the termination keeps its value of a success. *)
FailureOfSuccess(r, profile, g, t, out, err, cleanup, failure) ==
  [Success(r, profile, g, out, err) EXCEPT
     !.status = "failed", !.cleanup = cleanup, !.failure = failure]

Failure(r, profile, g, t, out, err, cleanup, failure) ==
  [status |-> "failed", start |-> "started", request |-> r,
   profile |-> profile, termination |-> t,
   out |-> out, err |-> err, established |-> g,
   cleanup |-> cleanup, failure |-> failure]

----------------------------------------------------------------------------
(* Evidence e says of request r under profile p no more than it may, given  *)
(* the requests that were cancelled.                                        *)
Sound(r, p, cancelled, e) ==
  /\ e.request = r /\ e.profile = p
  /\ e.cleanup \in Cleanups
  /\ e.failure \in FailureKinds \cup {"none"}
  /\ e.established \subseteq r.required \cap p
  /\ LimitShape(e.established)
  /\ e.status = "succeeded" =>
       /\ e.established = r.required
       /\ e.out = Wants(r, "stdout")
       /\ e.err = Wants(r, "stderr")
       /\ e.termination = Ended("exited", "zero")
       /\ "cleanup_verified" \in e.established
  /\ e.start = "started" =>
       /\ r.required \subseteq p
       /\ \A g \in r.required \ AfterStart : g \in e.established
       /\ e.failure = "cleanup_failed" <=> e.cleanup = "failed"
       /\ "cleanup_verified" \in e.established <=> e.cleanup = "verified"
       /\ "complete_stdout_capture" \in e.established <=> e.out
       /\ "complete_stderr_capture" \in e.established <=> e.err
  /\ e.failure = "cancelled" =>
       r \in cancelled /\ "cancellation" \in e.established
=============================================================================

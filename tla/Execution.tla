----------------------------- MODULE Execution -----------------------------
(***************************************************************************)
(* Calls of a controlled_execution_backend (src/backend.cpp), the sources  *)
(* that cancel them (src/control.cpp) and the evidence they end with       *)
(* (src/result.cpp).  The backend itself is outside the repository.  Here  *)
(* it is an honest one: it establishes what it claims, reports what        *)
(* happened, and looks at its token before the start and while the program *)
(* runs.  Everything that can go wrong in a real execution may go wrong.   *)
(***************************************************************************)
EXTENDS Evidence

CONSTANTS
  Call,             \* executions, possibly at the same time
  Source,           \* cancellation sources
  NoSource,         \* the token of a call on the ordinary path
  Requests,         \* sealed requests
  Profile,          \* the guarantees of the backend's profile
  None              \* not yet

ASSUME ExecutionAssumption ==
  /\ NoSource \notin Source
  /\ None \notin Requests
  /\ \A r \in Requests :
       r = Seal(r.policy, {}) /\ r.policy.limits \subseteq LimitKinds
  /\ Passes(ProfileChecks(Profile))

VARIABLES
  bound,            \* the request each source was created for
  raised,           \* sources whose signal is raised
  stage,            \* where each call is
  request, token,   \* what each call was made with
  truth,            \* what really happened to its program
  result            \* the evidence it returned

control == <<bound, raised>>
vars == <<control, stage, request, token, truth, result>>

Goto(c, to) == stage' = [stage EXCEPT ![c] = to]

(* Mutants of Signal: the signal is shared by the sources of a request; the *)
(* token is a copy taken when the source was created.                       *)
SignalOfRequest(s) ==
  [request |-> bound[s], raised |-> \E x \in raised : bound[x] = bound[s]]
SignalCopied(s) == [request |-> bound[s], raised |-> FALSE]

(* What a token of s says: the request it is bound to and the signal. *)
Signal(s) == [request |-> bound[s], raised |-> s \in raised]

(* What the backend reads from the token of a call, if it was given one. *)
Signalled(c) == token[c] # NoSource /\ Signal(token[c]).raised

----------------------------------------------------------------------------
(* Mutant of CreateSource: the policy is not consulted. *)
CreateSourceAnyway(s) ==
  /\ bound[s] = None
  /\ \E r \in Requests : bound' = [bound EXCEPT ![s] = r]
  /\ UNCHANGED <<raised, stage, request, token, truth, result>>

(* cancellation_source::for_request(), which throws for a disabled policy *)
CreateSource(s) ==
  /\ bound[s] = None
  /\ \E r \in Requests :
       /\ ~Disabled(r)
       /\ bound' = [bound EXCEPT ![s] = r]
  /\ UNCHANGED <<raised, stage, request, token, truth, result>>

(* Mutant of Cancel: a second request takes the first one back. *)
CancelToggles(s) ==
  /\ bound[s] # None
  /\ raised' = IF s \in raised THEN raised \ {s} ELSE raised \cup {s}
  /\ UNCHANGED <<bound, stage, request, token, truth, result>>

(* request_cancellation(): raised for good, again is nothing *)
Cancel(s) ==
  /\ bound[s] # None
  /\ s \notin raised
  /\ raised' = raised \cup {s}
  /\ UNCHANGED <<bound, stage, request, token, truth, result>>

(* The two-argument execute() *)
ExecuteOrdinary(c) ==
  /\ stage[c] = "idle"
  /\ \E r \in Requests :
       /\ request' = [request EXCEPT ![c] = r]
       /\ Goto(c, IF Disabled(r) THEN "setup" ELSE "refused")
  /\ UNCHANGED <<control, token, truth, result>>

(* The token-bearing execute(), with a token of any source there is *)
ExecuteControlled(c) ==
  /\ stage[c] = "idle"
  /\ \E r \in Requests, s \in {x \in Source : bound[x] # None} :
       /\ request' = [request EXCEPT ![c] = r]
       /\ token' = [token EXCEPT ![c] = s]
       /\ Goto(c, IF ~Disabled(r) /\ AppliesTo(Signal(s), r)
                            THEN "setup" ELSE "refused")
  /\ UNCHANGED <<control, truth, result>>

----------------------------------------------------------------------------
(* The backend seals evidence; a refused claim leaves it with none. *)
Report(c, checks, evidence) ==
  /\ Goto(c, IF Passes(checks) THEN "returned" ELSE "threw")
  /\ result' = [result EXCEPT ![c] = IF Passes(checks) THEN evidence ELSE None]
  /\ UNCHANGED <<control, request, token, truth>>

Supported(c) == Supports(Profile, request[c])

(* How far the setup may have come when it fails: limits are set one kind  *)
(* after another, after everything else.                                   *)
SetUpPartly(r) ==
  {{}, BeforeStart(r) \ (KindSpecific \cup {"resource_limits"})} \cup
  {BeforeStart(r) \ {k} : k \in KindSpecific \cap r.required}

RejectUnsupported(c) ==
  /\ stage[c] = "setup"
  /\ ~Supported(c)
  /\ Report(c,
            FailedBeforeStart(request[c], Profile, {}, "backend_unsupported"),
            NotStarted(request[c], Profile, {}, "backend_unsupported"))

FailSetup(c) ==
  /\ stage[c] = "setup"
  /\ Supported(c)
  /\ \E failure \in PreStartFailures \ {"backend_unsupported"},
        g \in SetUpPartly(request[c]) :
       /\ LimitShape(g)
       /\ Report(c,
                 FailedBeforeStart(request[c], Profile, g, failure),
                 NotStarted(request[c], Profile, g, failure))

(* The signal is seen before the program starts. *)
CancelSetup(c) ==
  /\ stage[c] = "setup"
  /\ Supported(c)
  /\ Signalled(c)
  /\ \E g \in {{"cancellation"}, BeforeStart(request[c])} :
       Report(c,
              CancelledBeforeStart(request[c], Profile, g, Signal(token[c])),
              NotStarted(request[c], Profile, g, "cancelled"))

Start(c) ==
  /\ stage[c] = "setup"
  /\ Supported(c)
  /\ Goto(c, "running")
  /\ UNCHANGED <<control, request, token, truth, result>>

Terminate(c, t) ==
  /\ Goto(c, "capturing")
  /\ truth' = [truth EXCEPT ![c].termination = t]
  /\ UNCHANGED <<control, request, token, result>>

(* The program ends on its own, or runs into one of its limits. *)
End(c) ==
  /\ stage[c] = "running"
  /\ \E t \in Terminations :
       /\ t.kind # "cancelled"
       /\ t.kind = "resource_limited" => t.detail \in request[c].policy.limits
       /\ Terminate(c, t)

(* The signal is seen while the program runs. *)
CancelProgram(c) ==
  /\ stage[c] = "running"
  /\ Signalled(c)
  /\ Terminate(c, Ended("cancelled", "none"))

(* Each wanted stream turns out complete, or not. *)
Capture(c) ==
  /\ stage[c] = "capturing"
  /\ \E out, err \in BOOLEAN :
       /\ CaptureShape(request[c], out, err, TRUE)
       /\ truth' = [truth EXCEPT ![c].out = out, ![c].err = err]
  /\ Goto(c, "cleaning")
  /\ UNCHANGED <<control, request, token, result>>

CleanUp(c) ==
  /\ stage[c] = "cleaning"
  /\ \E cleanup \in {"verified", "failed"} :
       truth' = [truth EXCEPT ![c].cleanup = cleanup]
  /\ Goto(c, "reporting")
  /\ UNCHANGED <<control, request, token, result>>

(* What the backend may truthfully claim of a program that ran. *)
Established(c) ==
  BeforeStart(request[c])
  \cup IfSo(truth[c].out, "complete_stdout_capture")
  \cup IfSo(truth[c].err, "complete_stderr_capture")
  \cup IfSo(truth[c].cleanup = "verified", "cleanup_verified")

CaptureMissed(c) == ~CaptureShape(request[c], truth[c].out, truth[c].err, FALSE)
CleanupFailed(c) == truth[c].cleanup = "failed"

FailureFor(t) ==
  CASE t = Ended("exited", "zero")    -> "none"
    [] t = Ended("exited", "nonzero") -> "program_exited_nonzero"
    [] t.kind = "signaled"            -> "program_terminated_by_signal"
    [] t.kind = "resource_limited"    -> "resource_limit_exceeded"
    [] t.kind = "cancelled"           -> "cancelled"

(* The failure that fits what happened; "none" is success. *)
FailureOf(c) ==
  IF CleanupFailed(c) THEN "cleanup_failed"
  ELSE IF CaptureMissed(c) THEN "log_capture_failed"
  ELSE FailureFor(truth[c].termination)

ReportSuccess(c) ==
  /\ stage[c] = "reporting"
  /\ FailureOf(c) = "none"
  /\ LET r == request[c]
         x == truth[c]
     IN  Report(c,
                Succeeded(r, Profile, Established(c), r.policy.interpreter,
                          x.out, x.err),
                Success(r, Profile, Established(c), x.out, x.err))

ReportCancelled(c) ==
  /\ stage[c] = "reporting"
  /\ FailureOf(c) = "cancelled"
  /\ LET r == request[c]
         x == truth[c]
     IN  Report(c,
                CancelledAfterStart(r, Profile, Established(c),
                                    Signal(token[c]), r.policy.interpreter,
                                    x.out, x.err, x.cleanup),
                Failure(r, Profile, Established(c), x.termination,
                        x.out, x.err, x.cleanup, "cancelled"))

ReportFailure(c) ==
  /\ stage[c] = "reporting"
  /\ FailureOf(c) \notin {"none", "cancelled"}
  /\ LET r == request[c]
         x == truth[c]
     IN  Report(c,
                FailedAfterStart(r, Profile, Established(c),
                                 r.policy.interpreter, x.termination,
                                 x.out, x.err, x.cleanup, FailureOf(c), FALSE),
                Failure(r, Profile, Established(c), x.termination,
                        x.out, x.err, x.cleanup, FailureOf(c)))

----------------------------------------------------------------------------
Init ==
  /\ bound = [s \in Source |-> None]
  /\ raised = {}
  /\ stage = [c \in Call |-> "idle"]
  /\ request = [c \in Call |-> None]
  /\ token = [c \in Call |-> NoSource]
  /\ truth = [c \in Call |-> [termination |-> Ended("none", "none"),
                              out |-> FALSE, err |-> FALSE,
                              cleanup |-> "not_required"]]
  /\ result = [c \in Call |-> None]

(* What a backend does of its own accord. *)
Work(c) ==
  \/ RejectUnsupported(c)
  \/ FailSetup(c)
  \/ CancelSetup(c)
  \/ Start(c)
  \/ Capture(c)
  \/ CleanUp(c)
  \/ ReportSuccess(c)
  \/ ReportCancelled(c)
  \/ ReportFailure(c)

Next ==
  \/ \E s \in Source : CreateSource(s) \/ Cancel(s)
  \/ \E c \in Call :
       \/ ExecuteOrdinary(c)
       \/ ExecuteControlled(c)
       \/ Work(c)
       \/ End(c)
       \/ CancelProgram(c)

Spec == Init /\ [][Next]_vars

----------------------------------------------------------------------------
Entered(c) == stage[c] \notin {"idle", "refused"}
Returned(c) == stage[c] = "returned"

Stages ==
  {"idle", "refused", "setup", "running", "capturing", "cleaning",
   "reporting", "returned", "threw"}

(* Type invariant; sources exist only for requests that can be cancelled,   *)
(* evidence only of calls that returned.                                    *)
TypeOK ==
  /\ bound \in [Source -> {r \in Requests : ~Disabled(r)} \cup {None}]
  /\ raised \subseteq Source
  /\ stage \in [Call -> Stages]
  /\ request \in [Call -> Requests \cup {None}]
  /\ token \in [Call -> Source \cup {NoSource}]
  /\ truth \in [Call -> [termination : Terminations \cup {Ended("none", "none")},
                         out : BOOLEAN, err : BOOLEAN, cleanup : Cleanups]]
  /\ \A c \in Call : result[c] # None => Returned(c)

(* Backend code runs for a request with cancellation only under a token     *)
(* bound to that request, and for one without only without a token.         *)
DispatchIsAdmitted ==
  \A c \in Call : Entered(c) =>
    IF Disabled(request[c]) THEN token[c] = NoSource
    ELSE token[c] # NoSource /\ bound[token[c]] = request[c]

(* A call ends cancelled only if the source it was made with was signalled: *)
(* the sources of other calls, of this request or another, do not end it.   *)
CancelledByOwnSource ==
  \A c \in Call : Returned(c) /\ result[c].failure = "cancelled" =>
    token[c] \in raised

(* The evidence is what happened: success exactly when nothing went wrong,  *)
(* and no failure hides another one that ranks above it.                    *)
EvidenceIsTrue ==
  \A c \in Call : Returned(c) /\ result[c].start = "started" =>
    /\ result[c].status = "succeeded" <=>
         /\ truth[c].termination = Ended("exited", "zero")
         /\ ~CaptureMissed(c)
         /\ ~CleanupFailed(c)
    /\ result[c].failure = "cleanup_failed" <=> CleanupFailed(c)
    /\ result[c].failure = "log_capture_failed" <=> CaptureMissed(c)
    /\ result[c].termination = truth[c].termination

(* pkgexec_result(3) says that failed evidence retains stream evidence      *)
(* "where available, and cleanup outcome".  The factories leave an honest   *)
(* backend without evidence only when two things went wrong at once: a      *)
(* stream was lost and the cleanup failed.                                  *)
OneFaultIsReportable ==
  \A c \in Call : stage[c] = "threw" => CaptureMissed(c) /\ CleanupFailed(c)

(* The mapping to the contract. *)
outcome ==
  [c \in Call |->
     CASE stage[c] = "idle" -> "none"
       [] stage[c] = "refused" -> "refused"
       [] stage[c] = "threw" -> "unreported"
       [] stage[c] = "returned" ->
            IF result[c].failure = "cancelled" THEN "cancelled"
            ELSE IF result[c].start = "not_started" THEN "not_started"
            ELSE result[c].status
       [] OTHER -> "pending"]

admitted == [c \in Call |-> IF Entered(c) THEN token[c] ELSE NoSource]

Contract ==
  INSTANCE ExecutionContract WITH signalled <- raised, control <- admitted

(* Every call, whatever its backend runs into and whoever cancels what,     *)
(* takes only the steps the contract allows.                                *)
KeepsContractSafely == Contract!Safety

(* And a call whose own source is signalled ends, even if its program would *)
(* never have ended by itself: see Provision for the fairness it takes.     *)
KeepsContract == Contract!Spec
=============================================================================

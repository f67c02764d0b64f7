-------------------------- MODULE ExecutionProofs --------------------------
(***************************************************************************)
(* What the owner of a request is promised of its calls, for any number of *)
(* calls and sources, any requests and any profile: Execution implements   *)
(* the safety of ExecutionContract, an honest backend can report what      *)
(* happened, and with resources (Provision) a program runs with all that   *)
(* its own request binds.                                                  *)
(***************************************************************************)
EXTENDS Provision, EvidenceProofs, WellFoundedInduction

Truths ==
  [termination : Terminations \cup {Ended("none", "none")},
   out : BOOLEAN, err : BOOLEAN, cleanup : Cleanups]

Shape ==
  /\ bound \in [Source -> {r \in Requests : ~Disabled(r)} \cup {None}]
  /\ raised \subseteq Source
  /\ stage \in [Call -> Stages]
  /\ request \in [Call -> Requests \cup {None}]
  /\ token \in [Call -> Source \cup {NoSource}]
  /\ truth \in [Call -> Truths]
  /\ result = [c \in Call |-> result[c]]
  /\ \A c \in Call : result[c] # None => Returned(c)

(* A call that was not made has no request, no token and no past. *)
Fresh ==
  \A c \in Call :
    /\ stage[c] = "idle" =>
         token[c] = NoSource /\ truth[c].termination.kind # "cancelled"
    /\ stage[c] # "idle" => request[c] \in Requests

(* A program is ended as cancelled by the source of its call. *)
EndedByOwnSource ==
  \A c \in Call : truth[c].termination.kind = "cancelled" => token[c] \in raised

Over == {"capturing", "cleaning", "reporting"}

(* A program whose streams and remains are looked after has ended. *)
ProgramsEnded ==
  \A c \in Call : stage[c] \in Over => truth[c].termination \in Terminations

Inv ==
  /\ Shape /\ Fresh /\ EndedByOwnSource /\ ProgramsEnded
  /\ DispatchIsAdmitted /\ CancelledByOwnSource

Working == {"setup", "running", "capturing", "cleaning", "reporting"}

ContractStep == [Contract!Next]_(Contract!vars)

----------------------------------------------------------------------------
LEMMA InitInv == Init => Inv /\ Contract!Init
<1> SUFFICES ASSUME Init PROVE Inv /\ Contract!Init
  OBVIOUS
<1>1. Ended("none", "none").kind # "cancelled" /\ "idle" \in Stages
  BY DEF Ended, Stages
<1>2. \A c \in Call : stage[c] = "idle"
  BY DEF Init
<1>3. Shape
  <2>1. [termination |-> Ended("none", "none"), out |-> FALSE, err |-> FALSE,
         cleanup |-> "not_required"] \in Truths
    BY DEF Truths, Cleanups
  <2>2. truth \in [Call -> Truths]
    BY <2>1 DEF Init
  <2> QED BY <1>1, <2>2 DEF Init, Shape
<1>4. Fresh /\ EndedByOwnSource /\ ProgramsEnded
  BY <1>1, <1>2 DEF Init, Fresh, EndedByOwnSource, ProgramsEnded, Over
<1>5. DispatchIsAdmitted /\ CancelledByOwnSource
  BY <1>2 DEF DispatchIsAdmitted, CancelledByOwnSource, Entered, Returned
<1>6. Contract!Init
  <2>1. outcome = [c \in Call |-> "none"]
    BY <1>2 DEF outcome
  <2>2. admitted = [c \in Call |-> NoSource]
    BY <1>2 DEF admitted, Entered
  <2> QED BY <2>1, <2>2 DEF Init, Contract!Init
<1> QED BY <1>3, <1>4, <1>5, <1>6 DEF Inv

(* What is promised of a call depends on its own stage, token and result.   *)
LEMMA SameCallsSameContract ==
  ASSUME UNCHANGED <<stage, token, result>>
  PROVE  UNCHANGED <<admitted, outcome>>
  BY DEF admitted, outcome, Entered

----------------------------------------------------------------------------
(* Sources *)

LEMMA CreateSourceKeeps ==
  ASSUME Inv, NEW s \in Source, CreateSource(s)
  PROVE  Inv' /\ ContractStep
<1>1. PICK r \in Requests :
        /\ bound[s] = None /\ ~Disabled(r)
        /\ bound' = [bound EXCEPT ![s] = r]
        /\ UNCHANGED <<raised, stage, request, token, truth, result>>
  BY DEF CreateSource
<1>2. Shape' /\ Fresh' /\ EndedByOwnSource' /\ ProgramsEnded'
  BY <1>1 DEF Inv, Shape, Returned, Fresh, EndedByOwnSource, ProgramsEnded
<1>3. CancelledByOwnSource'
  BY <1>1 DEF Inv, CancelledByOwnSource, Returned
<1>4. DispatchIsAdmitted'
  <2> SUFFICES ASSUME NEW c \in Call, Entered(c)'
               PROVE  (IF Disabled(request[c]) THEN token[c] = NoSource
                       ELSE /\ token[c] # NoSource
                            /\ bound[token[c]] = request[c])'
    BY DEF DispatchIsAdmitted
  <2>1. Entered(c) /\ stage[c] # "idle"
    BY <1>1 DEF Entered
  <2>2. request[c] \in Requests /\ request[c] # None
    BY <2>1, ExecutionAssumption DEF Inv, Fresh
  <2>3. CASE Disabled(request[c])
    BY <1>1, <2>1, <2>3 DEF Inv, DispatchIsAdmitted
  <2>4. CASE ~Disabled(request[c])
    <3>1. token[c] # NoSource /\ bound[token[c]] = request[c]
      BY <2>1, <2>4 DEF Inv, DispatchIsAdmitted
    <3>2. token[c] \in Source /\ token[c] # s
      BY <1>1, <2>2, <3>1 DEF Inv, Shape
    <3>3. bound'[token[c]] = bound[token[c]]
      BY <1>1, <3>2 DEF Inv, Shape
    <3> QED BY <1>1, <2>4, <3>1, <3>3
  <2> QED BY <2>3, <2>4
<1>5. ContractStep
  BY <1>1, SameCallsSameContract DEF ContractStep, Contract!vars
<1> QED BY <1>2, <1>3, <1>4, <1>5 DEF Inv

LEMMA CancelKeeps ==
  ASSUME Inv, NEW s \in Source, Cancel(s)
  PROVE  Inv' /\ ContractStep
<1>1. /\ raised' = raised \cup {s}
      /\ UNCHANGED <<bound, stage, request, token, truth, result>>
  BY DEF Cancel
<1>2. Shape' /\ Fresh' /\ EndedByOwnSource' /\ ProgramsEnded'
  BY <1>1 DEF Inv, Shape, Returned, Fresh, EndedByOwnSource, ProgramsEnded
<1>3. CancelledByOwnSource' /\ DispatchIsAdmitted'
  BY <1>1 DEF Inv, CancelledByOwnSource, Returned, DispatchIsAdmitted, Entered
<1>4. Contract!Signal(s)
  BY <1>1, SameCallsSameContract DEF Contract!Signal
<1> QED BY <1>2, <1>3, <1>4 DEF Inv, ContractStep, Contract!Next

----------------------------------------------------------------------------
(* Dispatch.  Both ways of it refuse the call, or admit it with the token   *)
(* that its request calls for.                                              *)

LEMMA DispatchKeeps ==
  ASSUME Inv, NEW c \in Call, stage[c] = "idle",
         NEW r \in Requests, NEW x \in Source \cup {NoSource},
         NEW to \in {"setup", "refused"},
         to = "setup" => IF Disabled(r) THEN x = NoSource
                         ELSE x # NoSource /\ bound[x] = r,
         request' = [request EXCEPT ![c] = r],
         token' = [token EXCEPT ![c] = x],
         stage' = [stage EXCEPT ![c] = to],
         UNCHANGED <<control, truth, result>>
  PROVE  Inv' /\ ContractStep
<1>1. UNCHANGED <<bound, raised, truth, result>>
  BY DEF control
<1>2. /\ stage'[c] = to /\ request'[c] = r /\ token'[c] = x
      /\ \A d \in Call \ {c} : /\ stage'[d] = stage[d]
                               /\ request'[d] = request[d]
                               /\ token'[d] = token[d]
  BY DEF Inv, Shape
<1>3. Shape'
  BY <1>1, <1>2 DEF Inv, Shape, Stages, Returned
<1>4. Fresh'
  BY <1>1, <1>2 DEF Inv, Fresh
<1>5. EndedByOwnSource' /\ ProgramsEnded'
  BY <1>1, <1>2 DEF Inv, Fresh, EndedByOwnSource, ProgramsEnded, Over
<1>6. CancelledByOwnSource'
  BY <1>1, <1>2 DEF Inv, CancelledByOwnSource, Returned
<1>7. DispatchIsAdmitted'
  BY <1>1, <1>2 DEF Inv, DispatchIsAdmitted, Entered
<1>8. ContractStep
  <2>1. outcome[c] = "none"
    BY DEF outcome
  <2>2. outcome' = [outcome EXCEPT ![c] =
                      IF to = "setup" THEN "pending" ELSE "refused"]
    <3>1. outcome'[c] = IF to = "setup" THEN "pending" ELSE "refused"
      BY <1>2 DEF outcome
    <3>2. \A d \in Call \ {c} : outcome'[d] = outcome[d]
      BY <1>1, <1>2 DEF outcome
    <3> QED BY <3>1, <3>2 DEF outcome
  <2>3. CASE to = "setup"
    <3>1. admitted' = [admitted EXCEPT ![c] = x]
      <4>1. admitted'[c] = x
        BY <1>2, <2>3 DEF admitted, Entered
      <4>2. \A d \in Call \ {c} : admitted'[d] = admitted[d]
        BY <1>2 DEF admitted, Entered
      <4> QED BY <4>1, <4>2 DEF admitted
    <3>2. Contract!Admit(c)
      BY <1>1, <2>1, <2>2, <2>3, <3>1 DEF Contract!Admit
    <3> QED BY <3>2 DEF ContractStep, Contract!Next
  <2>4. CASE to = "refused"
    <3>1. admitted' = admitted
      <4>1. admitted'[c] = admitted[c]
        BY <1>2, <2>4 DEF admitted, Entered
      <4>2. \A d \in Call \ {c} : admitted'[d] = admitted[d]
        BY <1>2 DEF admitted, Entered
      <4> QED BY <4>1, <4>2 DEF admitted
    <3>2. Contract!Refuse(c)
      BY <1>1, <2>1, <2>2, <2>4, <3>1 DEF Contract!Refuse
    <3> QED BY <3>2 DEF ContractStep, Contract!Next
  <2> QED BY <2>3, <2>4
<1> QED BY <1>3, <1>4, <1>5, <1>6, <1>7, <1>8 DEF Inv

LEMMA ExecuteOrdinaryKeeps ==
  ASSUME Inv, NEW c \in Call, ExecuteOrdinary(c)
  PROVE  Inv' /\ ContractStep
<1>1. PICK r \in Requests :
        /\ request' = [request EXCEPT ![c] = r]
        /\ stage' = [stage EXCEPT ![c] =
                       IF Disabled(r) THEN "setup" ELSE "refused"]
  BY DEF ExecuteOrdinary, Goto
<1>2. stage[c] = "idle" /\ UNCHANGED <<control, token, truth, result>>
  BY DEF ExecuteOrdinary
<1>3. token' = [token EXCEPT ![c] = NoSource]
  BY <1>2 DEF Inv, Shape, Fresh
<1>4. CASE Disabled(r)
  BY <1>1, <1>2, <1>3, <1>4, DispatchKeeps
<1>5. CASE ~Disabled(r)
  BY <1>1, <1>2, <1>3, <1>5, DispatchKeeps
<1> QED BY <1>4, <1>5

LEMMA ExecuteControlledKeeps ==
  ASSUME Inv, NEW c \in Call, ExecuteControlled(c)
  PROVE  Inv' /\ ContractStep
<1>1. PICK r \in Requests, s \in Source :
        /\ request' = [request EXCEPT ![c] = r]
        /\ token' = [token EXCEPT ![c] = s]
        /\ stage' = [stage EXCEPT ![c] =
                       IF ~Disabled(r) /\ AppliesTo(Signal(s), r)
                         THEN "setup" ELSE "refused"]
  BY DEF ExecuteControlled, Goto
<1>2. stage[c] = "idle" /\ UNCHANGED <<control, truth, result>>
  BY DEF ExecuteControlled
<1>3. CASE ~Disabled(r) /\ AppliesTo(Signal(s), r)
  <2>1. bound[s] = r /\ s # NoSource
    BY <1>3, ExecutionAssumption DEF AppliesTo, Signal
  <2> QED BY <1>1, <1>2, <1>3, <2>1, DispatchKeeps
<1>4. CASE ~(~Disabled(r) /\ AppliesTo(Signal(s), r))
  BY <1>1, <1>2, <1>4, DispatchKeeps
<1> QED BY <1>3, <1>4

----------------------------------------------------------------------------
(* Work that ends in no result is none of the contract's business, as long  *)
(* as a program ends as cancelled only under a raised token of its call.    *)

LEMMA WorkKeeps ==
  ASSUME Inv, NEW c \in Call, stage[c] \in Working,
         NEW to \in Working, stage' = [stage EXCEPT ![c] = to],
         NEW t \in Truths, truth' = [truth EXCEPT ![c] = t],
         t.termination.kind = "cancelled" => token[c] \in raised,
         to \in Over => t.termination \in Terminations,
         UNCHANGED <<control, request, token, result>>
  PROVE  Inv' /\ ContractStep
<1>1. UNCHANGED <<bound, raised, request, token, result>>
  BY DEF control
<1>2. /\ stage'[c] = to /\ truth'[c] = t
      /\ \A d \in Call \ {c} : stage'[d] = stage[d] /\ truth'[d] = truth[d]
  BY DEF Inv, Shape
<1>3. to \notin {"idle", "refused", "returned", "threw"}
        /\ stage[c] \notin {"idle", "refused", "returned", "threw"}
  BY DEF Working
<1>4. Shape'
  BY <1>1, <1>2, <1>3 DEF Inv, Shape, Stages, Working, Returned
<1>5. Fresh' /\ EndedByOwnSource' /\ ProgramsEnded'
  BY <1>1, <1>2, <1>3
  DEF Inv, Fresh, EndedByOwnSource, ProgramsEnded, Over
<1>6. CancelledByOwnSource' /\ DispatchIsAdmitted'
  BY <1>1, <1>2, <1>3
  DEF Inv, CancelledByOwnSource, Returned, DispatchIsAdmitted, Entered
<1>7. outcome' = outcome
  <2>1. outcome'[c] = outcome[c]
    BY <1>2, <1>3 DEF outcome
  <2>2. \A d \in Call \ {c} : outcome'[d] = outcome[d]
    BY <1>1, <1>2 DEF outcome
  <2> QED BY <2>1, <2>2 DEF outcome
<1>8. admitted' = admitted
  BY <1>1, <1>2, <1>3 DEF admitted, Entered
<1> QED BY <1>1, <1>4, <1>5, <1>6, <1>7, <1>8
        DEF Inv, ContractStep, Contract!vars

LEMMA StartKeeps ==
  ASSUME Inv, NEW c \in Call, Start(c)
  PROVE  Inv' /\ ContractStep
<1>1. /\ stage[c] \in Working /\ stage' = [stage EXCEPT ![c] = "running"]
      /\ UNCHANGED <<control, request, token, truth, result>>
  BY DEF Start, Goto, Working
<1>2. truth' = [truth EXCEPT ![c] = truth[c]] /\ truth[c] \in Truths
  BY <1>1 DEF Inv, Shape
<1>3. truth[c].termination.kind = "cancelled" => token[c] \in raised
  BY DEF Inv, EndedByOwnSource
<1> QED BY <1>1, <1>2, <1>3, WorkKeeps DEF Working, Over

LEMMA TerminateKeeps ==
  ASSUME Inv, NEW c \in Call, stage[c] = "running", NEW t \in Terminations,
         t.kind = "cancelled" => token[c] \in raised, Terminate(c, t)
  PROVE  Inv' /\ ContractStep
<1> DEFINE ended == [truth[c] EXCEPT !.termination = t]
<1>1. /\ stage' = [stage EXCEPT ![c] = "capturing"]
      /\ truth' = [truth EXCEPT ![c] = ended]
      /\ UNCHANGED <<control, request, token, result>>
  BY DEF Terminate, Goto
<1>2. ended \in Truths /\ ended.termination = t
  BY DEF Inv, Shape, Truths
<1> QED BY <1>1, <1>2, WorkKeeps DEF Working

LEMMA EndKeeps ==
  ASSUME Inv, NEW c \in Call, End(c)
  PROVE  Inv' /\ ContractStep
  BY TerminateKeeps DEF End

LEMMA CancelProgramKeeps ==
  ASSUME Inv, NEW c \in Call, CancelProgram(c)
  PROVE  Inv' /\ ContractStep
<1>1. token[c] \in raised
  BY DEF CancelProgram, Signalled, Signal
<1>2. Ended("cancelled", "none") \in Terminations
  BY DEF Terminations
<1> QED BY <1>1, <1>2, TerminateKeeps DEF CancelProgram

LEMMA CaptureKeeps ==
  ASSUME Inv, NEW c \in Call, Capture(c)
  PROVE  Inv' /\ ContractStep
<1>1. PICK out, err \in BOOLEAN :
        truth' = [truth EXCEPT ![c].out = out, ![c].err = err]
  BY DEF Capture
<1> DEFINE captured == [truth[c] EXCEPT !.out = out, !.err = err]
<1>2. truth' = [truth EXCEPT ![c] = captured]
  BY <1>1 DEF Inv, Shape
<1>3. /\ stage[c] = "capturing" /\ stage' = [stage EXCEPT ![c] = "cleaning"]
      /\ UNCHANGED <<control, request, token, result>>
  BY DEF Capture, Goto
<1>4. captured \in Truths /\ captured.termination = truth[c].termination
  BY DEF Inv, Shape, Truths
<1>5. /\ captured.termination.kind = "cancelled" => token[c] \in raised
      /\ captured.termination \in Terminations
  BY <1>3, <1>4 DEF Inv, EndedByOwnSource, ProgramsEnded, Over
<1> HIDE DEF captured
<1> QED BY <1>2, <1>3, <1>4, <1>5, WorkKeeps DEF Working

LEMMA CleanUpKeeps ==
  ASSUME Inv, NEW c \in Call, CleanUp(c)
  PROVE  Inv' /\ ContractStep
<1>1. PICK cleanup \in {"verified", "failed"} :
        truth' = [truth EXCEPT ![c].cleanup = cleanup]
  BY DEF CleanUp
<1> DEFINE cleaned == [truth[c] EXCEPT !.cleanup = cleanup]
<1>2. truth' = [truth EXCEPT ![c] = cleaned]
  BY <1>1 DEF Inv, Shape
<1>3. /\ stage[c] = "cleaning" /\ stage' = [stage EXCEPT ![c] = "reporting"]
      /\ UNCHANGED <<control, request, token, result>>
  BY DEF CleanUp, Goto
<1>4. cleaned \in Truths /\ cleaned.termination = truth[c].termination
  BY DEF Inv, Shape, Truths, Cleanups
<1>5. /\ cleaned.termination.kind = "cancelled" => token[c] \in raised
      /\ cleaned.termination \in Terminations
  BY <1>3, <1>4 DEF Inv, EndedByOwnSource, ProgramsEnded, Over
<1> HIDE DEF cleaned
<1> QED BY <1>2, <1>3, <1>4, <1>5, WorkKeeps DEF Working

----------------------------------------------------------------------------
(* A report ends its call, whether the evidence is sealed or refused.       *)

LEMMA ReportKeeps ==
  ASSUME Inv, NEW c \in Call, stage[c] \in Working,
         NEW checks, NEW e, Report(c, checks, e),
         e.failure = "cancelled" => token[c] \in raised,
         e.start \in {"not_started", "started"},
         e.status \in {"failed", "succeeded"}
  PROVE  Inv' /\ ContractStep
<1> DEFINE to == IF Passes(checks) THEN "returned" ELSE "threw"
           kept == IF Passes(checks) THEN e ELSE None
<1>1. /\ to \in {"returned", "threw"}
      /\ to = "returned" => kept = e
      /\ to = "threw" => kept = None
      /\ stage' = [stage EXCEPT ![c] = to]
      /\ result' = [result EXCEPT ![c] = kept]
      /\ UNCHANGED <<bound, raised, request, token, truth>>
  BY DEF Report, Goto, control
<1> HIDE DEF to, kept
<1>2. /\ stage'[c] = to /\ result'[c] = kept
      /\ \A d \in Call \ {c} : stage'[d] = stage[d] /\ result'[d] = result[d]
  BY <1>1 DEF Inv, Shape
<1>3. stage[c] \notin {"idle", "refused", "returned", "threw"}
  BY DEF Working
<1>4. Shape'
  <2>1. result' = [d \in Call |-> result'[d]]
    BY <1>1 DEF Inv, Shape
  <2> QED BY <1>1, <1>2, <2>1 DEF Inv, Shape, Stages, Returned
<1>5. Fresh' /\ EndedByOwnSource' /\ ProgramsEnded'
  BY <1>1, <1>2, <1>3
  DEF Inv, Fresh, EndedByOwnSource, ProgramsEnded, Over
<1>6. CancelledByOwnSource'
  BY <1>1, <1>2 DEF Inv, CancelledByOwnSource, Returned
<1>7. DispatchIsAdmitted'
  BY <1>1, <1>2, <1>3 DEF Inv, DispatchIsAdmitted, Entered
<1>8. ContractStep
  <2>1. outcome[c] = "pending" /\ admitted[c] = token[c]
    BY <1>3 DEF outcome, admitted, Entered
  <2>2. admitted' = admitted
    BY <1>1, <1>2, <1>3 DEF admitted, Entered
  <2>3. PICK o \in Contract!Endings :
          /\ outcome'[c] = o
          /\ o = "cancelled" => token[c] \in raised
    <3>1. CASE to = "threw"
      BY <1>2, <3>1 DEF outcome, Contract!Endings
    <3>2. CASE to = "returned" /\ e.failure = "cancelled"
      BY <1>1, <1>2, <3>2 DEF outcome, Contract!Endings
    <3>3. CASE to = "returned" /\ e.failure # "cancelled"
      BY <1>1, <1>2, <3>3 DEF outcome, Contract!Endings
    <3> QED BY <1>1, <3>1, <3>2, <3>3
  <2>4. outcome' = [outcome EXCEPT ![c] = o]
    <3>1. \A d \in Call \ {c} : outcome'[d] = outcome[d]
      BY <1>2 DEF outcome
    <3>2. outcome = [d \in Call |-> outcome[d]]
      BY DEF outcome
    <3>3. outcome' = [d \in Call |-> outcome'[d]]
      BY DEF outcome
    <3> QED BY <2>3, <3>1, <3>2, <3>3
  <2>5. Contract!End(c)
    BY <1>1, <2>1, <2>2, <2>3, <2>4 DEF Contract!End
  <2> QED BY <2>5 DEF ContractStep, Contract!Next
<1> QED BY <1>4, <1>5, <1>6, <1>7, <1>8 DEF Inv

LEMMA NotStartedKeeps ==
  ASSUME Inv, NEW c \in Call, stage[c] = "setup",
         NEW checks, NEW g, NEW failure,
         failure = "cancelled" => token[c] \in raised,
         Report(c, checks, NotStarted(request[c], Profile, g, failure))
  PROVE  Inv' /\ ContractStep
<1> DEFINE e == NotStarted(request[c], Profile, g, failure)
<1>1. e.failure = failure /\ e.start = "not_started" /\ e.status = "failed"
  BY DEF NotStarted
<1> HIDE DEF e
<1>2. Report(c, checks, e)
  BY DEF e
<1> QED BY <1>1, <1>2, ReportKeeps DEF Working

LEMMA SetupReportsKeep ==
  ASSUME Inv, NEW c \in Call,
         RejectUnsupported(c) \/ FailSetup(c) \/ CancelSetup(c)
  PROVE  Inv' /\ ContractStep
<1>1. CASE RejectUnsupported(c)
  BY <1>1, NotStartedKeeps DEF RejectUnsupported
<1>2. CASE FailSetup(c)
  <2>1. PICK failure \in PreStartFailures, g \in SetUpPartly(request[c]) :
          Report(c, FailedBeforeStart(request[c], Profile, g, failure),
                 NotStarted(request[c], Profile, g, failure))
    BY <1>2 DEF FailSetup
  <2>2. failure # "cancelled" /\ stage[c] = "setup"
    BY <1>2 DEF PreStartFailures, FailSetup
  <2> QED BY <2>1, <2>2, NotStartedKeeps
<1>3. CASE CancelSetup(c)
  <2>1. PICK g \in {{"cancellation"}, BeforeStart(request[c])} :
          Report(c,
                 CancelledBeforeStart(request[c], Profile, g, Signal(token[c])),
                 NotStarted(request[c], Profile, g, "cancelled"))
    BY <1>3 DEF CancelSetup
  <2>2. stage[c] = "setup" /\ token[c] \in raised
    BY <1>3 DEF CancelSetup, Signalled, Signal
  <2> QED BY <2>1, <2>2, NotStartedKeeps
<1> QED BY <1>1, <1>2, <1>3

(* Only a program that was stopped by its backend counts as cancelled. *)
LEMMA OnlyCancelledCountsSo ==
  ASSUME NEW t \in Terminations, FailureFor(t) = "cancelled"
  PROVE  t.kind = "cancelled"
<1>1. CASE t = Ended("exited", "zero")
  BY <1>1 DEF FailureFor, Ended
<1>2. CASE t = Ended("exited", "nonzero")
  BY <1>2 DEF FailureFor, Ended
<1>3. CASE t = Ended("signaled", "none")
  BY <1>3 DEF FailureFor, Ended
<1>4. CASE t = Ended("cancelled", "none")
  BY <1>4 DEF Ended
<1>5. ASSUME NEW k \in LimitKinds, t = Ended("resource_limited", k)
      PROVE  FALSE
  BY <1>5 DEF FailureFor, Ended
<1> QED BY <1>1, <1>2, <1>3, <1>4, <1>5 DEF Terminations

LEMMA FinalReportsKeep ==
  ASSUME Inv, NEW c \in Call,
         ReportSuccess(c) \/ ReportCancelled(c) \/ ReportFailure(c)
  PROVE  Inv' /\ ContractStep
<1> DEFINE r == request[c]
           x == truth[c]
           success == Success(r, Profile, Established(c), x.out, x.err)
           failed(kind) == Failure(r, Profile, Established(c), x.termination,
                                   x.out, x.err, x.cleanup, kind)
<1>1. success.failure = "none" /\ success.start = "started"
        /\ success.status = "succeeded"
  BY DEF Success
<1>2. \A kind : /\ failed(kind).failure = kind
                /\ failed(kind).start = "started"
                /\ failed(kind).status = "failed"
  BY DEF Failure
<1>3. stage[c] \in Working
  BY DEF ReportSuccess, ReportCancelled, ReportFailure, Working
<1>4. CASE ReportSuccess(c)
  <2>1. PICK checks : Report(c, checks, success)
    BY <1>4 DEF ReportSuccess
  <2> HIDE DEF success
  <2> QED BY <1>1, <1>3, <2>1, ReportKeeps
<1>5. CASE ReportCancelled(c)
  <2>1. PICK checks : Report(c, checks, failed("cancelled"))
    BY <1>5 DEF ReportCancelled
  <2>2. FailureFor(x.termination) = "cancelled"
    BY <1>5 DEF ReportCancelled, FailureOf
  <2>3. x.termination \in Terminations
    BY <1>5 DEF Inv, ProgramsEnded, Over, ReportCancelled
  <2>4. x.termination.kind = "cancelled"
    BY <2>2, <2>3, OnlyCancelledCountsSo
  <2>5. token[c] \in raised
    BY <2>4 DEF Inv, EndedByOwnSource
  <2> HIDE DEF failed
  <2> QED BY <1>2, <1>3, <2>1, <2>5, ReportKeeps
<1>6. CASE ReportFailure(c)
  <2>1. PICK checks : Report(c, checks, failed(FailureOf(c)))
    BY <1>6 DEF ReportFailure
  <2>2. FailureOf(c) # "cancelled"
    BY <1>6 DEF ReportFailure
  <2> HIDE DEF failed
  <2> QED BY <1>2, <1>3, <2>1, <2>2, ReportKeeps
<1> QED BY <1>4, <1>5, <1>6

----------------------------------------------------------------------------
LEMMA CallKeeps ==
  ASSUME Inv, NEW c \in Call,
         \/ ExecuteOrdinary(c) \/ ExecuteControlled(c)
         \/ Work(c) \/ End(c) \/ CancelProgram(c)
  PROVE  Inv' /\ ContractStep
  BY ExecuteOrdinaryKeeps, ExecuteControlledKeeps, SetupReportsKeep,
    StartKeeps, CaptureKeeps, CleanUpKeeps, FinalReportsKeep, EndKeeps,
    CancelProgramKeeps
  DEF Work

LEMMA StutterKeeps ==
  ASSUME Inv, UNCHANGED vars
  PROVE  Inv' /\ ContractStep
<1>1. UNCHANGED <<bound, raised, stage, request, token, truth, result>>
  BY DEF vars, control
<1>2. Inv'
  BY <1>1 DEF Inv, Shape, Fresh, EndedByOwnSource, ProgramsEnded,
    DispatchIsAdmitted, CancelledByOwnSource, Entered, Returned
<1>3. ContractStep
  BY <1>1, SameCallsSameContract DEF ContractStep, Contract!vars
<1> QED BY <1>2, <1>3

LEMMA NextKeeps == Inv /\ [Next]_vars => Inv' /\ ContractStep
<1> SUFFICES ASSUME Inv, [Next]_vars PROVE Inv' /\ ContractStep
  OBVIOUS
<1>1. CASE \E s \in Source : CreateSource(s) \/ Cancel(s)
  BY <1>1, CreateSourceKeeps, CancelKeeps
<1>2. CASE \E c \in Call : \/ ExecuteOrdinary(c) \/ ExecuteControlled(c)
                          \/ Work(c) \/ End(c) \/ CancelProgram(c)
  BY <1>2, CallKeeps
<1>3. CASE UNCHANGED vars
  BY <1>3, StutterKeeps
<1> QED BY <1>1, <1>2, <1>3 DEF Next

LEMMA InvHolds == Spec => []Inv
<1>1. Init => Inv
  BY InitInv
<1>2. Inv /\ [Next]_vars => Inv'
  BY NextKeeps
<1> QED BY <1>1, <1>2, PTL DEF Spec

(* Every variable has its type, whatever the caller and the backend do:     *)
(* sources are those of requests that can be cancelled (control.cpp), and   *)
(* evidence is there only once a call has returned it.                      *)
THEOREM ExecutionTypes == Spec => []TypeOK
<1>1. Inv => TypeOK
  BY DEF Inv, Shape, TypeOK, Truths
<1> QED BY <1>1, InvHolds, PTL

(* Backend code runs for a request that can be cancelled only under a token *)
(* bound to it, and for one that cannot only without (backend.cpp:110-127). *)
THEOREM DispatchesAreAdmitted == Spec => []DispatchIsAdmitted
<1>1. Inv => DispatchIsAdmitted
  BY DEF Inv
<1> QED BY <1>1, InvHolds, PTL

(* A call ends cancelled only if its own source was signalled, whatever     *)
(* other calls and sources do (control.cpp, result.cpp).                    *)
THEOREM CancellationsAreOwn == Spec => []CancelledByOwnSource
<1>1. Inv => CancelledByOwnSource
  BY DEF Inv
<1> QED BY <1>1, InvHolds, PTL

(* Every call takes only the steps the contract allows: it is refused or    *)
(* admitted with one source, and ends at most once, cancelled only if that  *)
(* source was signalled.                                                    *)
THEOREM ExecutionKeepsContract == Spec => KeepsContractSafely
<1>1. Init => Contract!Init
  BY InitInv
<1>2. Inv /\ [Next]_vars => [Contract!Next]_(Contract!vars)
  BY NextKeeps DEF ContractStep
<1>3. Spec => Contract!Safety
  BY <1>1, <1>2, InvHolds, PTL DEF Spec, Contract!Safety
<1> QED BY <1>3 DEF KeepsContractSafely
----------------------------------------------------------------------------
(* What a call has behind it: its request was supported when its program    *)
(* started, the program ended in one of the ways it can, streams were       *)
(* captured only where they were wanted, and the cleanup has an outcome.    *)
RanWell(c) ==
  /\ stage[c] \in {"running"} \cup Over => Supported(c)
  /\ stage[c] \in Over =>
       /\ truth[c].termination \in Terminations
       /\ truth[c].termination.kind = "resource_limited" =>
            truth[c].termination.detail \in request[c].policy.limits
  /\ stage[c] \in {"cleaning", "reporting"} =>
       CaptureShape(request[c], truth[c].out, truth[c].err, TRUE)
  /\ stage[c] = "reporting" => truth[c].cleanup \in {"verified", "failed"}

Honest ==
  /\ \A c \in Call : RanWell(c)
  /\ EvidenceIsTrue
  /\ OneFaultIsReportable

(* Only what a call itself does decides what its evidence says. *)
LEMMA WorkIsHonest ==
  ASSUME Honest, NEW c \in Call,
         \A d \in Call \ {c} :
           /\ stage'[d] = stage[d] /\ request'[d] = request[d]
           /\ truth'[d] = truth[d] /\ result'[d] = result[d],
         stage'[c] \notin {"returned", "threw"},
         RanWell(c)'
  PROVE  Honest'
<1>1. ASSUME NEW d \in Call PROVE RanWell(d)'
  BY <1>1 DEF Honest, RanWell, Supported
<1>2. EvidenceIsTrue'
  <2>1. ASSUME NEW d \in Call \ {c}
        PROVE  /\ CaptureMissed(d)' = CaptureMissed(d)
               /\ CleanupFailed(d)' = CleanupFailed(d)
               /\ Returned(d)' = Returned(d)
    BY DEF CaptureMissed, CleanupFailed, Returned
  <2>2. ~Returned(c)'
    BY DEF Returned
  <2> QED BY <2>1, <2>2 DEF Honest, EvidenceIsTrue
<1>3. OneFaultIsReportable'
  BY DEF Honest, OneFaultIsReportable, CaptureMissed, CleanupFailed
<1> QED BY <1>1, <1>2, <1>3 DEF Honest

(* A report is honest if only two faults at once leave it without evidence, *)
(* and the evidence of a start says what happened.                          *)
LEMMA ReportIsHonest ==
  ASSUME Inv, Honest, NEW c \in Call, NEW checks, NEW e, Report(c, checks, e),
         ~Passes(checks) => CaptureMissed(c) /\ CleanupFailed(c),
         Passes(checks) /\ e.start = "started" =>
           /\ e.status = "succeeded" <=>
                /\ truth[c].termination = Ended("exited", "zero")
                /\ ~CaptureMissed(c)
                /\ ~CleanupFailed(c)
           /\ e.failure = "cleanup_failed" <=> CleanupFailed(c)
           /\ e.failure = "log_capture_failed" <=> CaptureMissed(c)
           /\ e.termination = truth[c].termination
  PROVE  Honest'
<1>1. /\ Passes(checks) => stage'[c] = "returned" /\ result'[c] = e
      /\ ~Passes(checks) => stage'[c] = "threw" /\ result'[c] = None
      /\ \A d \in Call \ {c} : stage'[d] = stage[d] /\ result'[d] = result[d]
      /\ UNCHANGED <<request, truth>>
  BY DEF Report, Goto, Inv, Shape
<1>2. ASSUME NEW d \in Call PROVE RanWell(d)'
  <2>1. CASE d = c
    BY <1>1, <2>1 DEF RanWell, Over
  <2>2. CASE d # c
    BY <1>1, <2>2 DEF Honest, RanWell, Supported
  <2> QED BY <2>1, <2>2
<1>3. EvidenceIsTrue'
  <2> SUFFICES ASSUME NEW d \in Call, (Returned(d) /\ result[d].start = "started")'
               PROVE  (/\ result[d].status = "succeeded" <=>
                           /\ truth[d].termination = Ended("exited", "zero")
                           /\ ~CaptureMissed(d)
                           /\ ~CleanupFailed(d)
                       /\ result[d].failure = "cleanup_failed" <=> CleanupFailed(d)
                       /\ result[d].failure = "log_capture_failed" <=> CaptureMissed(d)
                       /\ result[d].termination = truth[d].termination)'
    BY DEF EvidenceIsTrue
  <2>0. CaptureMissed(d)' = CaptureMissed(d) /\ CleanupFailed(d)' = CleanupFailed(d)
    BY <1>1 DEF CaptureMissed, CleanupFailed
  <2>1. CASE d = c
    BY <1>1, <2>0, <2>1 DEF Returned
  <2>2. CASE d # c
    BY <1>1, <2>0, <2>2 DEF Honest, EvidenceIsTrue, Returned
  <2> QED BY <2>1, <2>2
<1>4. OneFaultIsReportable'
  BY <1>1 DEF Honest, OneFaultIsReportable, CaptureMissed, CleanupFailed
<1> QED BY <1>2, <1>3, <1>4 DEF Honest

----------------------------------------------------------------------------

(* The requests of the callers are what request.cpp seals. *)
LEMMA RequestsAreGenuine ==
  ASSUME NEW r \in Requests PROVE Genuine(r)
<1>1. r.required = Seal(r.policy, {}).required
  BY ExecutionAssumption
<1> QED BY <1>1, ExecutionAssumption DEF Genuine, Seal

(* A call that was made and not refused executes a genuine request, under a *)
(* token of it whenever it reads a signal.                                  *)
LEMMA EnteredCalls ==
  ASSUME Inv, NEW c \in Call, Entered(c)
  PROVE  /\ Genuine(request[c])
         /\ token[c] \in raised =>
              /\ ~Disabled(request[c])
              /\ AppliesTo(Signal(token[c]), request[c])
              /\ Signal(token[c]).raised
<1>1. Genuine(request[c])
  BY RequestsAreGenuine DEF Inv, Fresh, Entered
<1>2. token[c] \in raised => token[c] # NoSource
  BY ExecutionAssumption DEF Inv, Shape
<1> QED BY <1>1, <1>2 DEF Inv, DispatchIsAdmitted, AppliesTo, Signal

(* A report before the start that its factory seals is honest. *)
LEMMA SetupReportsAreHonest ==
  ASSUME Inv, Honest, NEW c \in Call, stage[c] = "setup",
         NEW checks, NEW g, NEW failure, Passes(checks),
         Report(c, checks, NotStarted(request[c], Profile, g, failure))
  PROVE  Honest'
<1> DEFINE e == NotStarted(request[c], Profile, g, failure)
<1>1. e.start # "started"
  BY DEF NotStarted
<1> HIDE DEF e
<1>2. Report(c, checks, e)
  BY DEF e
<1> QED BY <1>1, <1>2, ReportIsHonest

LEMMA RejectUnsupportedIsHonest ==
  ASSUME Inv, Honest, NEW c \in Call, RejectUnsupported(c)
  PROVE  Honest'
<1>1. Admissible(request[c], Profile, {})
  BY DEF Admissible, WellFormed, LimitShape
<1>2. Passes(FailedBeforeStart(request[c], Profile, {}, "backend_unsupported"))
  BY <1>1, FailedBeforeStartAccepts DEF PreStartFailures
<1> QED BY <1>2, SetupReportsAreHonest DEF RejectUnsupported

LEMMA FailSetupIsHonest ==
  ASSUME Inv, Honest, NEW c \in Call, FailSetup(c)
  PROVE  Honest'
<1>1. PICK failure \in PreStartFailures, g \in SetUpPartly(request[c]) :
        /\ LimitShape(g)
        /\ Report(c, FailedBeforeStart(request[c], Profile, g, failure),
                  NotStarted(request[c], Profile, g, failure))
  BY DEF FailSetup
<1>2. stage[c] = "setup" /\ Supported(c)
  BY DEF FailSetup
<1>3. g \subseteq BeforeStart(request[c])
  BY DEF SetUpPartly
<1>4. request[c].required \subseteq Guarantees
  BY <1>2, EnteredCalls, GenuineRequires DEF Entered
<1>5. Admissible(request[c], Profile, g) /\ g \cap AfterStart = {}
  BY <1>1, <1>2, <1>3, <1>4
  DEF Admissible, WellFormed, BeforeStart, Supported, Supports
<1>6. Passes(FailedBeforeStart(request[c], Profile, g, failure))
  BY <1>2, <1>5, FailedBeforeStartAccepts DEF Supported
<1> QED BY <1>1, <1>2, <1>6, SetupReportsAreHonest

LEMMA CancelSetupIsHonest ==
  ASSUME Inv, Honest, NEW c \in Call, CancelSetup(c)
  PROVE  Honest'
<1> DEFINE r == request[c]
<1>1. PICK g \in {{"cancellation"}, BeforeStart(r)} :
        Report(c, CancelledBeforeStart(r, Profile, g, Signal(token[c])),
               NotStarted(r, Profile, g, "cancelled"))
  BY DEF CancelSetup
<1>2. stage[c] = "setup" /\ Supports(Profile, r) /\ token[c] \in raised
  BY DEF CancelSetup, Signalled, Signal, Supported
<1>3. /\ Genuine(r) /\ ~Disabled(r)
      /\ AppliesTo(Signal(token[c]), r) /\ Signal(token[c]).raised
  BY <1>2, EnteredCalls DEF Entered
<1>4. "cancellation" \in r.required /\ r.required \subseteq Guarantees
  BY <1>3, GenuineRequires
<1>5. /\ "cancellation" \in g /\ g \cap AfterStart = {} /\ g \subseteq r.required
      /\ WellFormed(g)
  <2>1. CASE g = {"cancellation"}
    BY <1>4, <2>1, KindSpecificGuarantees DEF AfterStart, WellFormed, LimitShape
  <2>2. CASE g = BeforeStart(r)
    BY <1>3, <1>4, <2>2, GenuineIsWellFormed DEF AfterStart, BeforeStart
  <2> QED BY <2>1, <2>2
<1>6. Admissible(r, Profile, g)
  BY <1>2, <1>5 DEF Admissible, Supports
<1>7. Passes(CancelledBeforeStart(r, Profile, g, Signal(token[c])))
  BY <1>2, <1>3, <1>5, <1>6, CancelledBeforeStartAccepts
<1> QED BY <1>1, <1>2, <1>7, SetupReportsAreHonest

----------------------------------------------------------------------------

(* A call that has just begun has nothing to be dishonest about. *)
LEMMA DispatchIsHonest ==
  ASSUME Inv, Honest, NEW c \in Call, ExecuteOrdinary(c) \/ ExecuteControlled(c)
  PROVE  Honest'
<1>1. PICK r \in Requests, to \in {"setup", "refused"} :
        /\ request' = [request EXCEPT ![c] = r]
        /\ stage' = [stage EXCEPT ![c] = to]
        /\ UNCHANGED <<truth, result>>
  BY DEF ExecuteOrdinary, ExecuteControlled, Goto
<1>2. /\ stage'[c] = to
      /\ \A d \in Call \ {c} : stage'[d] = stage[d] /\ request'[d] = request[d]
  BY <1>1 DEF Inv, Shape
<1>3. RanWell(c)'
  BY <1>2 DEF RanWell, Over
<1> QED BY <1>1, <1>2, <1>3, WorkIsHonest

LEMMA StartIsHonest ==
  ASSUME Inv, Honest, NEW c \in Call, Start(c)
  PROVE  Honest'
<1>1. /\ Supported(c) /\ UNCHANGED <<request, truth, result>>
      /\ stage'[c] = "running"
      /\ \A d \in Call \ {c} : stage'[d] = stage[d]
  BY DEF Start, Goto, Inv, Shape
<1>2. RanWell(c)'
  BY <1>1 DEF RanWell, Over, Supported
<1> QED BY <1>1, <1>2, WorkIsHonest

LEMMA TerminateIsHonest ==
  ASSUME Inv, Honest, NEW c \in Call, stage[c] = "running",
         NEW t \in Terminations, Terminate(c, t),
         t.kind = "resource_limited" => t.detail \in request[c].policy.limits
  PROVE  Honest'
<1>1. /\ UNCHANGED <<request, result>>
      /\ stage'[c] = "capturing" /\ truth'[c].termination = t
      /\ \A d \in Call \ {c} : stage'[d] = stage[d] /\ truth'[d] = truth[d]
  BY DEF Terminate, Goto, Inv, Shape, Truths
<1>2. Supported(c)
  BY DEF Honest, RanWell
<1>3. RanWell(c)'
  BY <1>1, <1>2 DEF RanWell, Over, Supported
<1> QED BY <1>1, <1>3, WorkIsHonest

LEMMA EndIsHonest ==
  ASSUME Inv, Honest, NEW c \in Call, End(c) \/ CancelProgram(c)
  PROVE  Honest'
<1>1. CASE End(c)
  BY <1>1, TerminateIsHonest DEF End
<1>2. CASE CancelProgram(c)
  <2>1. /\ Ended("cancelled", "none") \in Terminations
        /\ Ended("cancelled", "none").kind # "resource_limited"
    BY DEF Terminations, Ended
  <2> QED BY <1>2, <2>1, TerminateIsHonest DEF CancelProgram
<1> QED BY <1>1, <1>2

LEMMA CaptureIsHonest ==
  ASSUME Inv, Honest, NEW c \in Call, Capture(c)
  PROVE  Honest'
<1>1. PICK out, err \in BOOLEAN :
        /\ CaptureShape(request[c], out, err, TRUE)
        /\ truth' = [truth EXCEPT ![c].out = out, ![c].err = err]
  BY DEF Capture
<1>2. /\ stage[c] = "capturing" /\ UNCHANGED <<request, result>>
      /\ stage'[c] = "cleaning"
      /\ \A d \in Call \ {c} : stage'[d] = stage[d]
  BY DEF Capture, Goto, Inv, Shape
<1>3. /\ truth'[c].termination = truth[c].termination
      /\ truth'[c].out = out /\ truth'[c].err = err
      /\ \A d \in Call \ {c} : truth'[d] = truth[d]
  BY <1>1 DEF Inv, Shape, Truths
<1>4. RanWell(c)
  BY DEF Honest
<1>5. RanWell(c)'
  BY <1>1, <1>2, <1>3, <1>4 DEF RanWell, Over, Supported
<1> QED BY <1>2, <1>3, <1>5, WorkIsHonest

LEMMA CleanUpIsHonest ==
  ASSUME Inv, Honest, NEW c \in Call, CleanUp(c)
  PROVE  Honest'
<1>1. PICK cleanup \in {"verified", "failed"} :
        truth' = [truth EXCEPT ![c].cleanup = cleanup]
  BY DEF CleanUp
<1>2. /\ stage[c] = "cleaning" /\ UNCHANGED <<request, result>>
      /\ stage'[c] = "reporting"
      /\ \A d \in Call \ {c} : stage'[d] = stage[d]
  BY DEF CleanUp, Goto, Inv, Shape
<1>3. /\ truth'[c].termination = truth[c].termination
      /\ truth'[c].out = truth[c].out /\ truth'[c].err = truth[c].err
      /\ truth'[c].cleanup = cleanup
      /\ \A d \in Call \ {c} : truth'[d] = truth[d]
  BY <1>1 DEF Inv, Shape, Truths
<1>4. RanWell(c)
  BY DEF Honest
<1>5. RanWell(c)'
  BY <1>2, <1>3, <1>4 DEF RanWell, Over, Supported
<1> QED BY <1>2, <1>3, <1>5, WorkIsHonest

----------------------------------------------------------------------------
(* What is established of a program that ran is what its request requires,  *)
(* less the streams that were missed and a cleanup that failed.             *)
LEMMA EstablishedFits ==
  ASSUME Inv, Honest, NEW c \in Call, stage[c] = "reporting"
  PROVE  /\ Admissible(request[c], Profile, Established(c))
         /\ Supports(Profile, request[c])
         /\ BeforeStart(request[c]) \subseteq Established(c)
         /\ StreamsAgree(Established(c), truth[c].out, truth[c].err)
         /\ CleanupAgrees(Established(c), truth[c].cleanup)
         /\ ~CaptureMissed(c) /\ ~CleanupFailed(c) =>
              Established(c) = request[c].required
<1> DEFINE r == request[c]
           x == truth[c]
<1>1. /\ Supports(Profile, r)
      /\ CaptureShape(r, x.out, x.err, TRUE)
      /\ x.cleanup \in {"verified", "failed"}
  BY DEF Honest, RanWell, Over, Supported
<1>2. x.out \in BOOLEAN /\ x.err \in BOOLEAN
  BY DEF Inv, Shape, Truths
<1>3. Genuine(r)
  BY EnteredCalls DEF Entered
<1>4. /\ "cleanup_verified" \in r.required
      /\ "complete_stdout_capture" \in r.required <=> Wants(r, "stdout")
      /\ "complete_stderr_capture" \in r.required <=> Wants(r, "stderr")
  BY <1>3, GenuineRequires
<1> DEFINE g == Established(c)
<1>5. \A q : q \in g <=> \/ q \in r.required /\ q \notin AfterStart
                         \/ q = "complete_stdout_capture" /\ x.out
                         \/ q = "complete_stderr_capture" /\ x.err
                         \/ q = "cleanup_verified" /\ x.cleanup = "verified"
  BY DEF Established, BeforeStart, IfSo
<1> HIDE DEF g
<1>6. g \subseteq r.required
  BY <1>1, <1>4, <1>5 DEF CaptureShape
<1>7. BeforeStart(r) \subseteq g
  BY <1>5 DEF BeforeStart
<1>8. Admissible(r, Profile, g)
  BY <1>1, <1>3, <1>6, <1>7, GenuineIsWellFormed
  DEF Admissible, Supports, BeforeStart
<1>9. StreamsAgree(g, x.out, x.err)
  BY <1>2, <1>5 DEF StreamsAgree, AfterStart
<1>10. CleanupAgrees(g, x.cleanup)
  BY <1>5 DEF CleanupAgrees, AfterStart
<1>11. ASSUME ~CaptureMissed(c), ~CleanupFailed(c)
       PROVE  g = r.required
  <2>1. x.out = Wants(r, "stdout") /\ x.err = Wants(r, "stderr")
    BY <1>2, <1>11 DEF CaptureMissed, CaptureShape, Wants
  <2>2. x.cleanup = "verified"
    BY <1>1, <1>11 DEF CleanupFailed
  <2>3. \A q \in r.required : q \in g
    BY <1>4, <1>5, <2>1, <2>2 DEF AfterStart
  <2> QED BY <1>6, <2>3
<1> QED BY <1>1, <1>7, <1>8, <1>9, <1>10, <1>11 DEF g

(* Each way a program can end has its failure. *)
LEMMA FailureForCases ==
  ASSUME NEW t \in Terminations
  PROVE  \/ t = Ended("exited", "zero") /\ FailureFor(t) = "none"
         \/ t = Ended("exited", "nonzero") /\ FailureFor(t) = "program_exited_nonzero"
         \/ /\ t = Ended("signaled", "none")
            /\ FailureFor(t) = "program_terminated_by_signal"
         \/ t = Ended("cancelled", "none") /\ FailureFor(t) = "cancelled"
         \/ \E k \in LimitKinds : /\ t = Ended("resource_limited", k)
                                  /\ FailureFor(t) = "resource_limit_exceeded"
<1>1. CASE t = Ended("exited", "zero")
  BY <1>1 DEF FailureFor, Ended
<1>2. CASE t = Ended("exited", "nonzero")
  BY <1>2 DEF FailureFor, Ended
<1>3. CASE t = Ended("signaled", "none")
  BY <1>3 DEF FailureFor, Ended
<1>4. CASE t = Ended("cancelled", "none")
  BY <1>4 DEF FailureFor, Ended
<1>5. ASSUME NEW k \in LimitKinds, t = Ended("resource_limited", k)
      PROVE  FailureFor(t) = "resource_limit_exceeded"
  BY <1>5 DEF FailureFor, Ended
<1> QED BY <1>1, <1>2, <1>3, <1>4, <1>5 DEF Terminations

LEMMA ReportSuccessIsHonest ==
  ASSUME Inv, Honest, NEW c \in Call, ReportSuccess(c)
  PROVE  Honest'
<1> DEFINE r == request[c]
           x == truth[c]
           g == Established(c)
           e == Success(r, Profile, g, x.out, x.err)
           checks == Succeeded(r, Profile, g, r.policy.interpreter, x.out, x.err)
<1>1. stage[c] = "reporting" /\ FailureOf(c) = "none" /\ Report(c, checks, e)
  BY DEF ReportSuccess
<1>2. ~CaptureMissed(c) /\ ~CleanupFailed(c) /\ FailureFor(x.termination) = "none"
  BY <1>1 DEF FailureOf
<1>3. x.termination = Ended("exited", "zero")
  BY <1>1, <1>2, FailureForCases DEF Honest, RanWell, Over
<1>4. g = r.required /\ Admissible(r, Profile, g) /\ Supports(Profile, r)
  BY <1>1, <1>2, EstablishedFits
<1>5. Passes(checks)
  BY <1>2, <1>4, SucceededAccepts DEF Admissible, CaptureMissed
<1>6. /\ e.status = "succeeded" /\ e.failure = "none"
      /\ e.termination = Ended("exited", "zero")
  BY DEF Success
<1> HIDE DEF e, checks
<1> QED BY <1>1, <1>2, <1>3, <1>5, <1>6, ReportIsHonest

LEMMA ReportCancelledIsHonest ==
  ASSUME Inv, Honest, NEW c \in Call, ReportCancelled(c)
  PROVE  Honest'
<1> DEFINE r == request[c]
           x == truth[c]
           g == Established(c)
           e == Failure(r, Profile, g, x.termination, x.out, x.err, x.cleanup,
                        "cancelled")
           inner == FailedAfterStart(r, Profile, g, r.policy.interpreter,
                      Ended("cancelled", "none"), x.out, x.err, x.cleanup,
                      "cancelled", TRUE)
           checks == CancelledAfterStart(r, Profile, g, Signal(token[c]),
                       r.policy.interpreter, x.out, x.err, x.cleanup)
<1>1. stage[c] = "reporting" /\ FailureOf(c) = "cancelled" /\ Report(c, checks, e)
  BY DEF ReportCancelled
<1>2. /\ ~CaptureMissed(c) /\ ~CleanupFailed(c)
      /\ FailureFor(x.termination) = "cancelled"
  BY <1>1 DEF FailureOf
<1>3. x.termination = Ended("cancelled", "none")
  BY <1>1, <1>2, FailureForCases DEF Honest, RanWell, Over
<1>4. token[c] \in raised
  BY <1>3 DEF Inv, EndedByOwnSource, Ended
<1>5. /\ ~Disabled(r) /\ AppliesTo(Signal(token[c]), r)
      /\ Signal(token[c]).raised
  BY <1>1, <1>4, EnteredCalls DEF Entered
<1>6. Passes(inner)
  <2>1. x.cleanup = "verified"
    BY <1>1, <1>2 DEF Honest, RanWell, CleanupFailed
  <2>2. TerminationFits(r, "cancelled", Ended("cancelled", "none"))
    BY DEF TerminationFits, Ended
  <2>3. "cancelled" \in StartedFailures /\ CaptureShape(r, x.out, x.err, FALSE)
    BY <1>2 DEF StartedFailures, CaptureMissed
  <2> QED BY <1>1, <2>1, <2>2, <2>3, EstablishedFits, FailedAfterStartAccepts
<1>7. Passes(checks)
  BY <1>5, <1>6, CancelledAfterStartAccepts
<1>8. /\ e.status = "failed" /\ e.failure = "cancelled"
      /\ e.termination = x.termination
  BY DEF Failure
<1>9. x.termination # Ended("exited", "zero")
  BY <1>3 DEF Ended
<1> HIDE DEF e, checks
<1> QED BY <1>1, <1>2, <1>7, <1>8, <1>9, ReportIsHonest

(* The claim of an ordinary failure passes unless two things went wrong. *)
LEMMA ReportFailureIsHonest ==
  ASSUME Inv, Honest, NEW c \in Call, ReportFailure(c)
  PROVE  Honest'
<1> DEFINE r == request[c]
           x == truth[c]
           g == Established(c)
           f == FailureOf(c)
           e == Failure(r, Profile, g, x.termination, x.out, x.err, x.cleanup, f)
           checks == FailedAfterStart(r, Profile, g, r.policy.interpreter,
                       x.termination, x.out, x.err, x.cleanup, f, FALSE)
<1>1. /\ stage[c] = "reporting" /\ f \notin {"none", "cancelled"}
      /\ Report(c, checks, e)
  BY DEF ReportFailure
<1>2. /\ x.termination \in Terminations
      /\ x.termination.kind = "resource_limited" =>
           x.termination.detail \in r.policy.limits
      /\ CaptureShape(r, x.out, x.err, TRUE)
      /\ x.cleanup \in {"verified", "failed"}
  BY <1>1 DEF Honest, RanWell, Over
<1>3. /\ f = "cleanup_failed" <=> CleanupFailed(c)
      /\ f = "log_capture_failed" <=> ~CleanupFailed(c) /\ CaptureMissed(c)
      /\ ~CleanupFailed(c) /\ ~CaptureMissed(c) =>
           /\ f = FailureFor(x.termination)
           /\ x.termination # Ended("exited", "zero")
  <2>1. FailureFor(x.termination) \notin {"cleanup_failed", "log_capture_failed"}
    BY <1>2, FailureForCases
  <2>2. x.termination = Ended("exited", "zero") =>
          FailureFor(x.termination) = "none"
    BY <1>2, FailureForCases DEF Ended
  <2> HIDE DEF x
  <2> QED BY <1>1, <2>1, <2>2 DEF FailureOf, x
<1>4. /\ f \in StartedFailures /\ f # "cancelled"
      /\ TerminationFits(r, f, x.termination)
  <2>1. CASE CleanupFailed(c) \/ CaptureMissed(c)
    BY <1>3, <2>1 DEF StartedFailures, TerminationFits
  <2>2. CASE ~CleanupFailed(c) /\ ~CaptureMissed(c)
    BY <1>1, <1>2, <1>3, <2>2, FailureForCases
    DEF StartedFailures, TerminationFits, Ended
  <2> QED BY <2>1, <2>2
<1>5. f = "resource_limit_exceeded" => LimitEstablished(x.termination, g)
  <2> SUFFICES ASSUME f = "resource_limit_exceeded"
               PROVE  LimitEstablished(x.termination, g)
    OBVIOUS
  <2> DEFINE k == x.termination.detail
  <2>1. k \in r.policy.limits
    BY <1>4 DEF TerminationFits
  <2>2. Genuine(r)
    BY <1>1, EnteredCalls DEF Entered
  <2>3. k \in LimitKinds
    BY <2>1, <2>2 DEF Genuine
  <2>4. LimitGuarantee[k] \in KindSpecific
    BY <2>3 DEF KindSpecific
  <2>5. {"resource_limits", LimitGuarantee[k]} \subseteq Derived(r.policy)
    BY <2>1, <2>2, <2>4, DerivedCases DEF Genuine
  <2>6. {"resource_limits", LimitGuarantee[k]} \cap AfterStart = {}
    BY <2>4, KindSpecificGuarantees DEF AfterStart
  <2>7. BeforeStart(r) \subseteq g
    BY <1>1, EstablishedFits
  <2> QED BY <2>2, <2>3, <2>5, <2>6, <2>7
          DEF LimitEstablished, BeforeStart, Genuine
<1>6. f = "cleanup_failed" <=> x.cleanup = "failed"
  BY <1>3 DEF CleanupFailed
<1>7. CASE CaptureMissed(c) /\ CleanupFailed(c)
  <2>1. f # "log_capture_failed" /\ ~CaptureShape(r, x.out, x.err, FALSE)
    BY <1>3, <1>7 DEF CaptureMissed
  <2>2. ~Passes(checks)
    BY <2>1, MissedStreamIsRefused
  <2> HIDE DEF e, checks
  <2> QED BY <1>1, <1>7, <2>2, ReportIsHonest
<1>8. CASE ~(CaptureMissed(c) /\ CleanupFailed(c))
  <2>1. f = "log_capture_failed" =>
          CaptureShape(r, x.out, x.err, TRUE) /\ ~NothingMissing(r, x.out, x.err)
    BY <1>2, <1>3 DEF CaptureMissed, CaptureShape, NothingMissing
  <2>2. f # "log_capture_failed" => CaptureShape(r, x.out, x.err, FALSE)
    BY <1>3, <1>8 DEF CaptureMissed
  <2>3. Passes(checks)
    BY <1>1, <1>2, <1>4, <1>5, <1>6, <2>1, <2>2, EstablishedFits,
       FailedAfterStartAccepts
  <2>4. /\ e.status = "failed" /\ e.failure = f
        /\ e.termination = x.termination
    BY DEF Failure
  <2>5. f = "log_capture_failed" <=> CaptureMissed(c)
    BY <1>3, <1>8
  <2> HIDE DEF e, checks, f
  <2> QED BY <1>1, <1>3, <2>3, <2>4, <2>5, ReportIsHonest
<1> QED BY <1>7, <1>8

----------------------------------------------------------------------------

(* Every action keeps what a backend knows of its call true. *)
LEMMA NextIsHonest == Inv /\ Honest /\ [Next]_vars => Honest'
<1> SUFFICES ASSUME Inv, Honest, [Next]_vars PROVE Honest'
  OBVIOUS
<1>1. CASE \E s \in Source : CreateSource(s) \/ Cancel(s)
  <2>1. UNCHANGED <<stage, request, truth, result>>
    BY <1>1 DEF CreateSource, Cancel
  <2> QED BY <2>1 DEF Honest, RanWell, Supported, EvidenceIsTrue,
          OneFaultIsReportable, Returned, CaptureMissed, CleanupFailed
<1>2. CASE \E c \in Call : \/ ExecuteOrdinary(c) \/ ExecuteControlled(c)
                          \/ Work(c) \/ End(c) \/ CancelProgram(c)
  BY <1>2, DispatchIsHonest, RejectUnsupportedIsHonest, FailSetupIsHonest,
     CancelSetupIsHonest, StartIsHonest, EndIsHonest, CaptureIsHonest,
     CleanUpIsHonest, ReportSuccessIsHonest, ReportCancelledIsHonest,
     ReportFailureIsHonest DEF Work
<1>3. CASE UNCHANGED vars
  <2>1. UNCHANGED <<stage, request, truth, result>>
    BY <1>3 DEF vars
  <2> QED BY <2>1 DEF Honest, RanWell, Supported, EvidenceIsTrue,
          OneFaultIsReportable, Returned, CaptureMissed, CleanupFailed
<1> QED BY <1>1, <1>2, <1>3 DEF Next

(* No call was made at first. *)
LEMMA InitIsHonest == Init => Honest
  BY DEF Init, Honest, RanWell, Over, EvidenceIsTrue, OneFaultIsReportable,
     Returned

(* Both invariants hold in every state. *)
LEMMA HonestHolds == Spec => [](Inv /\ Honest)
<1>1. Init => Inv /\ Honest
  BY InitInv, InitIsHonest
<1>2. Inv /\ Honest /\ [Next]_vars => Inv' /\ Honest'
  BY NextKeeps, NextIsHonest
<1> QED BY <1>1, <1>2, PTL DEF Spec

(* Evidence of a started program is what happened: success exactly when     *)
(* nothing went wrong, and no failure hides another that ranks above it     *)
(* (result.cpp, the factories).                                             *)
THEOREM EvidenceTellsTheTruth == Spec => []EvidenceIsTrue
<1>1. Honest => EvidenceIsTrue
  BY DEF Honest
<1> QED BY <1>1, HonestHolds, PTL

(* The factories leave an honest backend without evidence only when a       *)
(* stream was lost and the cleanup failed as well (result.cpp,              *)
(* failed_after_start).                                                     *)
THEOREM OneFaultLeavesEvidence == Spec => []OneFaultIsReportable
<1>1. Honest => OneFaultIsReportable
  BY DEF Honest
<1> QED BY <1>1, HonestHolds, PTL

----------------------------------------------------------------------------
(* Every set of naturals that is not empty has a least one. *)
LEMMA LeastIndex ==
  ASSUME NEW T \in SUBSET Nat, T # {}
  PROVE  \E n \in T : \A m \in T : n <= m
<1> DEFINE R == OpToRel(<, Nat)
<1>1. IsWellFoundedOn(R, Nat)
  BY NatLessThanWellFounded
<1>2. \A m, k \in Nat : m < k => <<m, k>> \in R
  BY DEF OpToRel
<1> HIDE DEF R
<1>3. PICK n \in T : \A m \in T : <<m, n>> \notin R
  BY <1>1, WFMin
<1>4. \A m \in T : ~(m < n)
  BY <1>2, <1>3
<1>5. \A m \in T : n <= m
  BY <1>4
<1> QED BY <1>5

(* A binary search stops within one step of the keys. *)
LEMMA SearchStops ==
  ASSUME NEW keys, NEW n \in Nat, Len(keys) = n, NEW key
  PROVE  L!LowerBound(keys, key) \in 1..(n + 1)
<1> DEFINE Fits(x) == /\ x <= n => ~L!Less(keys[x], key)
                      /\ \A j \in 1..(x - 1) : L!Less(keys[j], key)
           Stops == {i \in 1..(n + 1) : i <= n => ~L!Less(keys[i], key)}
<1>1. n + 1 \in Stops /\ Stops \in SUBSET Nat
  OBVIOUS
<1>2. PICK i \in Stops : \A j \in Stops : i <= j
  BY <1>1, LeastIndex
<1>3. i \in 1..(n + 1) /\ Fits(i)
  BY <1>2
<1>4. L!LowerBound(keys, key) = CHOOSE x \in 1..(n + 1) : Fits(x)
  BY DEF L!LowerBound
<1> HIDE DEF Fits
<1> QED BY <1>3, <1>4

(* What execution_resources::materialization() finds is one of the          *)
(* materializations, for the identity that was looked up.                   *)
LEMMA FoundIsOffered ==
  ASSUME NEW ms, ms \in Seq(ToSet(ms)), NEW x, L!Materialization(ms, x) # None
  PROVE  /\ L!Materialization(ms, x) \in ToSet(ms)
         /\ L!Materialization(ms, x).resource = x
<1> DEFINE n == Len(ms)
           keys == L!ResourceKeys(ms)
           i == L!LowerBound(keys, <<x>>)
<1>1. n \in Nat /\ DOMAIN ms = 1..n
  OBVIOUS
<1>2. keys = [j \in 1..n |-> <<ms[j].resource>>]
  BY <1>1 DEF L!ResourceKeys, L!ResourceKey
<1>3. i \in 1..(n + 1)
  <2>1. Len(keys) = n
    BY <1>1, <1>2
  <2> HIDE DEF keys, n
  <2> QED BY <1>1, <2>1, SearchStops
<1>4. L!Materialization(ms, x) =
        IF i > n \/ keys[i] # <<x>> THEN None ELSE ms[i]
  BY DEF L!Materialization, L!Find
<1> HIDE DEF i
<1>5. ~(i > n) /\ keys[i] = <<x>> /\ L!Materialization(ms, x) = ms[i]
  BY <1>4
<1>6. i \in 1..n
  BY <1>1, <1>3, <1>5
<1>7. <<ms[i].resource>> = <<x>>
  BY <1>2, <1>5, <1>6
<1> QED BY <1>1, <1>5, <1>6, <1>7 DEF ToSet

----------------------------------------------------------------------------
(* What a call has mounted so far: the first bindings of its request, each  *)
(* at a path that was offered for its identity.                             *)
BoundSlots(c) == {b.slot : b \in ToSet(LayoutFor[request[c]].bindings)}
OfferedPaths(c) == {o.path : o \in ToSet(resources[c].materials)}

MountedSo(c) ==
  LET bindings == LayoutFor[request[c]].bindings
  IN  /\ mounts[c] \in Seq([slot : BoundSlots(c), path : OfferedPaths(c)])
      /\ Len(mounts[c]) <= Len(bindings)
      /\ \A i \in 1..Len(mounts[c]) :
           \E o \in ToSet(resources[c].materials) :
             /\ bindings[i].slot = mounts[c][i].slot
             /\ o.resource = bindings[i].resource
             /\ o.path = mounts[c][i].path

(* Every binding is mounted. *)
Furnished(c) ==
  /\ root[c] # None
  /\ Len(mounts[c]) = Len(LayoutFor[request[c]].bindings)

(* A program that started, or a guarantee beyond the cancellation. *)
Claims(c) ==
  \/ Started(c)
  \/ Returned(c) /\ ~(result[c].established \subseteq {"cancellation"})

Equipped(c) ==
  /\ resources[c] # None =>
       resources[c].materials \in Seq(ToSet(resources[c].materials))
  /\ stage[c] = "idle" => root[c] = None
  /\ stage[c] # "idle" => resources[c] # None
  /\ root[c] = None => mounts[c] = <<>>
  /\ root[c] # None =>
       /\ Supported(c)
       /\ resources[c].view = ViewOf[request[c]]
       /\ MountedSo(c)
  /\ Claims(c) => Furnished(c)

(* Inductive with the invariant of Execution. *)
Equip ==
  /\ resources = [c \in Call |-> resources[c]]
  /\ root = [c \in Call |-> root[c]]
  /\ mounts = [c \in Call |-> mounts[c]]
  /\ \A c \in Call : Equipped(c)

(* A step that leaves resources and mounts alone leaves every call equipped. *)
LEMMA SameEquipped ==
  ASSUME NEW c \in Call, Equipped(c),
         stage'[c] = stage[c], request'[c] = request[c], result'[c] = result[c],
         resources'[c] = resources[c], root'[c] = root[c], mounts'[c] = mounts[c]
  PROVE  Equipped(c)'
  BY DEF Equipped, Claims, Started, Returned, Furnished, MountedSo, BoundSlots,
     OfferedPaths, Supported

(* At first nothing is admitted and nothing mounted. *)
LEMMA InitIsEquipped == ProvisionInit => Init /\ Equip
  BY DEF ProvisionInit, Init, Equip, Equipped, Claims, Started, Returned

(* A call that changes only its stage and its evidence stays equipped.      *)
LEMMA MovesOnEquipped ==
  ASSUME Equip, NEW c \in Call, UNCHANGED provision,
         \A d \in Call \ {c} : /\ stage'[d] = stage[d]
                               /\ request'[d] = request[d]
                               /\ result'[d] = result[d],
         stage[c] # "idle", request'[c] = request[c], stage'[c] # "idle",
         Claims(c)' => Claims(c) \/ Furnished(c)
  PROVE  Equip'
<1>1. UNCHANGED <<resources, root, mounts>>
  BY DEF provision
<1>2. Equipped(c)'
  <2>1. Equipped(c)
    BY DEF Equip
  <2>2. Furnished(c)' = Furnished(c) /\ MountedSo(c)' = MountedSo(c)
    BY <1>1 DEF Furnished, MountedSo, BoundSlots, OfferedPaths
  <2>3. Supported(c)' = Supported(c)
    BY DEF Supported
  <2> QED BY <1>1, <2>1, <2>2, <2>3 DEF Equipped
<1>3. ASSUME NEW d \in Call \ {c} PROVE Equipped(d)'
  BY <1>1, <1>3, SameEquipped DEF Equip
<1> QED BY <1>1, <1>2, <1>3 DEF Equip

(* A report that claims isolation of a furnished call keeps calls equipped. *)
LEMMA ReportMovesOnEquipped ==
  ASSUME Inv, Equip, NEW c \in Call, stage[c] \in Working, NEW checks, NEW e,
         Report(c, checks, e), UNCHANGED provision,
         Claims(c)' => Claims(c) \/ Furnished(c)
  PROVE  Equip'
<1>1. /\ stage'[c] \in {"returned", "threw"}
      /\ \A d \in Call \ {c} : stage'[d] = stage[d] /\ result'[d] = result[d]
      /\ UNCHANGED request
  BY DEF Report, Goto, Inv, Shape
<1> QED BY <1>1, MovesOnEquipped DEF Working

(* A setup that fails over its resources is one of Execution's, and claims  *)
(* nothing.                                                                 *)
LEMMA FailProvisionFails ==
  ASSUME Inv, Equip, NEW c \in Call, stage[c] = "setup", Supported(c),
         FailProvision(c)
  PROVE  FailSetup(c) /\ Equip'
<1> DEFINE failure == "resource_admission_failed"
           checks == FailedBeforeStart(request[c], Profile, {}, failure)
           e == NotStarted(request[c], Profile, {}, failure)
<1>1. Report(c, checks, e) /\ UNCHANGED provision
  BY DEF FailProvision
<1>2. FailSetup(c)
  <2>1. /\ failure \in PreStartFailures \ {"backend_unsupported"}
        /\ {} \in SetUpPartly(request[c]) /\ LimitShape({})
    BY DEF PreStartFailures, SetUpPartly, LimitShape
  <2> QED BY <1>1, <2>1 DEF FailSetup
<1>3. e.established = {}
  BY DEF NotStarted
<1> HIDE DEF checks, e
<1>4. ~Claims(c)'
  BY <1>1, <1>3 DEF Claims, Started, Returned, Report, Goto, Inv, Shape
<1>5. Equip'
  BY <1>1, <1>4, ReportMovesOnEquipped DEF Working
<1> QED BY <1>2, <1>5

(* admit() hands out a sorted sequence, whichever request it was for. *)
LEMMA AdmitResourcesEquips ==
  ASSUME Equip, NEW c \in Call, AdmitResources(c)
  PROVE  Equip' /\ UNCHANGED vars
<1>1. /\ stage[c] = "idle" /\ UNCHANGED <<stage, request, result, root, mounts>>
      /\ UNCHANGED vars
  BY DEF AdmitResources, vars
<1>2. PICK view \in Views, s \in SeqOf(Materials, MaxOffered) :
        resources' = [resources EXCEPT ![c] =
          [view |-> view, materials |-> L!SortedMaterializations(s)]]
  BY DEF AdmitResources
<1> DEFINE ms == L!SortedMaterializations(s)
           n == Len(s)
<1>3. ms \in Seq(ToSet(ms))
  <2>1. n \in Nat /\ DOMAIN s = 1..n
    BY ProvisionAssumption DEF SeqOf
  <2> DEFINE At(i) == s[L!Order(L!KeysLess(L!ResourceKeys(s)), n)[i]]
  <2>2. ms = [i \in 1..n |-> At(i)]
    BY <2>1 DEF L!SortedMaterializations, L!Sorted
  <2> HIDE DEF At, ms
  <2>3. DOMAIN ms = 1..n
    BY <2>2
  <2>4. ms \in [1..n -> ToSet(ms)]
    BY <2>2, <2>3 DEF ToSet
  <2> QED BY <2>1, <2>4
<1> HIDE DEF ms
<1>4. resources'[c].materials = ms
  BY <1>2 DEF Equip, ms
<1>5. Equipped(c)'
  <2>1. root[c] = None /\ mounts[c] = <<>> /\ ~Claims(c)'
    BY <1>1 DEF Equip, Equipped, Claims, Started, Returned
  <2> QED BY <1>1, <1>3, <1>4, <2>1 DEF Equipped
<1>6. ASSUME NEW d \in Call \ {c} PROVE Equipped(d)'
  BY <1>1, <1>2, <1>6, SameEquipped DEF Equip
<1>7. resources' = [d \in Call |-> resources'[d]]
  BY <1>2 DEF Equip
<1> QED BY <1>1, <1>5, <1>6, <1>7 DEF Equip

(* A call takes the admitted resources it is given, and mounts nothing yet. *)
LEMMA DispatchEquips ==
  ASSUME Inv, Equip, NEW c \in Call, Dispatch(c)
  PROVE  Equip' /\ (ExecuteOrdinary(c) \/ ExecuteControlled(c))
<1>1. /\ stage[c] = "idle" /\ resources[c] # None
      /\ stage'[c] \in {"setup", "refused"}
      /\ \A d \in Call \ {c} : stage'[d] = stage[d] /\ request'[d] = request[d]
      /\ UNCHANGED <<result, resources, root, mounts>>
  BY DEF Dispatch, ExecuteOrdinary, ExecuteControlled, Goto, Inv, Shape, provision
<1>2. Equipped(c)'
  <2>1. root[c] = None /\ mounts[c] = <<>> /\ ~Claims(c)'
    BY <1>1 DEF Equip, Equipped, Claims, Started, Returned
  <2>2. resources[c].materials \in Seq(ToSet(resources[c].materials))
    BY <1>1 DEF Equip, Equipped
  <2> QED BY <1>1, <2>1, <2>2 DEF Equipped
<1>3. ASSUME NEW d \in Call \ {c} PROVE Equipped(d)'
  BY <1>1, <1>3, SameEquipped DEF Equip
<1> QED BY <1>1, <1>2, <1>3 DEF Equip, Dispatch

(* The root view is compared before anything is mounted. *)
LEMMA MountRootEquips ==
  ASSUME Inv, Equip, NEW c \in Call, MountRoot(c)
  PROVE  Equip' /\ (FailSetup(c) \/ UNCHANGED vars)
<1>1. /\ stage[c] = "setup" /\ Supported(c) /\ root[c] = None
      /\ mounts[c] = <<>> /\ resources[c] # None
  BY DEF MountRoot, Equip, Equipped
<1>2. CASE FailProvision(c)
  BY <1>1, <1>2, FailProvisionFails
<1>3. CASE ~FailProvision(c)
  <2>1. /\ resources[c].view = ViewOf[request[c]]
        /\ root' = [root EXCEPT ![c] = resources[c].view]
        /\ UNCHANGED <<vars, resources, mounts>>
    BY <1>3 DEF MountRoot
  <2>2. UNCHANGED <<vars, stage, request, result, resources, mounts>>
    BY <2>1 DEF vars
  <2>3. MountedSo(c)'
    <3>1. mounts'[c] = <<>>
      BY <1>1, <2>2
    <3>2. request[c] \in Requests /\ request' = request
      BY <1>1, <2>2 DEF Inv, Fresh
    <3>3. Len(LayoutFor[request[c]].bindings) \in Nat
      <4>1. LayoutFor[request[c]].bindings \in
              Seq([slot : Nat \X Nat, resource : Nat,
                   access : {L!ReadOnly, L!Writable}, mount : Nat])
        BY <3>2, ProvisionAssumption
      <4> QED BY <4>1
    <3> QED BY <3>1, <3>2, <3>3 DEF MountedSo
  <2>4. ~Claims(c)' /\ Supported(c)'
    BY <1>1, <2>2 DEF Claims, Started, Returned, Supported
  <2>5. Equipped(c)'
    BY <1>1, <2>1, <2>2, <2>3, <2>4 DEF Equip, Equipped
  <2>6. ASSUME NEW d \in Call \ {c} PROVE Equipped(d)'
    BY <2>1, <2>2, <2>6, SameEquipped DEF Equip
  <2>7. root' = [d \in Call |-> root'[d]]
    BY <2>1 DEF Equip
  <2> QED BY <2>2, <2>5, <2>6, <2>7 DEF Equip
<1> QED BY <1>2, <1>3

(* A slot mounted shows what the lookup found. *)
LEMMA MountNextEquips ==
  ASSUME Inv, Equip, NEW c \in Call, MountNext(c)
  PROVE  Equip' /\ (FailSetup(c) \/ UNCHANGED vars)
<1> DEFINE bindings == LayoutFor[request[c]].bindings
           k == Len(mounts[c])
           binding == bindings[k + 1]
           ms == resources[c].materials
           found == L!Materialization(ms, binding.resource)
           new == [slot |-> binding.slot, path |-> found.path]
<1>1. /\ stage[c] = "setup" /\ root[c] # None /\ k < Len(bindings)
      /\ IF found = None THEN FailProvision(c)
         ELSE /\ mounts' = [mounts EXCEPT ![c] = Append(@, new)]
              /\ UNCHANGED <<vars, resources, root>>
  BY DEF MountNext
<1>2. Supported(c) /\ MountedSo(c) /\ ms \in Seq(ToSet(ms))
  BY <1>1 DEF Equip, Equipped
<1>3. Len(bindings) \in Nat /\ DOMAIN bindings = 1..Len(bindings)
  <2>1. request[c] \in Requests
    BY <1>1 DEF Inv, Fresh
  <2>2. bindings \in Seq([slot : Nat \X Nat, resource : Nat,
                         access : {L!ReadOnly, L!Writable}, mount : Nat])
    BY <2>1, ProvisionAssumption
  <2> QED BY <2>2
<1>4. CASE found = None
  BY <1>1, <1>2, <1>4, FailProvisionFails
<1>5. CASE found # None
  <2>1. found \in ToSet(ms) /\ found.resource = binding.resource
    BY <1>2, <1>5, FoundIsOffered
  <2>2. /\ mounts' = [mounts EXCEPT ![c] = Append(mounts[c], new)]
        /\ UNCHANGED <<vars, stage, request, result, resources, root>>
    BY <1>1, <1>5 DEF vars
  <2> DEFINE Mounts == [slot : BoundSlots(c), path : OfferedPaths(c)]
  <2>3. mounts[c] \in Seq(Mounts) /\ k \in Nat
    BY <1>2 DEF MountedSo
  <2>4. new \in Mounts
    <3>1. k + 1 \in DOMAIN bindings
      BY <1>1, <1>3, <2>3
    <3>2. binding \in ToSet(bindings)
      BY <3>1 DEF ToSet
    <3> QED BY <2>1, <3>2 DEF BoundSlots, OfferedPaths
  <2>5. mounts'[c] = Append(mounts[c], new)
    BY <2>2 DEF Equip
  <2>6. MountedSo(c)'
    <3> DEFINE after == Append(mounts[c], new)
    <3> HIDE DEF Mounts, new
    <3>1. /\ after \in Seq(Mounts) /\ Len(after) = k + 1
          /\ \A i \in 1..k : after[i] = mounts[c][i]
          /\ after[k + 1] = new
      BY <2>3, <2>4
    <3> HIDE DEF after
    <3>2. ASSUME NEW i \in 1..(k + 1)
          PROVE  \E o \in ToSet(ms) :
                   /\ bindings[i].slot = after[i].slot
                   /\ o.resource = bindings[i].resource
                   /\ o.path = after[i].path
      <4>1. CASE i = k + 1
        <5>1. new.slot = binding.slot /\ new.path = found.path
          BY DEF new
        <5> HIDE DEF found
        <5> QED BY <2>1, <3>1, <4>1, <5>1
      <4>2. CASE i # k + 1
        <5>1. i \in 1..k
          BY <2>3, <4>2
        <5>2. \E o \in ToSet(ms) :
                /\ bindings[i].slot = mounts[c][i].slot
                /\ o.resource = bindings[i].resource
                /\ o.path = mounts[c][i].path
          BY <1>2, <5>1 DEF MountedSo
        <5> QED BY <3>1, <5>1, <5>2
      <4> QED BY <4>1, <4>2
    <3>3. k + 1 <= Len(bindings)
      BY <1>1, <1>3, <2>3
    <3>4. /\ BoundSlots(c)' = BoundSlots(c) /\ OfferedPaths(c)' = OfferedPaths(c)
          /\ resources' = resources /\ request' = request /\ mounts'[c] = after
      BY <2>2, <2>5 DEF BoundSlots, OfferedPaths, after
    <3> QED BY <3>1, <3>2, <3>3, <3>4 DEF MountedSo, Mounts
  <2>7. ~Claims(c)' /\ Supported(c)'
    BY <1>1, <1>2, <2>2 DEF Claims, Started, Returned, Supported
  <2>8. Equipped(c)'
    BY <1>1, <2>2, <2>6, <2>7 DEF Equip, Equipped
  <2>9. ASSUME NEW d \in Call \ {c} PROVE Equipped(d)'
    BY <2>2, <2>9, SameEquipped DEF Equip
  <2>10. mounts' = [d \in Call |-> mounts'[d]]
    BY <2>2 DEF Equip
  <2> QED BY <2>2, <2>8, <2>9, <2>10 DEF Equip
<1> QED BY <1>4, <1>5

(* When every slot is mounted, every identity of the request was found. *)
LEMMA AllMountedFurnishes ==
  ASSUME NEW c \in Call, AllMounted(c) PROVE Furnished(c)
  BY DEF AllMounted, Furnished

(* A set-up that ends without a start claims no isolation it has not mounted. *)
LEMMA EndSetupEquips ==
  ASSUME Inv, Equip, NEW c \in Call, EndSetup(c)
  PROVE  Equip'
<1>1. /\ Returned(c)' =>
           result[c]'.established \subseteq {"cancellation"} \/ AllMounted(c)
      /\ UNCHANGED provision /\ stage[c] = "setup"
  BY DEF EndSetup, RejectUnsupported, FailSetup, CancelSetup
<1>2. \E checks, e : Report(c, checks, e)
  BY DEF EndSetup, RejectUnsupported, FailSetup, CancelSetup
<1>3. PICK checks, e : Report(c, checks, e)
  BY <1>2
<1>4. ~Started(c)'
  BY <1>3 DEF Report, Goto, Started, Inv, Shape
<1>5. Claims(c)' => Furnished(c)
  BY <1>1, <1>4, AllMountedFurnishes DEF Claims
<1> QED BY <1>1, <1>3, <1>5, ReportMovesOnEquipped DEF Working

(* A program starts only when every slot is mounted. *)
LEMMA StartMountedEquips ==
  ASSUME Inv, Equip, NEW c \in Call, StartMounted(c)
  PROVE  Equip'
<1>1. /\ stage[c] = "setup" /\ stage'[c] = "running"
      /\ \A d \in Call \ {c} : stage'[d] = stage[d]
      /\ UNCHANGED <<request, result>> /\ UNCHANGED provision
  BY DEF StartMounted, Start, Goto, Inv, Shape
<1>2. Furnished(c)
  BY AllMountedFurnishes DEF StartMounted
<1> QED BY <1>1, <1>2, MovesOnEquipped

(* What a started call does keeps it started, or ends it with evidence.     *)
LEMMA StartedStaysEquipped ==
  ASSUME Inv, Equip, NEW c \in Call, UNCHANGED provision,
         \/ End(c) \/ CancelProgram(c) \/ Capture(c) \/ CleanUp(c)
         \/ ReportSuccess(c) \/ ReportCancelled(c) \/ ReportFailure(c)
  PROVE  Equip'
<1>1. CASE End(c) \/ CancelProgram(c) \/ Capture(c) \/ CleanUp(c)
  <2>1. /\ stage[c] \in Working \ {"setup"} /\ stage'[c] \in Over
        /\ \A d \in Call \ {c} : stage'[d] = stage[d]
        /\ UNCHANGED <<request, result>>
    BY <1>1 DEF End, CancelProgram, Capture, CleanUp, Terminate, Goto, Inv,
       Shape, Working, Over
  <2>2. Claims(c)
    BY <2>1 DEF Claims, Started, Working
  <2> QED BY <2>1, <2>2, MovesOnEquipped DEF Working, Over
<1>2. CASE ReportSuccess(c) \/ ReportCancelled(c) \/ ReportFailure(c)
  <2>1. stage[c] = "reporting" /\ \E checks, e : Report(c, checks, e)
    BY <1>2 DEF ReportSuccess, ReportCancelled, ReportFailure
  <2>2. PICK checks, e : Report(c, checks, e)
    BY <2>1
  <2>3. Claims(c)
    BY <2>1 DEF Claims, Started
  <2> QED BY <2>1, <2>2, <2>3, ReportMovesOnEquipped DEF Working
<1> QED BY <1>1, <1>2

(* Every step is one of Execution, or changes nothing that Execution sees.  *)
LEMMA ProvisionNextEquips ==
  Inv /\ Equip /\ [ProvisionNext]_<<vars, provision>> => [Next]_vars /\ Equip'
<1> SUFFICES ASSUME Inv, Equip, [ProvisionNext]_<<vars, provision>>
             PROVE  [Next]_vars /\ Equip'
  OBVIOUS
<1>1. CASE \E s \in Source : (CreateSource(s) \/ Cancel(s)) /\ UNCHANGED provision
  <2>1. UNCHANGED <<stage, request, result, resources, root, mounts>>
    BY <1>1 DEF CreateSource, Cancel, provision
  <2>2. Equip'
    BY <2>1, SameEquipped DEF Equip
  <2> QED BY <1>1, <2>2 DEF Next
<1>2. ASSUME NEW c \in Call, AdmitResources(c) PROVE [Next]_vars /\ Equip'
  BY <1>2, AdmitResourcesEquips
<1>3. ASSUME NEW c \in Call, Dispatch(c) PROVE [Next]_vars /\ Equip'
  BY <1>3, DispatchEquips DEF Next
<1>4. ASSUME NEW c \in Call, ProvisionWork(c) PROVE [Next]_vars /\ Equip'
  <2>1. CASE MountRoot(c) \/ MountNext(c)
    BY <2>1, MountRootEquips, MountNextEquips DEF Next, Work
  <2>2. CASE EndSetup(c)
    BY <2>2, EndSetupEquips DEF EndSetup, Next, Work
  <2>3. CASE StartMounted(c)
    BY <2>3, StartMountedEquips DEF StartMounted, Next, Work
  <2>4. CASE Finish(c)
    BY <2>4, StartedStaysEquipped DEF Finish, Next, Work
  <2> QED BY <1>4, <2>1, <2>2, <2>3, <2>4 DEF ProvisionWork
<1>5. ASSUME NEW c \in Call, EndProgram(c) \/ StopProgram(c)
      PROVE  [Next]_vars /\ Equip'
  BY <1>5, StartedStaysEquipped DEF EndProgram, StopProgram, Next
<1>6. CASE UNCHANGED <<vars, provision>>
  <2>1. UNCHANGED <<stage, request, result, resources, root, mounts>>
    BY <1>6 DEF vars, provision
  <2> QED BY <1>6, <2>1, SameEquipped DEF Equip
<1> QED BY <1>1, <1>2, <1>3, <1>4, <1>5, <1>6 DEF ProvisionNext

(* Both invariants hold in every state, and each step is one of Execution. *)
LEMMA EquipHolds == ProvisionSpec => [](Inv /\ Equip) /\ Spec
<1>1. ProvisionInit => Init /\ Inv /\ Equip
  BY InitIsEquipped, InitInv
<1>2. Inv /\ Equip /\ [ProvisionNext]_<<vars, provision>> =>
        [Next]_vars /\ Inv' /\ Equip'
  BY ProvisionNextEquips, NextKeeps
<1> QED BY <1>1, <1>2, PTL DEF ProvisionSpec, Spec

(* Calls with their resources are calls of Execution: mounting changes      *)
(* nothing it sees, and resources that do not fit are one of its setup      *)
(* failures.  So its contract and its theorems are theirs.                  *)
THEOREM ProvisionImplementsExecution ==
  ProvisionSpec => Spec /\ KeepsContractSafely
  BY EquipHolds, ExecutionKeepsContract, PTL

(* Each slot shows the path that was offered for the identity the executed  *)
(* request binds to it, whatever request the resources were admitted for    *)
(* (backend.cpp, admit() and materialization()).                            *)
THEOREM SlotsShowWhatIsBound == ProvisionSpec => []MountsShowWhatIsBound
<1>1. Inv /\ Equip => MountsShowWhatIsBound
  <2> SUFFICES ASSUME Inv, Equip, NEW c \in Call, NEW m \in ToSet(mounts[c])
               PROVE  \E b \in ToSet(LayoutFor[request[c]].bindings),
                         o \in ToSet(resources[c].materials) :
                        b.slot = m.slot /\ o.resource = b.resource /\ o.path = m.path
    BY DEF MountsShowWhatIsBound
  <2>1. mounts[c] # <<>>
    BY DEF ToSet
  <2>2. MountedSo(c) /\ stage[c] # "idle"
    BY <2>1 DEF Equip, Equipped
  <2>3. request[c] \in Requests
    BY <2>2 DEF Inv, Fresh
  <2> DEFINE bindings == LayoutFor[request[c]].bindings
  <2>4. Len(bindings) \in Nat /\ DOMAIN bindings = 1..Len(bindings)
    <3>1. bindings \in Seq([slot : Nat \X Nat, resource : Nat,
                           access : {L!ReadOnly, L!Writable}, mount : Nat])
      BY <2>3, ProvisionAssumption
    <3> QED BY <3>1
  <2>5. PICK i \in 1..Len(mounts[c]) : m = mounts[c][i]
    BY <2>2 DEF MountedSo, ToSet
  <2>6. i \in DOMAIN bindings
    BY <2>2, <2>4 DEF MountedSo
  <2>7. bindings[i] \in ToSet(bindings)
    BY <2>6 DEF ToSet
  <2>8. \E o \in ToSet(resources[c].materials) :
          /\ bindings[i].slot = m.slot
          /\ o.resource = bindings[i].resource
          /\ o.path = m.path
    BY <2>2, <2>5 DEF MountedSo
  <2> QED BY <2>7, <2>8
<1> QED BY <1>1, EquipHolds, PTL

(* Resources of another request go unnoticed only if they have its root     *)
(* view and a path for everything the executed request needs; otherwise no  *)
(* program starts and nothing but the cancellation is claimed.              *)
THEOREM OnlyFittingResourcesPass == ProvisionSpec => []ForeignResourcesAreNoticed
<1>1. Inv /\ Equip => ForeignResourcesAreNoticed
  <2> SUFFICES ASSUME Inv, Equip, NEW c \in Call, Claims(c)
               PROVE  /\ resources[c].view = ViewOf[request[c]]
                      /\ Needed(request[c]) \subseteq
                           {o.resource : o \in ToSet(resources[c].materials)}
    BY DEF ForeignResourcesAreNoticed, Claims
  <2>1. Furnished(c) /\ MountedSo(c) /\ resources[c].view = ViewOf[request[c]]
    BY DEF Equip, Equipped, Furnished
  <2>2. stage[c] # "idle"
    BY DEF Claims, Started, Returned
  <2>3. request[c] \in Requests
    BY <2>2 DEF Inv, Fresh
  <2> DEFINE bindings == LayoutFor[request[c]].bindings
  <2>4. Len(bindings) \in Nat /\ DOMAIN bindings = 1..Len(bindings)
    <3>1. bindings \in Seq([slot : Nat \X Nat, resource : Nat,
                           access : {L!ReadOnly, L!Writable}, mount : Nat])
      BY <2>3, ProvisionAssumption
    <3> QED BY <3>1
  <2>5. ASSUME NEW b \in ToSet(bindings)
        PROVE  \E o \in ToSet(resources[c].materials) : o.resource = b.resource
    <3>1. PICK i \in 1..Len(bindings) : b = bindings[i]
      BY <2>4 DEF ToSet
    <3>2. i \in 1..Len(mounts[c])
      BY <2>1 DEF Furnished
    <3> QED BY <2>1, <3>1, <3>2 DEF MountedSo
  <2> QED BY <2>1, <2>5 DEF Needed
<1> QED BY <1>1, EquipHolds, PTL
=============================================================================

---------------------------- MODULE CancelLatch ----------------------------
(***************************************************************************)
(* What a request-bound cancellation signal promises to the threads that   *)
(* share it, whatever mutex, condition variable and atomic flag implement  *)
(* it: one transition, granted to one caller; observers are told "yes"     *)
(* only after it and never "no" again; a blocked wait ends once the signal *)
(* is raised, and a bounded wait ends in any case.                         *)
(***************************************************************************)
EXTENDS Naturals

CONSTANT Observer       \* threads that hold a copy of the token

VARIABLES
  signalled,            \* has the one-shot transition happened
  granted,              \* calls of request_cancellation() that returned true
  answer,               \* the last answer each observer received
  waiting               \* "out", or the blocking call an observer is in

vars == <<signalled, granted, answer, waiting>>

Answers == {"none", "no", "yes"}
Waits == {"wait", "timed"}

TypeOK ==
  /\ signalled \in BOOLEAN
  /\ granted \in 0..1
  /\ answer \in [Observer -> Answers]
  /\ waiting \in [Observer -> Waits \cup {"out"}]

Init ==
  /\ signalled = FALSE
  /\ granted = 0
  /\ answer = [o \in Observer |-> "none"]
  /\ waiting = [o \in Observer |-> "out"]

----------------------------------------------------------------------------
(* The transition, and the single true it is answered with. *)
Signal ==
  /\ ~signalled
  /\ signalled' = TRUE
  /\ UNCHANGED <<granted, answer, waiting>>

Grant ==
  /\ signalled
  /\ granted = 0
  /\ granted' = 1
  /\ UNCHANGED <<signalled, answer, waiting>>

(* "yes" needs the transition, "no" an observer that was never told "yes". *)
MayAnswer(o, a) ==
  \/ a = "yes" /\ signalled
  \/ a = "no" /\ answer[o] # "yes"

(* A query that does not block. *)
Ask(o) ==
  /\ waiting[o] = "out"
  /\ \E a \in {"yes", "no"} :
       /\ MayAnswer(o, a)
       /\ answer' = [answer EXCEPT ![o] = a]
  /\ UNCHANGED <<signalled, granted, waiting>>

Enter(o, w) ==
  /\ waiting[o] = "out"
  /\ waiting' = [waiting EXCEPT ![o] = w]
  /\ UNCHANGED <<signalled, granted, answer>>

(* A wait ends with "yes"; a bounded wait may also end with "no", but only *)
(* while there is nothing to report.                                       *)
Leave(o) ==
  /\ waiting[o] # "out"
  /\ \E a \in {"yes", "no"} :
       /\ MayAnswer(o, a)
       /\ a = "no" => waiting[o] = "timed" /\ ~signalled
       /\ answer' = [answer EXCEPT ![o] = a]
  /\ waiting' = [waiting EXCEPT ![o] = "out"]
  /\ UNCHANGED <<signalled, granted>>

Next ==
  \/ Signal
  \/ Grant
  \/ \E o \in Observer :
       \/ Ask(o)
       \/ \E w \in Waits : Enter(o, w)
       \/ Leave(o)

(* Nobody has to ask for cancellation; what was asked for is answered. *)
Fairness == WF_vars(Grant) /\ \A o \in Observer : WF_vars(Leave(o))

Safety == Init /\ [][Next]_vars

Spec == Safety /\ Fairness
=============================================================================

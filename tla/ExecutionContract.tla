------------------------- MODULE ExecutionContract -------------------------
(***************************************************************************)
(* What the owner of an execution request is promised of its calls,        *)
(* whatever happens inside a backend: a call takes its cancellation from   *)
(* the one source it was admitted with, ends at most once, ends cancelled  *)
(* only if that source was signalled, and does end once it was.            *)
(***************************************************************************)
CONSTANTS
  Call,             \* executions asked of a backend
  Source,           \* cancellation sources
  NoSource          \* the control of a call whose request has none

VARIABLES
  signalled,        \* sources that were asked to cancel
  control,          \* the source each call was admitted with
  outcome           \* how each call stands

vars == <<signalled, control, outcome>>

Endings == {"not_started", "cancelled", "failed", "succeeded", "unreported"}

Init ==
  /\ signalled = {}
  /\ control = [c \in Call |-> NoSource]
  /\ outcome = [c \in Call |-> "none"]

Signal(s) ==
  /\ signalled' = signalled \cup {s}
  /\ UNCHANGED <<control, outcome>>

(* The dispatcher refuses the call, or admits it with its control. *)
Refuse(c) ==
  /\ outcome[c] = "none"
  /\ outcome' = [outcome EXCEPT ![c] = "refused"]
  /\ UNCHANGED <<signalled, control>>

Admit(c) ==
  /\ outcome[c] = "none"
  /\ outcome' = [outcome EXCEPT ![c] = "pending"]
  /\ \E s \in Source \cup {NoSource} : control' = [control EXCEPT ![c] = s]
  /\ UNCHANGED signalled

End(c) ==
  /\ outcome[c] = "pending"
  /\ \E e \in Endings :
       /\ e = "cancelled" => control[c] \in signalled
       /\ outcome' = [outcome EXCEPT ![c] = e]
  /\ UNCHANGED <<signalled, control>>

Next ==
  \/ \E s \in Source : Signal(s)
  \/ \E c \in Call : Refuse(c) \/ Admit(c) \/ End(c)

(* A program may run for ever, unless it is told to stop. *)
Safety == Init /\ [][Next]_vars

Liveness ==
  \A c \in Call :
    outcome[c] = "pending" /\ control[c] \in signalled ~> outcome[c] # "pending"

Spec == Safety /\ Liveness
=============================================================================

----------------------------- MODULE Provision -----------------------------
(***************************************************************************)
(* Execution composed with the resources its calls are given: a caller has *)
(* host paths admitted for a request, and passes the admitted resources to *)
(* execute() with a request, the same or another, for no check compares    *)
(* the two.  An honest backend mounts the root view and then each binding  *)
(* of the request it executes, by the lookups of the library.              *)
(***************************************************************************)
EXTENDS Execution, SequencesExt

CONSTANTS
  Relative,         \* a host path that is not absolute
  Paths,            \* host paths
  Views,            \* root views
  ViewOf,           \* the root view of each request
  LayoutFor,        \* the sealed layout of each request
  MaxOffered        \* bound: materializations offered at once

L == INSTANCE Layouts

(* The identities a request needs. *)
Needed(r) == {b.resource : b \in ToSet(LayoutFor[r].bindings)}

ASSUME ProvisionAssumption ==
  /\ ViewOf \in [Requests -> Views]
  /\ \A r \in Requests :
       LET l == LayoutFor[r]
       IN  /\ l.bindings \in
                Seq([slot : Nat \X Nat, resource : Nat,
                     access : {L!ReadOnly, L!Writable}, mount : Nat])
           /\ L!LayoutCode(l.bindings, l.working) = "sealed"
           /\ l = L!LayoutOf(l.bindings, l.working)
  /\ Relative \notin Paths /\ None \notin Paths
  /\ MaxOffered \in Nat

VARIABLES
  resources,        \* what each call is given
  root,             \* the root view each call has mounted
  mounts            \* the slots each call has mounted, and their paths

provision == <<resources, root, mounts>>

Materials ==
  [resource : UNION {Needed(r) : r \in Requests}, path : Paths]

(* execution_resources::admit() for a request the caller names, which is    *)
(* not remembered in what it returns.                                       *)
AdmitResources(c) ==
  /\ stage[c] = "idle"
  /\ resources[c] = None
  /\ \E r \in Requests, view \in Views, s \in SeqOf(Materials, MaxOffered) :
       /\ L!AdmissionCode(LayoutFor[r], ViewOf[r], s, view, "/") = "admitted"
       /\ resources' = [resources EXCEPT ![c] =
            [view |-> view, materials |-> L!SortedMaterializations(s)]]
  /\ UNCHANGED <<vars, root, mounts>>

Dispatch(c) ==
  /\ resources[c] # None
  /\ ExecuteOrdinary(c) \/ ExecuteControlled(c)
  /\ UNCHANGED provision

(* The exception of a lookup, or a root view that is not the request's. *)
FailProvision(c) ==
  /\ Report(c,
            FailedBeforeStart(request[c], Profile, {},
                              "resource_admission_failed"),
            NotStarted(request[c], Profile, {}, "resource_admission_failed"))
  /\ UNCHANGED provision

MountRoot(c) ==
  /\ stage[c] = "setup"
  /\ Supported(c)
  /\ root[c] = None
  /\ IF resources[c].view # ViewOf[request[c]] THEN FailProvision(c)
     ELSE /\ root' = [root EXCEPT ![c] = resources[c].view]
          /\ UNCHANGED <<vars, resources, mounts>>

(* The bindings are mounted in the order of the layout. *)
MountNext(c) ==
  LET bindings == LayoutFor[request[c]].bindings
      binding == bindings[Len(mounts[c]) + 1]
      found == L!Materialization(resources[c].materials, binding.resource)
  IN  /\ stage[c] = "setup"
      /\ root[c] # None
      /\ Len(mounts[c]) < Len(bindings)
      /\ IF found = None THEN FailProvision(c)
         ELSE /\ mounts' = [mounts EXCEPT ![c] =
                   Append(@, [slot |-> binding.slot, path |-> found.path])]
              /\ UNCHANGED <<vars, resources, root>>

(* The program starts in the working directory, a slot it has mounted. *)
AllMounted(c) ==
  LET layout == LayoutFor[request[c]]
  IN  /\ root[c] # None
      /\ Len(mounts[c]) = Len(layout.bindings)
      /\ \E m \in ToSet(mounts[c]) : m.slot = layout.working

(* Guarantees beyond cancellation are claimed of a mounted call only. *)
EndSetup(c) ==
  /\ RejectUnsupported(c) \/ FailSetup(c) \/ CancelSetup(c)
  /\ Returned(c)' =>
       result[c]'.established \subseteq {"cancellation"} \/ AllMounted(c)
  /\ UNCHANGED provision

StartMounted(c) ==
  /\ AllMounted(c)
  /\ Start(c)
  /\ UNCHANGED provision

EndProgram(c) == End(c) /\ UNCHANGED provision

StopProgram(c) == CancelProgram(c) /\ UNCHANGED provision

Finish(c) ==
  /\ \/ Capture(c) \/ CleanUp(c)
     \/ ReportSuccess(c) \/ ReportCancelled(c) \/ ReportFailure(c)
  /\ UNCHANGED provision

----------------------------------------------------------------------------
ProvisionInit ==
  /\ Init
  /\ resources = [c \in Call |-> None]
  /\ root = [c \in Call |-> None]
  /\ mounts = [c \in Call |-> <<>>]

(* What the backend does of its own accord. *)
ProvisionWork(c) ==
  MountRoot(c) \/ MountNext(c) \/ EndSetup(c) \/ StartMounted(c) \/ Finish(c)

ProvisionNext ==
  \/ \E s \in Source : (CreateSource(s) \/ Cancel(s)) /\ UNCHANGED provision
  \/ \E c \in Call :
       \/ AdmitResources(c)
       \/ Dispatch(c)
       \/ ProvisionWork(c)
       \/ EndProgram(c)
       \/ StopProgram(c)

(* A backend keeps working on a call and keeps looking at its token while a *)
(* program runs.  Programs need not end, and nobody has to cancel.          *)
ProvisionFairness ==
  \A c \in Call :
    /\ WF_<<vars, provision>>(ProvisionWork(c))
    /\ WF_<<vars, provision>>(StopProgram(c))

ProvisionSpec ==
  /\ ProvisionInit
  /\ [][ProvisionNext]_<<vars, provision>>
  /\ ProvisionFairness

----------------------------------------------------------------------------
Started(c) == stage[c] \in {"running", "capturing", "cleaning", "reporting"}

(* Each slot shows the path that was offered for the identity the executed  *)
(* request binds to it, whatever request the resources were admitted for.   *)
MountsShowWhatIsBound ==
  \A c \in Call : \A m \in ToSet(mounts[c]) :
    \E b \in ToSet(LayoutFor[request[c]].bindings),
       o \in ToSet(resources[c].materials) :
      b.slot = m.slot /\ o.resource = b.resource /\ o.path = m.path

(* Resources of another request go unnoticed only if they have its root     *)
(* view and a path for everything the executed request needs; otherwise no  *)
(* program starts and nothing but the cancellation is claimed.              *)
ForeignResourcesAreNoticed ==
  \A c \in Call :
    \/ Started(c)
    \/ Returned(c) /\ ~(result[c].established \subseteq {"cancellation"})
    => /\ resources[c].view = ViewOf[request[c]]
       /\ Needed(request[c]) \subseteq
            {o.resource : o \in ToSet(resources[c].materials)}
=============================================================================

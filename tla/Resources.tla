----------------------------- MODULE Resources -----------------------------
(***************************************************************************)
(* The resources of an execution: a caller binds resource identities to    *)
(* slots and mount points and seals them as a layout (src/model.cpp), then *)
(* offers a host path for each identity and has them admitted against the  *)
(* request (src/backend.cpp), and a backend looks the paths up to mount    *)
(* them.                                                                   *)
(***************************************************************************)
EXTENDS Layouts

CONSTANTS
  Slots,          \* slots the caller uses
  Identities,     \* resource identities
  Mounts,         \* normalized absolute mount points
  Paths,          \* host paths
  RootViews,      \* root views
  RootView,       \* the one of the request
  MaxOffered      \* bound: bindings declared, and paths offered

ASSUME ResourcesAssumption ==
  /\ Slots \subseteq Nat \X Nat
  /\ \A slot \in Slots : ValidSlot(slot)
  /\ Identities \subseteq Nat /\ Mounts \subseteq Nat
  /\ Relative \notin Paths /\ RootView \in RootViews
  /\ MaxOffered \in Nat

VARIABLES
  declared,       \* the bindings declared so far, in the caller's order
  layout,         \* the sealed layout of the request
  offered,        \* the materializations offered so far
  resources,      \* the admitted ones
  mounted         \* what the backend mounted: slots and the paths found

vars == <<declared, layout, offered, resources, mounted>>

Bindings ==
  {b \in [slot : Slots, resource : Identities, access : {ReadOnly, Writable},
          mount : Mounts] : Bindable(b)}

Materials == [resource : Identities, path : Paths]

(* A lookup that threw is none of what is looked up. *)
ASSUME NoneAssumption ==
  None \notin Bindings /\ None \notin Materials /\ None \notin Paths

----------------------------------------------------------------------------
Init ==
  /\ declared = <<>>
  /\ layout = None
  /\ offered = <<>>
  /\ resources = None
  /\ mounted = {}

Declare ==
  /\ layout = None
  /\ Len(declared) < MaxOffered
  /\ \E b \in Bindings : declared' = Append(declared, b)
  /\ UNCHANGED <<layout, offered, resources, mounted>>

(* The bindings are handed over; after a refusal the caller starts again. *)
SealLayout ==
  /\ layout = None
  /\ \E working \in Slots :
       layout' = IF LayoutCode(declared, working) = "sealed"
                   THEN LayoutOf(declared, working) ELSE None
  /\ declared' = <<>>
  /\ UNCHANGED <<offered, resources, mounted>>

(* resource_materialization, which throws for a path that is not absolute *)
Offer ==
  /\ layout # None
  /\ resources = None
  /\ Len(offered) < MaxOffered
  /\ \E m \in Materials : offered' = Append(offered, m)
  /\ UNCHANGED <<declared, layout, resources, mounted>>

Admit ==
  /\ layout # None
  /\ resources = None
  /\ \E root \in RootViews, path \in Paths \cup {Relative} :
       LET code == AdmissionCode(layout, RootView, offered, root, path)
       IN  resources' = IF code = "admitted"
                          THEN SortedMaterializations(offered) ELSE None
  /\ offered' = <<>>
  /\ UNCHANGED <<declared, layout, mounted>>

(* A backend mounts a slot; the path None is a lookup that threw. *)
Mount ==
  /\ resources # None
  /\ \E slot \in {b.slot : b \in ToSet(layout.bindings)} :
       LET b == BindingAt(layout, slot)
           m == IF b = None THEN None ELSE Materialization(resources, b.resource)
       IN  mounted' = mounted \cup
             {[slot |-> slot, path |-> IF m = None THEN None ELSE m.path]}
  /\ UNCHANGED <<declared, layout, offered, resources>>

Next == Declare \/ SealLayout \/ Offer \/ Admit \/ Mount

Spec == Init /\ [][Next]_vars

----------------------------------------------------------------------------
Distinct(s, Of(_)) ==
  \A i, j \in DOMAIN s : Of(s[i]) = Of(s[j]) => i = j

MountKey(b) == b.mount

(* A layout seals exactly when its slots and mount points are unique and    *)
(* the working directory is one of the slots.                               *)
LayoutsAreUnique ==
  \A working \in Slots :
    LayoutCode(declared, working) = "sealed" <=>
      /\ Distinct(declared, SlotKey)
      /\ Distinct(declared, MountKey)
      /\ \E i \in DOMAIN declared : declared[i].slot = working

(* Resources are admitted exactly when each identity of the request is      *)
(* offered once and nothing else is; a resource bound to two slots counts   *)
(* as one.                                                                  *)
AdmissionIsExact ==
  layout # None =>
    \A path \in Paths :
      AdmissionCode(layout, RootView, offered, RootView, path) = "admitted" <=>
        /\ Distinct(offered, ResourceKey)
        /\ {offered[i].resource : i \in DOMAIN offered} =
             {b.resource : b \in ToSet(layout.bindings)}

(* No lookup of an admitted execution throws, and slots that share a        *)
(* resource share its path.                                                 *)
MountsFindTheirResource ==
  \A m \in mounted :
    /\ m.path # None
    /\ \A n \in mounted :
         BindingAt(layout, m.slot).resource = BindingAt(layout, n.slot).resource
           => m.path = n.path

(* pkgexec_request(3): "Source, checked-package, and package-input resources *)
(* are read-only."                                                          *)
InputsAreReadOnly ==
  layout # None =>
    \A a, b \in ToSet(layout.bindings) :
      a.resource = b.resource /\ Role(a.slot) \in ReadOnlyRoles =>
        b.access = ReadOnly
=============================================================================

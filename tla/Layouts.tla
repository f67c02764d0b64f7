------------------------------ MODULE Layouts ------------------------------
(***************************************************************************)
(* Resource layouts and what is admitted for them, as operators:           *)
(* resource_layout of src/model.cpp and execution_resources of             *)
(* src/backend.cpp.  Sorting stands between the steps: duplicates are      *)
(* found by comparing neighbours, and lookups are binary searches.         *)
(*                                                                         *)
(* What is compared is a tuple of numbers in the order of the C++ values:  *)
(* a slot is its role and its name (0 for none), a resource its identity.  *)
(***************************************************************************)
EXTENDS Naturals, SequencesExt

CONSTANTS
  Relative,       \* a host path that is not absolute
  None            \* a lookup that threw

(* resource_role and resource_access in the order of their enumerators *)
SourceTree == 0
BuildInputTree == 1
CheckInputTree == 2
BuildWorkspace == 3
PackageOutputRoot == 4
ManagedTargetRoot == 5
PrivateTemporaryRoot == 6
PackageTree == 7

ReadOnly == 0
Writable == 1

NamedRoles == {SourceTree, BuildInputTree, CheckInputTree}
ReadOnlyRoles == NamedRoles \cup {PackageTree}
WritableRoles == {BuildWorkspace, PackageOutputRoot, PrivateTemporaryRoot}

Role(slot) == slot[1]
Name(slot) == slot[2]

(* resource_slot::singleton() and resource_slot::named() *)
ValidSlot(slot) ==
  /\ Role(slot) \in SourceTree..PackageTree
  /\ Role(slot) \in NamedRoles <=> Name(slot) # 0

----------------------------------------------------------------------------
(* Lexicographic order of tuples of equal length, as std::tie compares. *)
Less(a, b) ==
  \E i \in DOMAIN a : a[i] < b[i] /\ \A j \in 1..(i - 1) : a[j] = b[j]

SlotKey(b) == b.slot
ResourceKey(m) == <<m.resource>>

(* Mutant of BindingKey: resources are compared before slots. *)
BindingKeyByResource(b) == <<b.resource>> \o b.slot \o <<b.access, b.mount>>

BindingKey(b) ==
  <<Role(b.slot), Name(b.slot), b.resource, b.access, b.mount>>

(* std::sort, which leaves the order of equal elements open: here, as it    *)
(* was.  less has the pairs of places whose elements compare less.          *)
Before(less, i, j) ==
  \/ <<i, j>> \in less
  \/ <<j, i>> \notin less /\ i < j

Order(less, n) ==
  [m \in 1..n |->
     CHOOSE i \in 1..n :
       Cardinality({j \in 1..n : Before(less, j, i)}) = m - 1]

Sorted(s, less) ==
  LET order == Order(less, Len(s)) IN [m \in 1..Len(s) |-> s[order[m]]]

PlacePairs(s) == (1..Len(s)) \X (1..Len(s))

KeysLess(keys) == {p \in PlacePairs(keys) : Less(keys[p[1]], keys[p[2]])}

SlotKeys(s) == [i \in DOMAIN s |-> SlotKey(s[i])]
ResourceKeys(s) == [i \in DOMAIN s |-> ResourceKey(s[i])]
BindingKeys(s) == [i \in DOMAIN s |-> BindingKey(s[i])]

SortedBindings(s) == Sorted(s, KeysLess(BindingKeys(s)))
SortedMaterializations(s) == Sorted(s, KeysLess(ResourceKeys(s)))

(* std::lower_bound: the first key that is not less than this one *)
LowerBound(keys, key) ==
  CHOOSE i \in 1..(Len(keys) + 1) :
    /\ i <= Len(keys) => ~Less(keys[i], key)
    /\ \A j \in 1..(i - 1) : Less(keys[j], key)

Find(s, keys, key) ==
  LET i == LowerBound(keys, key)
  IN  IF i > Len(s) \/ keys[i] # key THEN None ELSE s[i]

----------------------------------------------------------------------------
(* The parameters of resource_binding *)
AnyBinding == [slot : Nat \X Nat, resource : Nat, access : Nat, mount : Nat]

(* Some roles fix the access. *)
Bindable(b) ==
  /\ Role(b.slot) \in ReadOnlyRoles => b.access = ReadOnly
  /\ Role(b.slot) \in WritableRoles => b.access = Writable

(* What resource_layout::seal() answers: the layout, or the code it throws. *)
LayoutCode(s, working) ==
  LET bindings == SortedBindings(s)
      mounts == {bindings[i].mount : i \in DOMAIN bindings}
  IN  IF s = <<>> THEN "missing_working_directory"
      ELSE IF \E i \in 2..Len(s) : bindings[i - 1].slot = bindings[i].slot
        THEN "duplicate_resource"
      ELSE IF Cardinality(mounts) # Len(s) THEN "duplicate_mount_point"
      ELSE IF \A i \in DOMAIN s : bindings[i].slot # working
        THEN "missing_working_directory"
      ELSE "sealed"

LayoutOf(s, working) ==
  [bindings |-> SortedBindings(s), working |-> working]

(* resource_layout::binding() *)
BindingAt(l, slot) == Find(l.bindings, SlotKeys(l.bindings), slot)

(* A finite set of numbers, in order. *)
Ascending(S) ==
  [n \in 1..Cardinality(S) |->
     CHOOSE x \in S : Cardinality({y \in S : y < x}) = n - 1]

(* Mutant of Required: identities bound twice are required twice. *)
RequiredPerBinding(l) ==
  SortSeq([i \in DOMAIN l.bindings |-> l.bindings[i].resource], <)

(* The identities a layout needs, each once and sorted. *)
Needed(l) == {b.resource : b \in ToSet(l.bindings)}

Required(l) == Ascending(Needed(l))

(* What execution_resources::admit() answers for a request of layout l and   *)
(* root view view.                                                          *)
AdmissionCode(l, view, s, root, path) ==
  LET sorted == SortedMaterializations(s)
      required == Required(l)
  IN  IF root # view THEN "resource_mismatch"
      ELSE IF path = Relative THEN "invalid_path"
      ELSE IF \E i \in 2..Len(s) : sorted[i - 1].resource = sorted[i].resource
        THEN "duplicate_resource"
      ELSE IF Len(required) # Len(s) THEN "resource_mismatch"
      ELSE IF \E i \in DOMAIN s : required[i] # sorted[i].resource
        THEN "resource_mismatch"
      ELSE "admitted"

(* Mutant of Materialization: std::upper_bound in place of lower_bound. *)
MaterializationBehind(admitted, resource) ==
  LET i == LowerBound(ResourceKeys(admitted), <<resource + 1>>)
  IN  IF i > Len(admitted) \/ admitted[i].resource # resource
        THEN None ELSE admitted[i]

(* Mutant of Materialization: the element found is not compared. *)
MaterializationUnchecked(admitted, resource) ==
  LET i == LowerBound(ResourceKeys(admitted), <<resource>>)
  IN  IF i > Len(admitted) THEN None ELSE admitted[i]

(* execution_resources::materialization() *)
Materialization(admitted, resource) ==
  Find(admitted, ResourceKeys(admitted), <<resource>>)
=============================================================================

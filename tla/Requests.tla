------------------------------ MODULE Requests ------------------------------
(***************************************************************************)
(* Sealing an execution request (src/request.cpp): the policies a caller   *)
(* declares determine the guarantees the execution must establish.  Two    *)
(* tables of the code say so independently: one derives the guarantees of  *)
(* a policy, the other refuses a guarantee the policy contradicts.         *)
(*                                                                         *)
(* A request identity is a SHA-256 over every field of the request, so     *)
(* equality of request records stands for equality of identities.          *)
(***************************************************************************)

LimitKinds ==
  {"cpu_time", "address_space", "file_size", "open_files", "process_count"}

(* The exact guarantee of each limit kind. *)
LimitGuarantee ==
  [k \in LimitKinds |->
     CASE k = "cpu_time"      -> "cpu_time_limit"
       [] k = "address_space" -> "address_space_limit"
       [] k = "file_size"     -> "file_size_limit"
       [] k = "open_files"    -> "open_files_limit"
       [] k = "process_count" -> "process_count_limit"]

KindSpecific == {LimitGuarantee[k] : k \in LimitKinds}

(* Every request needs these, whatever its policy. *)
Unconditional ==
  {"exact_interpreter", "closed_environment", "root_view",
   "fixed_credentials", "cleanup_verified"}

(* Guarantees only a process that ran can establish. *)
AfterStart ==
  {"complete_stdout_capture", "complete_stderr_capture", "cleanup_verified"}

Guarantees ==
  Unconditional \cup KindSpecific \cup AfterStart \cup
  {"read_only_resources", "writable_resources", "network_denied",
   "loopback_isolated", "resource_limits", "cancellation"}

(* What of the policies decides guarantees, and the program and interpreter *)
(* that make two requests with the same policies different.                 *)
PolicyOver(Programs, Interpreters) ==
  [program      : Programs,
   interpreter  : Interpreters,
   access       : (SUBSET {"read_only", "writable"}) \ {{}},
   network      : {"denied", "loopback_only", "allowed"},
   limits       : SUBSET LimitKinds,
   cancellation : {"disabled", "graceful_then_forced"},
   stdout       : {"capture_complete", "discard"},
   stderr       : {"capture_complete", "discard"}]

IfSo(condition, guarantee) == IF condition THEN {guarantee} ELSE {}

(* The guarantees a policy derives. *)
Derived(p) ==
  Unconditional
  \cup IfSo("read_only" \in p.access, "read_only_resources")
  \cup IfSo("writable" \in p.access, "writable_resources")
  \cup IfSo(p.network = "denied", "network_denied")
  \cup IfSo(p.network = "loopback_only", "loopback_isolated")
  \cup IfSo(p.limits # {}, "resource_limits")
  \cup {LimitGuarantee[k] : k \in p.limits}
  \cup IfSo(p.cancellation # "disabled", "cancellation")
  \cup IfSo(p.stdout = "capture_complete", "complete_stdout_capture")
  \cup IfSo(p.stderr = "capture_complete", "complete_stderr_capture")

(* The policy does not contradict the guarantee. *)
Consistent(g, p) ==
  CASE g = "read_only_resources"     -> "read_only" \in p.access
    [] g = "writable_resources"      -> "writable" \in p.access
    [] g = "network_denied"          -> p.network = "denied"
    [] g = "loopback_isolated"       -> p.network = "loopback_only"
    [] g = "resource_limits"         -> p.limits # {}
    [] g \in KindSpecific            -> \E k \in p.limits : LimitGuarantee[k] = g
    [] g = "cancellation"            -> p.cancellation # "disabled"
    [] g = "complete_stdout_capture" -> p.stdout = "capture_complete"
    [] g = "complete_stderr_capture" -> p.stderr = "capture_complete"
    [] OTHER                         -> TRUE

(* Mutant of Sealable: only derived guarantees are held against the policy. *)
SealableEarly(p, additional) ==
  /\ additional \subseteq Guarantees
  /\ \A g \in Derived(p) : Consistent(g, p)

(* Can p be sealed when the caller asks for these guarantees as well? *)
Sealable(p, additional) ==
  /\ additional \subseteq Guarantees
  /\ \A g \in Derived(p) \cup additional : Consistent(g, p)

Seal(p, additional) ==
  [policy |-> p, required |-> Derived(p) \cup additional]
=============================================================================

----------------------------- MODULE MCSealing -----------------------------
(* Sealing over three policies that between them want every guarantee and   *)
(* want none of the optional ones, and over claims at the edge of each.    *)
EXTENDS Sealing

CONSTANTS bash, dash, hello

Policy(access, network, limits, cancellation, stdout, stderr) ==
  [program |-> hello, interpreter |-> bash, access |-> access,
   network |-> network, limits |-> limits, cancellation |-> cancellation,
   stdout |-> stdout, stderr |-> stderr]

Strict ==
  Policy({"read_only", "writable"}, "denied", {"cpu_time", "file_size"},
         "graceful_then_forced", "capture_complete", "capture_complete")
Quiet ==
  Policy({"writable"}, "loopback_only", {"open_files"},
         "graceful_then_forced", "capture_complete", "discard")
Lax ==
  Policy({"read_only"}, "allowed", {}, "disabled", "discard", "discard")

MCPolicies == {Strict, Quiet, Lax}
MCInterpreters == {bash, dash}

Full == UNION {Derived(p) : p \in MCPolicies}

MCAdditional == {{}} \cup {{g} : g \in Guarantees \cup {"unknown"}}

(* Everything, each policy alone, and each way to fall short of the shape. *)
MCProfiles ==
  {Full, Derived(Lax), Full \ {"cleanup_verified"},
   Full \ {"resource_limits"}, Full \cup {"unknown"}}

(* What a policy requires, one guarantee short or over, or as much of it as *)
(* an execution that failed could have established.                         *)
MCClaims ==
  UNION {LET g == Derived(p)
         IN  {g \ a : a \in SUBSET AfterStart}
             \cup {g \ {a} : a \in {"cancellation", "root_view"}}
             \cup {g \ (AfterStart \cup {"cancellation"}),
                   g \ (KindSpecific \cup {"resource_limits"}),
                   g \ KindSpecific,
                   g \cup {"process_count_limit", "resource_limits"},
                   g \cup {"loopback_isolated"}, g \cup {"unknown"}} :
         p \in MCPolicies}
=============================================================================

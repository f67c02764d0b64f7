---------------------------- MODULE MCExecution ----------------------------
(* Two calls over four requests: two that can be cancelled and differ only  *)
(* in their program, so that a token of one is foreign to the other, and    *)
(* two that cannot, one of which needs a guarantee the backend lacks.       *)
EXTENDS Execution, TLC

CONSTANTS bash, build, check, lifecycle

Cancellable(program) ==
  Seal([program |-> program, interpreter |-> bash, access |-> {"writable"},
        network |-> "denied", limits |-> {"cpu_time", "open_files"},
        cancellation |-> "graceful_then_forced",
        stdout |-> "capture_complete", stderr |-> "capture_complete"], {})

Plain(network) ==
  Seal([program |-> lifecycle, interpreter |-> bash, access |-> {"read_only"},
        network |-> network, limits |-> {}, cancellation |-> "disabled",
        stdout |-> "capture_complete", stderr |-> "discard"], {})

MCRequests ==
  {Cancellable(build), Cancellable(check), Plain("allowed"),
   Plain("loopback_only")}

MCProfile == Guarantees \ {"loopback_isolated"}

Symmetry == Permutations(Call) \cup Permutations(Source)
=============================================================================

-------------------------- MODULE MCEvidenceStore --------------------------
(* A store over a request that wants everything and one that wants nothing, *)
(* with evidence of every kind and at the limits of the encoding.           *)
EXTENDS EvidenceStore

CONSTANTS bash, build, lint, engine, other

Strict ==
  Seal([program |-> build, interpreter |-> bash, access |-> {"writable"},
        network |-> "denied", limits |-> {"cpu_time"},
        cancellation |-> "graceful_then_forced",
        stdout |-> "capture_complete", stderr |-> "capture_complete"], {})
Lax ==
  Seal([program |-> lint, interpreter |-> bash, access |-> {"read_only"},
        network |-> "allowed", limits |-> {}, cancellation |-> "disabled",
        stdout |-> "discard", stderr |-> "discard"], {})
MCRequests == {Strict, Lax}

Full == Strict.required \cup Lax.required

Bytes(n) == [count |-> n, digest |-> n, material |-> n]
Observed(n) == [count |-> n, digest |-> 0, material |-> Absent]

Result(e, backend, out, err, n) ==
  [evidence |-> e, backend |-> backend,
   out |-> IF e.out THEN out ELSE Absent, err |-> IF e.err THEN err ELSE Absent,
   diagnostic |-> n]

Passed(r) == Success(r, Full, r.required, Wants(r, "stdout"), Wants(r, "stderr"))

Failed(r, failure, t, g, cleanup) ==
  Failure(r, Full, r.required \ g, t, Wants(r, "stdout"), Wants(r, "stderr"),
          cleanup, failure)

Early(r, g, failure) == NotStarted(r, Full, g, failure)

Room == MaxEncoding - Fixed

MCValues ==
  {Result(Passed(Lax), engine, Absent, Absent, 1),
   Result(Passed(Lax), other, Absent, Absent, MaxDiagnostic),
   Result(Passed(Strict), engine, Bytes(1), Observed(1), 0),
   Result(Passed(Strict), engine, Bytes(Room), Observed(1), 0),
   Result(Passed(Strict), engine, Bytes(Room), Observed(1), 1),
   Result(Passed(Strict), engine, Observed(0), Observed(0), MaxDiagnostic + 1),
   Result(Early(Strict, {"cancellation"}, "cancelled"), engine, Absent, Absent, 0),
   Result(Early(Strict, {}, "process_start_failed"), engine, Absent, Absent, 1)}
  \cup
  {Result(e, engine, Observed(1), Bytes(0), 1) :
     e \in {Failed(Strict, "cancelled", Ended("cancelled", "none"), {}, "verified"),
            Failed(Strict, "resource_limit_exceeded",
                   Ended("resource_limited", "cpu_time"), {}, "verified"),
            Failed(Strict, "program_terminated_by_signal",
                   Ended("signaled", "none"), {}, "verified"),
            Failed(Lax, "cleanup_failed", Ended("exited", "zero"),
                   {"cleanup_verified"}, "failed")}}

(* What no factory seals: guarantees missing, or of no request, and a       *)
(* cancellation nobody can ask for.                                         *)
MCClaims ==
  {Result(e, engine, Bytes(1), Bytes(1), 0) :
     e \in {Success(Strict, Full, Strict.required \ {"root_view"}, TRUE, TRUE),
            Success(Strict, Full, Strict.required, TRUE, FALSE),
            Failed(Lax, "cancelled", Ended("cancelled", "none"), {}, "verified"),
            Failed(Strict, "program_exited_nonzero", Ended("exited", "nonzero"),
                   {"network_denied"}, "verified"),
            Failed(Strict, "program_exited_nonzero", Ended("exited", "nonzero"),
                   {}, "failed"),
            Early(Lax, {"cancellation"}, "cancelled"),
            Early(Strict, {}, "cancelled"),
            Early(Lax, {"network_denied"}, "request_rejected")}}
=============================================================================

---------------------------- MODULE MCProvision ----------------------------
(* One call over four requests.  Two need the same two identities, at other *)
(* slots and under another root view; the others need one more, and one of  *)
(* them a guarantee the backend lacks.                                      *)
EXTENDS Provision

CONSTANTS bash, build, check, lifecycle, host, target

Cancellable(program) ==
  Seal([program |-> program, interpreter |-> bash,
        access |-> {"read_only", "writable"}, network |-> "denied",
        limits |-> {}, cancellation |-> "graceful_then_forced",
        stdout |-> "capture_complete", stderr |-> "discard"], {})

Plain(network) ==
  Seal([program |-> lifecycle, interpreter |-> bash,
        access |-> {"read_only", "writable"}, network |-> network,
        limits |-> {}, cancellation |-> "disabled",
        stdout |-> "discard", stderr |-> "discard"], {})

MCRequests ==
  {Cancellable(build), Cancellable(check), Plain("allowed"),
   Plain("loopback_only")}

MCProfile == Guarantees \ {"loopback_isolated"}

MCViewOf ==
  [r \in MCRequests |-> IF r = Cancellable(check) THEN target ELSE host]

MCSource == <<L!SourceTree, 1>>
MCInput == <<L!BuildInputTree, 1>>
MCWorkspace == <<L!BuildWorkspace, 0>>
MCTarget == <<L!ManagedTargetRoot, 0>>

Bind(slot, resource, access, mount) ==
  [slot |-> slot, resource |-> resource, access |-> access, mount |-> mount]

(* Sealed, so in the order of their slots. *)
MCLayoutFor ==
  [r \in MCRequests |->
     CASE r = Cancellable(build) ->
            [bindings |-> <<Bind(MCSource, 1, L!ReadOnly, 2),
                            Bind(MCWorkspace, 3, L!Writable, 1)>>,
             working |-> MCWorkspace]
       [] r = Cancellable(check) ->
            [bindings |-> <<Bind(MCSource, 3, L!ReadOnly, 1),
                            Bind(MCInput, 3, L!ReadOnly, 3),
                            Bind(MCWorkspace, 1, L!Writable, 2)>>,
             working |-> MCWorkspace]
       [] OTHER ->
            [bindings |-> <<Bind(MCSource, 1, L!ReadOnly, 2),
                            Bind(MCInput, 3, L!ReadOnly, 3),
                            Bind(MCTarget, 2, L!Writable, 1)>>,
             working |-> MCTarget]]
=============================================================================

-------------------------- MODULE IdentityBuilder --------------------------
(***************************************************************************)
(* The life of an identity_builder (src/identity_support.cpp): one digest  *)
(* context of OpenSSL, owned through a raw pointer, fed piece by piece and *)
(* finished once.  Every call of OpenSSL may fail, and every failure is an *)
(* exception; when one leaves the constructor, no destructor runs.         *)
(***************************************************************************)
EXTENDS Naturals, Sequences

CONSTANTS
  Pieces,           \* what is added
  DomainText,       \* what the constructor adds
  MaxPieces         \* bound: pieces added

ASSUME IdentityBuilderAssumption ==
  DomainText \notin Pieces /\ MaxPieces \in Nat

VARIABLES
  stage,            \* where the constructor or the caller is
  held,             \* what the builder has acquired and not released
  given,            \* the pieces that were to be added, the domain first
  digested,         \* the pieces OpenSSL took
  finished,         \* finished_
  digest            \* the pieces the returned identity is a digest of

builder == <<stage, held, given, digested, finished, digest>>

BuilderInit ==
  /\ stage = "allocate"
  /\ held = {}
  /\ given = <<>> /\ digested = <<>> /\ digest = <<>>
  /\ finished = FALSE

----------------------------------------------------------------------------
(* The constructor: each step may fail and then releases what it must. *)
Allocate ==
  /\ stage = "allocate"
  /\ \/ stage' = "create" /\ held' = {"implementation"}
     \/ stage' = "threw" /\ UNCHANGED held
  /\ UNCHANGED <<given, digested, finished, digest>>

CreateContext ==
  /\ stage = "create"
  /\ \/ stage' = "initialise" /\ held' = held \cup {"context"}
     \/ stage' = "threw" /\ held' = held \ {"implementation"}
  /\ UNCHANGED <<given, digested, finished, digest>>

(* Mutant of Initialise: the context is not freed. *)
InitialiseHolding ==
  /\ stage = "initialise"
  /\ \/ stage' = "domain" /\ UNCHANGED held
     \/ stage' = "threw" /\ held' = held \ {"implementation"}
  /\ UNCHANGED <<given, digested, finished, digest>>

Initialise ==
  /\ stage = "initialise"
  /\ \/ stage' = "domain" /\ UNCHANGED held
     \/ stage' = "threw" /\ held' = held \ {"context", "implementation"}
  /\ UNCHANGED <<given, digested, finished, digest>>

(* Nothing is released if the domain cannot be added: the members are raw   *)
(* pointers, and the destructor of an object under construction never runs. *)
AddDomain ==
  /\ stage = "domain"
  /\ given' = <<DomainText>>
  /\ \/ stage' = "ready" /\ digested' = given'
     \/ stage' = "lost" /\ UNCHANGED digested
  /\ UNCHANGED <<held, finished, digest>>

----------------------------------------------------------------------------
(* Mutant of AddBytes: the failure of an update is overlooked. *)
AddBytesRegardless ==
  /\ stage = "ready"
  /\ Len(given) <= MaxPieces
  /\ \E p \in Pieces :
       /\ given' = Append(given, p)
       /\ \/ ~finished /\ digested' = Append(digested, p) /\ UNCHANGED stage
          \/ ~finished /\ UNCHANGED <<digested, stage>>
          \/ finished /\ stage' = "unwind" /\ UNCHANGED digested
  /\ UNCHANGED <<held, finished, digest>>

(* add_bytes(), behind every other add: refused once finished *)
AddBytes ==
  /\ stage = "ready"
  /\ Len(given) <= MaxPieces
  /\ \E p \in Pieces :
       /\ given' = Append(given, p)
       /\ \/ ~finished /\ digested' = Append(digested, p) /\ UNCHANGED stage
          \/ stage' = "unwind" /\ UNCHANGED digested
  /\ UNCHANGED <<held, finished, digest>>

(* finish(): the context is used up; the call fails before or after that. *)
Finish ==
  /\ stage = "ready"
  /\ \/ /\ ~finished
        /\ finished' = TRUE /\ digest' = digested /\ digested' = <<>>
        /\ UNCHANGED stage
     \/ /\ stage' = "unwind" /\ finished' \in {finished, TRUE}
        /\ UNCHANGED <<digest, digested>>
  /\ UNCHANGED <<held, given>>

(* The destructor, at the end of the scope or while an exception passes it; *)
(* only the former leaves the caller with the identity.                     *)
Destroy ==
  /\ stage \in {"ready", "unwind"}
  /\ stage' = IF stage = "ready" THEN "returned" ELSE "threw"
  /\ held' = {}
  /\ UNCHANGED <<given, digested, finished, digest>>

BuilderNext ==
  \/ Allocate \/ CreateContext \/ Initialise \/ AddDomain
  \/ AddBytes \/ Finish \/ Destroy

BuilderSpec == BuilderInit /\ [][BuilderNext]_builder

----------------------------------------------------------------------------
Stages ==
  {"allocate", "create", "initialise", "domain", "lost", "ready", "unwind",
   "returned", "threw"}

(* Type invariant; OpenSSL is called only with a context. *)
BuilderTypeOK ==
  /\ stage \in Stages
  /\ held \subseteq {"implementation", "context"}
  /\ given \in Seq(Pieces \cup {DomainText})
  /\ digested \in Seq(Pieces \cup {DomainText})
  /\ finished \in BOOLEAN
  /\ stage \in {"initialise", "domain", "ready", "unwind"} =>
       held = {"implementation", "context"}

(* An identity is the digest of everything it was given, whatever failed on *)
(* the way, and it is never one of nothing.                                 *)
IdentityIsOfEverything ==
  stage = "returned" /\ finished => digest = given

(* A context outlives its builder in one case only: adding the domain fails *)
(* and the exception leaves the constructor.                                *)
OnlyLostDomainLeaks ==
  stage \in {"threw", "returned", "lost"} => (held # {} <=> stage = "lost")
=============================================================================

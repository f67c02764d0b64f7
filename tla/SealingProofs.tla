--------------------------- MODULE SealingProofs ---------------------------
(***************************************************************************)
(* What sealed evidence says, for all policies, profiles and claims.       *)
(***************************************************************************)
EXTENDS Sealing, EvidenceProofs

(* The inductive invariant: requests, profiles and signals are what their   *)
(* factories make them, and evidence keeps to those it was sealed with.     *)
Inv ==
  /\ request # None => request.policy \in Policies /\ Genuine(request)
  /\ profile # None => profile \subseteq Guarantees
  /\ raised \subseteq Controllable
  /\ Sealed =>
       request # None /\ profile # None /\ Sound(request, profile, raised, result)

(* Policies limit only what has a guarantee of its own. *)
LEMMA PoliciesHaveLimits ==
  \A p \in Policies : p.limits \subseteq LimitKinds
  BY PoliciesAssumption DEF PolicyOver

----------------------------------------------------------------------------
(* Nothing is sealed at first. *)
LEMMA InvInit == Init => Inv
  BY DEF Init, Inv, Sealed

(* A factory that is asked for sound evidence keeps the invariant. *)
LEMMA OutcomeStep ==
  ASSUME Inv, Asking, UNCHANGED <<request, profile, raised>>,
         NEW checks, NEW evidence, Outcome(checks, evidence),
         Passes(checks) => Sound(request, profile, raised, evidence)
  PROVE  Inv'
<1>1. CASE Passes(checks)
  BY <1>1 DEF Inv, Sealed, Asking, Outcome, Genuine
<1>2. CASE ~Passes(checks)
  BY <1>2 DEF Inv, Sealed, Asking, Outcome, Genuine
<1> QED
  BY <1>1, <1>2

(* Every factory call keeps the invariant, sealed or refused. *)
LEMMA InvStep == Inv /\ [Next]_vars => Inv'
<1> SUFFICES ASSUME Inv, [Next]_vars PROVE Inv'
  OBVIOUS
<1>1. CASE SealRequest
  <2>1. PICK p \in Policies, additional \in Additional :
          IF Sealable(p, additional)
            THEN request' = Seal(p, additional) /\ verdict' = "sealed"
            ELSE request' = None /\ verdict' = "invalid_policy"
    BY <1>1 DEF SealRequest
  <2>2. request = None /\ UNCHANGED <<profile, raised, result>>
    BY <1>1 DEF SealRequest
  <2>3. result = None
    BY <2>2 DEF Inv, Sealed
  <2>4. Sealable(p, additional) =>
          Seal(p, additional).policy \in Policies /\ Genuine(Seal(p, additional))
    <3>1. p.limits \subseteq LimitKinds
      BY PoliciesHaveLimits
    <3>2. Sealable(p, additional) => additional \subseteq Derived(p)
      BY <3>1, SealableIsDerived
    <3> QED
      BY <3>1, <3>2 DEF Genuine, Seal
  <2>5. request' # None => request'.policy \in Policies /\ Genuine(request')
    BY <2>1, <2>4
  <2> QED
    BY <2>2, <2>3, <2>5 DEF Inv, Sealed, Genuine
<1>2. CASE SealProfile
  <2>1. PICK g \in Profiles :
          profile' = IF Passes(ProfileChecks(g)) THEN g ELSE None
    BY <1>2 DEF SealProfile
  <2>2. profile = None /\ UNCHANGED <<request, raised, result>>
    BY <1>2 DEF SealProfile
  <2>3. result = None
    BY <2>2 DEF Inv, Sealed
  <2>4. Passes(ProfileChecks(g)) => g \subseteq Guarantees
    BY ProfileSeals DEF WellFormed
  <2> QED
    BY <2>1, <2>2, <2>3, <2>4 DEF Inv, Sealed, Genuine
<1>3. CASE RequestCancellation
  <2>1. /\ raised \subseteq raised' /\ raised' \subseteq Controllable
        /\ UNCHANGED <<request, profile, result>>
    BY <1>3 DEF RequestCancellation, Inv
  <2>2. Sealed => Sound(request, profile, raised', result)
    BY <2>1, SoundIsMonotone DEF Inv
  <2>3. Controllable' = Controllable
    BY DEF Controllable
  <2> QED
    BY <2>1, <2>2, <2>3 DEF Inv, Sealed, Genuine
<1>4. CASE SealFailedBeforeStart
  <2>1. PICK g \in Claims, failure \in FailureKinds \cup {"unknown"} :
          Outcome(FailedBeforeStart(request, profile, g, failure),
                  NotStarted(request, profile, g, failure))
    BY <1>4 DEF SealFailedBeforeStart
  <2>2. Passes(FailedBeforeStart(request, profile, g, failure)) =>
          Sound(request, profile, raised,
                NotStarted(request, profile, g, failure))
    BY FailedBeforeStartSeals, NotStartedIsSound DEF FailureKinds
  <2> QED
    BY <1>4, <2>1, <2>2, OutcomeStep DEF SealFailedBeforeStart
<1>5. CASE SealCancelledBeforeStart
  <2>1. PICK g \in Claims, q \in Controllable :
          Outcome(CancelledBeforeStart(request, profile, g, Token(q)),
                  NotStarted(request, profile, g, "cancelled"))
    BY <1>5 DEF SealCancelledBeforeStart
  <2>2. ASSUME Passes(CancelledBeforeStart(request, profile, g, Token(q)))
        PROVE  Sound(request, profile, raised,
                     NotStarted(request, profile, g, "cancelled"))
    <3>1. /\ AppliesTo(Token(q), request)
          /\ Token(q).raised
          /\ Admissible(request, profile, g)
          /\ "cancellation" \in g
      BY <2>2, CancelledBeforeStartSeals
    <3>2. request \in raised
      BY <3>1 DEF AppliesTo, Token
    <3>3. "cancelled" \in FailureKinds
      BY DEF FailureKinds, StartedFailures
    <3> QED
      BY <3>1, <3>2, <3>3, NotStartedIsSound
  <2> QED
    BY <1>5, <2>1, <2>2, OutcomeStep DEF SealCancelledBeforeStart
<1>6. CASE SealSucceeded
  <2>1. PICK g \in Claims, i \in Interpreters, out \in BOOLEAN, err \in BOOLEAN :
          Outcome(Succeeded(request, profile, g, i, out, err),
                  Success(request, profile, g, out, err))
    BY <1>6 DEF SealSucceeded
  <2>2. Passes(Succeeded(request, profile, g, i, out, err)) =>
          Sound(request, profile, raised,
                Success(request, profile, g, out, err))
    BY <1>6, SuccessIsSound DEF SealSucceeded, Asking, Inv
  <2> QED
    BY <1>6, <2>1, <2>2, OutcomeStep DEF SealSucceeded
<1>7. CASE SealFailedAfterStart
  <2>1. PICK g \in Claims, i \in Interpreters, t \in Terminations,
             out \in BOOLEAN, err \in BOOLEAN, cleanup \in Cleanups,
             failure \in FailureKinds :
          Outcome(FailedAfterStart(request, profile, g, i, t, out, err, cleanup,
                                   failure, FALSE),
                  Failure(request, profile, g, t, out, err, cleanup, failure))
    BY <1>7 DEF SealFailedAfterStart
  <2>2. Passes(FailedAfterStart(request, profile, g, i, t, out, err, cleanup,
                                failure, FALSE)) =>
          Sound(request, profile, raised,
                Failure(request, profile, g, t, out, err, cleanup, failure))
    BY <1>7, FailureIsSound DEF SealFailedAfterStart, Asking, Inv
  <2> QED
    BY <1>7, <2>1, <2>2, OutcomeStep DEF SealFailedAfterStart
<1>8. CASE SealCancelledAfterStart
  <2>1. PICK g \in Claims, q \in Controllable, i \in Interpreters,
             out \in BOOLEAN, err \in BOOLEAN, cleanup \in Cleanups :
          Outcome(CancelledAfterStart(request, profile, g, Token(q), i, out,
                                      err, cleanup),
                  Failure(request, profile, g, Ended("cancelled", "none"), out,
                          err, cleanup, "cancelled"))
    BY <1>8 DEF SealCancelledAfterStart
  <2>2. ASSUME Passes(CancelledAfterStart(request, profile, g, Token(q), i, out,
                                          err, cleanup))
        PROVE  Sound(request, profile, raised,
                     Failure(request, profile, g, Ended("cancelled", "none"),
                             out, err, cleanup, "cancelled"))
    <3>1. /\ ~Disabled(request)
          /\ AppliesTo(Token(q), request)
          /\ Token(q).raised
          /\ Passes(FailedAfterStart(request, profile, g, i,
                      Ended("cancelled", "none"), out, err, cleanup,
                      "cancelled", TRUE))
      BY <2>2, CancelledAfterStartSeals
    <3>2. request \in raised
      BY <3>1 DEF AppliesTo, Token
    <3>3. Genuine(request)
      BY <1>8 DEF SealCancelledAfterStart, Asking, Inv
    <3> QED
      BY <3>1, <3>2, <3>3, FailureIsSound
  <2> QED
    BY <1>8, <2>1, <2>2, OutcomeStep DEF SealCancelledAfterStart
<1>9. CASE UNCHANGED vars
  BY <1>9 DEF Inv, Sealed, vars, Genuine, Controllable
<1> QED
  BY <1>1, <1>2, <1>3, <1>4, <1>5, <1>6, <1>7, <1>8, <1>9 DEF Next

(* So it holds for ever. *)
LEMMA InvHolds == Spec => []Inv
  BY InvInit, InvStep, PTL DEF Spec

----------------------------------------------------------------------------
(* TypeOK, whatever callers declare and backends claim. *)
THEOREM SealingTypeCorrect == Spec => []TypeOK
<1>1. Inv => TypeOK
  BY GenuineRequires DEF Inv, TypeOK, Sound, Genuine, Sealed
<1> QED
  BY <1>1, InvHolds, PTL

(* The policy alone decides what a sealed request requires. *)
THEOREM PolicyDecides == Spec => []PolicyDecidesRequest
<1>1. \A p \in Policies, additional \in Additional :
        Sealable(p, additional) <=> additional \subseteq Derived(p)
  BY SealableIsDerived, PoliciesHaveLimits
<1>2. Inv => PolicyDecidesRequest
  BY <1>1 DEF Inv, PolicyDecidesRequest, Genuine
<1> QED
  BY <1>2, InvHolds, PTL

(* Evidence keeps within the request and the profile. *)
THEOREM EvidenceKeepsAuthority == Spec => []EvidenceWithinAuthority
<1>1. Inv => EvidenceWithinAuthority
  BY DEF Inv, EvidenceWithinAuthority, Sound
<1> QED
  BY <1>1, InvHolds, PTL

(* Success is never sealed for less than the whole contract. *)
THEOREM SuccessKeepsContract == Spec => []SuccessIsExact
<1>1. Inv => SuccessIsExact
  BY DEF Inv, SuccessIsExact, Sound
<1> QED
  BY <1>1, InvHolds, PTL

(* Evidence of a start is evidence of the isolation around it. *)
THEOREM StartsAreIsolated == Spec => []StartedMeansIsolated
<1>1. Inv => StartedMeansIsolated
  BY DEF Inv, StartedMeansIsolated, Sound, Started
<1> QED
  BY <1>1, InvHolds, PTL

(* Evidence of a cancellation is evidence of its caller's signal. *)
THEOREM CancellationsAreRaised == Spec => []CancelledMeansRaised
<1>1. Inv => CancelledMeansRaised
  BY DEF Inv, CancelledMeansRaised, Sound
<1> QED
  BY <1>1, InvHolds, PTL

(* Cleanup and captures are what the evidence of a started program says. *)
THEOREM StartsAreAccounted == Spec => []AfterStartIsAccounted
<1>1. Inv => AfterStartIsAccounted
  BY DEF Inv, AfterStartIsAccounted, Sound, Started
<1> QED
  BY <1>1, InvHolds, PTL
=============================================================================

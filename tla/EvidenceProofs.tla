--------------------------- MODULE EvidenceProofs ---------------------------
(***************************************************************************)
(* The guarantee tables of request.cpp are one table, for every policy;    *)
(* and what each factory of result.cpp has checked when it seals, and when *)
(* it does not refuse.                                                     *)
(***************************************************************************)
EXTENDS Evidence, TLAPS

(* Each limit kind has its guarantee. *)
LEMMA LimitGuarantees ==
  /\ LimitGuarantee["cpu_time"] = "cpu_time_limit"
  /\ LimitGuarantee["address_space"] = "address_space_limit"
  /\ LimitGuarantee["file_size"] = "file_size_limit"
  /\ LimitGuarantee["open_files"] = "open_files_limit"
  /\ LimitGuarantee["process_count"] = "process_count_limit"
  BY DEF LimitGuarantee, LimitKinds

(* The kind-specific guarantees, listed. *)
LEMMA KindSpecificGuarantees ==
  KindSpecific = {"cpu_time_limit", "address_space_limit", "file_size_limit",
                  "open_files_limit", "process_count_limit"}
  BY LimitGuarantees DEF KindSpecific, LimitKinds

(* Everything derived is in the vocabulary. *)
LEMMA DerivedAreGuarantees ==
  ASSUME NEW p, p.limits \subseteq LimitKinds
  PROVE  Derived(p) \subseteq Guarantees
  BY DEF Derived, Guarantees, Unconditional, AfterStart, KindSpecific, IfSo

(* The guards of Consistent exclude each other. *)
LEMMA ConsistentCases ==
  ASSUME NEW p
  PROVE  /\ Consistent("read_only_resources", p) <=> "read_only" \in p.access
         /\ Consistent("writable_resources", p) <=> "writable" \in p.access
         /\ Consistent("network_denied", p) <=> p.network = "denied"
         /\ Consistent("loopback_isolated", p) <=> p.network = "loopback_only"
         /\ Consistent("resource_limits", p) <=> p.limits # {}
         /\ Consistent("cancellation", p) <=> p.cancellation # "disabled"
         /\ Consistent("complete_stdout_capture", p) <=>
              p.stdout = "capture_complete"
         /\ Consistent("complete_stderr_capture", p) <=>
              p.stderr = "capture_complete"
         /\ \A g \in KindSpecific :
              Consistent(g, p) <=> \E k \in p.limits : LimitGuarantee[k] = g
         /\ \A g \in Unconditional : Consistent(g, p)
<1> USE KindSpecificGuarantees DEF Consistent
<1>1. Consistent("read_only_resources", p) <=> "read_only" \in p.access
  OBVIOUS
<1>2. Consistent("writable_resources", p) <=> "writable" \in p.access
  OBVIOUS
<1>3. Consistent("network_denied", p) <=> p.network = "denied"
  OBVIOUS
<1>4. Consistent("loopback_isolated", p) <=> p.network = "loopback_only"
  OBVIOUS
<1>5. Consistent("resource_limits", p) <=> p.limits # {}
  OBVIOUS
<1>6. Consistent("cancellation", p) <=> p.cancellation # "disabled"
  OBVIOUS
<1>7. Consistent("complete_stdout_capture", p) <=> p.stdout = "capture_complete"
  OBVIOUS
<1>8. Consistent("complete_stderr_capture", p) <=> p.stderr = "capture_complete"
  OBVIOUS
<1>9. ASSUME NEW g \in KindSpecific
      PROVE  Consistent(g, p) <=> \E k \in p.limits : LimitGuarantee[k] = g
  OBVIOUS
<1>10. ASSUME NEW g \in Unconditional PROVE Consistent(g, p)
  BY DEF Unconditional
<1> QED
  BY <1>1, <1>2, <1>3, <1>4, <1>5, <1>6, <1>7, <1>8, <1>9, <1>10

(* The same table for Derived. *)
LEMMA DerivedCases ==
  ASSUME NEW p, p.limits \subseteq LimitKinds
  PROVE  /\ "read_only_resources" \in Derived(p) <=> "read_only" \in p.access
         /\ "writable_resources" \in Derived(p) <=> "writable" \in p.access
         /\ "network_denied" \in Derived(p) <=> p.network = "denied"
         /\ "loopback_isolated" \in Derived(p) <=> p.network = "loopback_only"
         /\ "resource_limits" \in Derived(p) <=> p.limits # {}
         /\ "cancellation" \in Derived(p) <=> p.cancellation # "disabled"
         /\ "complete_stdout_capture" \in Derived(p) <=>
              p.stdout = "capture_complete"
         /\ "complete_stderr_capture" \in Derived(p) <=>
              p.stderr = "capture_complete"
         /\ \A g \in KindSpecific :
              g \in Derived(p) <=> \E k \in p.limits : LimitGuarantee[k] = g
         /\ \A g \in Unconditional : g \in Derived(p)
<1> DEFINE Limits == {LimitGuarantee[k] : k \in p.limits}
<1>1. Limits \subseteq KindSpecific
  BY DEF KindSpecific
<1>2. \A g : g \in Limits <=> \E k \in p.limits : LimitGuarantee[k] = g
  OBVIOUS
<1>3. Derived(p) =
        Unconditional
        \cup IfSo("read_only" \in p.access, "read_only_resources")
        \cup IfSo("writable" \in p.access, "writable_resources")
        \cup IfSo(p.network = "denied", "network_denied")
        \cup IfSo(p.network = "loopback_only", "loopback_isolated")
        \cup IfSo(p.limits # {}, "resource_limits")
        \cup Limits
        \cup IfSo(p.cancellation # "disabled", "cancellation")
        \cup IfSo(p.stdout = "capture_complete", "complete_stdout_capture")
        \cup IfSo(p.stderr = "capture_complete", "complete_stderr_capture")
  BY DEF Derived
<1> HIDE DEF Limits
<1> USE <1>1, <1>3, KindSpecificGuarantees DEF IfSo, Unconditional
<1>4. "read_only_resources" \in Derived(p) <=> "read_only" \in p.access
  OBVIOUS
<1>5. "writable_resources" \in Derived(p) <=> "writable" \in p.access
  OBVIOUS
<1>6. "network_denied" \in Derived(p) <=> p.network = "denied"
  OBVIOUS
<1>7. "loopback_isolated" \in Derived(p) <=> p.network = "loopback_only"
  OBVIOUS
<1>8. "resource_limits" \in Derived(p) <=> p.limits # {}
  OBVIOUS
<1>9. "cancellation" \in Derived(p) <=> p.cancellation # "disabled"
  OBVIOUS
<1>10. "complete_stdout_capture" \in Derived(p) <=> p.stdout = "capture_complete"
  OBVIOUS
<1>11. "complete_stderr_capture" \in Derived(p) <=> p.stderr = "capture_complete"
  OBVIOUS
<1>12. ASSUME NEW g \in KindSpecific
       PROVE  g \in Derived(p) <=> g \in Limits
  OBVIOUS
<1>13. ASSUME NEW g \in Unconditional PROVE g \in Derived(p)
  OBVIOUS
<1> QED
  BY <1>2, <1>4, <1>5, <1>6, <1>7, <1>8, <1>9, <1>10, <1>11, <1>12, <1>13

(* The tables are one: what a policy does not contradict, it derives. *)
LEMMA TablesAgree ==
  ASSUME NEW p, p.limits \subseteq LimitKinds, NEW g \in Guarantees
  PROVE  Consistent(g, p) <=> g \in Derived(p)
<1>1. \/ g \in Unconditional \cup KindSpecific
      \/ g \in {"read_only_resources", "writable_resources", "network_denied",
                "loopback_isolated", "resource_limits", "cancellation",
                "complete_stdout_capture", "complete_stderr_capture"}
  BY DEF Guarantees, AfterStart, Unconditional
<1> QED
  BY <1>1, ConsistentCases, DerivedCases

(* A request seals with additional guarantees exactly when its policy       *)
(* derives them anyway.                                                     *)
THEOREM SealableIsDerived ==
  ASSUME NEW p, p.limits \subseteq LimitKinds, NEW additional
  PROVE  Sealable(p, additional) <=> additional \subseteq Derived(p)
<1>1. Derived(p) \subseteq Guarantees
  BY DerivedAreGuarantees
<1>2. \A g \in Guarantees : Consistent(g, p) <=> g \in Derived(p)
  BY TablesAgree
<1> QED
  BY <1>1, <1>2 DEF Sealable
----------------------------------------------------------------------------
(* What each factory has checked when it seals. *)

(* A profile is well formed. *)
LEMMA ProfileSeals ==
  ASSUME NEW g, Passes(ProfileChecks(g))
  PROVE  WellFormed(g)
<1>1. DOMAIN ProfileChecks(g) = 1..1
  BY DEF ProfileChecks
<1>2. ~ProfileChecks(g)[1][1]
  BY <1>1 DEF Passes
<1> QED
  BY <1>2 DEF ProfileChecks

(* Without a start there is neither a cancellation nor an unknown claim. *)
LEMMA FailedBeforeStartSeals ==
  ASSUME NEW r, NEW p, NEW g, NEW failure,
         Passes(FailedBeforeStart(r, p, g, failure))
  PROVE  /\ failure \in PreStartFailures
         /\ failure # "cancelled"
         /\ Admissible(r, p, g)
<1> DEFINE checks == FailedBeforeStart(r, p, g, failure)
<1>1. DOMAIN checks = 1..6
  BY DEF FailedBeforeStart
<1>2. \A k \in 1..6 : ~checks[k][1]
  BY <1>1 DEF Passes
<1>3. /\ ~checks[2][1] /\ ~checks[3][1] /\ ~checks[4][1]
  BY <1>2
<1> QED
  BY <1>3 DEF FailedBeforeStart

(* Cancellation before the start asks the token first. *)
LEMMA CancelledBeforeStartSeals ==
  ASSUME NEW r, NEW p, NEW g, NEW token,
         Passes(CancelledBeforeStart(r, p, g, token))
  PROVE  /\ AppliesTo(token, r)
         /\ token.raised
         /\ Admissible(r, p, g)
         /\ "cancellation" \in g
<1> DEFINE checks == CancelledBeforeStart(r, p, g, token)
<1>1. DOMAIN checks = 1..7
  BY DEF CancelledBeforeStart
<1>2. \A k \in 1..7 : ~checks[k][1]
  BY <1>1 DEF Passes
<1>3. /\ ~checks[2][1] /\ ~checks[3][1] /\ ~checks[4][1] /\ ~checks[6][1]
  BY <1>2
<1> QED
  BY <1>3 DEF CancelledBeforeStart

(* Success is sealed for the exact guarantees and streams. *)
LEMMA SucceededSeals ==
  ASSUME NEW r, NEW p, NEW g, NEW i, NEW out, NEW err,
         Passes(Succeeded(r, p, g, i, out, err))
  PROVE  /\ WellFormed(g)
         /\ g = r.required
         /\ Supports(p, r)
         /\ g \subseteq p
         /\ CaptureShape(r, out, err, FALSE)
<1> DEFINE checks == Succeeded(r, p, g, i, out, err)
<1>1. DOMAIN checks = 1..5
  BY DEF Succeeded
<1>2. \A k \in 1..5 : ~checks[k][1]
  BY <1>1 DEF Passes
<1>3. /\ ~checks[1][1] /\ ~checks[2][1] /\ ~checks[3][1] /\ ~checks[5][1]
  BY <1>2
<1> QED
  BY <1>3 DEF Succeeded

(* A failed execution is sealed once its evidence is complete. *)
LEMMA FailedAfterStartSeals ==
  ASSUME NEW r, NEW p, NEW g, NEW i, NEW t, NEW out, NEW err, NEW cleanup,
         NEW failure, NEW admitted,
         Passes(FailedAfterStart(r, p, g, i, t, out, err, cleanup, failure, admitted))
  PROVE  /\ failure \in StartedFailures
         /\ cleanup \in {"verified", "failed"}
         /\ Admissible(r, p, g)
         /\ Supports(p, r)
         /\ BeforeStart(r) \subseteq g
         /\ StreamsAgree(g, out, err)
         /\ CleanupAgrees(g, cleanup)
         /\ failure = "cancelled" => admitted
         /\ failure = "cleanup_failed" <=> cleanup = "failed"
         /\ failure # "log_capture_failed" => CaptureShape(r, out, err, FALSE)
<1> DEFINE checks == FailedAfterStart(r, p, g, i, t, out, err, cleanup, failure, admitted)
<1>1. DOMAIN checks = 1..18
  BY DEF FailedAfterStart
<1>2. \A k \in 1..18 : ~checks[k][1]
  BY <1>1 DEF Passes
<1>3. /\ ~checks[1][1] /\ ~checks[2][1] /\ ~checks[3][1] /\ ~checks[4][1]
      /\ ~checks[6][1] /\ ~checks[7][1] /\ ~checks[8][1] /\ ~checks[9][1]
      /\ ~checks[10][1] /\ ~checks[11][1] /\ ~checks[16][1] /\ ~checks[17][1]
      /\ ~checks[18][1]
  BY <1>2
<1> QED
  BY <1>3 DEF FailedAfterStart, FailureKinds, Cleanups

(* A stream that was missed is not sealed under another failure. *)
LEMMA MissedStreamIsRefused ==
  ASSUME NEW r, NEW p, NEW g, NEW i, NEW t, NEW out, NEW err, NEW cleanup,
         NEW failure, NEW admitted,
         failure # "log_capture_failed", ~CaptureShape(r, out, err, FALSE)
  PROVE  ~Passes(FailedAfterStart(r, p, g, i, t, out, err, cleanup, failure, admitted))
  BY FailedAfterStartSeals

(* A cancelled execution is sealed after its token was asked. *)
LEMMA CancelledAfterStartSeals ==
  ASSUME NEW r, NEW p, NEW g, NEW token, NEW i, NEW out, NEW err, NEW cleanup,
         Passes(CancelledAfterStart(r, p, g, token, i, out, err, cleanup))
  PROVE  /\ ~Disabled(r)
         /\ AppliesTo(token, r)
         /\ token.raised
         /\ Passes(FailedAfterStart(r, p, g, i, Ended("cancelled", "none"), out, err,
                                    cleanup, "cancelled", TRUE))
<1> DEFINE checks == CancelledAfterStart(r, p, g, token, i, out, err, cleanup)
<1>1. DOMAIN checks = 1..4
  BY DEF CancelledAfterStart
<1>2. \A k \in 1..4 : ~checks[k][1]
  BY <1>1 DEF Passes
<1>3. /\ ~checks[1][1] /\ ~checks[2][1] /\ ~checks[3][1] /\ ~checks[4][1]
  BY <1>2
<1> QED
  BY <1>3 DEF CancelledAfterStart

----------------------------------------------------------------------------
(* A request requires what its policy derives, and policies limit only what *)
(* has a guarantee of its own.                                              *)
Genuine(r) ==
  r.policy.limits \subseteq LimitKinds /\ r.required = Derived(r.policy)

(* What genuine requests require of the streams, the cleanup and the        *)
(* cancellation.                                                            *)
LEMMA GenuineRequires ==
  ASSUME NEW r, Genuine(r)
  PROVE  /\ r.required \subseteq Guarantees
         /\ "cleanup_verified" \in r.required
         /\ "cancellation" \in r.required <=> ~Disabled(r)
         /\ "complete_stdout_capture" \in r.required <=> Wants(r, "stdout")
         /\ "complete_stderr_capture" \in r.required <=> Wants(r, "stderr")
  BY DerivedCases, DerivedAreGuarantees
  DEF Genuine, Disabled, Wants, Unconditional

(* Evidence of a program that did not start is sound. *)
LEMMA NotStartedIsSound ==
  ASSUME NEW r, NEW p, NEW cancelled, NEW g, NEW failure \in FailureKinds,
         Admissible(r, p, g),
         failure = "cancelled" => r \in cancelled /\ "cancellation" \in g
  PROVE  Sound(r, p, cancelled, NotStarted(r, p, g, failure))
  BY DEF Sound, NotStarted, Admissible, WellFormed, Cleanups

(* Evidence of success is sound. *)
LEMMA SuccessIsSound ==
  ASSUME NEW r, NEW p, NEW cancelled, NEW g, NEW i,
         NEW out \in BOOLEAN, NEW err \in BOOLEAN,
         Genuine(r), Passes(Succeeded(r, p, g, i, out, err))
  PROVE  Sound(r, p, cancelled, Success(r, p, g, out, err))
<1>1. /\ LimitShape(g) /\ g = r.required /\ g \subseteq p
      /\ CaptureShape(r, out, err, FALSE)
  BY SucceededSeals DEF WellFormed
<1>2. out = Wants(r, "stdout") /\ err = Wants(r, "stderr")
  BY <1>1 DEF CaptureShape, Wants
<1>3. /\ "cleanup_verified" \in g
      /\ "complete_stdout_capture" \in g <=> out
      /\ "complete_stderr_capture" \in g <=> err
  BY <1>1, <1>2, GenuineRequires
<1> QED
  BY <1>1, <1>2, <1>3 DEF Sound, Success, Cleanups, FailureKinds,
     PreStartFailures, StartedFailures

(* Evidence of a failed start is sound, of a cancelled one if the caller    *)
(* raised the signal.                                                       *)
LEMMA FailureIsSound ==
  ASSUME NEW r, NEW p, NEW cancelled, NEW g, NEW i, NEW t,
         NEW out, NEW err, NEW cleanup, NEW failure, NEW admitted,
         Genuine(r),
         Passes(FailedAfterStart(r, p, g, i, t, out, err, cleanup, failure, admitted)),
         admitted => ~Disabled(r) /\ r \in cancelled
  PROVE  Sound(r, p, cancelled, Failure(r, p, g, t, out, err, cleanup, failure))
<1>1. /\ failure \in StartedFailures
      /\ cleanup \in {"verified", "failed"}
      /\ Admissible(r, p, g)
      /\ Supports(p, r)
      /\ BeforeStart(r) \subseteq g
      /\ StreamsAgree(g, out, err)
      /\ CleanupAgrees(g, cleanup)
      /\ failure = "cancelled" => admitted
      /\ failure = "cleanup_failed" <=> cleanup = "failed"
  BY FailedAfterStartSeals
<1>2. failure = "cancelled" => r \in cancelled /\ "cancellation" \in g
  BY <1>1, GenuineRequires DEF BeforeStart, AfterStart
<1> QED
  BY <1>1, <1>2
     DEF Sound, Failure, Admissible, WellFormed, Supports, BeforeStart,
         StreamsAgree, CleanupAgrees, Cleanups, FailureKinds

(* More cancelled requests leave evidence sound. *)
LEMMA SoundIsMonotone ==
  ASSUME NEW r, NEW p, NEW e, NEW S, NEW T, S \subseteq T, Sound(r, p, S, e)
  PROVE  Sound(r, p, T, e)
  BY DEF Sound

----------------------------------------------------------------------------
(* What each factory takes: none refuses more than its checks say.          *)

LEMMA FailedBeforeStartAccepts ==
  ASSUME NEW r, NEW p, NEW g, NEW failure \in PreStartFailures,
         Admissible(r, p, g), g \cap AfterStart = {},
         failure = "backend_unsupported" \/ Supports(p, r)
  PROVE  Passes(FailedBeforeStart(r, p, g, failure))
<1>1. failure \in FailureKinds /\ failure # "cancelled"
  BY DEF PreStartFailures, FailureKinds
<1> DEFINE checks == FailedBeforeStart(r, p, g, failure)
<1>2. DOMAIN checks = 1..6
  BY DEF FailedBeforeStart
<1>3. /\ ~checks[1][1] /\ ~checks[2][1] /\ ~checks[3][1] /\ ~checks[4][1]
      /\ ~checks[5][1] /\ ~checks[6][1]
  BY <1>1 DEF FailedBeforeStart
<1> HIDE DEF checks
<1>5. Passes(checks)
  BY <1>2, <1>3 DEF Passes
<1> QED BY <1>5 DEF checks

(* cancelled_before_start() seals a raised token's claims of set-up only. *)
LEMMA CancelledBeforeStartAccepts ==
  ASSUME NEW r, NEW p, NEW g, NEW token,
         ~Disabled(r), AppliesTo(token, r), token.raised,
         Admissible(r, p, g), Supports(p, r),
         "cancellation" \in g, g \cap AfterStart = {}
  PROVE  Passes(CancelledBeforeStart(r, p, g, token))
<1> DEFINE checks == CancelledBeforeStart(r, p, g, token)
<1>2. DOMAIN checks = 1..7
  BY DEF CancelledBeforeStart
<1>3. /\ ~checks[1][1] /\ ~checks[2][1] /\ ~checks[3][1] /\ ~checks[4][1]
      /\ ~checks[5][1] /\ ~checks[6][1] /\ ~checks[7][1]
  BY DEF CancelledBeforeStart
<1> HIDE DEF checks
<1>5. Passes(checks)
  BY <1>2, <1>3 DEF Passes
<1> QED BY <1>5 DEF checks

(* succeeded() seals the whole contract with the streams asked for. *)
LEMMA SucceededAccepts ==
  ASSUME NEW r, NEW p, NEW out, NEW err,
         WellFormed(r.required), Supports(p, r),
         CaptureShape(r, out, err, FALSE)
  PROVE  Passes(Succeeded(r, p, r.required, r.policy.interpreter, out, err))
<1> DEFINE checks == Succeeded(r, p, r.required, r.policy.interpreter, out, err)
<1>2. DOMAIN checks = 1..5
  BY DEF Succeeded
<1>3. /\ ~checks[1][1] /\ ~checks[2][1] /\ ~checks[3][1] /\ ~checks[4][1]
      /\ ~checks[5][1]
  BY DEF Succeeded, Supports
<1> HIDE DEF checks
<1>5. Passes(checks)
  BY <1>2, <1>3 DEF Passes
<1> QED BY <1>5 DEF checks

(* failed_after_start() seals every failure whose evidence agrees with it. *)
LEMMA FailedAfterStartAccepts ==
  ASSUME NEW r, NEW p, NEW g, NEW t, NEW out, NEW err,
         NEW cleanup \in {"verified", "failed"},
         NEW failure \in StartedFailures, NEW admitted,
         Admissible(r, p, g), Supports(p, r), BeforeStart(r) \subseteq g,
         StreamsAgree(g, out, err), CleanupAgrees(g, cleanup),
         failure = "cancelled" => admitted,
         TerminationFits(r, failure, t),
         failure = "resource_limit_exceeded" => LimitEstablished(t, g),
         IF failure = "log_capture_failed"
           THEN CaptureShape(r, out, err, TRUE) /\ ~NothingMissing(r, out, err)
           ELSE CaptureShape(r, out, err, FALSE),
         failure = "cleanup_failed" <=> cleanup = "failed"
  PROVE  Passes(FailedAfterStart(r, p, g, r.policy.interpreter, t, out, err,
                                 cleanup, failure, admitted))
<1> DEFINE checks == FailedAfterStart(r, p, g, r.policy.interpreter, t, out, err,
                                      cleanup, failure, admitted)
<1>1. failure \in FailureKinds \ PreStartFailures /\ cleanup \in Cleanups
  BY DEF StartedFailures, PreStartFailures, FailureKinds, Cleanups
<1>2. DOMAIN checks = 1..18
  BY DEF FailedAfterStart
<1>3. /\ ~checks[1][1] /\ ~checks[2][1] /\ ~checks[3][1] /\ ~checks[4][1]
      /\ ~checks[5][1] /\ ~checks[6][1] /\ ~checks[7][1] /\ ~checks[8][1]
      /\ ~checks[9][1]
  BY <1>1 DEF FailedAfterStart
<1>4. /\ ~checks[10][1] /\ ~checks[11][1] /\ ~checks[12][1] /\ ~checks[13][1]
      /\ ~checks[14][1] /\ ~checks[15][1] /\ ~checks[16][1] /\ ~checks[17][1]
      /\ ~checks[18][1]
  BY DEF FailedAfterStart
<1> HIDE DEF checks
<1>5. Passes(checks)
  BY <1>2, <1>3, <1>4 DEF Passes
<1> QED BY <1>5 DEF checks

(* cancelled_after_start() seals what that accepts, of a raised token. *)
LEMMA CancelledAfterStartAccepts ==
  ASSUME NEW r, NEW p, NEW g, NEW token, NEW out, NEW err, NEW cleanup,
         ~Disabled(r), AppliesTo(token, r), token.raised,
         Passes(FailedAfterStart(r, p, g, r.policy.interpreter,
                                 Ended("cancelled", "none"), out, err, cleanup,
                                 "cancelled", TRUE))
  PROVE  Passes(CancelledAfterStart(r, p, g, token, r.policy.interpreter,
                                    out, err, cleanup))
<1> DEFINE checks == CancelledAfterStart(r, p, g, token, r.policy.interpreter,
                                         out, err, cleanup)
<1>2. DOMAIN checks = 1..4
  BY DEF CancelledAfterStart
<1>3. /\ ~checks[1][1] /\ ~checks[2][1] /\ ~checks[3][1] /\ ~checks[4][1]
  BY DEF CancelledAfterStart
<1> HIDE DEF checks
<1>5. Passes(checks)
  BY <1>2, <1>3 DEF Passes
<1> QED BY <1>5 DEF checks

(* The guarantees a genuine request requires name limits with their kinds,  *)
(* and so do those among them that are established before the start.        *)
LEMMA GenuineIsWellFormed ==
  ASSUME NEW r, Genuine(r), NEW g,
         r.required \ AfterStart \subseteq g, g \subseteq r.required
  PROVE  WellFormed(g)
<1>1. \A x \in KindSpecific \cup {"resource_limits"} : x \notin AfterStart
  BY KindSpecificGuarantees DEF AfterStart
<1>2. "resource_limits" \in r.required <=> r.policy.limits # {}
  BY DerivedCases DEF Genuine
<1>3. r.required \cap KindSpecific # {} <=> r.policy.limits # {}
  <2>1. \A k \in r.policy.limits : LimitGuarantee[k] \in KindSpecific
    BY DEF Genuine, KindSpecific
  <2> QED BY <2>1, DerivedCases DEF Genuine
<1>4. g \subseteq Guarantees
  BY GenuineRequires
<1> QED BY <1>1, <1>2, <1>3, <1>4 DEF WellFormed, LimitShape
=============================================================================

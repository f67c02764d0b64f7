------------------------- MODULE CancellationProofs -------------------------
(***************************************************************************)
(* The safety of Cancellation for any number of threads, calls and         *)
(* spurious wake-ups.  None of its invariants but YesIsPublished is        *)
(* inductive alone: what a thread that holds the mutex can read depends on *)
(* what the mutex carries, and who is owed a true on who stored the flag.  *)
(* Inv collects what they need from each other.                            *)
(***************************************************************************)
EXTENDS Cancellation, TLAPS

(* Whoever can test the flag under the lock cannot read it stale, so a      *)
(* thread about to store or to park has seen it down, and it still is.      *)
FlagInv ==
  /\ ~requested => sees = {}
  /\ requested => IF mutex = NoThread THEN Mutex \in sees ELSE mutex \in sees
  /\ \A t \in Thread : pc[t] \in {"store", "park"} => ~requested

(* The call that stored the flag and has not returned true yet. *)
Owed(c) == pc[c] \in {"unlock", "notify"}

(* Once the flag is up, one true is owed or was given, never both. *)
GrantInv ==
  /\ \A c \in Canceller : Owed(c) => requested /\ granted = 0
  /\ \A c, d \in Canceller : Owed(c) /\ Owed(d) => c = d
  /\ ~requested => granted = 0

(* Answers are backed by the flag, and by what the observer knows of it. *)
AnswerInv == \A o \in Observer : answer[o] = "yes" => o \in sees

(* A thread inside a member function holds the handle it was called on. *)
HandleInv ==
  /\ \A o \in Observer : pc[o] # "idle" => o \in tokens
  /\ \A c \in Canceller : pc[c] # "idle" => source
  /\ freed => ~source /\ tokens = {}

Inv ==
  /\ TypeOK
  /\ LockDiscipline
  /\ FlagInv
  /\ GrantInv
  /\ AnswerInv
  /\ HandleInv
  /\ NoLostWakeup
  /\ YesIsPublished

----------------------------------------------------------------------------
(* The initial states satisfy Inv. *)
LEMMA InvInit == Init => Inv
<1> SUFFICES ASSUME Init PROVE Inv
  OBVIOUS
<1> USE ThreadsAssumption, BoundsAssumption DEF Init
<1>1. TypeOK
  <2>1. /\ pc \in [Thread -> CancellerLabels \cup ObserverLabels]
        /\ \A c \in Canceller : pc[c] \in CancellerLabels
        /\ \A o \in Observer : pc[o] \in ObserverLabels
    BY DEF Thread, CancellerLabels, ObserverLabels
  <2>2. /\ calls \in [Thread -> 0..MaxCalls]
        /\ spurious \in 0..MaxSpurious
    OBVIOUS
  <2>3. /\ mode \in [Observer -> {"wait", "timed", "expired"}]
        /\ answer \in [Observer -> {"none", "no", "yes"}]
        /\ granted \in 0..1
    OBVIOUS
  <2>4. /\ requested \in BOOLEAN
        /\ source \in BOOLEAN
        /\ freed \in BOOLEAN
    OBVIOUS
  <2>5. /\ mutex \in Thread \cup {NoThread}
        /\ sees \subseteq Thread \cup {Mutex}
        /\ synced \subseteq Thread \cup {Mutex}
        /\ tokens \subseteq Observer
    OBVIOUS
  <2> QED
    BY <2>1, <2>2, <2>3, <2>4, <2>5 DEF TypeOK
<1>2. LockDiscipline
  BY DEF LockDiscipline, Critical, Thread
<1>3. FlagInv /\ GrantInv /\ AnswerInv /\ HandleInv
  BY DEF FlagInv, GrantInv, Owed, AnswerInv, HandleInv, Thread
<1>4. NoLostWakeup /\ YesIsPublished
  BY DEF NoLostWakeup, YesIsPublished
<1> QED
  BY <1>1, <1>2, <1>3, <1>4 DEF Inv

----------------------------------------------------------------------------
(* What a load tells the thread that made it: a true is backed by the flag *)
(* and remembered, and whoever holds the mutex cannot read a stale false.   *)
LEMMA LoadFacts ==
  ASSUME TypeOK, FlagInv, NEW t \in Thread, NEW v \in BOOLEAN, NEW order,
         Load(t, v, order)
  PROVE  /\ requested' = requested
         /\ v => requested /\ sees' = sees \cup {t}
         /\ ~v => sees' = sees
         /\ mutex = t /\ ~v => ~requested
  BY ThreadsAssumption DEF TypeOK, FlagInv, Load, Reads, Thread

(* Steps preserve types; the one-shot bound on granted needs GrantInv, since *)
(* it is the count of trues a thread may still owe.                          *)
LEMMA TypeStep ==
  TypeOK /\ GrantInv /\ [Next]_vars => TypeOK'
<1> SUFFICES ASSUME TypeOK, GrantInv, [Next]_vars PROVE TypeOK'
  OBVIOUS
<1> USE ThreadsAssumption, BoundsAssumption DEF TypeOK, CancellerLabels,
          ObserverLabels, Thread
<1>1. ASSUME NEW t \in Thread, Acquire(t) PROVE TypeOK'
  BY <1>1 DEF Acquire, handles, budget, Lock, Flow, Goto
<1>2. ASSUME NEW c \in Canceller, CallRequest(c) PROVE TypeOK'
  BY <1>2 DEF CallRequest, flag, handles, Goto, Call
<1>3. ASSUME NEW c \in Canceller, Check(c) PROVE TypeOK'
  BY <1>3 DEF Check, handles, budget, Load, Goto
<1>4. ASSUME NEW c \in Canceller, Decline(c) \/ Release(c) PROVE TypeOK'
  BY <1>4 DEF Decline, Release, handles, budget, Unlock, Flow, Goto
<1>5. ASSUME NEW c \in Canceller, Store(c) PROVE TypeOK'
  BY <1>5 DEF Store, handles, budget, Goto
<1>6. ASSUME NEW c \in Canceller, NotifyAll(c) PROVE TypeOK'
  BY <1>6 DEF NotifyAll, Blocked, Owed, GrantInv, flag, handles, budget
<1>7. ASSUME NEW o \in Observer, Query(o) PROVE TypeOK'
  <2>1. answer' \in [Observer -> {"none", "no", "yes"}]
    BY <1>7 DEF Query, Reply
  <2>2. sees' \subseteq Thread \cup {Mutex} /\ synced' \subseteq Thread \cup {Mutex}
    BY <1>7 DEF Query, Load
  <2> QED
    BY <1>7, <2>1, <2>2 DEF Query, Load, handles, budget
<1>8. ASSUME NEW o \in Observer, CallWait(o) PROVE TypeOK'
  <2>1. mode' \in [Observer -> {"wait", "timed", "expired"}]
    BY <1>8 DEF CallWait
  <2>2. pc' = [pc EXCEPT ![o] = "lock"] /\ calls' = [calls EXCEPT ![o] = calls[o] + 1]
    BY <1>8 DEF CallWait, Call, Goto
  <2>3. calls' \in [Thread -> 0..MaxCalls]
    BY <1>8, <2>2 DEF CallWait, Call
  <2> QED
    BY <1>8, <2>1, <2>2, <2>3 DEF CallWait, Call, flag, handles
<1>9. ASSUME NEW o \in Observer, Test(o) PROVE TypeOK'
  <2>1. answer' \in [Observer -> {"none", "no", "yes"}]
    BY <1>9 DEF Test, Reply
  <2>2. sees' \subseteq Thread \cup {Mutex} /\ synced' \subseteq Thread \cup {Mutex}
    BY <1>9 DEF Test, Load
  <2>3. pc' = [pc EXCEPT ![o] = "return"] \/ pc' = [pc EXCEPT ![o] = "park"]
    BY <1>9 DEF Test, Goto
  <2> QED
    BY <1>9, <2>1, <2>2, <2>3 DEF Test, Load, handles, budget
<1>10. ASSUME NEW o \in Observer, Return(o) \/ Park(o) PROVE TypeOK'
  BY <1>10 DEF Return, Park, handles, budget, Unlock, Flow, Goto
<1>11. ASSUME NEW o \in Observer, Spurious(o) \/ Timeout(o) PROVE TypeOK'
  BY <1>11 DEF Spurious, Timeout, flag, handles, budget, Goto
<1>12. ASSUME NEW o \in Observer, TakeToken(o) \/ DropToken(o) PROVE TypeOK'
  BY <1>12 DEF TakeToken, DropToken, flag, handles, budget
<1>13. CASE DropSource \/ UNCHANGED vars
  BY <1>13 DEF DropSource, vars, flag, handles, budget
<1> QED
  BY <1>1, <1>2, <1>3, <1>4, <1>5, <1>6, <1>7, <1>8, <1>9, <1>10, <1>11,
     <1>12, <1>13
     DEF Next, CancellerStep, ObserverStep

(* A thread takes the mutex on entry to its critical section and gives it  *)
(* back on every way out.                                                   *)
LEMMA LockStep ==
  TypeOK /\ LockDiscipline /\ [Next]_vars => LockDiscipline'
<1> SUFFICES ASSUME TypeOK, LockDiscipline, [Next]_vars PROVE LockDiscipline'
  OBVIOUS
<1> USE ThreadsAssumption DEF TypeOK, LockDiscipline, Critical,
          CancellerLabels, ObserverLabels, Thread
<1>1. ASSUME NEW t \in Thread, Acquire(t) PROVE LockDiscipline'
  BY <1>1 DEF Acquire, Lock, Goto
<1>2. ASSUME NEW c \in Canceller,
             CallRequest(c) \/ Check(c)
      PROVE  LockDiscipline'
  BY <1>2 DEF CallRequest, Check, Load, Goto, Call
<1>3. ASSUME NEW c \in Canceller,
             Decline(c) \/ Release(c)
      PROVE  LockDiscipline'
  BY <1>3 DEF Decline, Release, Unlock, Goto
<1>4. ASSUME NEW c \in Canceller,
             Store(c) \/ NotifyAll(c)
      PROVE  LockDiscipline'
  BY <1>4 DEF Store, NotifyAll, Goto, Blocked
<1>5. ASSUME NEW o \in Observer, Query(o) \/ CallWait(o) PROVE LockDiscipline'
  BY <1>5 DEF Query, CallWait, Load, Goto, Call
<1>6. ASSUME NEW o \in Observer,
             Test(o) \/ Return(o) \/ Park(o)
      PROVE  LockDiscipline'
  BY <1>6 DEF Test, Return, Park, Load, Unlock, Goto
<1>7. ASSUME NEW o \in Observer,
             Spurious(o) \/ Timeout(o)
      PROVE  LockDiscipline'
  BY <1>7 DEF Spurious, Timeout, Goto
<1>8. ASSUME NEW o \in Observer,
             TakeToken(o) \/ DropToken(o)
      PROVE  LockDiscipline'
  BY <1>8 DEF TakeToken, DropToken
<1>9. CASE DropSource \/ UNCHANGED vars
  BY <1>9 DEF DropSource, vars
<1> QED
  BY <1>1, <1>2, <1>3, <1>4, <1>5, <1>6, <1>7, <1>8, <1>9
     DEF Next, CancellerStep, ObserverStep

(* The flag is seen by whoever holds the mutex, and nobody about to store *)
(* or to park is overtaken by a store: stores happen under the mutex.      *)
LEMMA FlagStep ==
  TypeOK /\ LockDiscipline /\ FlagInv /\ [Next]_vars => FlagInv'
<1> SUFFICES ASSUME TypeOK, LockDiscipline, FlagInv, [Next]_vars PROVE FlagInv'
  OBVIOUS
<1> USE ThreadsAssumption DEF TypeOK, LockDiscipline, FlagInv, Critical,
          CancellerLabels, ObserverLabels, Thread
<1>1. ASSUME NEW t \in Thread, Acquire(t) PROVE FlagInv'
  BY <1>1 DEF Acquire, Lock, Flow, Goto
<1>2. ASSUME NEW c \in Canceller, CallRequest(c) PROVE FlagInv'
  BY <1>2 DEF CallRequest, flag, Goto, Call
<1>3. ASSUME NEW c \in Canceller, Check(c) PROVE FlagInv'
  <2>1. PICK v \in BOOLEAN :
          /\ Load(c, v, CheckOrder)
          /\ Goto(c, IF v THEN "decline" ELSE "store")
    BY <1>3 DEF Check
  <2>2. mutex = c /\ mutex' = mutex
    BY <1>3 DEF Check
  <2> QED
    BY <2>1, <2>2, LoadFacts DEF Goto
<1>4. ASSUME NEW c \in Canceller, Decline(c) \/ Release(c) PROVE FlagInv'
  BY <1>4 DEF Decline, Release, Unlock, Flow, Goto
<1>5. ASSUME NEW c \in Canceller, Store(c) \/ NotifyAll(c) PROVE FlagInv'
  BY <1>5 DEF Store, NotifyAll, flag, Goto, Blocked
<1>6. ASSUME NEW o \in Observer, Query(o) PROVE FlagInv'
  <2>1. PICK v \in BOOLEAN : Load(o, v, QueryOrder)
    BY <1>6 DEF Query
  <2> QED
    BY <1>6, <2>1, LoadFacts DEF Query
<1>7. ASSUME NEW o \in Observer, CallWait(o) PROVE FlagInv'
  BY <1>7 DEF CallWait, flag, Goto, Call
<1>8. ASSUME NEW o \in Observer, Test(o) PROVE FlagInv'
  <2>1. PICK v \in BOOLEAN :
          /\ Load(o, v, WaitOrder)
          /\ IF v \/ mode[o] = "expired"
               THEN /\ answer' = [answer EXCEPT ![o] = Reply(v)]
                    /\ Goto(o, "return")
               ELSE /\ Goto(o, "park")
                    /\ UNCHANGED answer
    BY <1>8 DEF Test
  <2>2. Goto(o, "return") \/ (~v /\ Goto(o, "park"))
    BY <2>1
  <2>3. mutex = o /\ mutex' = mutex
    BY <1>8 DEF Test
  <2> QED
    BY <2>1, <2>2, <2>3, LoadFacts DEF Goto
<1>9. ASSUME NEW o \in Observer, Return(o) \/ Park(o) PROVE FlagInv'
  BY <1>9 DEF Return, Park, Unlock, Flow, Goto
<1>10. ASSUME NEW o \in Observer, Spurious(o) \/ Timeout(o) PROVE FlagInv'
  BY <1>10 DEF Spurious, Timeout, flag, Goto
<1>11. ASSUME NEW o \in Observer, TakeToken(o) \/ DropToken(o) PROVE FlagInv'
  BY <1>11 DEF TakeToken, DropToken, flag
<1>12. CASE DropSource \/ UNCHANGED vars
  BY <1>12 DEF DropSource, vars, flag
<1> QED
  BY <1>1, <1>2, <1>3, <1>4, <1>5, <1>6, <1>7, <1>8, <1>9, <1>10, <1>11, <1>12
     DEF Next, CancellerStep, ObserverStep

(* A second thread cannot store the flag: it would have to read it down   *)
(* under the mutex after the first.                                        *)
LEMMA GrantStep ==
  TypeOK /\ LockDiscipline /\ FlagInv /\ GrantInv /\ [Next]_vars => GrantInv'
<1> SUFFICES ASSUME TypeOK, LockDiscipline, FlagInv, GrantInv, [Next]_vars PROVE GrantInv'
  OBVIOUS
<1> USE ThreadsAssumption DEF TypeOK, LockDiscipline, FlagInv, GrantInv, Owed,
          Critical, CancellerLabels, ObserverLabels, Thread
<1>1. ASSUME NEW t \in Thread, Acquire(t) PROVE GrantInv'
  BY <1>1 DEF Acquire, Lock, Goto
<1>2. ASSUME NEW c \in Canceller, CallRequest(c) PROVE GrantInv'
  BY <1>2 DEF CallRequest, flag, Goto, Call
<1>3. ASSUME NEW c \in Canceller, Check(c) PROVE GrantInv'
  BY <1>3 DEF Check, Load, Goto
<1>4. ASSUME NEW c \in Canceller, Decline(c) \/ Release(c) PROVE GrantInv'
  BY <1>4 DEF Decline, Release, Unlock, Goto
<1>5. ASSUME NEW c \in Canceller, Store(c) \/ NotifyAll(c) PROVE GrantInv'
  BY <1>5 DEF Store, NotifyAll, flag, Goto, Blocked
<1>6. ASSUME NEW o \in Observer, Query(o) PROVE GrantInv'
  BY <1>6 DEF Query, Load
<1>7. ASSUME NEW o \in Observer, CallWait(o) PROVE GrantInv'
  BY <1>7 DEF CallWait, flag, Goto, Call
<1>8. ASSUME NEW o \in Observer, Test(o) PROVE GrantInv'
  BY <1>8 DEF Test, Load, Goto
<1>9. ASSUME NEW o \in Observer, Return(o) \/ Park(o) PROVE GrantInv'
  BY <1>9 DEF Return, Park, Unlock, Goto
<1>10. ASSUME NEW o \in Observer, Spurious(o) \/ Timeout(o) PROVE GrantInv'
  BY <1>10 DEF Spurious, Timeout, flag, Goto
<1>11. ASSUME NEW o \in Observer, TakeToken(o) \/ DropToken(o) PROVE GrantInv'
  BY <1>11 DEF TakeToken, DropToken, flag
<1>12. CASE DropSource \/ UNCHANGED vars
  BY <1>12 DEF DropSource, vars, flag
<1> QED
  BY <1>1, <1>2, <1>3, <1>4, <1>5, <1>6, <1>7, <1>8, <1>9, <1>10, <1>11, <1>12
     DEF Next, CancellerStep, ObserverStep

(* Loads that return true are acquire loads of a release store. *)
LEMMA AnswerStep ==
  TypeOK /\ AnswerInv /\ YesIsPublished /\ [Next]_vars => AnswerInv' /\ YesIsPublished'
<1> SUFFICES ASSUME TypeOK, AnswerInv, YesIsPublished, [Next]_vars PROVE AnswerInv' /\ YesIsPublished'
  OBVIOUS
<1> USE ThreadsAssumption DEF TypeOK, AnswerInv, YesIsPublished, Thread
<1>1. ASSUME NEW t \in Thread, Acquire(t) PROVE AnswerInv' /\ YesIsPublished'
  BY <1>1 DEF Acquire, Lock, Flow
<1>2. ASSUME NEW c \in Canceller,
             CallRequest(c) \/ Check(c)
      PROVE  AnswerInv' /\ YesIsPublished'
  BY <1>2 DEF CallRequest, Check, flag, Load, Call, StoreOrder
<1>3. ASSUME NEW c \in Canceller,
             Decline(c) \/ Release(c)
      PROVE  AnswerInv' /\ YesIsPublished'
  BY <1>3 DEF Decline, Release, Unlock, Flow
<1>4. ASSUME NEW c \in Canceller,
             Store(c) \/ NotifyAll(c)
      PROVE  AnswerInv' /\ YesIsPublished'
  BY <1>4 DEF Store, NotifyAll, flag
<1>5. ASSUME NEW o \in Observer,
             Query(o) \/ CallWait(o)
      PROVE  AnswerInv' /\ YesIsPublished'
  BY <1>5 DEF Query, CallWait, flag, Load, Call, Reply, StoreOrder, QueryOrder
<1>6. ASSUME NEW o \in Observer,
             Test(o) \/ Return(o) \/ Park(o)
      PROVE  AnswerInv' /\ YesIsPublished'
  BY <1>6 DEF Test, Return, Park, Load, Unlock, Flow, Reply, StoreOrder,
     WaitOrder
<1>7. ASSUME NEW o \in Observer,
             Spurious(o) \/ Timeout(o)
      PROVE  AnswerInv' /\ YesIsPublished'
  BY <1>7 DEF Spurious, Timeout, flag
<1>8. ASSUME NEW o \in Observer,
             TakeToken(o) \/ DropToken(o)
      PROVE  AnswerInv' /\ YesIsPublished'
  BY <1>8 DEF TakeToken, DropToken, flag
<1>9. CASE DropSource \/ UNCHANGED vars
  BY <1>9 DEF DropSource, vars, flag
<1> QED
  BY <1>1, <1>2, <1>3, <1>4, <1>5, <1>6, <1>7, <1>8, <1>9
     DEF Next, CancellerStep, ObserverStep

(* A handle is dropped only by a thread that is in none of its members. *)
LEMMA HandleStep ==
  TypeOK /\ HandleInv /\ [Next]_vars => HandleInv'
<1> SUFFICES ASSUME TypeOK, HandleInv, [Next]_vars PROVE HandleInv'
  OBVIOUS
<1> USE ThreadsAssumption DEF TypeOK, HandleInv, Thread
<1>1. ASSUME NEW t \in Thread, Acquire(t) PROVE HandleInv'
  BY <1>1 DEF Acquire, handles, Goto
<1>2. ASSUME NEW c \in Canceller, CallRequest(c) \/ Check(c) PROVE HandleInv'
  BY <1>2 DEF CallRequest, Check, handles, Goto, Call
<1>3. ASSUME NEW c \in Canceller, Decline(c) \/ Release(c) PROVE HandleInv'
  BY <1>3 DEF Decline, Release, handles, Goto
<1>4. ASSUME NEW c \in Canceller, Store(c) \/ NotifyAll(c) PROVE HandleInv'
  BY <1>4 DEF Store, NotifyAll, handles, Goto, Blocked
<1>5. ASSUME NEW o \in Observer, Query(o) \/ CallWait(o) PROVE HandleInv'
  BY <1>5 DEF Query, CallWait, handles, Goto, Call
<1>6. ASSUME NEW o \in Observer,
             Test(o) \/ Return(o) \/ Park(o)
      PROVE  HandleInv'
  BY <1>6 DEF Test, Return, Park, handles, Goto
<1>7. ASSUME NEW o \in Observer, Spurious(o) \/ Timeout(o) PROVE HandleInv'
  BY <1>7 DEF Spurious, Timeout, handles, Goto
<1>8. ASSUME NEW o \in Observer, TakeToken(o) \/ DropToken(o) PROVE HandleInv'
  BY <1>8 DEF TakeToken, DropToken, handles
<1>9. CASE DropSource \/ UNCHANGED vars
  BY <1>9 DEF DropSource, vars, handles
<1> QED
  BY <1>1, <1>2, <1>3, <1>4, <1>5, <1>6, <1>7, <1>8, <1>9
     DEF Next, CancellerStep, ObserverStep

(* A waiter parks only while the flag is down, and the thread that raises *)
(* the flag notifies after every waiter that parked before.               *)
LEMMA WakeStep ==
  TypeOK /\ FlagInv /\ NoLostWakeup /\ [Next]_vars => NoLostWakeup'
<1> SUFFICES ASSUME TypeOK, FlagInv, NoLostWakeup, [Next]_vars PROVE NoLostWakeup'
  OBVIOUS
<1> USE ThreadsAssumption DEF TypeOK, NoLostWakeup, Blocked, Thread
(* A thread that moves without touching the flag disturbs nothing unless it *)
(* blocks, or was the one to notify.                                        *)
<1>0. ASSUME NEW t \in Thread, NEW label,
             UNCHANGED requested,
             pc' = [pc EXCEPT ![t] = label],
             pc[t] \in {"unlock", "notify"} => label \in {"unlock", "notify"},
             label = "blocked" => ~requested
      PROVE  NoLostWakeup'
  BY <1>0
<1>1. ASSUME NEW t \in Thread, Acquire(t) PROVE NoLostWakeup'
  <2>1. /\ UNCHANGED requested
        /\ \E label \in {"check", "test"} : pc' = [pc EXCEPT ![t] = label]
        /\ pc[t] \notin {"unlock", "notify"}
    BY <1>1 DEF Acquire, Lock, Goto
  <2> QED
    BY <2>1, <1>0
<1>2. ASSUME NEW c \in Canceller, CallRequest(c) \/ Check(c)
      PROVE  NoLostWakeup'
  <2>1. UNCHANGED requested
    BY <1>2 DEF CallRequest, Check, flag, Load, Call
  <2>2. /\ \E label \in {"lock", "decline", "store"} :
             pc' = [pc EXCEPT ![c] = label]
        /\ pc[c] \in {"idle", "check"}
    BY <1>2 DEF CallRequest, Check, Goto, Call
  <2> QED
    BY <2>1, <2>2, <1>0
<1>3. ASSUME NEW c \in Canceller, Decline(c) \/ Release(c) PROVE NoLostWakeup'
  <2>1. UNCHANGED requested
    BY <1>3 DEF Decline, Release, Unlock
  <2>2. \/ pc[c] = "decline" /\ pc' = [pc EXCEPT ![c] = "idle"]
        \/ pc[c] = "unlock" /\ pc' = [pc EXCEPT ![c] = "notify"]
    BY <1>3 DEF Decline, Release, Goto
  <2> QED
    BY <2>1, <2>2, <1>0
<1>4. ASSUME NEW c \in Canceller, Store(c) PROVE NoLostWakeup'
  <2>1. pc' = [pc EXCEPT ![c] = "unlock"]
    BY <1>4 DEF Store, Goto
  <2> QED
    BY <2>1
<1>5. ASSUME NEW c \in Canceller, NotifyAll(c) PROVE NoLostWakeup'
  <2>1. \A o \in Observer : pc'[o] # "blocked"
    BY <1>5 DEF NotifyAll
  <2> QED
    BY <2>1
<1>6. ASSUME NEW o \in Observer, Query(o) PROVE NoLostWakeup'
  <2>1. UNCHANGED <<requested, pc>>
    BY <1>6 DEF Query, Load
  <2> QED
    BY <2>1
<1>7. ASSUME NEW o \in Observer, CallWait(o) \/ Test(o) PROVE NoLostWakeup'
  <2>1. UNCHANGED requested
    BY <1>7 DEF CallWait, flag, Call, Test, Load
  <2>2. /\ \E label \in {"lock", "park", "return"} :
             pc' = [pc EXCEPT ![o] = label]
        /\ pc[o] \in {"idle", "test"}
    BY <1>7 DEF CallWait, Call, Test, Goto
  <2> QED
    BY <2>1, <2>2, <1>0
<1>8. ASSUME NEW o \in Observer, Return(o) \/ Park(o) PROVE NoLostWakeup'
  <2>1. UNCHANGED requested
    BY <1>8 DEF Return, Park, Unlock
  <2>2. \/ pc[o] = "return" /\ pc' = [pc EXCEPT ![o] = "idle"]
        \/ pc[o] = "park" /\ pc' = [pc EXCEPT ![o] = "blocked"]
    BY <1>8 DEF Return, Park, Goto
  <2>3. pc[o] = "park" => ~requested
    BY DEF FlagInv
  <2> QED
    BY <2>1, <2>2, <2>3, <1>0
<1>9. ASSUME NEW o \in Observer, Spurious(o) \/ Timeout(o) PROVE NoLostWakeup'
  <2>1. /\ UNCHANGED requested
        /\ pc' = [pc EXCEPT ![o] = "woken"]
        /\ pc[o] \in {"blocked", "woken"}
    BY <1>9 DEF Spurious, Timeout, flag, Goto
  <2> QED
    BY <2>1, <1>0
<1>10. ASSUME NEW o \in Observer,
             TakeToken(o) \/ DropToken(o)
      PROVE  NoLostWakeup'
  BY <1>10 DEF TakeToken, DropToken, flag
<1>11. CASE DropSource \/ UNCHANGED vars
  BY <1>11 DEF DropSource, vars, flag
<1> QED
  BY <1>1, <1>2, <1>3, <1>4, <1>5, <1>6, <1>7, <1>8, <1>9, <1>10, <1>11
     DEF Next, CancellerStep, ObserverStep

----------------------------------------------------------------------------
(* Inv is inductive. *)
LEMMA InvStep == Inv /\ [Next]_vars => Inv'
  BY TypeStep, LockStep, FlagStep, GrantStep, AnswerStep, HandleStep, WakeStep
  DEF Inv

LEMMA InvAlways == Spec => []Inv
  BY InvInit, InvStep, PTL DEF Spec

(* Over any number of threads and calls, the fields keep their types and    *)
(* request_cancellation() returns true at most once.                        *)
THEOREM TypeCorrect == Spec => []TypeOK
<1>1. Inv => TypeOK
  BY DEF Inv
<1> QED
  BY <1>1, InvAlways, PTL

(* The mutex is held by exactly the thread in a critical section of         *)
(* request_cancellation(), wait() or wait_for().                            *)
THEOREM LockIsDisciplined == Spec => []LockDiscipline
<1>1. Inv => LockDiscipline
  BY DEF Inv
<1> QED
  BY <1>1, InvAlways, PTL

(* A waiter blocked on a raised signal has a notify_all() still to come.    *)
THEOREM WakeupsAreNotLost == Spec => []NoLostWakeup
<1>1. Inv => NoLostWakeup
  BY DEF Inv
<1> QED
  BY <1>1, InvAlways, PTL

(* A thread told "yes" sees what was written before the cancellation.       *)
THEOREM YesPublishes == Spec => []YesIsPublished
<1>1. Inv => YesIsPublished
  BY DEF Inv
<1> QED
  BY <1>1, InvAlways, PTL

(* The shared state outlives every member function that runs on it.         *)
THEOREM StateOutlivesCalls == Spec => []NoUseAfterFree
<1>1. Inv => NoUseAfterFree
  BY DEF Inv, HandleInv, NoUseAfterFree, Thread
<1> QED
  BY <1>1, InvAlways, PTL

(* A wait_for() that returns false read the flag down at its last look.     *)
THEOREM ExpiryLosesNoRace == Spec => ExpiryIsDecidedUnderLock
<1>1. ASSUME Inv, [Next]_vars, NEW o \in Observer,
             pc[o] = "test", pc'[o] = "return", answer'[o] = "no"
      PROVE  ~requested
  <2> USE ThreadsAssumption DEF Inv, TypeOK, Thread
  <2>1. mutex = o
    BY <1>1 DEF LockDiscipline, Critical
  <2>2. Test(o)
    <3> USE <1>1
    <3>1. ASSUME NEW t \in Thread, Acquire(t) PROVE FALSE
      BY <3>1 DEF Acquire, Goto
    <3>2. ASSUME NEW c \in Canceller,
                 CallRequest(c) \/ Check(c) \/ Decline(c) PROVE FALSE
      BY <3>2 DEF CallRequest, Call, Check, Decline, Goto
    <3>3. ASSUME NEW c \in Canceller,
                 Store(c) \/ Release(c) \/ NotifyAll(c) PROVE FALSE
      BY <3>3 DEF Store, Release, NotifyAll, Blocked, Goto
    <3>4. ASSUME NEW p \in Observer, p # o, Test(p) PROVE FALSE
      BY <3>4 DEF Test, Goto
    <3>5. ASSUME NEW p \in Observer,
                 Query(p) \/ CallWait(p) \/ Return(p) \/ Park(p) PROVE FALSE
      BY <3>5 DEF Query, CallWait, Call, Return, Park, Goto
    <3>6. ASSUME NEW p \in Observer,
                 \/ Spurious(p) \/ Timeout(p)
                 \/ TakeToken(p) \/ DropToken(p) PROVE FALSE
      BY <3>6 DEF Spurious, Timeout, TakeToken, DropToken, Goto
    <3>7. CASE DropSource \/ UNCHANGED vars
      BY <3>7 DEF DropSource, vars
    <3> QED
      BY <3>1, <3>2, <3>3, <3>4, <3>5, <3>6, <3>7
      DEF Next, CancellerStep, ObserverStep
  <2>3. PICK v \in BOOLEAN : Load(o, v, WaitOrder) /\ answer'[o] = Reply(v)
    BY <1>1, <2>2 DEF Test, Goto
  <2> QED
    BY <1>1, <2>1, <2>3, LoadFacts DEF Reply
<1>2. Inv /\ [Next]_vars =>
        [\A o \in Observer :
           pc[o] = "test" /\ pc'[o] = "return" /\ answer'[o] = "no"
             => ~requested]_vars
  BY <1>1
<1> QED
  BY <1>2, InvAlways, PTL DEF Spec, ExpiryIsDecidedUnderLock

----------------------------------------------------------------------------
(* The refinement: each step is one step of the abstract signal, or none. *)

LEMMA LatchInit == Init => Latch!Init
<1> SUFFICES ASSUME Init PROVE Latch!Init
  OBVIOUS
<1>1. waiting = [o \in Observer |-> "out"]
  BY DEF Init, waiting, Thread
<1> QED
  BY <1>1 DEF Init, Latch!Init

(* The store is the transition, and only the first store is one. *)
LEMMA StoreIsSignal ==
  ASSUME Inv, NEW c \in Canceller, Store(c)
  PROVE  Latch!Signal
<1> USE ThreadsAssumption DEF Inv, TypeOK, Thread
<1>1. ~requested /\ requested' = TRUE
  BY DEF FlagInv, Store
<1>2. UNCHANGED <<granted, answer>>
  BY DEF Store
<1>3. UNCHANGED waiting
  BY DEF Store, Goto, waiting
<1> QED
  BY <1>1, <1>2, <1>3 DEF Latch!Signal

(* notify_all() is where the transition is answered with its one true. *)
LEMMA NotifyIsGrant ==
  ASSUME Inv, NEW c \in Canceller, NotifyAll(c)
  PROVE  Latch!Grant
<1> USE ThreadsAssumption DEF Inv, TypeOK, Thread
<1>1. requested /\ granted = 0 /\ granted' = 1
  BY DEF GrantInv, Owed, NotifyAll
<1>2. UNCHANGED <<requested, answer>>
  BY DEF NotifyAll, flag
<1>3. UNCHANGED waiting
  BY DEF NotifyAll, Blocked, waiting
<1> QED
  BY <1>1, <1>2, <1>3 DEF Latch!Grant

(* A load that answers an observer answers within its rights. *)
LEMMA LoadMayAnswer ==
  ASSUME Inv, NEW o \in Observer, NEW v \in BOOLEAN, NEW order, Load(o, v, order)
  PROVE  Latch!MayAnswer(o, Reply(v))
<1>1. CASE v
  BY <1>1, LoadFacts DEF Inv, Thread, Reply, Latch!MayAnswer
<1>2. CASE ~v
  BY <1>2 DEF Inv, AnswerInv, Load, Reads, Reply, Latch!MayAnswer
<1> QED
  BY <1>1, <1>2

(* A query is a question asked of the abstract signal. *)
LEMMA QueryIsAsk ==
  ASSUME Inv, NEW o \in Observer, Query(o)
  PROVE  Latch!Ask(o)
<1> USE ThreadsAssumption DEF Inv, TypeOK, Thread
<1>1. PICK v \in BOOLEAN :
        /\ Load(o, v, QueryOrder)
        /\ answer' = [answer EXCEPT ![o] = Reply(v)]
  BY DEF Query
<1>2. waiting[o] = "out" /\ UNCHANGED <<requested, granted, waiting>>
  BY <1>1 DEF Query, Load, waiting
<1>3. Latch!MayAnswer(o, Reply(v)) /\ Reply(v) \in {"yes", "no"}
  BY <1>1, LoadMayAnswer DEF Reply
<1> QED
  BY <1>1, <1>2, <1>3 DEF Latch!Ask

(* wait() and wait_for() enter the wait of their kind. *)
LEMMA CallIsEnter ==
  ASSUME Inv, NEW o \in Observer, CallWait(o)
  PROVE  \E w \in Latch!Waits : Latch!Enter(o, w)
<1> USE ThreadsAssumption DEF Inv, TypeOK, Thread
<1>1. PICK m \in {"wait", "timed"} : mode' = [mode EXCEPT ![o] = m]
  BY DEF CallWait
<1>2. waiting[o] = "out" /\ waiting' = [waiting EXCEPT ![o] = m]
  BY <1>1 DEF CallWait, Call, Goto, waiting
<1>3. UNCHANGED <<requested, granted, answer>>
  BY DEF CallWait, Call, flag
<1> QED
  BY <1>2, <1>3 DEF Latch!Waits, Latch!Enter

(* The look at the flag that ends a wait leaves it; any other look does not. *)
LEMMA TestIsLeave ==
  ASSUME Inv, NEW o \in Observer, Test(o)
  PROVE  Latch!Leave(o) \/ UNCHANGED Latch!vars
<1> USE ThreadsAssumption DEF Inv, TypeOK, Thread
<1>1. PICK v \in BOOLEAN :
        /\ Load(o, v, WaitOrder)
        /\ IF v \/ mode[o] = "expired"
             THEN /\ answer' = [answer EXCEPT ![o] = Reply(v)]
                  /\ Goto(o, "return")
             ELSE /\ Goto(o, "park")
                  /\ UNCHANGED answer
  BY DEF Test
<1>2. UNCHANGED <<requested, granted, mode>> /\ pc[o] = "test" /\ mutex = o
  BY <1>1 DEF Test, Load, LockDiscipline, Critical
<1>3. CASE v \/ mode[o] = "expired"
  <2>1. answer' = [answer EXCEPT ![o] = Reply(v)] /\ Goto(o, "return")
    BY <1>1, <1>3
  <2>2. waiting[o] # "out" /\ waiting' = [waiting EXCEPT ![o] = "out"]
    BY <1>2, <2>1 DEF waiting, Goto
  <2>3. ~v => waiting[o] = "timed" /\ ~requested
    BY <1>1, <1>2, <1>3, LoadFacts DEF waiting
  <2>4. /\ Latch!MayAnswer(o, Reply(v))
        /\ Reply(v) \in {"yes", "no"}
        /\ Reply(v) = "no" => ~v
    BY <1>1, LoadMayAnswer DEF Reply
  <2> QED
    BY <1>2, <2>1, <2>2, <2>3, <2>4 DEF Latch!Leave
<1>4. CASE ~(v \/ mode[o] = "expired")
  <2>1. Goto(o, "park") /\ UNCHANGED answer
    BY <1>1, <1>4
  <2>2. UNCHANGED waiting
    BY <1>2, <2>1 DEF waiting, Goto
  <2> QED
    BY <1>2, <2>1, <2>2 DEF Latch!vars
<1> QED
  BY <1>3, <1>4

(* Locking, unlocking, parking, waking and handles are invisible. *)
LEMMA QuietSteps ==
  ASSUME Inv, [Next]_vars,
         \A c \in Canceller : ~Store(c) /\ ~NotifyAll(c),
         \A o \in Observer : ~Query(o) /\ ~CallWait(o) /\ ~Test(o)
  PROVE  UNCHANGED Latch!vars
<1> USE ThreadsAssumption DEF Inv, TypeOK, Thread, waiting, Latch!vars,
        flag, handles, budget, Lock, Unlock, Goto, Call
<1>1. ASSUME NEW t \in Thread, Acquire(t) PROVE UNCHANGED Latch!vars
  BY <1>1 DEF Acquire, ObserverLabels, CancellerLabels
<1>2. ASSUME NEW c \in Canceller, CallRequest(c) PROVE UNCHANGED Latch!vars
  BY <1>2 DEF CallRequest
<1>3. ASSUME NEW c \in Canceller, Check(c) PROVE UNCHANGED Latch!vars
  BY <1>3 DEF Check, Load
<1>4. ASSUME NEW c \in Canceller, Decline(c) \/ Release(c)
      PROVE  UNCHANGED Latch!vars
  BY <1>4 DEF Decline, Release
<1>5. ASSUME NEW o \in Observer, Return(o) \/ Park(o)
      PROVE  UNCHANGED Latch!vars
  BY <1>5 DEF Return, Park
<1>6. ASSUME NEW o \in Observer, Spurious(o) \/ Timeout(o)
      PROVE  UNCHANGED Latch!vars
  BY <1>6 DEF Spurious, Timeout
<1>7. ASSUME NEW o \in Observer, TakeToken(o) \/ DropToken(o)
      PROVE  UNCHANGED Latch!vars
  BY <1>7 DEF TakeToken, DropToken
<1>8. CASE DropSource \/ UNCHANGED vars
  BY <1>8 DEF DropSource, vars
<1> QED
  BY <1>1, <1>2, <1>3, <1>4, <1>5, <1>6, <1>7, <1>8
  DEF Next, CancellerStep, ObserverStep

(* cancellation_state, with its mutex, condition variable and memory        *)
(* orders, implements the one-shot signal.                                  *)
THEOREM StateImplementsLatch == Spec => ImplementsLatchSafely
<1>1. Inv /\ [Next]_vars => [Latch!Next]_(Latch!vars)
  <2> SUFFICES ASSUME Inv, [Next]_vars
               PROVE  Latch!Next \/ UNCHANGED Latch!vars
    OBVIOUS
  <2>1. ASSUME NEW c \in Canceller, Store(c) PROVE Latch!Next
    BY <2>1, StoreIsSignal DEF Latch!Next
  <2>2. ASSUME NEW c \in Canceller, NotifyAll(c) PROVE Latch!Next
    BY <2>2, NotifyIsGrant DEF Latch!Next
  <2>3. ASSUME NEW o \in Observer, Query(o) PROVE Latch!Next
    BY <2>3, QueryIsAsk DEF Latch!Next
  <2>4. ASSUME NEW o \in Observer, CallWait(o) PROVE Latch!Next
    BY <2>4, CallIsEnter DEF Latch!Next
  <2>5. ASSUME NEW o \in Observer, Test(o)
        PROVE  Latch!Next \/ UNCHANGED Latch!vars
    BY <2>5, TestIsLeave DEF Latch!Next
  <2> QED
    BY <2>1, <2>2, <2>3, <2>4, <2>5, QuietSteps
<1> QED
  BY <1>1, LatchInit, InvAlways, PTL
  DEF Spec, ImplementsLatchSafely, Latch!Safety
=============================================================================

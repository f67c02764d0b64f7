---------------------------- MODULE Cancellation ----------------------------
(***************************************************************************)
(* One cancellation_state shared by the cancellation_source that owns it   *)
(* and by copies of its token (src/control.cpp): an atomic flag, a mutex   *)
(* and a condition variable, driven by any number of threads.  A step is   *)
(* one access to the flag, the mutex or the condition variable.            *)
(*                                                                         *)
(* The flag is written at most once, so the C++ memory model reduces to    *)
(* two sets of places, threads and the mutex itself:                       *)
(*   sees    places after the store in happens-before or coherence order:  *)
(*           a load there must return true; elsewhere it may be stale;     *)
(*   synced  places the store happens before: everything the cancelling    *)
(*           thread wrote before it cancelled is visible there.            *)
(* Taking the mutex imports what its last holder published in it.          *)
(***************************************************************************)
EXTENDS Naturals

CONSTANTS
  Canceller,     \* threads that call request_cancellation() on the source
  Observer,      \* threads that may hold a copy of the token
  Mutex,         \* the mutex as a place that carries visibility
  NoThread,      \* the holder of a free mutex
  MaxCalls,      \* bound: blocking or locking calls per thread
  MaxSpurious    \* bound: spurious wake-ups of the condition variable

Thread == Canceller \cup Observer

ASSUME ThreadsAssumption ==
  /\ Canceller \cap Observer = {}
  /\ Mutex \notin Thread
  /\ NoThread \notin Thread

ASSUME BoundsAssumption == MaxCalls \in Nat /\ MaxSpurious \in Nat

VARIABLES
  requested,     \* cancellation_state::requested
  mutex,         \* the thread that holds cancellation_state::mutex
  sees, synced,  \* what each place knows of the store (see above)
  pc,            \* where each thread is inside a member function
  mode,          \* the wait an observer is in, and whether its time is over
  answer,        \* the last value a query or a wait returned
  granted,       \* calls of request_cancellation() that returned true
  source,        \* the source handle is alive
  tokens,        \* observers that hold a token handle
  freed,         \* the last handle is gone, the state is destroyed
  calls,         \* calls made so far by each thread
  spurious       \* spurious wake-ups so far

flag == <<requested, sees, synced>>
handles == <<source, tokens, freed>>
budget == <<calls, spurious>>
vars == <<flag, mutex, pc, mode, answer, granted, handles, budget>>

----------------------------------------------------------------------------
(* Mutant of StoreOrder: the store publishes nothing. *)
StoreOrderWeak == "relaxed"

(* The memory orders of the accesses to the flag in src/control.cpp. *)
StoreOrder == "release"
CheckOrder == "relaxed"
QueryOrder == "acquire"
WaitOrder  == "acquire"

(* The values a load by t may return. *)
Reads(t) == IF t \in sees THEN {TRUE} ELSE {FALSE, requested}

(* A load by t returned v. *)
Load(t, v, order) ==
  /\ v \in Reads(t)
  /\ sees' = IF v THEN sees \cup {t} ELSE sees
  /\ synced' = IF v /\ order = "acquire" /\ StoreOrder = "release"
                 THEN synced \cup {t} ELSE synced
  /\ UNCHANGED requested

(* Knowledge passes from one place to another. *)
Flow(from, to, places) == IF from \in places THEN places \cup {to} ELSE places

Goto(t, label) == pc' = [pc EXCEPT ![t] = label]

Lock(t) ==
  /\ mutex = NoThread
  /\ mutex' = t
  /\ sees' = Flow(Mutex, t, sees)
  /\ synced' = Flow(Mutex, t, synced)
  /\ UNCHANGED requested

Unlock(t) ==
  /\ mutex' = NoThread
  /\ sees' = Flow(t, Mutex, sees)
  /\ synced' = Flow(t, Mutex, synced)
  /\ UNCHANGED requested

(* A thread starts a call that locks the mutex. *)
Call(t) ==
  /\ pc[t] = "idle"
  /\ calls[t] < MaxCalls
  /\ Goto(t, "lock")
  /\ calls' = [calls EXCEPT ![t] = @ + 1]
  /\ UNCHANGED <<flag, mutex, answer, granted, handles, spurious>>

(* lock_guard and unique_lock, and the relocking of a woken waiter. *)
Acquire(t) ==
  /\ pc[t] \in {"lock", "woken"}
  /\ Lock(t)
  /\ Goto(t, IF t \in Canceller THEN "check" ELSE "test")
  /\ UNCHANGED <<mode, answer, granted, handles, budget>>

----------------------------------------------------------------------------
(* cancellation_source::request_cancellation() *)

CallRequest(c) == source /\ Call(c) /\ UNCHANGED mode

(* Mutant of Check: every call makes the transition. *)
CheckSkipped(c) ==
  /\ pc[c] = "check"
  /\ Goto(c, "store")
  /\ UNCHANGED <<flag, mutex, mode, answer, granted, handles, budget>>

(* The check under the lock decides whether this call makes the transition. *)
Check(c) ==
  /\ pc[c] = "check"
  /\ \E v \in BOOLEAN :
       /\ Load(c, v, CheckOrder)
       /\ Goto(c, IF v THEN "decline" ELSE "store")
  /\ UNCHANGED <<mutex, mode, answer, granted, handles, budget>>

(* Mutant of Decline: the early return leaves the mutex locked. *)
DeclineLocked(c) ==
  /\ pc[c] = "decline"
  /\ Goto(c, "idle")
  /\ UNCHANGED <<flag, mutex, mode, answer, granted, handles, budget>>

(* The call lost: unlock and return false. *)
Decline(c) ==
  /\ pc[c] = "decline"
  /\ Unlock(c)
  /\ Goto(c, "idle")
  /\ UNCHANGED <<mode, answer, granted, handles, budget>>

Store(c) ==
  /\ pc[c] = "store"
  /\ requested' = TRUE
  /\ sees' = sees \cup {c}
  /\ synced' = synced \cup {c}
  /\ Goto(c, "unlock")
  /\ UNCHANGED <<mutex, mode, answer, granted, handles, budget>>

Release(c) ==
  /\ pc[c] = "unlock"
  /\ Unlock(c)
  /\ Goto(c, "notify")
  /\ UNCHANGED <<mode, answer, granted, handles, budget>>

Blocked == {o \in Observer : pc[o] = "blocked"}

(* Mutants of NotifyAll: only one waiter is woken; nobody is. *)
NotifyOne(c) ==
  /\ pc[c] = "notify"
  /\ \E woken \in IF Blocked = {} THEN {c} ELSE Blocked :
       pc' = [pc EXCEPT ![woken] = "woken", ![c] = "idle"]
  /\ granted' = granted + 1
  /\ UNCHANGED <<flag, mutex, mode, answer, handles, budget>>

NotifyNobody(c) ==
  /\ pc[c] = "notify"
  /\ Goto(c, "idle")
  /\ granted' = granted + 1
  /\ UNCHANGED <<flag, mutex, mode, answer, handles, budget>>

(* Wake everybody, without the lock, and return true. *)
NotifyAll(c) ==
  /\ pc[c] = "notify"
  /\ pc' = [t \in Thread |-> IF t = c THEN "idle"
                             ELSE IF t \in Blocked THEN "woken" ELSE pc[t]]
  /\ granted' = granted + 1
  /\ UNCHANGED <<flag, mutex, mode, answer, handles, budget>>

----------------------------------------------------------------------------
(* cancellation_token: cancellation_requested(), wait() and wait_for() *)

Reply(v) == IF v THEN "yes" ELSE "no"

(* The lock-free load; also wait_for() with a timeout that is not positive. *)
Query(o) ==
  /\ o \in tokens
  /\ pc[o] = "idle"
  /\ \E v \in BOOLEAN :
       /\ Load(o, v, QueryOrder)
       /\ answer' = [answer EXCEPT ![o] = Reply(v)]
  /\ UNCHANGED <<mutex, pc, mode, granted, handles, budget>>

CallWait(o) ==
  /\ o \in tokens
  /\ Call(o)
  /\ \E m \in {"wait", "timed"} : mode' = [mode EXCEPT ![o] = m]

(* Mutant of Test: running out of time is the answer, the flag is not asked. *)
TestStatus(o) ==
  /\ pc[o] = "test"
  /\ IF mode[o] = "expired"
       THEN /\ answer' = [answer EXCEPT ![o] = "no"]
            /\ Goto(o, "return")
            /\ UNCHANGED flag
       ELSE \E v \in BOOLEAN :
              /\ Load(o, v, WaitOrder)
              /\ answer' = IF v THEN [answer EXCEPT ![o] = "yes"] ELSE answer
              /\ Goto(o, IF v THEN "return" ELSE "park")
  /\ UNCHANGED <<mutex, mode, granted, handles, budget>>

(* The wait predicate, evaluated under the lock: first on entry, then after *)
(* every wake-up, and a last time when wait_for() ran out of time.          *)
Test(o) ==
  /\ pc[o] = "test"
  /\ \E v \in BOOLEAN :
       /\ Load(o, v, WaitOrder)
       /\ IF v \/ mode[o] = "expired"
            THEN /\ answer' = [answer EXCEPT ![o] = Reply(v)]
                 /\ Goto(o, "return")
            ELSE /\ Goto(o, "park")
                 /\ UNCHANGED answer
  /\ UNCHANGED <<mutex, mode, granted, handles, budget>>

Return(o) ==
  /\ pc[o] = "return"
  /\ Unlock(o)
  /\ Goto(o, "idle")
  /\ UNCHANGED <<mode, answer, granted, handles, budget>>

(* The condition variable unlocks and blocks in one step. *)
Park(o) ==
  /\ pc[o] = "park"
  /\ Unlock(o)
  /\ Goto(o, "blocked")
  /\ UNCHANGED <<mode, answer, granted, handles, budget>>

Spurious(o) ==
  /\ pc[o] = "blocked"
  /\ spurious < MaxSpurious
  /\ spurious' = spurious + 1
  /\ Goto(o, "woken")
  /\ UNCHANGED <<flag, mutex, mode, answer, granted, handles, calls>>

(* Mutant of Timeout: wait() is a wait_for() with a long timeout. *)
TimeoutAlways(o) ==
  /\ pc[o] \in {"blocked", "woken"}
  /\ mode[o] # "expired"
  /\ mode' = [mode EXCEPT ![o] = "expired"]
  /\ Goto(o, "woken")
  /\ UNCHANGED <<flag, mutex, answer, granted, handles, budget>>

(* The deadline passes, before or after a notification woke the waiter. *)
Timeout(o) ==
  /\ pc[o] \in {"blocked", "woken"}
  /\ mode[o] = "timed"
  /\ mode' = [mode EXCEPT ![o] = "expired"]
  /\ Goto(o, "woken")
  /\ UNCHANGED <<flag, mutex, answer, granted, handles, budget>>

----------------------------------------------------------------------------
(* Handles: the state lives in a shared_ptr of the source and each token.   *)
(* Callers do not destroy a handle that is inside one of its own members.   *)

TakeToken(o) ==
  /\ o \notin tokens
  /\ source \/ tokens # {}       \* source.token(), or a copy of a token
  /\ tokens' = tokens \cup {o}
  /\ UNCHANGED <<flag, mutex, pc, mode, answer, granted, source, freed, budget>>

DropToken(o) ==
  /\ o \in tokens
  /\ pc[o] = "idle"
  /\ tokens' = tokens \ {o}
  /\ freed' = (~source /\ tokens' = {})
  /\ UNCHANGED <<flag, mutex, pc, mode, answer, granted, source, budget>>

(* Mutant of DropSource: the source owns the state, tokens only refer to it. *)
DropSourceOwning ==
  /\ source
  /\ \A c \in Canceller : pc[c] = "idle"
  /\ source' = FALSE
  /\ freed' = TRUE
  /\ UNCHANGED <<flag, mutex, pc, mode, answer, granted, tokens, budget>>

DropSource ==
  /\ source
  /\ \A c \in Canceller : pc[c] = "idle"
  /\ source' = FALSE
  /\ freed' = (tokens = {})
  /\ UNCHANGED <<flag, mutex, pc, mode, answer, granted, tokens, budget>>

----------------------------------------------------------------------------
Init ==
  /\ requested = FALSE
  /\ mutex = NoThread
  /\ sees = {}
  /\ synced = {}
  /\ pc = [t \in Thread |-> "idle"]
  /\ mode = [o \in Observer |-> "wait"]
  /\ answer = [o \in Observer |-> "none"]
  /\ granted = 0
  /\ source = TRUE
  /\ tokens = {}
  /\ freed = FALSE
  /\ calls = [t \in Thread |-> 0]
  /\ spurious = 0

(* What a thread does on its own once it is inside a member function. *)
CancellerStep(c) == Check(c) \/ Decline(c) \/ Store(c) \/ Release(c) \/ NotifyAll(c)
ObserverStep(o) == Test(o) \/ Park(o) \/ Return(o)

Next ==
  \/ \E t \in Thread : Acquire(t)
  \/ \E c \in Canceller : CallRequest(c) \/ CancellerStep(c)
  \/ \E o \in Observer :
       \/ Query(o) \/ CallWait(o) \/ ObserverStep(o)
       \/ Spurious(o) \/ Timeout(o)
       \/ TakeToken(o) \/ DropToken(o)
  \/ DropSource

(***************************************************************************)
(* Threads inside a member function keep running, deadlines pass, and the  *)
(* mutex is granted to a thread that finds it free for good.  Nobody has   *)
(* to cancel, to call, or to be woken spuriously.                          *)
(***************************************************************************)
Fairness ==
  /\ \A t \in Thread : WF_vars(Acquire(t))
  /\ \A c \in Canceller : WF_vars(CancellerStep(c))
  /\ \A o \in Observer : WF_vars(ObserverStep(o)) /\ WF_vars(Timeout(o))

Spec == Init /\ [][Next]_vars

FairSpec == Spec /\ Fairness

----------------------------------------------------------------------------
CancellerLabels ==
  {"idle", "lock", "check", "decline", "store", "unlock", "notify"}
ObserverLabels ==
  {"idle", "lock", "test", "park", "return", "blocked", "woken"}
Critical == {"check", "decline", "store", "unlock", "test", "park", "return"}

(***************************************************************************)
(* Type invariant.  granted \in 0..1 is the one-shot promise: over all     *)
(* threads, request_cancellation() returns true at most once.              *)
(***************************************************************************)
TypeOK ==
  /\ requested \in BOOLEAN
  /\ mutex \in Thread \cup {NoThread}
  /\ sees \subseteq Thread \cup {Mutex}
  /\ synced \subseteq Thread \cup {Mutex}
  /\ pc \in [Thread -> CancellerLabels \cup ObserverLabels]
  /\ \A c \in Canceller : pc[c] \in CancellerLabels
  /\ \A o \in Observer : pc[o] \in ObserverLabels
  /\ mode \in [Observer -> {"wait", "timed", "expired"}]
  /\ answer \in [Observer -> {"none", "no", "yes"}]
  /\ granted \in 0..1
  /\ source \in BOOLEAN
  /\ tokens \subseteq Observer
  /\ freed \in BOOLEAN
  /\ calls \in [Thread -> 0..MaxCalls]
  /\ spurious \in 0..MaxSpurious

(* The mutex is held exactly by the one thread in a critical section: no    *)
(* return path of request_cancellation(), wait() or wait_for() leaks it,    *)
(* and no blocked waiter owns it.                                           *)
LockDiscipline == \A t \in Thread : mutex = t <=> pc[t] \in Critical

(* No lost wake-up: while a waiter is blocked although the signal is        *)
(* raised, the thread that raised it has yet to call notify_all().          *)
NoLostWakeup ==
  requested /\ Blocked # {} => \E c \in Canceller : pc[c] \in {"unlock", "notify"}

(* Publication: a thread that was told "yes" sees everything the cancelling *)
(* thread wrote before it called request_cancellation().                    *)
YesIsPublished == \A o \in Observer : answer[o] = "yes" => o \in synced

(* The state outlives every member function that runs on it, also when the  *)
(* source is gone while waiters are still blocked.                          *)
NoUseAfterFree ==
  freed => tokens = {} /\ ~source /\ \A t \in Thread : pc[t] = "idle"

(* A wait_for() whose time is over loses no race: it returns false only if  *)
(* the flag is still down at its last look.                                 *)
ExpiryIsDecidedUnderLock ==
  [][\A o \in Observer :
       pc[o] = "test" /\ pc'[o] = "return" /\ answer'[o] = "no" => ~requested]_vars

(* The mapping to the abstract signal: an observer waits from the call to   *)
(* the look at the flag that decides its answer.                            *)
waiting ==
  [o \in Observer |->
     IF pc[o] \in {"idle", "return"} THEN "out"
     ELSE IF mode[o] = "wait" THEN "wait" ELSE "timed"]

Latch == INSTANCE CancelLatch WITH signalled <- requested

(* Every step of the flag, the mutex and the condition variable is a step   *)
(* of the abstract signal or a stutter: one transition, one true, "yes"     *)
(* only after it and never "no" again, no wait that ends without it.        *)
ImplementsLatchSafely == Latch!Safety

(* This implementation keeps the promises of CancelLatch: safety, and under *)
(* Fairness that every wait ends after the transition, every wait_for()     *)
(* ends, and the call that made the transition returns true.                *)
ImplementsLatch == Latch!Spec
=============================================================================

------------------------------ MODULE Semaphore ------------------------------
(***************************************************************************)
(* The counting semaphore of src/framework/tpool/semaphore.cpp: a counter  *)
(* under a mutex, and a condition variable for the threads that found it   *)
(* at 0.                                                                   *)
(*                                                                         *)
(* Each call is the sequence of its lock steps.  A thread's place in a     *)
(* call is semPc:                                                          *)
(*                                                                         *)
(*    post() : "out" -> "post" -> "notify" -> "out"                        *)
(*    wait() : "out" -> "wait" -> "test" -> "out"                          *)
(*                                  "test" -> "sleep" -> "wait"            *)
(*                                                                         *)
(* A thread in "post" or "wait" has yet to acquire m_mutex, one in         *)
(* "notify" or "test" holds it, one in "sleep" is blocked in m_cv.wait,    *)
(* which released m_mutex.  The threads m_cv would wake are Sleepers.      *)
(***************************************************************************)
EXTENDS Naturals, FiniteSets

CONSTANTS Threads,     \* the threads that call post and wait
          NoThread     \* owner of a mutex nobody holds

ASSUME SemaphoreAssumption ==
  /\ IsFiniteSet(Threads)
  /\ NoThread \notin Threads

VARIABLES m_val,     \* the counter
          m_mutex,   \* the thread that holds the mutex, or NoThread
          semPc      \* where each thread is in post() or wait()

semVars == <<m_val, m_mutex, semPc>>

SemPlaces == {"out", "post", "notify", "wait", "test", "sleep"}

Sleepers == {t \in Threads : semPc[t] = "sleep"}

\* Threads inside wait() that are awake, and will look at m_val.
Takers == {t \in Threads : semPc[t] \in {"wait", "test"}}

\* The default constructor, the only one the program calls (tpool.hpp:24).
SemInit ==
  /\ m_val = 0
  /\ m_mutex = NoThread
  /\ semPc = [t \in Threads |-> "out"]

-----------------------------------------------------------------------------
(***************************************************************************)
(* Semaphore::post.                                                        *)
(***************************************************************************)
PostCall(t) ==
  /\ semPc[t] = "out"
  /\ semPc' = [semPc EXCEPT ![t] = "post"]
  /\ UNCHANGED <<m_val, m_mutex>>

PostLock(t) ==
  /\ semPc[t] = "post"
  /\ m_mutex = NoThread
  /\ m_mutex' = t
  /\ semPc' = [semPc EXCEPT ![t] = "notify"]
  /\ UNCHANGED m_val

\* notify_one: one sleeper, whichever, has to get the mutex again; none if
\* nobody sleeps.  pcs is semPc with the poster's own place updated.
NotifyOne(pcs) ==
  \/ Sleepers = {} /\ semPc' = pcs
  \/ \E w \in Sleepers : semPc' = [pcs EXCEPT ![w] = "wait"]

\* Post that notifies only when m_val was 0.
PostNotifyAtZero(t) ==
  /\ semPc[t] = "notify"
  /\ m_val' = m_val + 1
  /\ LET pcs == [semPc EXCEPT ![t] = "out"]
     IN  IF m_val = 0 THEN NotifyOne(pcs) ELSE semPc' = pcs
  /\ m_mutex' = NoThread

\* Post that does not notify.
PostUnnotified(t) ==
  /\ semPc[t] = "notify"
  /\ m_val' = m_val + 1
  /\ semPc' = [semPc EXCEPT ![t] = "out"]
  /\ m_mutex' = NoThread

\* The critical section and the release of the lock_guard.
Post(t) ==
  /\ semPc[t] = "notify"
  /\ m_val' = m_val + 1
  /\ NotifyOne([semPc EXCEPT ![t] = "out"])
  /\ m_mutex' = NoThread

-----------------------------------------------------------------------------
(***************************************************************************)
(* Semaphore::wait.                                                        *)
(***************************************************************************)
WaitCall(t) ==
  /\ semPc[t] = "out"
  /\ semPc' = [semPc EXCEPT ![t] = "wait"]
  /\ UNCHANGED <<m_val, m_mutex>>

\* The unique_lock, or its reacquisition when m_cv.wait returns.
WaitLock(t) ==
  /\ semPc[t] = "wait"
  /\ m_mutex = NoThread
  /\ m_mutex' = t
  /\ semPc' = [semPc EXCEPT ![t] = "test"]
  /\ UNCHANGED m_val

\* m_cv.wait (lock): release the mutex and block, in one step.
WaitBlock(t) ==
  /\ semPc[t] = "test"
  /\ m_val = 0
  /\ semPc' = [semPc EXCEPT ![t] = "sleep"]
  /\ m_mutex' = NoThread
  /\ UNCHANGED m_val

\* WaitTake with no loop around m_cv.wait.
WaitTakeUntested(t) ==
  /\ semPc[t] = "test"
  /\ m_val' = m_val - 1
  /\ semPc' = [semPc EXCEPT ![t] = "out"]
  /\ m_mutex' = NoThread

\* The loop ends, m_val--, and the mutex is released on return.
WaitTake(t) ==
  /\ semPc[t] = "test"
  /\ m_val # 0
  /\ m_val' = m_val - 1
  /\ semPc' = [semPc EXCEPT ![t] = "out"]
  /\ m_mutex' = NoThread

\* The condition variable may wake a thread nobody notified.
SpuriousWakeup(t) ==
  /\ semPc[t] = "sleep"
  /\ semPc' = [semPc EXCEPT ![t] = "wait"]
  /\ UNCHANGED <<m_val, m_mutex>>

-----------------------------------------------------------------------------
\* The steps a thread takes on its own once it is inside a call.
SemStep(t) ==
  \/ PostLock(t)
  \/ Post(t)
  \/ WaitLock(t)
  \/ WaitBlock(t)
  \/ WaitTake(t)

-----------------------------------------------------------------------------
(***************************************************************************)
(* Properties.                                                             *)
(***************************************************************************)
\* Type invariant.  m_val is unsigned: a decrement at 0 would wrap.
SemTypeOK ==
  /\ m_val \in Nat
  /\ m_mutex \in Threads \cup {NoThread}
  /\ semPc \in [Threads -> SemPlaces]

\* The owner of m_mutex is the one thread inside a critical section.
MutexOwner ==
  \A t \in Threads : m_mutex = t <=> semPc[t] \in {"notify", "test"}

\* No wakeup is lost (semaphore.cpp:29-31 and 41-46): as long as a thread
\* sleeps, every permit left in m_val is matched by an awake thread that will
\* look at m_val, so no thread sleeps next to a permit nobody will take.
NoLostWakeup == Sleepers # {} => m_val <= Cardinality(Takers)
=============================================================================

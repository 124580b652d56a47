-------------------------------- MODULE TPool --------------------------------
(***************************************************************************)
(* The thread pool of src/framework/tpool/tpool.cpp: a queue of jobs under *)
(* m_queue_mutex, a semaphore that counts the jobs, Main (the accept loop  *)
(* of server.cpp) that adds them and Workers that take them.               *)
(*                                                                         *)
(* Each thread's place is poolPc:                                          *)
(*                                                                         *)
(*    Main   : "idle" -> "lock" -> "locked" -> "post" -> "idle"            *)
(*    worker : "idle" -> "lock" -> "locked" -> "front" -> "run" -> "idle"  *)
(*                                                                         *)
(* Main in "post" is inside m_sem.post() with m_queue_mutex held.  A       *)
(* worker in "lock" is inside m_sem.wait() until semPc says it is out, and *)
(* then waits for m_queue_mutex.  A job is its connection: fn_ptr is       *)
(* _handle_connection in every one.                                        *)
(***************************************************************************)
EXTENDS Semaphore, Sequences

CONSTANTS Main,      \* the thread that runs server_loop
          Workers,   \* the threads the constructor starts
          Conns,     \* connections; one that was closed may come again
          NoConn,    \* no connection
          TPOOL_MAX_WORKERS

\* The constructor throws above TPOOL_MAX_WORKERS; count may be 0.
ASSUME TPoolAssumption ==
  /\ Threads = Workers \cup {Main}
  /\ Main \notin Workers
  /\ TPOOL_MAX_WORKERS \in Nat
  /\ Cardinality(Workers) <= TPOOL_MAX_WORKERS
  /\ NoConn \notin Conns

VARIABLES m_queue,         \* the jobs, oldest first
          m_queue_mutex,   \* the thread that holds it, or NoThread
          poolPc,          \* where each thread is
          job              \* its local: job in add_job, ret in the worker

poolVars == <<m_queue, m_queue_mutex, poolPc, job>>
vars == <<m_val, m_mutex, semPc, m_queue, m_queue_mutex, poolPc, job>>

Init ==
  /\ SemInit
  /\ m_queue = <<>>
  /\ m_queue_mutex = NoThread
  /\ poolPc = [t \in Threads |-> "idle"]
  /\ job = [t \in Threads |-> NoConn]

Queued(c) == \E i \in DOMAIN m_queue : m_queue[i] = c

InHand(c) == \E t \in Threads : job[t] = c

Move(t, from, to) ==
  /\ poolPc[t] = from
  /\ poolPc' = [poolPc EXCEPT ![t] = to]

\* LockQueue without the lock: poolPc goes on whoever holds m_queue_mutex.
LockQueueUnlocked(t) ==
  /\ semPc[t] = "out"
  /\ Move(t, "lock", "locked")
  /\ m_queue_mutex' = t
  /\ UNCHANGED <<semVars, m_queue, job>>

\* The std::lock_guard of m_queue_mutex, in add_job and in get_job.
LockQueue(t) ==
  /\ semPc[t] = "out"
  /\ Move(t, "lock", "locked")
  /\ m_queue_mutex = NoThread
  /\ m_queue_mutex' = t
  /\ UNCHANGED <<semVars, m_queue, job>>

-----------------------------------------------------------------------------
(***************************************************************************)
(* add_job, by Main.                                                       *)
(***************************************************************************)
\* The call, with a connection accept has just made.
AddJob(c) ==
  /\ Move(Main, "idle", "lock")
  /\ ~Queued(c) /\ ~InHand(c)
  /\ job' = [job EXCEPT ![Main] = c]
  /\ UNCHANGED <<semVars, m_queue, m_queue_mutex>>

\* Push that forgets m_sem.post.
PushUnposted ==
  /\ Move(Main, "locked", "post")
  /\ m_queue' = Append(m_queue, job[Main])
  /\ UNCHANGED <<semVars, m_queue_mutex, job>>

\* Push at the front, as on a stack.
PushInFront ==
  /\ Move(Main, "locked", "post")
  /\ m_queue' = <<job[Main]>> \o m_queue
  /\ PostCall(Main)
  /\ UNCHANGED <<m_queue_mutex, job>>

\* m_queue.push (job), then the call of m_sem.post.
Push ==
  /\ Move(Main, "locked", "post")
  /\ m_queue' = Append(m_queue, job[Main])
  /\ PostCall(Main)
  /\ UNCHANGED <<m_queue_mutex, job>>

\* post() has returned: the lock_guard goes, and add_job returns.
AddJobReturn ==
  /\ semPc[Main] = "out"
  /\ Move(Main, "post", "idle")
  /\ m_queue_mutex' = NoThread
  /\ job' = [job EXCEPT ![Main] = NoConn]
  /\ UNCHANGED <<semVars, m_queue>>

-----------------------------------------------------------------------------
(***************************************************************************)
(* get_job, and the loop of _tpool_worker_fn.                              *)
(***************************************************************************)
\* GetJob that forgets m_sem.wait.
GetJobUnwaited(w) ==
  /\ Move(w, "idle", "lock")
  /\ UNCHANGED <<semVars, m_queue, m_queue_mutex, job>>

\* The call of get_job, which calls m_sem.wait.
GetJob(w) ==
  /\ Move(w, "idle", "lock")
  /\ WaitCall(w)
  /\ UNCHANGED <<m_queue, m_queue_mutex, job>>

\* ret = m_queue.front (), with no test that there is one.
Front(w) ==
  /\ Move(w, "locked", "front")
  /\ job' = [job EXCEPT ![w] = Head(m_queue)]
  /\ UNCHANGED <<semVars, m_queue, m_queue_mutex>>

\* m_queue.pop (); the lock goes on return, and the worker calls the job.
Pop(w) ==
  /\ Move(w, "front", "run")
  /\ m_queue' = Tail(m_queue)
  /\ m_queue_mutex' = NoThread
  /\ UNCHANGED <<semVars, job>>

\* fn_ptr has returned, and ret goes out of scope.
JobDone(w) ==
  /\ Move(w, "run", "idle")
  /\ job' = [job EXCEPT ![w] = NoConn]
  /\ UNCHANGED <<semVars, m_queue, m_queue_mutex>>

-----------------------------------------------------------------------------
\* A step inside m_sem.
SemMove(t) == SemStep(t) /\ UNCHANGED poolVars

SpuriousMove(t) == SpuriousWakeup(t) /\ UNCHANGED poolVars

MainStep == LockQueue(Main) \/ Push \/ SemMove(Main) \/ AddJobReturn

WorkerStep(w) ==
  \/ GetJob(w)
  \/ SemMove(w)
  \/ LockQueue(w)
  \/ Front(w)
  \/ Pop(w)
  \/ JobDone(w)

Next ==
  \/ \E c \in Conns : AddJob(c)
  \/ MainStep
  \/ \E w \in Workers : WorkerStep(w)
  \/ \E t \in Threads : SpuriousMove(t)

SafeSpec == Init /\ [][Next]_vars

(***************************************************************************)
(* Every thread that can run does.  WorkerStep includes JobDone: handlers  *)
(* return.  Main waits for the semaphore's mutex with m_queue_mutex held,  *)
(* and gets it in the end: workers woken spuriously for ever may take and  *)
(* release it for ever, and weak fairness alone would let them starve it.  *)
(* Nothing makes Main accept a connection, and nothing makes a spurious    *)
(* wakeup happen or stop.                                                  *)
(***************************************************************************)
Fairness ==
  /\ WF_vars(MainStep)
  /\ SF_vars(PostLock(Main) /\ UNCHANGED poolVars)
  /\ \A w \in Workers : WF_vars(WorkerStep(w))

Spec == SafeSpec /\ Fairness

-----------------------------------------------------------------------------
(***************************************************************************)
(* Properties.                                                             *)
(***************************************************************************)
PoolPlaces == {"idle", "lock", "locked", "front", "post", "run"}

\* Type invariant.
TypeOK ==
  /\ SemTypeOK
  /\ m_queue \in Seq(Conns)
  /\ m_queue_mutex \in Threads \cup {NoThread}
  /\ poolPc \in [Threads -> PoolPlaces]
  /\ job \in [Threads -> Conns \cup {NoConn}]

\* Workers that took a permit of m_sem and have yet to pop a job.
Holders ==
  {w \in Workers : poolPc[w] \in {"lock", "locked", "front"} /\ semPc[w] = "out"}

\* 1 while Main has pushed a job whose permit is not in m_val yet.
Unposted == IF poolPc[Main] = "post" /\ semPc[Main] # "out" THEN 1 ELSE 0

\* Permits and jobs match (tpool.cpp:43-45 and 56-59): the queue holds as many
\* jobs as there are permits in m_val, with workers on their way to the
\* queue, or still to be posted.
TicketsMatchJobs == Len(m_queue) = m_val + Cardinality(Holders) + Unposted

\* get_job calls front and pop with no test (tpool.cpp:58-59): a worker that
\* is about to call one of them finds a job, and pops the one it copied.
PopFindsJob ==
  \A w \in Workers :
    /\ poolPc[w] \in {"locked", "front"} => m_queue # <<>>
    /\ poolPc[w] = "front" => job[w] = Head(m_queue)

\* The connection a worker serves, once get_job has returned.
Serving(w) == IF poolPc[w] = "run" THEN job[w] ELSE NoConn

\* A connection is in one place: not twice in the queue, not with two workers,
\* not with a worker and in the queue.  add_job's own copy stays in Main's
\* hand until it returns, and no worker has that job before.
OneOwner ==
  /\ \A i, j \in DOMAIN m_queue : m_queue[i] = m_queue[j] => i = j
  /\ \A t, u \in Threads : job[t] = job[u] /\ job[t] # NoConn => t = u
  /\ \A w \in Workers : ~Queued(Serving(w))
  /\ poolPc[Main] \in {"lock", "locked"} => ~Queued(job[Main])

\* The pool is a FIFO that hands each connection to one worker, once, and does
\* not leave it waiting beside an idle worker (JobQueue.tla).
JQ == INSTANCE JobQueue WITH
        queue <- m_queue, running <- [w \in Workers |-> Serving(w)]

ImplementsJobQueue == JQ!Spec

\* A connection that is pushed is served in the end, if handlers return.
QueuedIsServed == \A c \in Conns : Queued(c) ~> \E w \in Workers : Serving(w) = c
=============================================================================

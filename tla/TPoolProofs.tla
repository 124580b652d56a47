----------------------------- MODULE TPoolProofs -----------------------------
(***************************************************************************)
(* Proofs about the thread pool, for any finite number of workers and any  *)
(* set of connections: its invariants, and that it implements JobQueue.    *)
(*                                                                         *)
(* The properties of TPool are proved together, as one inductive           *)
(* invariant.  What they lack alone is control: which places a thread can  *)
(* be in, and which of them hold which mutex (Control below).              *)
(***************************************************************************)
EXTENDS TPool, FiniteSetTheorems, SequenceTheorems, TLAPS

\* Where Main and the workers can be, together with semPc.
Places ==
  /\ poolPc[Main] \in {"idle", "lock", "locked", "post"}
  /\ semPc[Main] \in {"out", "post", "notify"}
  /\ semPc[Main] # "out" => poolPc[Main] = "post"
  /\ \A w \in Workers :
       /\ poolPc[w] \in {"idle", "lock", "locked", "front", "run"}
       /\ semPc[w] \in {"out", "wait", "test", "sleep"}
       /\ semPc[w] # "out" => poolPc[w] = "lock"

\* Who holds m_queue_mutex.
QueueOwner ==
  \A t \in Threads :
    m_queue_mutex = t <=> poolPc[t] \in {"locked", "front", "post"}

\* Who has a connection in hand.
HasJob ==
  /\ poolPc[Main] # "idle" <=> job[Main] # NoConn
  /\ \A w \in Workers : poolPc[w] \in {"front", "run"} <=> job[w] # NoConn

Control == Places /\ QueueOwner /\ HasJob

\* The inductive invariant.
IInv ==
  /\ TypeOK
  /\ MutexOwner
  /\ Control
  /\ NoLostWakeup
  /\ TicketsMatchJobs
  /\ PopFindsJob
  /\ OneOwner

-----------------------------------------------------------------------------
(***************************************************************************)
(* The semaphore.                                                          *)
(***************************************************************************)
\* Every step of the semaphore, as the pool uses them.
AnySemStep(t) == SemStep(t) \/ SpuriousWakeup(t) \/ PostCall(t) \/ WaitCall(t)

\* A step of the semaphore keeps its types and the ownership of its mutex.
LEMMA SemTypeStep ==
  ASSUME SemTypeOK, MutexOwner, NEW t \in Threads, AnySemStep(t)
  PROVE  SemTypeOK' /\ MutexOwner'
<1> USE SemaphoreAssumption DEF SemTypeOK, MutexOwner, SemPlaces
<1>1. CASE PostCall(t)
  BY <1>1 DEF PostCall
<1>2. CASE PostLock(t)
  BY <1>2 DEF PostLock
<1>3. CASE Post(t)
  BY <1>3 DEF Post, NotifyOne, Sleepers
<1>4. CASE WaitCall(t)
  BY <1>4 DEF WaitCall
<1>5. CASE WaitLock(t)
  BY <1>5 DEF WaitLock
<1>6. CASE WaitBlock(t)
  BY <1>6 DEF WaitBlock
<1>7. CASE WaitTake(t)
  BY <1>7 DEF WaitTake
<1>8. CASE SpuriousWakeup(t)
  BY <1>8 DEF SpuriousWakeup
<1> QED
  BY <1>1, <1>2, <1>3, <1>4, <1>5, <1>6, <1>7, <1>8 DEF AnySemStep, SemStep

\* Takers is a finite set.
LEMMA TakersFinite == IsFiniteSet(Takers) /\ Cardinality(Takers) \in Nat
BY SemaphoreAssumption, FS_Subset, FS_CardinalityType DEF Takers

\* A step of the semaphore loses no wakeup.
LEMMA NoLostWakeupStep ==
  ASSUME SemTypeOK, NoLostWakeup, NEW t \in Threads, AnySemStep(t)
  PROVE  NoLostWakeup'
<1> USE SemaphoreAssumption DEF SemTypeOK, SemPlaces
<1>1. CASE PostCall(t)
  BY <1>1 DEF PostCall, NoLostWakeup, Sleepers, Takers
<1>2. CASE PostLock(t)
  BY <1>2 DEF PostLock, NoLostWakeup, Sleepers, Takers
<1>3. CASE Post(t)
  <2>1. CASE Sleepers = {}
    <3>1. Sleepers' = {}
      BY <1>3, <2>1 DEF Post, NotifyOne, Sleepers
    <3> QED BY <3>1 DEF NoLostWakeup
  <2>2. CASE Sleepers # {}
    <3>1. PICK w \in Sleepers : semPc' = [[semPc EXCEPT ![t] = "out"] EXCEPT ![w] = "wait"]
      BY <1>3, <2>2 DEF Post, NotifyOne
    <3>2. w \in Threads /\ semPc[w] = "sleep" /\ w # t /\ w \notin Takers
      BY <1>3, <3>1 DEF Post, Sleepers, Takers
    <3>3. Takers' = Takers \cup {w}
      BY <1>3, <3>1, <3>2 DEF Post, Takers
    <3>4. Cardinality(Takers') = Cardinality(Takers) + 1
      BY <3>2, <3>3, TakersFinite, FS_AddElement
    <3>5. m_val' = m_val + 1
      BY <1>3 DEF Post
    <3> QED
      BY <2>2, <3>4, <3>5, TakersFinite DEF NoLostWakeup
  <2> QED BY <2>1, <2>2
<1>4. CASE WaitCall(t)
  <2>1. Takers' = Takers \cup {t} /\ t \notin Takers /\ Sleepers' = Sleepers
    BY <1>4 DEF WaitCall, Takers, Sleepers
  <2>2. Cardinality(Takers') = Cardinality(Takers) + 1
    BY <2>1, TakersFinite, FS_AddElement
  <2> QED
    BY <1>4, <2>1, <2>2, TakersFinite DEF WaitCall, NoLostWakeup
<1>5. CASE WaitLock(t)
  BY <1>5 DEF WaitLock, NoLostWakeup, Sleepers, Takers
<1>6. CASE WaitBlock(t)
  <2>1. m_val' = 0 /\ IsFiniteSet(Takers') /\ Cardinality(Takers') \in Nat
    <3>1. Takers' \in SUBSET Threads
      BY DEF Takers
    <3> QED
      BY <1>6, <3>1, FS_Subset, FS_CardinalityType DEF WaitBlock
  <2> QED BY <2>1 DEF NoLostWakeup
<1>7. CASE WaitTake(t)
  <2>1. Takers' = Takers \ {t} /\ t \in Takers /\ Sleepers' = Sleepers
    BY <1>7 DEF WaitTake, Takers, Sleepers
  <2>2. Cardinality(Takers') = Cardinality(Takers) - 1
    BY <2>1, TakersFinite, FS_RemoveElement
  <2> QED
    BY <1>7, <2>1, <2>2, TakersFinite DEF WaitTake, NoLostWakeup
<1>8. CASE SpuriousWakeup(t)
  <2>1. Takers' = Takers \cup {t} /\ t \notin Takers /\ t \in Sleepers
    BY <1>8 DEF SpuriousWakeup, Takers, Sleepers
  <2>2. Cardinality(Takers') = Cardinality(Takers) + 1
    BY <2>1, TakersFinite, FS_AddElement
  <2> QED
    BY <1>8, <2>1, <2>2, TakersFinite DEF SpuriousWakeup, NoLostWakeup
<1> QED
  BY <1>1, <1>2, <1>3, <1>4, <1>5, <1>6, <1>7, <1>8 DEF AnySemStep, SemStep

-----------------------------------------------------------------------------
(***************************************************************************)
(* Types and control.                                                      *)
(***************************************************************************)
\* What a step of the semaphore does to the places of the threads.
LEMMA SemControlStep ==
  ASSUME TypeOK, MutexOwner, Control, NEW t \in Threads,
         SemMove(t) \/ SpuriousMove(t)
  PROVE  Control'
<1> USE TPoolAssumption DEF TypeOK, SemTypeOK, SemPlaces
<1>1. UNCHANGED poolVars /\ (SemStep(t) \/ SpuriousWakeup(t))
  BY DEF SemMove, SpuriousMove
<1>2. (QueueOwner /\ HasJob)'
  BY <1>1 DEF Control, QueueOwner, HasJob, poolVars
<1>3. Places'
  <2> USE <1>1 DEF Control, Places, poolVars
  <2>1. CASE PostLock(t)
    BY <2>1 DEF PostLock
  <2>2. CASE Post(t)
    BY <2>2 DEF Post, NotifyOne, Sleepers
  <2>3. CASE WaitLock(t)
    BY <2>3 DEF WaitLock
  <2>4. CASE WaitBlock(t)
    BY <2>4 DEF WaitBlock
  <2>5. CASE WaitTake(t)
    BY <2>5 DEF WaitTake
  <2>6. CASE SpuriousWakeup(t)
    BY <2>6 DEF SpuriousWakeup
  <2> QED
    BY <1>1, <2>1, <2>2, <2>3, <2>4, <2>5, <2>6 DEF SemStep
<1> QED
  BY <1>2, <1>3 DEF Control

\* Types and control hold after every step.
LEMMA ControlStep ==
  ASSUME IInv, [Next]_vars
  PROVE  TypeOK' /\ MutexOwner' /\ Control'
<1> USE TPoolAssumption, SemaphoreAssumption
<1> SUFFICES ASSUME Next PROVE TypeOK' /\ MutexOwner' /\ Control'
  BY DEF IInv, vars, TypeOK, SemTypeOK, MutexOwner, Control, Places, QueueOwner, HasJob
<1> USE DEF IInv
<1>1. ASSUME NEW t \in Threads, SemMove(t) \/ SpuriousMove(t)
      PROVE  TypeOK' /\ MutexOwner' /\ Control'
  <2>1. SemTypeOK' /\ MutexOwner'
    BY <1>1, SemTypeStep DEF TypeOK, SemMove, SpuriousMove, AnySemStep
  <2>2. Control'
    BY <1>1, SemControlStep
  <2>3. TypeOK'
    BY <1>1, <2>1 DEF TypeOK, SemMove, SpuriousMove, poolVars
  <2> QED BY <2>1, <2>2, <2>3
<1>2. ASSUME NEW t \in Threads, LockQueue(t)
      PROVE  TypeOK' /\ MutexOwner' /\ Control'
  <2> USE <1>2 DEF LockQueue, Move, semVars
  <2>1. TypeOK' /\ MutexOwner'
    BY DEF TypeOK, SemTypeOK, MutexOwner, PoolPlaces
  <2>2. Places' /\ HasJob'
    BY DEF Control, Places, HasJob, TypeOK, PoolPlaces
  <2>3. QueueOwner'
    BY DEF Control, QueueOwner, TypeOK, PoolPlaces
  <2> QED BY <2>1, <2>2, <2>3 DEF Control
<1>3. ASSUME NEW c \in Conns, AddJob(c)
      PROVE  TypeOK' /\ MutexOwner' /\ Control'
  <2> USE <1>3 DEF AddJob, Move, semVars
  <2>1. TypeOK' /\ MutexOwner'
    BY DEF TypeOK, SemTypeOK, MutexOwner, PoolPlaces
  <2>2. Control'
    BY DEF Control, Places, HasJob, QueueOwner, TypeOK, PoolPlaces
  <2> QED BY <2>1, <2>2
<1>4. CASE Push
  <2> USE <1>4 DEF Push, Move
  <2>1. SemTypeOK' /\ MutexOwner'
    BY SemTypeStep DEF TypeOK, AnySemStep
  <2>2. job[Main] \in Conns
    BY DEF Control, HasJob, TypeOK
  <2>3. TypeOK'
    BY <2>1, <2>2 DEF TypeOK, PoolPlaces
  <2>4. Control'
    BY DEF PostCall, Control, Places, HasJob, QueueOwner, TypeOK, SemTypeOK, PoolPlaces
  <2> QED BY <2>1, <2>3, <2>4
<1>5. CASE AddJobReturn
  <2> USE <1>5 DEF AddJobReturn, Move, semVars
  <2>1. TypeOK' /\ MutexOwner'
    BY DEF TypeOK, SemTypeOK, MutexOwner, PoolPlaces
  <2>2. Control'
    BY DEF Control, Places, HasJob, QueueOwner, TypeOK, PoolPlaces
  <2> QED BY <2>1, <2>2
<1>6. ASSUME NEW w \in Workers, GetJob(w)
      PROVE  TypeOK' /\ MutexOwner' /\ Control'
  <2> USE <1>6 DEF GetJob, Move
  <2>1. SemTypeOK' /\ MutexOwner'
    BY SemTypeStep DEF TypeOK, AnySemStep
  <2>2. TypeOK'
    BY <2>1 DEF TypeOK, PoolPlaces
  <2>3. Control'
    BY DEF WaitCall, Control, Places, HasJob, QueueOwner, TypeOK, SemTypeOK, PoolPlaces
  <2> QED BY <2>1, <2>2, <2>3
<1>7. ASSUME NEW w \in Workers, Front(w)
      PROVE  TypeOK' /\ MutexOwner' /\ Control'
  <2> USE <1>7 DEF Front, Move, semVars
  <2>1. Head(m_queue) \in Conns
    BY HeadTailProperties DEF PopFindsJob, TypeOK
  <2>2. TypeOK' /\ MutexOwner'
    BY <2>1 DEF TypeOK, SemTypeOK, MutexOwner, PoolPlaces
  <2>3. Control'
    BY <2>1 DEF Control, Places, HasJob, QueueOwner, TypeOK, PoolPlaces
  <2> QED BY <2>2, <2>3
<1>8. ASSUME NEW w \in Workers, Pop(w)
      PROVE  TypeOK' /\ MutexOwner' /\ Control'
  <2> USE <1>8 DEF Pop, Move, semVars
  <2>1. Tail(m_queue) \in Seq(Conns)
    BY HeadTailProperties DEF PopFindsJob, TypeOK
  <2>2. TypeOK' /\ MutexOwner'
    BY <2>1 DEF TypeOK, SemTypeOK, MutexOwner, PoolPlaces
  <2>3. Control'
    BY DEF Control, Places, HasJob, QueueOwner, TypeOK, PoolPlaces
  <2> QED BY <2>2, <2>3
<1>9. ASSUME NEW w \in Workers, JobDone(w)
      PROVE  TypeOK' /\ MutexOwner' /\ Control'
  <2> USE <1>9 DEF JobDone, Move, semVars
  <2>1. TypeOK' /\ MutexOwner'
    BY DEF TypeOK, SemTypeOK, MutexOwner, PoolPlaces
  <2>2. Control'
    BY DEF Control, Places, HasJob, QueueOwner, TypeOK, PoolPlaces
  <2> QED BY <2>1, <2>2
<1> QED
  BY <1>1, <1>2, <1>3, <1>4, <1>5, <1>6, <1>7, <1>8, <1>9
  DEF Next, MainStep, WorkerStep

-----------------------------------------------------------------------------
(***************************************************************************)
(* Permits and jobs.                                                       *)
(***************************************************************************)
\* Holders is a finite set.
LEMMA HoldersFinite == IsFiniteSet(Holders) /\ Cardinality(Holders) \in Nat
<1>1. IsFiniteSet(Workers)
  BY SemaphoreAssumption, TPoolAssumption, FS_Subset
<1> QED
  BY <1>1, FS_Subset, FS_CardinalityType DEF Holders

\* A step of the semaphore moves a permit from m_val to a worker, or from Main
\* to m_val, or none.
LEMMA SemTickets ==
  ASSUME IInv, NEW t \in Threads, SemMove(t) \/ SpuriousMove(t)
  PROVE  TicketsMatchJobs'
<1> USE TPoolAssumption DEF IInv, TypeOK, SemTypeOK, SemPlaces
<1>1. UNCHANGED poolVars /\ (SemStep(t) \/ SpuriousWakeup(t))
  BY DEF SemMove, SpuriousMove
<1>2. Unposted \in {0, 1} /\ Len(m_queue) \in Nat
  BY LenProperties DEF Unposted
<1>3. ASSUME Holders' = Holders, m_val' = m_val, Unposted' = Unposted
      PROVE  TicketsMatchJobs'
  BY <1>1, <1>3 DEF TicketsMatchJobs, poolVars
<1>4. CASE PostLock(t)
  <2>1. Holders' = Holders /\ Unposted' = Unposted
    BY <1>1, <1>4 DEF PostLock, Holders, Unposted, poolVars
  <2> QED BY <1>3, <1>4, <2>1 DEF PostLock
<1>5. CASE Post(t)
  <2>1. t = Main
    BY <1>5 DEF Post, Control, Places
  <2>2. Holders' = Holders
    BY <1>1, <1>5, <2>1 DEF Post, NotifyOne, Sleepers, Holders, poolVars
  <2>3. Unposted = 1
    BY <1>5, <2>1 DEF Post, Control, Places, Unposted
  <2>4. Unposted' = 0
    BY <1>5, <2>1 DEF Post, NotifyOne, Sleepers, Unposted
  <2>5. m_val' = m_val + 1
    BY <1>5 DEF Post
  <2> QED
    BY <1>1, <2>2, <2>3, <2>4, <2>5, HoldersFinite DEF TicketsMatchJobs, poolVars
<1>6. CASE WaitLock(t)
  <2>1. Holders' = Holders /\ Unposted' = Unposted
    BY <1>1, <1>6 DEF WaitLock, Holders, Unposted, poolVars, Control, Places
  <2> QED BY <1>3, <1>6, <2>1 DEF WaitLock
<1>7. CASE WaitBlock(t)
  <2>1. Holders' = Holders /\ Unposted' = Unposted
    BY <1>1, <1>7 DEF WaitBlock, Holders, Unposted, poolVars, Control, Places
  <2> QED BY <1>3, <1>7, <2>1 DEF WaitBlock
<1>8. CASE WaitTake(t)
  <2>1. t \in Workers /\ poolPc[t] = "lock"
    BY <1>8 DEF WaitTake, Control, Places
  <2>2. Holders' = Holders \cup {t} /\ t \notin Holders
    BY <1>1, <1>8, <2>1 DEF WaitTake, Holders, poolVars
  <2>3. Cardinality(Holders') = Cardinality(Holders) + 1
    BY <2>2, HoldersFinite, FS_AddElement
  <2>4. Unposted' = Unposted
    BY <1>1, <1>8, <2>1 DEF WaitTake, Unposted, poolVars
  <2>5. m_val' = m_val - 1 /\ m_val # 0
    BY <1>8 DEF WaitTake
  <2> QED
    BY <1>1, <1>2, <2>3, <2>4, <2>5, HoldersFinite DEF TicketsMatchJobs, poolVars
<1>9. CASE SpuriousWakeup(t)
  <2>1. Holders' = Holders /\ Unposted' = Unposted
    BY <1>1, <1>9 DEF SpuriousWakeup, Holders, Unposted, poolVars, Control, Places
  <2> QED BY <1>3, <1>9, <2>1 DEF SpuriousWakeup
<1> QED
  BY <1>1, <1>4, <1>5, <1>6, <1>7, <1>8, <1>9 DEF SemStep

\* Permits and jobs match after every step.
LEMMA TicketsStep ==
  ASSUME IInv, [Next]_vars
  PROVE  TicketsMatchJobs'
<1> USE TPoolAssumption DEF IInv, TypeOK, SemTypeOK, PoolPlaces
<1>1. CASE UNCHANGED vars
  BY <1>1 DEF vars, TicketsMatchJobs, Holders, Unposted
<1>2. Unposted \in {0, 1} /\ Len(m_queue) \in Nat
  BY LenProperties DEF Unposted
<1>3. ASSUME Holders' = Holders, m_val' = m_val, Unposted' = Unposted,
             m_queue' = m_queue
      PROVE  TicketsMatchJobs'
  BY <1>3 DEF TicketsMatchJobs
<1>4. ASSUME NEW t \in Threads, LockQueue(t)
      PROVE  TicketsMatchJobs'
  <2>1. Holders' = Holders /\ Unposted' = Unposted
    BY <1>4 DEF LockQueue, Move, semVars, Holders, Unposted
  <2> QED BY <1>3, <1>4, <2>1 DEF LockQueue, semVars
<1>5. ASSUME NEW c \in Conns, AddJob(c)
      PROVE  TicketsMatchJobs'
  <2>1. Holders' = Holders /\ Unposted' = Unposted
    BY <1>5 DEF AddJob, Move, semVars, Holders, Unposted
  <2> QED BY <1>3, <1>5, <2>1 DEF AddJob, semVars
<1>6. CASE Push
  <2>1. Holders' = Holders
    BY <1>6 DEF Push, PostCall, Move, Holders
  <2>2. Unposted = 0 /\ Unposted' = 1
    BY <1>6 DEF Push, PostCall, Move, Unposted
  <2>3. job[Main] \in Conns
    BY <1>6 DEF Push, Move, Control, HasJob
  <2>4. Len(m_queue') = Len(m_queue) + 1
    BY <1>6, <2>3 DEF Push
  <2>5. m_val' = m_val
    BY <1>6 DEF Push, PostCall
  <2> QED
    BY <1>2, <2>1, <2>2, <2>4, <2>5, HoldersFinite DEF TicketsMatchJobs
<1>7. CASE AddJobReturn
  <2>1. Holders' = Holders /\ Unposted' = Unposted
    BY <1>7 DEF AddJobReturn, Move, semVars, Holders, Unposted
  <2> QED BY <1>3, <1>7, <2>1 DEF AddJobReturn, semVars
<1>8. ASSUME NEW w \in Workers, GetJob(w)
      PROVE  TicketsMatchJobs'
  <2>1. Holders' = Holders /\ Unposted' = Unposted
    BY <1>8 DEF GetJob, WaitCall, Move, Holders, Unposted
  <2> QED BY <1>3, <1>8, <2>1 DEF GetJob, WaitCall
<1>9. ASSUME NEW w \in Workers, Front(w)
      PROVE  TicketsMatchJobs'
  <2>1. Holders' = Holders /\ Unposted' = Unposted
    BY <1>9 DEF Front, Move, semVars, Holders, Unposted
  <2> QED BY <1>3, <1>9, <2>1 DEF Front, semVars
<1>10. ASSUME NEW w \in Workers, Pop(w)
       PROVE  TicketsMatchJobs'
  <2>1. Holders' = Holders \ {w} /\ w \in Holders
    BY <1>10 DEF Pop, Move, semVars, Holders, Control, Places
  <2>2. Cardinality(Holders') = Cardinality(Holders) - 1
    BY <2>1, HoldersFinite, FS_RemoveElement
  <2>3. Unposted' = Unposted /\ m_val' = m_val
    BY <1>10 DEF Pop, Move, semVars, Unposted
  <2>4. Len(m_queue') = Len(m_queue) - 1
    BY <1>10, HeadTailProperties DEF Pop, Move, PopFindsJob
  <2> QED
    BY <1>2, <2>2, <2>3, <2>4, HoldersFinite DEF TicketsMatchJobs
<1>11. ASSUME NEW w \in Workers, JobDone(w)
       PROVE  TicketsMatchJobs'
  <2>1. Holders' = Holders /\ Unposted' = Unposted
    BY <1>11 DEF JobDone, Move, semVars, Holders, Unposted
  <2> QED BY <1>3, <1>11, <2>1 DEF JobDone, semVars
<1> QED
  BY <1>1, <1>4, <1>5, <1>6, <1>7, <1>8, <1>9, <1>10, <1>11, SemTickets
  DEF Next, MainStep, WorkerStep

-----------------------------------------------------------------------------
(***************************************************************************)
(* Jobs and their owners.                                                  *)
(***************************************************************************)
\* A worker with a permit has a job waiting for it.
LEMMA HolderFindsJob ==
  TypeOK /\ TicketsMatchJobs => \A w \in Holders : m_queue # <<>>
<1> SUFFICES ASSUME TypeOK, TicketsMatchJobs, NEW w \in Holders, m_queue = <<>>
             PROVE  FALSE
  OBVIOUS
<1>1. Len(m_queue) = 0 /\ m_val \in Nat /\ Unposted \in {0, 1}
  BY DEF TypeOK, SemTypeOK, Unposted
<1>2. Cardinality(Holders) = 0
  BY <1>1, HoldersFinite DEF TicketsMatchJobs
<1> QED
  BY <1>2, HoldersFinite, FS_EmptySet

\* A worker about to call front or pop finds a job after every step.
LEMMA PopFindsJobStep ==
  ASSUME IInv, [Next]_vars
  PROVE  PopFindsJob'
<1> USE TPoolAssumption
<1>1. TypeOK' /\ MutexOwner' /\ Control'
  BY ControlStep
<1>2. TicketsMatchJobs'
  BY TicketsStep
<1>3. (\A w \in Holders : m_queue # <<>>)'
  BY <1>1, <1>2, HolderFindsJob, PTL
<1>4. \A w \in Workers : poolPc'[w] \in {"locked", "front"} => m_queue' # <<>>
  BY <1>1, <1>3 DEF Control, Places, Holders
<1>5. ASSUME NEW u \in Workers, poolPc'[u] = "front"
      PROVE  job'[u] = Head(m_queue')
  <2> USE <1>5 DEF IInv, TypeOK, Control, QueueOwner, PopFindsJob, Move
  <2>1. ASSUME NEW t \in Threads, SemMove(t) \/ SpuriousMove(t) \/ LockQueue(t)
        PROVE  job'[u] = Head(m_queue')
    BY <2>1 DEF SemMove, SpuriousMove, poolVars, LockQueue
  <2>2. CASE UNCHANGED vars
    BY <2>2 DEF vars
  <2>3. ASSUME NEW c \in Conns, AddJob(c)
        PROVE  job'[u] = Head(m_queue')
    BY <2>3 DEF AddJob
  <2>4. CASE Push
    BY <2>4 DEF Push
  <2>5. CASE AddJobReturn
    BY <2>5 DEF AddJobReturn
  <2>6. ASSUME NEW w \in Workers, GetJob(w) \/ Front(w) \/ Pop(w) \/ JobDone(w)
        PROVE  job'[u] = Head(m_queue')
    BY <2>6 DEF GetJob, Front, Pop, JobDone
  <2> QED
    BY <2>1, <2>2, <2>3, <2>4, <2>5, <2>6 DEF Next, MainStep, WorkerStep
<1> QED
  BY <1>4, <1>5 DEF PopFindsJob

\* A connection has one owner after every step.
LEMMA OneOwnerStep ==
  ASSUME IInv, [Next]_vars
  PROVE  OneOwner'
<1> USE TPoolAssumption DEF IInv, TypeOK, PoolPlaces
<1>1. ASSUME UNCHANGED <<m_queue, job>>,
             \A t \in Threads : poolPc'[t] = poolPc[t] \/
                                {poolPc[t], poolPc'[t]} \subseteq {"idle", "lock", "locked"},
             poolPc[Main] = "idle" => poolPc'[Main] = "idle"
      PROVE  OneOwner'
  BY <1>1 DEF OneOwner, Queued, Serving, Control, HasJob
<1>2. CASE UNCHANGED vars
  BY <1>1, <1>2 DEF vars
<1>3. ASSUME NEW t \in Threads, SemMove(t) \/ SpuriousMove(t)
      PROVE  OneOwner'
  BY <1>1, <1>3 DEF SemMove, SpuriousMove, poolVars
<1>4. ASSUME NEW t \in Threads, LockQueue(t)
      PROVE  OneOwner'
  BY <1>1, <1>4 DEF LockQueue, Move
<1>5. ASSUME NEW w \in Workers, GetJob(w)
      PROVE  OneOwner'
  BY <1>1, <1>5 DEF GetJob, Move
<1>6. ASSUME NEW c \in Conns, AddJob(c)
      PROVE  OneOwner'
  BY <1>6 DEF AddJob, Move, OneOwner, Queued, InHand, Serving
<1>7. CASE Push
  <2> USE <1>7 DEF Push, Move
  <2>1. job[Main] \in Conns /\ ~Queued(job[Main])
    BY DEF OneOwner, Control, HasJob
  <2>2. /\ Len(m_queue') = Len(m_queue) + 1
        /\ DOMAIN m_queue' = 1 .. Len(m_queue) + 1
        /\ DOMAIN m_queue = 1 .. Len(m_queue)
        /\ Len(m_queue) \in Nat
        /\ m_queue'[Len(m_queue) + 1] = job[Main]
        /\ \A i \in 1 .. Len(m_queue) : m_queue'[i] = m_queue[i]
    BY <2>1, LenProperties
  <2>3. \A i, j \in DOMAIN m_queue' : m_queue'[i] = m_queue'[j] => i = j
    BY <2>1, <2>2 DEF OneOwner, Queued
  <2>4. ASSUME NEW w \in Workers
        PROVE  ~Queued(Serving(w))'
    <3>1. Serving(w)' = Serving(w) /\ ~Queued(Serving(w))
      BY DEF Serving, OneOwner
    <3>2. Serving(w) # job[Main]
      BY <2>1 DEF Serving, OneOwner
    <3> QED
      BY <2>2, <3>1, <3>2 DEF Queued
  <2> QED
    BY <2>3, <2>4 DEF OneOwner
<1>8. CASE AddJobReturn
  BY <1>8 DEF AddJobReturn, Move, OneOwner, Queued, Serving
<1>9. ASSUME NEW w \in Workers, Front(w)
      PROVE  OneOwner'
  <2> USE <1>9 DEF Front, Move
  <2>1. m_queue # <<>> /\ 1 \in DOMAIN m_queue /\ m_queue[1] = Head(m_queue)
    BY LenProperties, EmptySeq DEF PopFindsJob
  <2>2. Head(m_queue) \in Conns /\ Queued(Head(m_queue))
    BY <2>1, HeadTailProperties DEF Queued
  <2>3. ASSUME NEW t \in Threads, t # w
        PROVE  job[t] # Head(m_queue)
    <3>1. CASE t = Main
      BY <2>2, <3>1 DEF Control, Places, HasJob, QueueOwner, OneOwner
    <3>2. CASE t \in Workers
      BY <2>2, <2>3, <3>2 DEF Control, Places, HasJob, QueueOwner, OneOwner, Serving
    <3> QED BY <3>1, <3>2
  <2> QED
    BY <2>2, <2>3 DEF OneOwner, Queued, Serving
<1>10. ASSUME NEW w \in Workers, Pop(w)
       PROVE  OneOwner'
  <2> USE <1>10 DEF Pop, Move
  <2>1. /\ m_queue # <<>> /\ job[w] = Head(m_queue) /\ m_queue[1] = Head(m_queue)
        /\ Len(m_queue') = Len(m_queue) - 1
        /\ Len(m_queue) \in Nat \ {0}
        /\ DOMAIN m_queue' = 1 .. Len(m_queue) - 1
        /\ DOMAIN m_queue = 1 .. Len(m_queue)
        /\ \A i \in 1 .. Len(m_queue) - 1 : m_queue'[i] = m_queue[i + 1]
    BY HeadTailProperties, LenProperties, EmptySeq DEF PopFindsJob
  <2>2. \A i, j \in DOMAIN m_queue' : m_queue'[i] = m_queue'[j] => i = j
    BY <2>1 DEF OneOwner
  <2>3. \A c : Queued(c)' => Queued(c) /\ c # job[w]
    BY <2>1 DEF OneOwner, Queued
  <2>4. \A u \in Workers : ~Queued(Serving(u))'
    BY <2>3 DEF OneOwner, Serving
  <2> QED
    BY <2>2, <2>3, <2>4 DEF OneOwner
<1>11. ASSUME NEW w \in Workers, JobDone(w)
       PROVE  OneOwner'
  <2> USE <1>11 DEF JobDone, Move
  <2>1. ~Queued(NoConn)
    BY ElementOfSeq, LenProperties DEF Queued
  <2> QED
    BY <2>1 DEF OneOwner, Queued, Serving
<1> QED
  BY <1>2, <1>3, <1>4, <1>5, <1>6, <1>7, <1>8, <1>9, <1>10, <1>11
  DEF Next, MainStep, WorkerStep

-----------------------------------------------------------------------------
(***************************************************************************)
(* The invariant, and what follows from it.                                *)
(***************************************************************************)
\* The invariant holds at the start.
LEMMA InitIInv == Init => IInv
<1> SUFFICES ASSUME Init PROVE IInv
  OBVIOUS
<1> USE TPoolAssumption, SemaphoreAssumption DEF Init, SemInit
<1>1. TypeOK /\ MutexOwner
  BY EmptySeq DEF TypeOK, SemTypeOK, SemPlaces, PoolPlaces, MutexOwner
<1>2. Control
  BY DEF Control, Places, QueueOwner, HasJob
<1>3. NoLostWakeup
  BY DEF NoLostWakeup, Sleepers
<1>4. TicketsMatchJobs
  <2>1. Holders = {} /\ Unposted = 0 /\ Len(m_queue) = 0
    BY DEF Holders, Unposted
  <2> QED BY <2>1, FS_EmptySet DEF TicketsMatchJobs
<1>5. PopFindsJob /\ OneOwner
  BY DEF PopFindsJob, OneOwner, Queued
<1> QED
  BY <1>1, <1>2, <1>3, <1>4, <1>5 DEF IInv

\* No step loses a wakeup.
LEMMA NoLostWakeupPool ==
  ASSUME IInv, [Next]_vars
  PROVE  NoLostWakeup'
<1> USE TPoolAssumption DEF IInv, TypeOK
<1>1. ASSUME NEW t \in Threads, AnySemStep(t)
      PROVE  NoLostWakeup'
  BY <1>1, NoLostWakeupStep
<1>2. ASSUME UNCHANGED semVars
      PROVE  NoLostWakeup'
  BY <1>2 DEF semVars, NoLostWakeup, Sleepers, Takers
<1>3. (\E t \in Threads : AnySemStep(t)) \/ UNCHANGED semVars
  <2>1. CASE UNCHANGED vars
    BY <2>1 DEF vars, semVars
  <2>2. CASE \E c \in Conns : AddJob(c)
    BY <2>2 DEF AddJob
  <2>3. CASE MainStep
    BY <2>3 DEF MainStep, LockQueue, Push, SemMove, AddJobReturn, AnySemStep
  <2>4. CASE \E w \in Workers : WorkerStep(w)
    BY <2>4 DEF WorkerStep, GetJob, SemMove, LockQueue, Front, Pop, JobDone, AnySemStep
  <2>5. CASE \E t \in Threads : SpuriousMove(t)
    BY <2>5 DEF SpuriousMove, AnySemStep
  <2> QED
    BY <2>1, <2>2, <2>3, <2>4, <2>5 DEF Next
<1> QED
  BY <1>1, <1>2, <1>3

\* The inductive invariant: it holds in every state of the pool.
THEOREM Invariance == SafeSpec => []IInv
<1>1. Init => IInv
  BY InitIInv
<1>2. IInv /\ [Next]_vars => IInv'
  BY ControlStep, NoLostWakeupPool, TicketsStep, PopFindsJobStep, OneOwnerStep DEF IInv
<1> QED
  BY <1>1, <1>2, PTL DEF SafeSpec

\* The variables of the pool, the semaphore's included, have their types; the
\* unsigned m_val never falls below 0.
THEOREM TypeCorrect == SafeSpec => []TypeOK
<1>1. IInv => TypeOK
  BY DEF IInv
<1> QED
  BY <1>1, Invariance, PTL

\* Semaphore::post never leaves a permit beside sleepers that nobody awake
\* will take.
THEOREM WakeupsKept == SafeSpec => []NoLostWakeup
<1>1. IInv => NoLostWakeup
  BY DEF IInv
<1> QED
  BY <1>1, Invariance, PTL

\* add_job and get_job keep as many permits as there are jobs.
THEOREM PermitsAreJobs == SafeSpec => []TicketsMatchJobs
<1>1. IInv => TicketsMatchJobs
  BY DEF IInv
<1> QED
  BY <1>1, Invariance, PTL

\* get_job never calls front or pop on an empty queue, nor pops another job
\* than the one it returns.
THEOREM PopIsSafe == SafeSpec => []PopFindsJob
<1>1. IInv => PopFindsJob
  BY DEF IInv
<1> QED
  BY <1>1, Invariance, PTL

\* No connection is served by two workers, or served and queued again.
THEOREM ServedOnce == SafeSpec => []OneOwner
<1>1. IInv => OneOwner
  BY DEF IInv
<1> QED
  BY <1>1, Invariance, PTL

-----------------------------------------------------------------------------
(***************************************************************************)
(* The pool implements the safety part of JobQueue: a push is Add, a pop   *)
(* is Take, the end of a handler is Finish, and no other step shows.       *)
(***************************************************************************)
\* Each step of the pool is a step of the queue, or none.
LEMMA JobQueueStep ==
  ASSUME IInv, [Next]_vars
  PROVE  [JQ!Next]_(JQ!jqVars)
<1> USE TPoolAssumption DEF IInv, TypeOK, PoolPlaces
<1>1. ASSUME m_queue' = m_queue,
             \A w \in Workers : Serving(w)' = Serving(w)
      PROVE  UNCHANGED JQ!jqVars
  BY <1>1 DEF JQ!jqVars
<1>2. CASE UNCHANGED vars
  BY <1>1, <1>2 DEF vars, Serving
<1>3. ASSUME NEW t \in Threads, SemMove(t) \/ SpuriousMove(t)
      PROVE  UNCHANGED JQ!jqVars
  BY <1>1, <1>3 DEF SemMove, SpuriousMove, poolVars, Serving
<1>4. ASSUME NEW t \in Threads, LockQueue(t)
      PROVE  UNCHANGED JQ!jqVars
  BY <1>1, <1>4 DEF LockQueue, Move, Serving
<1>5. ASSUME NEW c \in Conns, AddJob(c)
      PROVE  UNCHANGED JQ!jqVars
  BY <1>1, <1>5 DEF AddJob, Move, Serving
<1>6. CASE Push
  <2> USE <1>6 DEF Push, Move
  <2>1. job[Main] \in Conns
    BY DEF Control, HasJob
  <2>2. ~JQ!Queued(job[Main])
    BY DEF OneOwner, Queued, JQ!Queued
  <2>3. ~JQ!Served(job[Main])
    BY <2>1 DEF OneOwner, Serving, JQ!Served
  <2>4. [w \in Workers |-> Serving(w)]' = [w \in Workers |-> Serving(w)]
    BY DEF Serving
  <2>5. JQ!Add(job[Main])
    BY <2>2, <2>3, <2>4 DEF JQ!Add
  <2> QED BY <2>1, <2>5 DEF JQ!Next
<1>7. CASE AddJobReturn
  BY <1>1, <1>7 DEF AddJobReturn, Move, Serving
<1>8. ASSUME NEW w \in Workers, GetJob(w) \/ Front(w)
      PROVE  UNCHANGED JQ!jqVars
  BY <1>1, <1>8 DEF GetJob, Front, Move, Serving
<1>9. ASSUME NEW w \in Workers, Pop(w)
      PROVE  JQ!Next
  <2> USE <1>9 DEF Pop, Move
  <2>1. m_queue # <<>> /\ job[w] = Head(m_queue)
    BY DEF PopFindsJob
  <2>2. [u \in Workers |-> Serving(u)]'
          = [[u \in Workers |-> Serving(u)] EXCEPT ![w] = Head(m_queue)]
    BY <2>1 DEF Serving
  <2>3. Serving(w) = NoConn
    BY DEF Serving
  <2>4. JQ!Take(w)
    BY <2>1, <2>2, <2>3 DEF JQ!Take
  <2> QED BY <2>4 DEF JQ!Next
<1>10. ASSUME NEW w \in Workers, JobDone(w)
       PROVE  JQ!Next
  <2> USE <1>10 DEF JobDone, Move, semVars
  <2>1. [u \in Workers |-> Serving(u)]'
          = [[u \in Workers |-> Serving(u)] EXCEPT ![w] = NoConn]
    BY DEF Serving
  <2>2. Serving(w) # NoConn
    BY DEF Serving, Control, HasJob
  <2>3. JQ!Finish(w)
    BY <2>1, <2>2 DEF JQ!Finish
  <2> QED BY <2>3 DEF JQ!Next
<1> QED
  BY <1>2, <1>3, <1>4, <1>5, <1>6, <1>7, <1>8, <1>9, <1>10
  DEF Next, MainStep, WorkerStep

\* The thread pool is a FIFO queue that hands each connection to one worker.
THEOREM Refinement == SafeSpec => JQ!SafeSpec
<1>1. Init => JQ!Init
  BY TPoolAssumption DEF Init, JQ!Init, Serving
<1>2. IInv /\ [Next]_vars => [JQ!Next]_(JQ!jqVars)
  BY JobQueueStep
<1> QED
  BY <1>1, <1>2, Invariance, PTL DEF SafeSpec, JQ!SafeSpec
=============================================================================

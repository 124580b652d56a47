------------------------------ MODULE JobQueue ------------------------------
(***************************************************************************)
(* What TPool promises its users: a FIFO of connections, each handed to    *)
(* one idle worker, exactly once, and never left waiting while a worker    *)
(* has nothing to do.  TPool.tla is shown to implement it.                 *)
(***************************************************************************)
EXTENDS Naturals, Sequences

CONSTANTS Workers,   \* the threads of the pool
          Conns,     \* connection objects; one that was closed may come again
          NoConn     \* no connection

VARIABLES queue,     \* the connections that wait, oldest first
          running    \* the connection each worker serves, or NoConn

jqVars == <<queue, running>>

Queued(c) == \E i \in DOMAIN queue : queue[i] = c

Served(c) == \E w \in Workers : running[w] = c

Init ==
  /\ queue = <<>>
  /\ running = [w \in Workers |-> NoConn]

\* A new connection goes to the end of the queue.
Add(c) ==
  /\ ~Queued(c) /\ ~Served(c)
  /\ queue' = Append(queue, c)
  /\ UNCHANGED running

\* An idle worker takes the oldest one.
Take(w) ==
  /\ running[w] = NoConn
  /\ queue # <<>>
  /\ running' = [running EXCEPT ![w] = Head(queue)]
  /\ queue' = Tail(queue)

\* A worker is done with its connection.
Finish(w) ==
  /\ running[w] # NoConn
  /\ running' = [running EXCEPT ![w] = NoConn]
  /\ UNCHANGED queue

Next ==
  \/ \E c \in Conns : Add(c)
  \/ \E w \in Workers : Take(w) \/ Finish(w)

SafeSpec == Init /\ [][Next]_jqVars

\* Some idle worker takes a job that waits.
Spec == SafeSpec /\ WF_jqVars(\E w \in Workers : Take(w))
=============================================================================

------------------------------- MODULE Server -------------------------------
(***************************************************************************)
(* server_loop of server.cpp, composed with the two parts it calls: the    *)
(* thread pool, by its promise JobQueue, and the blacklist, by the         *)
(* operators of its promise Reputation.  What is new here is a connection  *)
(* from accept to close: its socket lives as long as a shared_ptr to the   *)
(* TCPConnection does, in Main's loop, in the queue or with a worker; and  *)
(* the blacklist is asked when it is accepted, not when it is served.      *)
(*                                                                         *)
(*    Main:  "accept" -> "check" -> "add" -> "leave" -> "accept"           *)
(*                       "check" -> "leave"             (blacklisted)      *)
(*                                                                         *)
(* A client connects once.  The handler is Request.tla; here it rates the  *)
(* client or finds that it has left.                                       *)
(***************************************************************************)
EXTENDS Integers, Sequences, FiniteSets

CONSTANTS Workers, Conns, NoConn,
          Addrs,
          Addr,                 \* the address of each connection
          Fds,                  \* the sockets the process may have open
          NoScore, Nothing,
          blacklist_threshold

ASSUME ServerAssumption ==
  /\ Addr \in [Conns -> Addrs]
  /\ blacklist_threshold \in Int
  /\ NoConn \notin Conns
  /\ NoScore \notin Int
  /\ Nothing \notin Fds
  /\ IsFiniteSet(Fds)

VARIABLES queue, running,   \* of the pool (JobQueue)
          score,            \* of the blacklist (Reputation)
          client,           \* each client: "out", "waits", "in" or "closed"
          fds,              \* the connection behind each socket, or NoConn
          m_fd,             \* of each TCPConnection, or Nothing
          connection,       \* Main's local, or NoConn
          mainPc,
          outcome           \* of each handler: "no", "good", "bad" or "left"

mainVars == <<connection, mainPc>>
vars == <<queue, running, score, client, fds, m_fd, connection, mainPc, outcome>>

Pool == INSTANCE JobQueue

Rep == INSTANCE Reputation WITH
         Callers <- Workers, call <- Nothing, answer <- Nothing, unread <- {}

Init ==
  /\ Pool!Init
  /\ score = [a \in Addrs |-> NoScore]
  /\ client = [c \in Conns |-> "out"]
  /\ fds = [f \in Fds |-> NoConn]
  /\ m_fd = [c \in Conns |-> Nothing]
  /\ connection = NoConn
  /\ mainPc = "accept"
  /\ outcome = [w \in Workers |-> "no"]

\* Somebody has a shared_ptr to c.
Held(c) == connection = c \/ Pool!Queued(c) \/ Pool!Served(c)

\* A shared_ptr to c has gone: if no other is left, ~TCPConnection closes the
\* socket.
Release(c) ==
  IF Held(c)' THEN UNCHANGED <<fds, m_fd, client>>
  ELSE /\ fds' = [fds EXCEPT ![m_fd[c]] = NoConn]
       /\ m_fd' = [m_fd EXCEPT ![c] = Nothing]
       /\ client' = [client EXCEPT ![c] = "closed"]

MainMove(from, to) == mainPc = from /\ mainPc' = to

\* A client connects; it waits in the listen backlog.
Connect(c) ==
  /\ client[c] = "out"
  /\ client' = [client EXCEPT ![c] = "waits"]
  /\ UNCHANGED <<queue, running, score, fds, m_fd, mainVars, outcome>>

-----------------------------------------------------------------------------
(***************************************************************************)
(* server_loop.                                                            *)
(***************************************************************************)
\* Accept that makes a connection of the -1 of a failed accept.
AcceptUntested ==
  /\ MainMove("accept", "check")
  /\ \E c \in Conns :
       /\ client[c] = "waits"
       /\ connection' = c
       /\ client' = [client EXCEPT ![c] = "in"]
       /\ IF \A f \in Fds : fds[f] # NoConn
            THEN m_fd' = [m_fd EXCEPT ![c] = -1] /\ UNCHANGED fds
            ELSE \E f \in Fds :
                   /\ fds[f] = NoConn
                   /\ fds' = [fds EXCEPT ![f] = c]
                   /\ m_fd' = [m_fd EXCEPT ![c] = f]
  /\ UNCHANGED <<queue, running, score, outcome>>

\* accept_connection.  With no socket to spare accept fails, the nullptr is
\* passed over, and Main tries again at once.
Accept ==
  /\ MainMove("accept", "check")
  /\ \E c \in Conns, f \in Fds :
       /\ client[c] = "waits"
       /\ fds[f] = NoConn
       /\ connection' = c
       /\ client' = [client EXCEPT ![c] = "in"]
       /\ fds' = [fds EXCEPT ![f] = c]
       /\ m_fd' = [m_fd EXCEPT ![c] = f]
  /\ UNCHANGED <<queue, running, score, outcome>>

\* CheckListed with no check.
CheckNothing ==
  /\ MainMove("check", "add")
  /\ UNCHANGED <<queue, running, score, client, fds, m_fd, connection, outcome>>

\* CheckListed that lists an address one request too late.
CheckListedLate ==
  /\ LET s == score[Addr[connection]]
     IN  MainMove("check", IF s # NoScore /\ s < blacklist_threshold - 1
                             THEN "leave" ELSE "add")
  /\ UNCHANGED <<queue, running, score, client, fds, m_fd, connection, outcome>>

\* is_ipaddr_blacklisted, and the continue.
CheckListed ==
  /\ MainMove("check", IF Rep!Listed(score[Addr[connection]]) THEN "leave" ELSE "add")
  /\ UNCHANGED <<queue, running, score, client, fds, m_fd, connection, outcome>>

\* tpool.add_job.
AddJob ==
  /\ MainMove("add", "leave")
  /\ Pool!Add(connection)
  /\ UNCHANGED <<score, client, fds, m_fd, connection, outcome>>

\* EndTurn with a connection that outlives the turn of the loop.
EndTurnHolding ==
  /\ MainMove("leave", "accept")
  /\ connection' = NoConn
  /\ UNCHANGED <<queue, running, score, client, fds, m_fd, outcome>>

\* The turn of the loop ends, and its connection with it.
EndTurn ==
  /\ MainMove("leave", "accept")
  /\ connection' = NoConn
  /\ UNCHANGED <<queue, running, score, outcome>>
  /\ \E c \in Conns : connection = c /\ Release(c)

-----------------------------------------------------------------------------
(***************************************************************************)
(* The workers.                                                            *)
(***************************************************************************)
Take(w) ==
  /\ Pool!Take(w)
  /\ UNCHANGED <<score, client, fds, m_fd, mainVars, outcome>>

\* _handle_connection: the request is served and rated.
Rate(w, good) ==
  /\ running[w] # NoConn
  /\ outcome[w] = "no"
  /\ outcome' = [outcome EXCEPT ![w] = IF good THEN "good" ELSE "bad"]
  /\ score' = [score EXCEPT ![Addr[running[w]]] = Rep!Rated(@, good)]
  /\ UNCHANGED <<queue, running, client, fds, m_fd, mainVars>>

\* _handle_connection: the client has left before it sent anything.
ClientLeft(w) ==
  /\ running[w] # NoConn
  /\ outcome[w] = "no"
  /\ outcome' = [outcome EXCEPT ![w] = "left"]
  /\ UNCHANGED <<queue, running, score, client, fds, m_fd, mainVars>>

\* FinishClose: the handler closes the socket itself.
FinishClose(w) ==
  /\ outcome[w] # "no"
  /\ outcome' = [outcome EXCEPT ![w] = "no"]
  /\ Pool!Finish(w)
  /\ fds' = [fds EXCEPT ![m_fd[running[w]]] = NoConn]
  /\ m_fd' = [m_fd EXCEPT ![running[w]] = Nothing]
  /\ client' = [client EXCEPT ![running[w]] = "closed"]
  /\ UNCHANGED <<score, mainVars>>

\* The handler has returned, and the worker's job goes out of scope.
Finish(w) ==
  /\ outcome[w] # "no"
  /\ outcome' = [outcome EXCEPT ![w] = "no"]
  /\ Pool!Finish(w)
  /\ UNCHANGED <<score, mainVars>>
  /\ \E c \in Conns : running[w] = c /\ Release(c)

-----------------------------------------------------------------------------
MainStep == Accept \/ CheckListed \/ AddJob \/ EndTurn

Handle(w) == Rate(w, TRUE) \/ Rate(w, FALSE) \/ ClientLeft(w) \/ Finish(w)

Next ==
  \/ \E c \in Conns : Connect(c)
  \/ MainStep
  \/ \E w \in Workers : Take(w) \/ Handle(w)

\* Main runs, handlers return, and the pool keeps JobQueue's promise.
Fairness ==
  /\ WF_vars(MainStep)
  /\ WF_vars(\E w \in Workers : Take(w))
  /\ \A w \in Workers : WF_vars(Handle(w))

Spec == Init /\ [][Next]_vars /\ Fairness

-----------------------------------------------------------------------------
(***************************************************************************)
(* Properties.                                                             *)
(***************************************************************************)
\* Type invariant.
TypeOK ==
  /\ queue \in Seq(Conns)
  /\ running \in [Workers -> Conns \cup {NoConn}]
  /\ score \in [Addrs -> Int \cup {NoScore}]
  /\ client \in [Conns -> {"out", "waits", "in", "closed"}]
  /\ fds \in [Fds -> Conns \cup {NoConn}]
  /\ m_fd \in [Conns -> Fds \cup {Nothing}]
  /\ connection \in Conns \cup {NoConn}
  /\ mainPc \in {"accept", "check", "add", "leave"}
  /\ outcome \in [Workers -> {"no", "good", "bad", "left"}]

\* A connection somebody still has is the one behind its socket, so that no
\* client gets another's response through a socket closed and opened again;
\* and a socket is open only for a connection somebody has
\* (tcp_connection.cpp:61, server.cpp:29 and 40, tpool.cpp:72).
SocketIsMine ==
  /\ \A c \in Conns : Held(c) => m_fd[c] # Nothing /\ fds[m_fd[c]] = c
  /\ \A f \in Fds : fds[f] # NoConn => Held(fds[f])

\* Connections that passed the blacklist and are not rated yet.
InFlight(a) ==
  {c \in Conns : Addr[c] = a /\
     \/ mainPc = "add" /\ connection = c
     \/ Pool!Queued(c)
     \/ \E w \in Workers : running[w] = c /\ outcome[w] = "no"}

\* A blacklisted address stays so: once the connections that were let in before
\* are rated, none of it is let in again and its score does not move
\* (server.cpp:33-40); it cannot earn its way back.
ListedStays ==
  [][\A a \in Addrs :
       Rep!Listed(score[a]) /\ InFlight(a) = {} =>
         score'[a] = score[a] /\ InFlight(a)' = {}]_vars

\* The lowest score that is let in; an address that has none starts from 0.
LowestLetIn == IF blacklist_threshold < 0 THEN blacklist_threshold ELSE 0

\* How far below that an address can get: by the connections that were let in
\* before it was blacklisted, each of which has a socket.
ScoreFloor ==
  \A a \in Addrs :
    score[a] # NoScore =>
      score[a] - Cardinality(InFlight(a)) >= LowestLetIn - Cardinality(Fds)

\* Every client that connects is served or turned away, and its socket
\* closed, if handlers return: no socket leaks, so that Main gets one again.
EveryClientCloses == \A c \in Conns : client[c] = "waits" ~> client[c] = "closed"
=============================================================================

---------------------------- MODULE ServerProofs ----------------------------
(***************************************************************************)
(* Proofs about server_loop with the pool and the blacklist, for any sets  *)
(* of clients, workers and addresses, any threshold and any finite number  *)
(* of sockets: no connection loses its socket to another, no socket leaks, *)
(* and how low a score can get.                                            *)
(*                                                                         *)
(* What the properties of Server lack alone is who has which connection    *)
(* (Holders), and that a TCPConnection and its socket belong to each other *)
(* for exactly as long as somebody has it (Sockets).                       *)
(***************************************************************************)
EXTENDS Server, FiniteSetTheorems, SequenceTheorems, TLAPS

\* A connection is once in the queue or with one worker, and Main's own is in
\* neither before add_job.
Holders ==
  /\ \A i, j \in DOMAIN queue : queue[i] = queue[j] => i = j
  /\ \A v, w \in Workers : running[v] = running[w] => v = w \/ running[v] = NoConn
  /\ \A c \in Conns : ~Pool!Queued(c) \/ ~Pool!Served(c)
  /\ mainPc \in {"check", "add"} => ~Pool!Queued(connection) /\ ~Pool!Served(connection)
  /\ connection = NoConn <=> mainPc = "accept"
  /\ \A w \in Workers : running[w] = NoConn => outcome[w] = "no"

\* Who has a connection has its socket, and is a client that is in.
Sockets ==
  /\ SocketIsMine
  /\ \A f \in Fds : fds[f] # NoConn => m_fd[fds[f]] = f
  /\ \A c \in Conns : client[c] = "in" <=> Held(c)

\* The inductive invariant.
IInv == TypeOK /\ Holders /\ Sockets /\ ScoreFloor

-----------------------------------------------------------------------------
(***************************************************************************)
(* What the steps of the pool do to who has a connection.                  *)
(***************************************************************************)
\* The end of the queue is one more connection that waits.
LEMMA AddEffect ==
  ASSUME queue \in Seq(Conns), NEW c \in Conns, Pool!Add(c)
  PROVE  /\ queue' \in Seq(Conns) /\ running' = running
         /\ \A d : Pool!Queued(d)' <=> Pool!Queued(d) \/ d = c
         /\ \A d : Pool!Served(d)' <=> Pool!Served(d)
         /\ DOMAIN queue' = 1 .. Len(queue) + 1 /\ queue'[Len(queue) + 1] = c
         /\ \A i \in 1 .. Len(queue) : queue'[i] = queue[i]
<1>1. /\ queue' = Append(queue, c) /\ running' = running
      /\ Len(queue) \in Nat /\ DOMAIN queue = 1 .. Len(queue)
  BY DEF Pool!Add
<1>2. /\ queue' \in Seq(Conns)
      /\ DOMAIN queue' = 1 .. Len(queue) + 1 /\ queue'[Len(queue) + 1] = c
      /\ \A i \in 1 .. Len(queue) : queue'[i] = queue[i]
  BY <1>1, AppendProperties
<1>3. \A d : Pool!Queued(d)' <=> Pool!Queued(d) \/ d = c
  BY <1>1, <1>2 DEF Pool!Queued
<1> QED
  BY <1>1, <1>2, <1>3 DEF Pool!Served

\* The head of the queue goes to an idle worker.
LEMMA TakeEffect ==
  ASSUME TypeOK, Holders, NEW w \in Workers, Pool!Take(w)
  PROVE  /\ queue' \in Seq(Conns) /\ Head(queue) \in Conns
         /\ running' = [running EXCEPT ![w] = Head(queue)]
         /\ Pool!Queued(Head(queue))
         /\ \A d : Pool!Queued(d)' <=> Pool!Queued(d) /\ d # Head(queue)
         /\ \A d \in Conns : Pool!Served(d)' <=> Pool!Served(d) \/ d = Head(queue)
         /\ \A i \in DOMAIN queue' : i + 1 \in DOMAIN queue /\ queue'[i] = queue[i + 1]
<1>1. /\ queue # <<>> /\ queue' = Tail(queue) /\ running[w] = NoConn
      /\ running' = [running EXCEPT ![w] = Head(queue)]
      /\ queue \in Seq(Conns) /\ running \in [Workers -> Conns \cup {NoConn}]
  BY DEF Pool!Take, TypeOK
<1>2. /\ Len(queue) \in Nat \ {0} /\ DOMAIN queue = 1 .. Len(queue)
      /\ queue' \in Seq(Conns) /\ Head(queue) \in Conns
      /\ Head(queue) = queue[1]
      /\ Len(queue') = Len(queue) - 1 /\ DOMAIN queue' = 1 .. Len(queue')
      /\ \A i \in 1 .. Len(queue') : queue'[i] = queue[i + 1]
  BY <1>1, HeadTailProperties, EmptySeq
<1>3. \A i \in DOMAIN queue' : i + 1 \in DOMAIN queue /\ queue'[i] = queue[i + 1]
  BY <1>2
<1>4. \A i \in DOMAIN queue : i = 1 \/ (i - 1 \in DOMAIN queue' /\ queue'[i - 1] = queue[i])
  BY <1>2
<1>5. \A i \in DOMAIN queue : queue[i] = Head(queue) => i = 1
  BY <1>2 DEF Holders
<1>6. Pool!Queued(Head(queue))
  BY <1>2 DEF Pool!Queued
<1>7. ASSUME NEW d
      PROVE  Pool!Queued(d)' <=> Pool!Queued(d) /\ d # Head(queue)
  <2>1. ASSUME NEW i \in DOMAIN queue', queue'[i] = d
        PROVE  Pool!Queued(d) /\ d # Head(queue)
    BY <1>2, <1>3, <1>5, <2>1 DEF Pool!Queued
  <2>2. ASSUME NEW i \in DOMAIN queue, queue[i] = d, d # Head(queue)
        PROVE  Pool!Queued(d)'
    BY <1>2, <1>4, <2>2 DEF Pool!Queued
  <2> QED
    BY <2>1, <2>2 DEF Pool!Queued
<1>8. \A d \in Conns : Pool!Served(d)' <=> Pool!Served(d) \/ d = Head(queue)
  BY <1>1, ServerAssumption DEF Pool!Served
<1> QED
  BY <1>1, <1>2, <1>3, <1>6, <1>7, <1>8

\* A worker gives its connection up.
LEMMA FinishEffect ==
  ASSUME TypeOK, Holders, NEW w \in Workers, Pool!Finish(w)
  PROVE  /\ queue' = queue /\ running[w] \in Conns
         /\ running' = [running EXCEPT ![w] = NoConn]
         /\ \A d : Pool!Queued(d)' <=> Pool!Queued(d)
         /\ \A d \in Conns : Pool!Served(d)' <=> Pool!Served(d) /\ d # running[w]
<1>1. /\ queue' = queue /\ running[w] # NoConn
      /\ running' = [running EXCEPT ![w] = NoConn]
      /\ running \in [Workers -> Conns \cup {NoConn}]
  BY DEF Pool!Finish, TypeOK
<1> QED
  BY <1>1, ServerAssumption DEF Pool!Queued, Pool!Served, Holders

-----------------------------------------------------------------------------
(***************************************************************************)
(* Types.                                                                  *)
(***************************************************************************)
\* A step leaves every variable its type.
LEMMA TypeStep ==
  ASSUME IInv, [Next]_vars
  PROVE  TypeOK'
<1> USE ServerAssumption DEF IInv, TypeOK
<1>1. CASE UNCHANGED vars
  BY <1>1 DEF vars, mainVars
<1>2. ASSUME NEW c \in Conns, Connect(c)
      PROVE  TypeOK'
  BY <1>2 DEF Connect, mainVars
<1>3. CASE Accept
  BY <1>3 DEF Accept, MainMove
<1>4. CASE CheckListed
  BY <1>4 DEF CheckListed, MainMove
<1>5. CASE AddJob
  <2>1. connection \in Conns
    BY <1>5 DEF AddJob, MainMove, Holders
  <2>2. queue' \in Seq(Conns) /\ running' = running
    BY <1>5, <2>1, AddEffect DEF AddJob
  <2> QED
    BY <1>5, <2>2 DEF AddJob, MainMove
<1>6. ASSUME NEW c \in Conns, Release(c)
      PROVE  /\ fds' \in [Fds -> Conns \cup {NoConn}]
             /\ m_fd' \in [Conns -> Fds \cup {Nothing}]
             /\ client' \in [Conns -> {"out", "waits", "in", "closed"}]
  BY <1>6 DEF Release
<1>7. CASE EndTurn
  BY <1>6, <1>7 DEF EndTurn, MainMove
<1>8. ASSUME NEW w \in Workers, Take(w)
      PROVE  TypeOK'
  <2>1. /\ queue' \in Seq(Conns) /\ Head(queue) \in Conns
        /\ running' = [running EXCEPT ![w] = Head(queue)]
    BY <1>8, TakeEffect DEF Take
  <2> QED
    BY <1>8, <2>1 DEF Take, mainVars
<1>9. ASSUME NEW w \in Workers, NEW good \in BOOLEAN, Rate(w, good)
      PROVE  TypeOK'
  <2>1. running[w] \in Conns /\ Addr[running[w]] \in Addrs
    BY <1>9 DEF Rate
  <2>2. Rep!Rated(score[Addr[running[w]]], good) \in Int
    BY <2>1 DEF Rep!Rated
  <2> QED
    BY <1>9, <2>2 DEF Rate, mainVars
<1>10. ASSUME NEW w \in Workers, ClientLeft(w)
       PROVE  TypeOK'
  BY <1>10 DEF ClientLeft, mainVars
<1>11. ASSUME NEW w \in Workers, Finish(w)
       PROVE  TypeOK'
  <2>1. queue' = queue /\ running' = [running EXCEPT ![w] = NoConn]
    BY <1>11, FinishEffect DEF Finish
  <2> QED
    BY <1>6, <1>11, <2>1 DEF Finish, mainVars
<1> QED
  BY <1>1, <1>2, <1>3, <1>4, <1>5, <1>7, <1>8, <1>9, <1>10, <1>11
  DEF Next, MainStep, Handle

-----------------------------------------------------------------------------
(***************************************************************************)
(* Who has a connection.                                                   *)
(***************************************************************************)
\* A connection that waits to be accepted has no one.
LEMMA WaitingUnheld ==
  ASSUME IInv, NEW c \in Conns, client[c] # "in"
  PROVE  connection # c /\ ~Pool!Queued(c) /\ ~Pool!Served(c)
BY DEF IInv, Sockets, Held

\* A step leaves each connection in one place.
LEMMA HoldersStep ==
  ASSUME IInv, [Next]_vars
  PROVE  Holders'
<1> USE ServerAssumption DEF IInv, TypeOK, Holders
<1>1. ASSUME queue' = queue, running' = running
      PROVE  \A d : (Pool!Queued(d)' <=> Pool!Queued(d)) /\ (Pool!Served(d)' <=> Pool!Served(d))
  BY <1>1 DEF Pool!Queued, Pool!Served
<1>2. CASE UNCHANGED vars
  BY <1>1, <1>2 DEF vars, mainVars
<1>3. ASSUME NEW c \in Conns, Connect(c)
      PROVE  Holders'
  BY <1>1, <1>3 DEF Connect, mainVars
<1>4. CASE Accept
  <2>1. PICK c \in Conns : client[c] = "waits" /\ connection' = c
    BY <1>4 DEF Accept
  <2>2. ~Pool!Queued(c) /\ ~Pool!Served(c)
    BY <2>1, WaitingUnheld
  <2> QED
    BY <1>1, <1>4, <2>1, <2>2 DEF Accept, MainMove
<1>5. CASE CheckListed
  BY <1>1, <1>5 DEF CheckListed, MainMove
<1>6. CASE AddJob
  <2>1. /\ connection \in Conns /\ connection' = connection /\ mainPc' = "leave"
        /\ outcome' = outcome /\ Pool!Add(connection)
    BY <1>6 DEF AddJob, MainMove
  <2>2. /\ running' = running
        /\ \A d : Pool!Queued(d)' <=> Pool!Queued(d) \/ d = connection
        /\ \A d : Pool!Served(d)' <=> Pool!Served(d)
        /\ DOMAIN queue' = 1 .. Len(queue) + 1 /\ queue'[Len(queue) + 1] = connection
        /\ \A i \in 1 .. Len(queue) : queue'[i] = queue[i]
    BY <2>1, AddEffect
  <2>3. ~Pool!Queued(connection) /\ ~Pool!Served(connection)
    BY <1>6 DEF AddJob, MainMove
  <2>4. Len(queue) \in Nat /\ DOMAIN queue = 1 .. Len(queue)
    OBVIOUS
  <2>5. \A i, j \in DOMAIN queue' : queue'[i] = queue'[j] => i = j
    <3>1. \A i \in 1 .. Len(queue) : queue[i] # connection
      BY <2>3, <2>4 DEF Pool!Queued
    <3>2. \A i \in DOMAIN queue' : i \in 1 .. Len(queue) \/ i = Len(queue) + 1
      BY <2>2, <2>4
    <3>3. \A i, j \in 1 .. Len(queue) : queue[i] = queue[j] => i = j
      BY <2>4
    <3> HIDE DEF Holders, TypeOK, IInv
    <3> QED
      BY <2>2, <3>1, <3>2, <3>3
  <2>6. \A c \in Conns : ~Pool!Queued(c)' \/ ~Pool!Served(c)'
    BY <2>2, <2>3
  <2> QED
    BY <2>1, <2>2, <2>5, <2>6
<1>7. CASE EndTurn
  BY <1>1, <1>7 DEF EndTurn, MainMove
<1>8. ASSUME NEW w \in Workers, Take(w)
      PROVE  Holders'
  <2>1. /\ Head(queue) \in Conns
        /\ running' = [running EXCEPT ![w] = Head(queue)]
        /\ Pool!Queued(Head(queue))
        /\ \A d : Pool!Queued(d)' <=> Pool!Queued(d) /\ d # Head(queue)
        /\ \A d \in Conns : Pool!Served(d)' <=> Pool!Served(d) \/ d = Head(queue)
        /\ \A i \in DOMAIN queue' : i + 1 \in DOMAIN queue /\ queue'[i] = queue[i + 1]
    BY <1>8, TakeEffect DEF Take
  <2>2. ~Pool!Served(Head(queue))
    BY <2>1
  <2>3. UNCHANGED <<connection, mainPc, outcome>>
    BY <1>8 DEF Take, mainVars
  <2>4. \A i \in DOMAIN queue' : i \in Int
    <3>1. queue' \in Seq(Conns)
      BY <1>8, TakeEffect DEF Take
    <3> QED BY <3>1
  <2>5. \A i, j \in DOMAIN queue' : queue'[i] = queue'[j] => i = j
    <3> SUFFICES ASSUME NEW i \in DOMAIN queue', NEW j \in DOMAIN queue',
                        queue'[i] = queue'[j]
                 PROVE  i = j
      OBVIOUS
    <3>1. i + 1 = j + 1
      BY <2>1
    <3> QED BY <2>4, <3>1
  <2>6. \A v, u \in Workers : running'[v] = running'[u] => v = u \/ running'[v] = NoConn
    BY <2>1, <2>2 DEF Pool!Served
  <2>7. \A c \in Conns : ~Pool!Queued(c)' \/ ~Pool!Served(c)'
    BY <2>1
  <2>8. ASSUME mainPc \in {"check", "add"}
        PROVE  ~Pool!Queued(connection)' /\ ~Pool!Served(connection)'
    <3>1. /\ connection \in Conns /\ connection # Head(queue)
          /\ ~Pool!Queued(connection) /\ ~Pool!Served(connection)
      BY <2>1, <2>8
    <3> QED
      BY <2>1, <2>3, <3>1 DEF Pool!Queued, Pool!Served
  <2>9. \A u \in Workers : running'[u] = NoConn => outcome[u] = "no"
    BY <2>1
  <2> QED
    BY <2>3, <2>5, <2>6, <2>7, <2>8, <2>9 DEF Pool!Queued, Pool!Served
<1>9. ASSUME NEW w \in Workers, NEW good \in BOOLEAN, Rate(w, good)
      PROVE  Holders'
  BY <1>1, <1>9 DEF Rate, mainVars
<1>10. ASSUME NEW w \in Workers, ClientLeft(w)
       PROVE  Holders'
  BY <1>1, <1>10 DEF ClientLeft, mainVars
<1>11. ASSUME NEW w \in Workers, Finish(w)
       PROVE  Holders'
  <2>1. /\ queue' = queue /\ running' = [running EXCEPT ![w] = NoConn]
        /\ \A d : Pool!Queued(d)' <=> Pool!Queued(d)
        /\ \A d \in Conns : Pool!Served(d)' <=> Pool!Served(d) /\ d # running[w]
    BY <1>11, FinishEffect DEF Finish
  <2>2. /\ UNCHANGED <<connection, mainPc>>
        /\ outcome' = [outcome EXCEPT ![w] = "no"]
    BY <1>11 DEF Finish, mainVars
  <2> QED
    BY <2>1, <2>2
<1> QED
  BY <1>2, <1>3, <1>4, <1>5, <1>6, <1>7, <1>8, <1>9, <1>10, <1>11
  DEF Next, MainStep, Handle

-----------------------------------------------------------------------------
(***************************************************************************)
(* The sockets.                                                            *)
(***************************************************************************)
\* The steps that neither accept a connection nor give one up.
Quiet ==
  \/ UNCHANGED vars
  \/ \E c \in Conns : Connect(c)
  \/ CheckListed
  \/ AddJob
  \/ \E w \in Workers : Take(w) \/ Rate(w, TRUE) \/ Rate(w, FALSE) \/ ClientLeft(w)

\* In a quiet step nobody loses a connection: add_job copies Main's pointer
\* before Main drops it, and a worker takes it from the queue as it pops.
LEMMA QuietKeeps ==
  ASSUME IInv, Quiet
  PROVE  \A c \in Conns : Held(c)' <=> Held(c)
<1> USE ServerAssumption DEF IInv
<1>1. ASSUME UNCHANGED <<queue, running, connection>>
      PROVE  \A c \in Conns : Held(c)' <=> Held(c)
  BY <1>1 DEF Held, Pool!Queued, Pool!Served
<1>2. CASE AddJob
  <2>1. connection \in Conns /\ connection' = connection /\ Pool!Add(connection)
    BY <1>2 DEF AddJob, MainMove, TypeOK, Holders
  <2>2. /\ \A d : Pool!Queued(d)' <=> Pool!Queued(d) \/ d = connection
        /\ \A d : Pool!Served(d)' <=> Pool!Served(d)
    BY <2>1, AddEffect DEF TypeOK
  <2> QED
    BY <2>1, <2>2 DEF Held
<1>3. ASSUME NEW w \in Workers, Take(w)
      PROVE  \A c \in Conns : Held(c)' <=> Held(c)
  <2>1. /\ Pool!Queued(Head(queue))
        /\ \A d : Pool!Queued(d)' <=> Pool!Queued(d) /\ d # Head(queue)
        /\ \A d \in Conns : Pool!Served(d)' <=> Pool!Served(d) \/ d = Head(queue)
    BY <1>3, TakeEffect DEF Take
  <2>2. connection' = connection
    BY <1>3 DEF Take, mainVars
  <2> QED
    BY <2>1, <2>2 DEF Held
<1> QED
  BY <1>1, <1>2, <1>3
  DEF Quiet, vars, mainVars, Connect, CheckListed, Rate, ClientLeft

\* When one of those that have c gives it up, c keeps its socket if another
\* has it and loses it if none has.
LEMMA ReleaseKeeps ==
  ASSUME TypeOK, Sockets, NEW c \in Conns, Held(c), Release(c),
         \A d \in Conns \ {c} : Held(d)' <=> Held(d)
  PROVE  Sockets'
<1> USE ServerAssumption DEF TypeOK, Sockets, SocketIsMine
<1>1. CASE Held(c)'
  <2>1. UNCHANGED <<fds, m_fd, client>> /\ \A d \in Conns : Held(d)' <=> Held(d)
    BY <1>1 DEF Release
  <2> QED
    BY <2>1
<1>2. CASE ~Held(c)'
  <2>1. /\ fds' = [fds EXCEPT ![m_fd[c]] = NoConn]
        /\ m_fd' = [m_fd EXCEPT ![c] = Nothing]
        /\ client' = [client EXCEPT ![c] = "closed"]
    BY <1>2 DEF Release
  <2>2. m_fd[c] \in Fds /\ fds[m_fd[c]] = c
    OBVIOUS
  <2>3. \A f \in Fds : fds'[f] # NoConn => fds[f] # c /\ fds'[f] = fds[f]
    BY <2>1, <2>2
  <2>4. \A d \in Conns : Held(d)' => /\ d # c /\ m_fd'[d] = m_fd[d]
                                     /\ m_fd[d] \in Fds /\ m_fd[d] # m_fd[c]
    BY <1>2, <2>1, <2>2
  <2>5. \A d \in Conns : Held(d)' => m_fd'[d] # Nothing /\ fds'[m_fd'[d]] = d
    BY <2>1, <2>4
  <2>6. ASSUME NEW f \in Fds, fds'[f] # NoConn
        PROVE  Held(fds[f])' /\ m_fd'[fds'[f]] = f
    <3>1. fds'[f] = fds[f] /\ fds[f] \in Conns \ {c} /\ Held(fds[f]) /\ m_fd[fds[f]] = f
      BY <2>3, <2>6
    <3>2. PICK d \in Conns \ {c} : d = fds'[f] /\ Held(d) /\ m_fd[d] = f
      BY <3>1
    <3>3. Held(d)' /\ m_fd'[d] = f
      BY <2>1, <3>2
    <3> QED
      BY <3>2, <3>3 DEF Held, Pool!Queued, Pool!Served
  <2>7. \A d \in Conns : client'[d] = "in" <=> Held(d)'
    BY <1>2, <2>1
  <2>8. SocketIsMine'
    BY <2>5, <2>6
  <2> QED
    BY <2>6, <2>7, <2>8
<1> QED
  BY <1>1, <1>2

\* A step leaves a connection and its socket to each other.
LEMMA SocketsStep ==
  ASSUME IInv, [Next]_vars
  PROVE  Sockets'
<1> USE ServerAssumption DEF IInv
<1>1. CASE Quiet
  <2>1. \A c \in Conns : Held(c)' <=> Held(c)
    BY <1>1, QuietKeeps
  <2>2. UNCHANGED <<fds, m_fd>> /\ \A c \in Conns : client'[c] = "in" <=> client[c] = "in"
    BY <1>1 DEF Quiet, vars, mainVars, Connect, CheckListed, AddJob, Take, Rate, ClientLeft,
       TypeOK
  <2> QED
    BY <2>1, <2>2 DEF Sockets, SocketIsMine, TypeOK
<1>2. CASE Accept
  <2>1. PICK c \in Conns, f \in Fds :
          /\ client[c] = "waits" /\ fds[f] = NoConn /\ connection' = c
          /\ client' = [client EXCEPT ![c] = "in"]
          /\ fds' = [fds EXCEPT ![f] = c]
          /\ m_fd' = [m_fd EXCEPT ![c] = f]
    BY <1>2 DEF Accept
  <2>2. connection = NoConn /\ queue' = queue /\ running' = running
    BY <1>2 DEF Accept, MainMove, Holders
  <2>3. ~Held(c)
    BY <2>1 DEF Sockets
  <2>4. \A d \in Conns : Held(d)' <=> Held(d) \/ d = c
    BY <2>1, <2>2 DEF Held, Pool!Queued, Pool!Served
  <2> QED
    BY <2>1, <2>3, <2>4 DEF Sockets, SocketIsMine, TypeOK
<1>3. CASE EndTurn
  <2>1. PICK c \in Conns : connection = c /\ Release(c)
    BY <1>3 DEF EndTurn
  <2>2. connection' = NoConn /\ queue' = queue /\ running' = running
    BY <1>3 DEF EndTurn
  <2>3. Held(c) /\ \A d \in Conns \ {c} : Held(d)' <=> Held(d)
    BY <2>1, <2>2 DEF Held, Pool!Queued, Pool!Served
  <2> QED
    BY <2>1, <2>3, ReleaseKeeps
<1>4. ASSUME NEW w \in Workers, Finish(w)
      PROVE  Sockets'
  <2>1. PICK c \in Conns : running[w] = c /\ Release(c)
    BY <1>4 DEF Finish
  <2>2. /\ connection' = connection
        /\ \A d : Pool!Queued(d)' <=> Pool!Queued(d)
        /\ \A d \in Conns : Pool!Served(d)' <=> Pool!Served(d) /\ d # running[w]
    BY <1>4, FinishEffect DEF Finish, mainVars
  <2>3. Held(c) /\ \A d \in Conns \ {c} : Held(d)' <=> Held(d)
    BY <2>1, <2>2 DEF Held, Pool!Served
  <2> QED
    BY <2>1, <2>3, ReleaseKeeps
<1> QED
  BY <1>1, <1>2, <1>3, <1>4 DEF Next, MainStep, Handle, Quiet

-----------------------------------------------------------------------------
(***************************************************************************)
(* The connections in flight, and the scores.                              *)
(***************************************************************************)
\* Connection c of address a is let in; it lands, rated or left.
LetIn(a, c) ==
  /\ ~Rep!Listed(score[a])
  /\ InFlight(a)' = InFlight(a) \cup {c}
  /\ score' = score

Landed(a, c) ==
  /\ c \in InFlight(a)
  /\ InFlight(a)' = InFlight(a) \ {c}
  /\ score'[a] = score[a] \/ \E good \in BOOLEAN : score'[a] = Rep!Rated(score[a], good)

\* A step lets a connection of an address in, or lands one, or changes neither
\* its score nor what is in flight.
LEMMA InFlightStep ==
  ASSUME IInv, [Next]_vars, NEW a \in Addrs
  PROVE  \/ InFlight(a)' = InFlight(a) /\ score'[a] = score[a]
         \/ \E c \in Conns : LetIn(a, c) \/ Landed(a, c)
<1> USE ServerAssumption DEF IInv, TypeOK
<1>1. ASSUME UNCHANGED <<queue, running, outcome, score>>,
             mainPc # "add", mainPc' # "add"
      PROVE  InFlight(a)' = InFlight(a) /\ score'[a] = score[a]
  BY <1>1 DEF InFlight, Pool!Queued
<1>2. ASSUME UNCHANGED <<queue, running, outcome, score, connection, mainPc>>
      PROVE  InFlight(a)' = InFlight(a) /\ score'[a] = score[a]
  BY <1>2 DEF InFlight, Pool!Queued
<1>3. CASE CheckListed
  <2>1. connection \in Conns /\ mainPc = "check" /\ UNCHANGED <<queue, running, outcome, score, connection>>
    BY <1>3 DEF CheckListed, MainMove, Holders
  <2>2. CASE Rep!Listed(score[Addr[connection]]) \/ Addr[connection] # a
    BY <1>3, <2>1, <2>2 DEF CheckListed, MainMove, InFlight, Pool!Queued
  <2>3. CASE ~Rep!Listed(score[a]) /\ Addr[connection] = a
    <3>1. mainPc' = "add"
      BY <1>3, <2>3 DEF CheckListed, MainMove
    <3>2. InFlight(a)' = InFlight(a) \cup {connection}
      BY <2>1, <2>3, <3>1 DEF InFlight, Pool!Queued
    <3> QED
      BY <2>1, <2>3, <3>2 DEF LetIn
  <2> QED
    BY <2>2, <2>3
<1>4. CASE AddJob
  <2>1. /\ connection \in Conns /\ connection' = connection /\ Pool!Add(connection)
        /\ mainPc = "add" /\ mainPc' = "leave" /\ UNCHANGED <<outcome, score>>
    BY <1>4 DEF AddJob, MainMove, Holders
  <2>2. /\ running' = running
        /\ \A d : Pool!Queued(d)' <=> Pool!Queued(d) \/ d = connection
    BY <2>1, AddEffect
  <2> QED
    BY <2>1, <2>2 DEF InFlight
<1>5. ASSUME NEW w \in Workers, Take(w)
      PROVE  InFlight(a)' = InFlight(a) /\ score'[a] = score[a]
  <2>1. /\ Head(queue) \in Conns
        /\ running' = [running EXCEPT ![w] = Head(queue)]
        /\ Pool!Queued(Head(queue))
        /\ \A d : Pool!Queued(d)' <=> Pool!Queued(d) /\ d # Head(queue)
    BY <1>5, TakeEffect DEF Take
  <2>2. UNCHANGED <<connection, mainPc, outcome, score>>
    BY <1>5 DEF Take, mainVars
  <2>3. running[w] = NoConn /\ outcome[w] = "no"
    BY <1>5 DEF Take, Pool!Take, Holders
  <2> QED
    BY <2>1, <2>2, <2>3 DEF InFlight
<1>6. ASSUME NEW w \in Workers, running[w] # NoConn, outcome[w] = "no",
             UNCHANGED <<queue, running, connection, mainPc>>,
             \E o \in {"good", "bad", "left"} : outcome' = [outcome EXCEPT ![w] = o]
      PROVE  /\ Addr[running[w]] = a =>
                  running[w] \in InFlight(a) /\ InFlight(a)' = InFlight(a) \ {running[w]}
             /\ Addr[running[w]] # a => InFlight(a)' = InFlight(a)
  <2>1. /\ running[w] \in Conns /\ Pool!Served(running[w])
        /\ ~Pool!Queued(running[w]) /\ ~(mainPc = "add" /\ connection = running[w])
        /\ \A u \in Workers : running[u] = running[w] => u = w
    BY <1>6 DEF Holders, Pool!Served
  <2> QED
    BY <1>6, <2>1 DEF InFlight, Pool!Queued
<1>7. ASSUME NEW w \in Workers, NEW good \in BOOLEAN, Rate(w, good)
      PROVE  \/ InFlight(a)' = InFlight(a) /\ score'[a] = score[a]
             \/ \E c \in Conns : Landed(a, c)
  <2>1. running[w] \in Conns /\ Addr[running[w]] \in Addrs
    BY <1>7 DEF Rate
  <2>2. /\ Addr[running[w]] = a => score'[a] = Rep!Rated(score[a], good)
        /\ Addr[running[w]] # a => score'[a] = score[a]
    BY <1>7, <2>1 DEF Rate
  <2>3. /\ Addr[running[w]] = a =>
             running[w] \in InFlight(a) /\ InFlight(a)' = InFlight(a) \ {running[w]}
        /\ Addr[running[w]] # a => InFlight(a)' = InFlight(a)
    BY <1>6, <1>7 DEF Rate, mainVars
  <2> QED
    BY <2>1, <2>2, <2>3 DEF Landed
<1>8. ASSUME NEW w \in Workers, ClientLeft(w)
      PROVE  \/ InFlight(a)' = InFlight(a) /\ score'[a] = score[a]
             \/ \E c \in Conns : Landed(a, c)
  <2>1. running[w] \in Conns /\ score' = score
    BY <1>8 DEF ClientLeft
  <2>2. /\ Addr[running[w]] = a =>
             running[w] \in InFlight(a) /\ InFlight(a)' = InFlight(a) \ {running[w]}
        /\ Addr[running[w]] # a => InFlight(a)' = InFlight(a)
    BY <1>6, <1>8 DEF ClientLeft, mainVars
  <2> QED
    BY <2>1, <2>2 DEF Landed
<1>9. ASSUME NEW w \in Workers, Finish(w)
      PROVE  InFlight(a)' = InFlight(a) /\ score'[a] = score[a]
  BY <1>9, FinishEffect DEF Finish, mainVars, InFlight
<1> QED
  <2>1. CASE UNCHANGED vars \/ \E c \in Conns : Connect(c)
    BY <1>2, <2>1 DEF vars, mainVars, Connect
  <2>2. CASE Accept \/ EndTurn
    BY <1>1, <2>2 DEF Accept, EndTurn, MainMove
  <2> QED
    BY <1>3, <1>4, <1>5, <1>7, <1>8, <1>9, <2>1, <2>2 DEF Next, MainStep, Handle

\* As many as have a socket of their own are at most as many as the sockets.
LEMMA OwnSockets ==
  ASSUME NEW S, NEW T, IsFiniteSet(T), NEW g,
         \A c \in S : g[c] \in T,
         \A c, d \in S : g[c] = g[d] => c = d
  PROVE  /\ IsFiniteSet(S) /\ Cardinality(S) \in Nat /\ Cardinality(T) \in Nat
         /\ Cardinality(S) <= Cardinality(T)
<1>1. [c \in S |-> g[c]] \in Injection(S, T)
  BY DEF Injection, IsInjective
<1>2. IsFiniteSet(S) /\ Cardinality(S) <= Cardinality(T)
  BY <1>1, FS_Injection
<1> QED
  BY <1>2, FS_CardinalityType

\* A step lowers the floor of no address: what lets a connection in finds a
\* score that is not listed, and what ends the flight of one costs it at most
\* the one point that it was reckoned with.
LEMMA ScoreFloorStep ==
  ASSUME IInv, [Next]_vars, TypeOK', Sockets'
  PROVE  ScoreFloor'
<1> SUFFICES ASSUME NEW a \in Addrs, score'[a] # NoScore
             PROVE  score'[a] - Cardinality(InFlight(a)') >= LowestLetIn - Cardinality(Fds)
  BY DEF ScoreFloor, LowestLetIn
<1> DEFINE n == Cardinality(InFlight(a))
           m == Cardinality(InFlight(a)')
           all == Cardinality(Fds)
<1>1. score[a] \in Int \cup {NoScore} /\ score'[a] \in Int /\ LowestLetIn \in Int
      /\ NoScore \notin Int /\ blacklist_threshold \in Int /\ LowestLetIn <= 0
      /\ LowestLetIn <= blacklist_threshold
  BY ServerAssumption DEF IInv, TypeOK, LowestLetIn
<1>2. IsFiniteSet(InFlight(a)) /\ n \in Nat /\ all \in Nat /\ n <= all
  <2>1. \A c \in InFlight(a) : c \in Conns /\ Held(c)
    BY DEF InFlight, Held, Pool!Served
  <2>2. \A c \in InFlight(a) : m_fd[c] \in Fds /\ fds[m_fd[c]] = c
    BY <2>1 DEF IInv, Sockets, SocketIsMine, TypeOK
  <2> QED
    BY <2>2, OwnSockets, ServerAssumption
<1>3. m \in Nat /\ m <= all
  <2>1. \A c \in InFlight(a)' : c \in Conns /\ Held(c)'
    BY DEF InFlight, Held, Pool!Served, Pool!Queued
  <2>2. \A c \in InFlight(a)' : m_fd'[c] \in Fds /\ fds'[m_fd'[c]] = c
    BY <2>1 DEF Sockets, SocketIsMine, TypeOK
  <2> QED
    BY <2>2, OwnSockets, ServerAssumption
<1>4. score[a] # NoScore => score[a] - n >= LowestLetIn - all
  BY DEF IInv, ScoreFloor
<1>5. CASE InFlight(a)' = InFlight(a) /\ score'[a] = score[a]
  BY <1>4, <1>5
<1>6. ASSUME NEW c \in Conns, LetIn(a, c)
      PROVE  score'[a] - m >= LowestLetIn - all
  <2>1. score'[a] = score[a] /\ score[a] >= blacklist_threshold
    BY <1>1, <1>6 DEF LetIn, Rep!Listed
  <2> HIDE DEF m, all
  <2> QED
    BY <1>1, <1>2, <1>3, <2>1
<1>7. ASSUME NEW c \in Conns, Landed(a, c)
      PROVE  score'[a] - m >= LowestLetIn - all
  <2>1. m = n - 1
    BY <1>2, <1>7, FS_RemoveElement DEF Landed
  <2>2. \/ score'[a] = score[a]
        \/ score[a] = NoScore /\ score'[a] \in {1, -1}
        \/ score[a] # NoScore /\ score'[a] \in {score[a] + 1, score[a] - 1}
    BY <1>7 DEF Landed, Rep!Rated
  <2> HIDE DEF n, m, all
  <2> QED
    BY <1>1, <1>2, <1>4, <2>1, <2>2
<1> QED
  BY <1>5, <1>6, <1>7, InFlightStep

-----------------------------------------------------------------------------
(***************************************************************************)
(* The theorems.                                                           *)
(***************************************************************************)
\* The invariant holds before the first client connects.
LEMMA InitIInv == Init => IInv
<1> SUFFICES ASSUME Init PROVE IInv
  OBVIOUS
<1>1. /\ queue = <<>> /\ running = [w \in Workers |-> NoConn]
      /\ \A d : ~Pool!Queued(d)
      /\ \A c \in Conns : ~Pool!Served(c)
  BY ServerAssumption DEF Init, Pool!Init, Pool!Queued, Pool!Served
<1>2. TypeOK
  BY <1>1 DEF Init, TypeOK
<1>3. Holders
  BY <1>1 DEF Init, Holders
<1>4. \A c \in Conns : ~Held(c)
  BY <1>1, ServerAssumption DEF Init, Held
<1>5. Sockets
  BY <1>4 DEF Init, Sockets, SocketIsMine
<1>6. ScoreFloor
  BY DEF Init, ScoreFloor
<1> QED
  BY <1>2, <1>3, <1>5, <1>6 DEF IInv

\* The inductive invariant: it holds in every state of the server.
THEOREM Invariance == Spec => []IInv
<1>1. Init => IInv
  BY InitIInv
<1>2. IInv /\ [Next]_vars => IInv'
  BY TypeStep, HoldersStep, SocketsStep, ScoreFloorStep DEF IInv
<1> QED
  BY <1>1, <1>2, PTL DEF Spec

\* The pool, the scores, the sockets and the loop have their types.
THEOREM TypeCorrect == Spec => []TypeOK
<1>1. IInv => TypeOK
  BY DEF IInv
<1> QED
  BY <1>1, Invariance, PTL

\* No connection is served through another's socket, however sockets are
\* closed and opened again, and no socket is open for nobody.
THEOREM SocketsAreOwned == Spec => []SocketIsMine
<1>1. IInv => SocketIsMine
  BY DEF IInv, Sockets
<1> QED
  BY <1>1, Invariance, PTL

\* The connections let in while an address was not listed are all that can
\* take its score below the threshold, and there are no more than sockets.
THEOREM ScoresHaveAFloor == Spec => []ScoreFloor
<1>1. IInv => ScoreFloor
  BY DEF IInv
<1> QED
  BY <1>1, Invariance, PTL

\* A blacklisted address of which nothing is in flight is never let in again,
\* and its score never moves.
THEOREM BlacklistedForGood == Spec => ListedStays
<1>1. ASSUME IInv, [Next]_vars, NEW a \in Addrs, Rep!Listed(score[a]), InFlight(a) = {}
      PROVE  score'[a] = score[a] /\ InFlight(a)' = {}
  BY <1>1, InFlightStep DEF LetIn, Landed
<1>2. IInv /\ [Next]_vars =>
        [\A a \in Addrs :
           Rep!Listed(score[a]) /\ InFlight(a) = {} =>
             score'[a] = score[a] /\ InFlight(a)' = {}]_vars
  BY <1>1
<1> QED
  BY <1>2, Invariance, PTL DEF Spec, ListedStays
=============================================================================

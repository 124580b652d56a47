------------------------------ MODULE Blacklist ------------------------------
(***************************************************************************)
(* src/app/blacklist.cpp on src/framework/db/db.cpp: the score of every    *)
(* client address, in a map under a reader-writer lock and in the table    *)
(* stats of an SQLite file opened anew, under _db_mutex, for every update. *)
(*                                                                         *)
(* Main boots the process (main.cpp), then asks is_ipaddr_blacklisted for  *)
(* each connection it accepts.  A worker, for each request it has served,  *)
(* asks get_score_for_ipaddr if it sent anything and then calls            *)
(* update_ip_addr_stats (process_request.cpp:64-78).                       *)
(*                                                                         *)
(*    proc  : "down" -> "made" -> "select" -> "load" -> "loaded" -> "up"   *)
(*    lookup: "idle" -> "rlock" -> "look" -> "rret" -> "idle" or "rated"   *)
(*    update: "rated" -> "wlock" -> "map" -> "open" -> "step" -> "close"   *)
(*            -> "wret" -> "idle"                                          *)
(*                                                                         *)
(* SQLite is external: a statement commits whole or fails with no effect.  *)
(* The database is one file: that a relative path may name another one     *)
(* after main has changed the working directory is the subject of Startup. *)
(***************************************************************************)
EXTENDS Integers, FiniteSets

CONSTANTS Main,                 \* the thread of main and server_loop
          Workers,              \* the threads of the pool
          Addrs,                \* client addresses
          NoThread, NoScore, NoTable, Nothing,
          blacklist_threshold,
          Faults,               \* what may go wrong: subset of FaultKinds
          MaxScore              \* bound: no score beyond -MaxScore..MaxScore

FaultKinds == {"kill", "open", "step", "select"}

Threads == Workers \cup {Main}

Scores == Int \cup {NoScore}

ASSUME BlacklistAssumption ==
  /\ Main \notin Workers
  /\ NoThread \notin Threads
  /\ NoScore \notin Int
  /\ NoTable \notin [Addrs -> Scores]
  /\ Nothing \notin Scores \cup BOOLEAN
  /\ Nothing \notin [addr : Addrs, good : BOOLEAN]
  /\ Nothing \notin [op : {"listed", "score", "update"}, addr : Addrs, good : BOOLEAN]
  /\ blacklist_threshold \in Int
  /\ Faults \subseteq FaultKinds
  /\ MaxScore \in Nat

VARIABLES proc,         \* how far the process has started
          stats_list,   \* _stats_list: each address's score, or NoScore
          bl_writer,    \* _bl_rwlock: the thread that holds it to write
          bl_readers,   \* and those that hold it to read
          db_mutex,     \* the thread that holds _db_mutex
          pc,           \* where each thread is, once the process is up
          req,          \* the [addr, good] it works for, or Nothing
          query,        \* "INSERT" or "UPDATE", the statement of an update
          found,        \* what a lookup returns, or final_score
          rows,         \* on disk: the table stats, or NoTable
          unread        \* history: the rows the load at the start has missed

volatile == <<stats_list, bl_writer, bl_readers, db_mutex, pc, req, query, found, unread>>
vars == <<proc, stats_list, bl_writer, bl_readers, db_mutex, pc, req, query, found, rows,
          unread>>

\* The state of Reputation: the score is what is on disk; a call lasts from its
\* first step to its last and has its answer once it has taken effect.
RepScore == IF rows = NoTable THEN [a \in Addrs |-> NoScore] ELSE rows

RepCall(t) ==
  IF pc[t] \in {"idle", "rated"} THEN Nothing
  ELSE [op |-> IF pc[t] \notin {"rlock", "look", "rret"} THEN "update"
               ELSE IF t = Main THEN "listed" ELSE "score",
        addr |-> req[t].addr, good |-> req[t].good]

RepAnswer(t) ==
  IF pc[t] = "rret" THEN found[t]
  ELSE IF pc[t] \in {"close", "wret"} THEN found[t] > blacklist_threshold
  ELSE Nothing

Rep == INSTANCE Reputation WITH
         Callers <- Threads,
         score <- RepScore,
         unread <- unread,
         call <- [t \in Threads |-> RepCall(t)],
         answer <- [t \in Threads |-> RepAnswer(t)]

NobodyIn == [t \in Threads |-> Nothing]

NoStats == [a \in Addrs |-> NoScore]

Init ==
  /\ proc = "down"
  /\ stats_list = NoStats
  /\ bl_writer = NoThread
  /\ bl_readers = {}
  /\ db_mutex = NoThread
  /\ pc = [t \in Threads |-> "idle"]
  /\ req = NobodyIn
  /\ query = NobodyIn
  /\ found = NobodyIn
  /\ rows = NoTable
  /\ unread = {}

\* The process ends, killed, by exit (1) or by an exception no one catches:
\* its memory and its locks are gone.
GoDown ==
  /\ proc' = "down"
  /\ stats_list' = NoStats
  /\ bl_writer' = NoThread
  /\ bl_readers' = {}
  /\ db_mutex' = NoThread
  /\ pc' = [t \in Threads |-> "idle"]
  /\ req' = NobodyIn
  /\ query' = NobodyIn
  /\ found' = NobodyIn
  /\ unread' = {}
  /\ UNCHANGED rows

Kill == "kill" \in Faults /\ proc # "down" /\ GoDown

Stage(from, to) == proc = from /\ proc' = to

Move(t, from, to) ==
  /\ pc[t] = from
  /\ pc' = [pc EXCEPT ![t] = to]
  /\ UNCHANGED proc

-----------------------------------------------------------------------------
(***************************************************************************)
(* Boot: init_db, init_blacklist, and the change of directory.  There is   *)
(* one thread, so init_db's use of _db_mutex is not seen by anyone.        *)
(***************************************************************************)
\* init_db makes the table where there is none (its columns, and what else can
\* become of the start, are in Startup).
InitDb ==
  /\ Stage("down", "made")
  /\ rows' = IF rows = NoTable THEN NoStats ELSE rows
  /\ UNCHANGED volatile

\* _get_stats_from_db: _db_mutex first, then the map's lock.
SelectOpen ==
  /\ Stage("made", "select")
  /\ db_mutex = NoThread
  /\ db_mutex' = Main
  /\ UNCHANGED <<stats_list, bl_writer, bl_readers, pc, req, query, found, rows, unread>>

SelectLock ==
  /\ Stage("select", "load")
  /\ bl_writer = NoThread /\ bl_readers = {}
  /\ bl_writer' = Main
  /\ UNCHANGED <<stats_list, bl_readers, db_mutex, pc, req, query, found, rows, unread>>

\* SelectRows that never steps through the result.
SelectRowsUnread ==
  /\ Stage("load", "loaded")
  /\ bl_writer' = NoThread
  /\ db_mutex' = NoThread
  /\ UNCHANGED <<stats_list, bl_readers, pc, req, query, found, rows, unread>>

\* The rows up to the last, or up to an error of step (), which the loop takes
\* for the end; then both locks are released.
SelectRows ==
  /\ Stage("load", "loaded")
  /\ \E S \in IF "select" \in Faults THEN SUBSET Addrs ELSE {Addrs} :
       /\ stats_list' = [a \in Addrs |-> IF a \in S THEN rows[a] ELSE NoScore]
       /\ unread' = {a \in Addrs : rows[a] # NoScore} \ S
  /\ bl_writer' = NoThread
  /\ db_mutex' = NoThread
  /\ UNCHANGED <<bl_readers, pc, req, query, found, rows>>

\* fs::current_path, then server_loop starts the pool.
Chdir == Stage("loaded", "up") /\ UNCHANGED <<rows, volatile>>

Boot == InitDb \/ SelectOpen \/ SelectLock \/ SelectRows \/ Chdir

-----------------------------------------------------------------------------
(***************************************************************************)
(* The lookups: is_ipaddr_blacklisted by Main, get_score_for_ipaddr by a   *)
(* worker.                                                                 *)
(***************************************************************************)
\* A connection from a has been accepted.
IsListedCall(a) ==
  /\ proc = "up"
  /\ Move(Main, "idle", "rlock")
  /\ req' = [req EXCEPT ![Main] = [addr |-> a, good |-> TRUE]]
  /\ UNCHANGED <<stats_list, bl_writer, bl_readers, db_mutex, query, found, rows, unread>>

\* std::shared_lock.
ReadLock(t) ==
  /\ Move(t, "rlock", "look")
  /\ bl_writer = NoThread
  /\ bl_readers' = bl_readers \cup {t}
  /\ UNCHANGED <<stats_list, bl_writer, db_mutex, req, query, found, rows, unread>>

Look(t) ==
  /\ Move(t, "look", "rret")
  /\ LET s == stats_list[req[t].addr]
     IN  found' = [found EXCEPT ![t] = IF t = Main THEN Rep!Listed(s) ELSE s]
  /\ UNCHANGED <<stats_list, bl_writer, bl_readers, db_mutex, req, query, rows, unread>>

\* LookReturn with a result that outlives the call.
LookReturnUncleared(t) ==
  /\ Move(t, "rret", IF t = Main THEN "idle" ELSE "rated")
  /\ bl_readers' = bl_readers \ {t}
  /\ req' = IF t = Main THEN [req EXCEPT ![t] = Nothing] ELSE req
  /\ UNCHANGED <<stats_list, bl_writer, db_mutex, query, found, rows, unread>>

\* The lock goes on return; a worker still has its update to make.
LookReturn(t) ==
  /\ Move(t, "rret", IF t = Main THEN "idle" ELSE "rated")
  /\ bl_readers' = bl_readers \ {t}
  /\ found' = [found EXCEPT ![t] = Nothing]
  /\ req' = IF t = Main THEN [req EXCEPT ![t] = Nothing] ELSE req
  /\ UNCHANGED <<stats_list, bl_writer, db_mutex, query, rows, unread>>

-----------------------------------------------------------------------------
(***************************************************************************)
(* update_ip_addr_stats.                                                   *)
(***************************************************************************)
Magnitude(s) == IF s = NoScore THEN 0 ELSE IF s < 0 THEN -s ELSE s

InProgress(a) == {w \in Workers : req[w] # Nothing /\ req[w].addr = a}

\* A response has gone out, or has failed to: bytes > 0 or not.
Served(w, a, good, sent) ==
  /\ proc = "up"
  /\ Move(w, "idle", IF sent THEN "rlock" ELSE "rated")
  /\ Magnitude(stats_list[a]) + Cardinality(InProgress(a)) < MaxScore
  /\ req' = [req EXCEPT ![w] = [addr |-> a, good |-> good]]
  /\ UNCHANGED <<stats_list, bl_writer, bl_readers, db_mutex, query, found, rows, unread>>

UpdateCall(w) ==
  /\ Move(w, "rated", "wlock")
  /\ UNCHANGED <<stats_list, bl_writer, bl_readers, db_mutex, req, query, found, rows, unread>>

\* UpdateLock as a shared_lock would have it.
UpdateLockShared(w) ==
  /\ Move(w, "wlock", "map")
  /\ bl_writer = NoThread
  /\ bl_writer' = w
  /\ UNCHANGED <<stats_list, bl_readers, db_mutex, req, query, found, rows, unread>>

\* std::unique_lock, held until the return.
UpdateLock(w) ==
  /\ Move(w, "wlock", "map")
  /\ bl_writer = NoThread /\ bl_readers = {}
  /\ bl_writer' = w
  /\ UNCHANGED <<stats_list, bl_readers, db_mutex, req, query, found, rows, unread>>

\* emplace and INSERT, or the addition to the score that is there and UPDATE.
UpdateMap(w) ==
  /\ Move(w, "map", "open")
  /\ LET a == req[w].addr
         s == Rep!Rated(stats_list[a], req[w].good)
     IN  /\ stats_list' = [stats_list EXCEPT ![a] = s]
         /\ found' = [found EXCEPT ![w] = s]
         /\ query' = [query EXCEPT ![w] =
                        IF stats_list[a] = NoScore THEN "INSERT" ELSE "UPDATE"]
  /\ UNCHANGED <<bl_writer, bl_readers, db_mutex, req, rows, unread>>

\* The constructor of db_handle.  When sqlite3_open fails it throws, and
\* nothing above the worker catches.
OpenDb(w) ==
  /\ Move(w, "open", "step")
  /\ db_mutex = NoThread
  /\ db_mutex' = w
  /\ UNCHANGED <<stats_list, bl_writer, bl_readers, req, query, found, rows, unread>>

OpenDbFails(w) ==
  /\ "open" \in Faults
  /\ pc[w] = "open" /\ db_mutex = NoThread
  /\ GoDown

\* SQLite runs a statement if its table is there and, ipaddr being the primary
\* key, no row is in the way of an INSERT.
Runs(q, a) ==
  /\ rows # NoTable
  /\ q = "INSERT" => rows[a] = NoScore

\* Step with "INSERT OR REPLACE".
StepReplacing(w) ==
  /\ Move(w, "step", "close")
  /\ LET a == req[w].addr IN
       /\ rows # NoTable
       /\ rows' = IF query[w] = "INSERT" \/ rows[a] # NoScore
                    THEN [rows EXCEPT ![a] = found[w]]
                    ELSE rows
  /\ UNCHANGED <<stats_list, bl_writer, bl_readers, db_mutex, req, query, found, unread>>

\* Step with no "where".
StepEveryRow(w) ==
  /\ Move(w, "step", "close")
  /\ LET a == req[w].addr IN
       /\ Runs(query[w], a)
       /\ rows' = [b \in Addrs |->
                     IF b = a \/ (query[w] = "UPDATE" /\ rows[b] # NoScore)
                       THEN found[w] ELSE rows[b]]
  /\ UNCHANGED <<stats_list, bl_writer, bl_readers, db_mutex, req, query, found, unread>>

\* prepare, bind and step; the statement commits.  An UPDATE of a row that is
\* not there is SQLITE_DONE too.
Step(w) ==
  /\ Move(w, "step", "close")
  /\ LET a == req[w].addr IN
       /\ Runs(query[w], a)
       /\ rows' = IF query[w] = "INSERT" \/ rows[a] # NoScore
                    THEN [rows EXCEPT ![a] = found[w]]
                    ELSE rows
  /\ UNCHANGED <<stats_list, bl_writer, bl_readers, db_mutex, req, query, found, unread>>

\* Any other answer of prepare or step: exit (1).
StepFails(w) ==
  /\ pc[w] = "step"
  /\ "step" \in Faults \/ ~Runs(query[w], req[w].addr)
  /\ GoDown

\* CloseDb without the unlock of _db_mutex.
CloseDbLocked(w) ==
  /\ Move(w, "close", "wret")
  /\ UNCHANGED <<stats_list, bl_writer, bl_readers, db_mutex, req, query, found, rows, unread>>

\* cleanup, by the destructor of db_handle.
CloseDb(w) ==
  /\ Move(w, "close", "wret")
  /\ db_mutex' = NoThread
  /\ UNCHANGED <<stats_list, bl_writer, bl_readers, req, query, found, rows, unread>>

\* The caller gets final_score > blacklist_threshold, and the lock goes.
UpdateReturn(w) ==
  /\ Move(w, "wret", "idle")
  /\ bl_writer' = NoThread
  /\ req' = [req EXCEPT ![w] = Nothing]
  /\ query' = [query EXCEPT ![w] = Nothing]
  /\ found' = [found EXCEPT ![w] = Nothing]
  /\ UNCHANGED <<stats_list, bl_readers, db_mutex, rows, unread>>

-----------------------------------------------------------------------------
LookStep(t) == ReadLock(t) \/ Look(t) \/ LookReturn(t)

UpdateStep(w) ==
  \/ UpdateCall(w)
  \/ UpdateLock(w)
  \/ UpdateMap(w)
  \/ OpenDb(w)
  \/ Step(w)
  \/ CloseDb(w)
  \/ UpdateReturn(w)

Fail(w) == OpenDbFails(w) \/ StepFails(w)

Next ==
  \/ Boot
  \/ Kill
  \/ \E a \in Addrs : IsListedCall(a)
  \/ \E w \in Workers, a \in Addrs, good, sent \in BOOLEAN : Served(w, a, good, sent)
  \/ \E t \in Threads : LookStep(t)
  \/ \E w \in Workers : UpdateStep(w) \/ Fail(w)

SafeSpec == Init /\ [][Next]_vars

\* A call goes on, if only to fail where its statement cannot run, and a writer
\* gets the lock in the end though Main looks up address after address: Main
\* holds it only while it looks one up, and every worker that reads goes on to
\* write.  Nothing has to be served or accepted.
Fairness ==
  /\ \A t \in Threads : WF_vars(LookStep(t))
  /\ \A w \in Workers : WF_vars(UpdateStep(w) \/ Fail(w)) /\ SF_vars(UpdateLock(w))

Spec == SafeSpec /\ Fairness

-----------------------------------------------------------------------------
(***************************************************************************)
(* Properties.                                                             *)
(***************************************************************************)
ProcStages == {"down", "made", "select", "load", "loaded", "up"}

Places == {"idle", "rlock", "look", "rret", "rated", "wlock", "map", "open",
           "step", "close", "wret"}

\* Type invariant.  A thread has a request while it works for one, and a
\* result only from the step that finds it to the return.
TypeOK ==
  /\ proc \in ProcStages
  /\ stats_list \in [Addrs -> Scores]
  /\ bl_writer \in Threads \cup {NoThread}
  /\ bl_readers \subseteq Threads
  /\ db_mutex \in Threads \cup {NoThread}
  /\ pc \in [Threads -> Places]
  /\ req \in [Threads -> [addr : Addrs, good : BOOLEAN] \cup {Nothing}]
  /\ query \in [Threads -> {"INSERT", "UPDATE", Nothing}]
  /\ rows \in [Addrs -> Scores] \cup {NoTable}
  /\ unread \subseteq Addrs
  /\ \A t \in Threads :
       /\ req[t] = Nothing <=> pc[t] = "idle"
       /\ pc[t] \in {"open", "step", "close", "wret"} => found[t] \in Int
       /\ pc[t] \notin {"rret", "open", "step", "close", "wret"} => found[t] = Nothing

\* The threads of which an update is in the map and not in the table.
Uncommitted(a) == {w \in Workers : pc[w] \in {"open", "step"} /\ req[w].addr = a}

\* The map and the table differ only by the one update in progress, and by one
\* (blacklist.cpp:83-84 and 89-91): what a restart reads back is what the map
\* said, less at most the request whose update was cut short.  Of a row that
\* the load has missed the map says nothing until a request of its address.
TableFollowsMap ==
  proc = "up" =>
    /\ rows # NoTable
    /\ \A a \in Addrs :
         IF Uncommitted(a) = {} THEN stats_list[a] = Rep!Known(a)
         ELSE \E w \in Uncommitted(a) :
                /\ Uncommitted(a) = {w}
                /\ stats_list[a] = Rep!Rated(Rep!Known(a), req[w].good)

\* The statement of an update runs, unless SQLite itself fails, then or when the
\* row was to be loaded: its table is there, no INSERT meets a row and no UPDATE
\* misses its own, so that no assert (false) of blacklist.cpp:200-225 is reached
\* and no score is dropped.
StatementRuns ==
  \A w \in Workers : pc[w] \in {"open", "step"} /\ req[w].addr \notin unread =>
    /\ Runs(query[w], req[w].addr)
    /\ query[w] = "UPDATE" => rows[req[w].addr] # NoScore

\* To every caller the blacklist is one durable score per address: a lookup
\* never sees a score that a crash could take back (Reputation.tla).
ImplementsReputation == Rep!Spec

\* "false - the IP address should now be blacklisted" (blacklist.cpp:68): what
\* an update has answered so, the next lookup of the address says too.
FalseMeansListed ==
  \A w \in Workers :
    pc[w] = "wret" /\ ~RepAnswer(w) => Rep!Listed(stats_list[req[w].addr])

\* Whatever fails, a score on disk moves by one request at a time and no row
\* is lost or started again.
RowsMoveByOne ==
  [][\A a \in Addrs :
       rows # NoTable /\ rows' # rows =>
         /\ rows' # NoTable
         /\ \/ rows'[a] = rows[a]
            \/ \E good \in BOOLEAN : rows'[a] = Rep!Rated(rows[a], good)]_vars

\* An update that is called returns, unless the process ends: no thread waits
\* for ever for a lock, and readers do not starve the writer.
UpdateReturns == \A w \in Workers : pc[w] = "wlock" ~> pc[w] = "idle"
=============================================================================

--------------------------- MODULE BlacklistProofs ---------------------------
(***************************************************************************)
(* Proofs about the blacklist, for any sets of workers and of addresses    *)
(* and any threshold: its invariants, that a score on disk moves by one    *)
(* request at a time, and that it implements Reputation.                   *)
(*                                                                         *)
(* What the properties of Blacklist lack alone is who holds which lock     *)
(* (Control), and how the map, the row and the statement of an update fit  *)
(* together between its steps (MapAndTable).                               *)
(***************************************************************************)
EXTENDS Blacklist, TLAPS

\* Where Main and the workers can be, and when.
AtPlaces ==
  /\ found = [t \in Threads |-> found[t]]
  /\ pc[Main] \in {"idle", "rlock", "look", "rret"}
  /\ proc # "up" => pc = [t \in Threads |-> "idle"]
  /\ proc # "down" => rows # NoTable

\* Who writes the map, reads it, and has the database open.
Writing(t) ==
  \/ t = Main /\ proc = "load"
  \/ t \in Workers /\ pc[t] \in {"map", "open", "step", "close", "wret"}

Reading(t) == pc[t] \in {"look", "rret"}

AtDb(t) ==
  \/ t = Main /\ proc \in {"select", "load"}
  \/ t \in Workers /\ pc[t] \in {"step", "close"}

LockOwners ==
  /\ \A t \in Threads :
       /\ bl_writer = t <=> Writing(t)
       /\ t \in bl_readers <=> Reading(t)
       /\ db_mutex = t <=> AtDb(t)
  /\ bl_writer # NoThread => bl_readers = {}

Control == AtPlaces /\ LockOwners

\* What a lookup found is what the map says, as long as it has the lock.
Finds ==
  \A t \in Threads : pc[t] = "rret" =>
    found[t] = IF t = Main THEN Rep!Listed(stats_list[req[t].addr])
               ELSE stats_list[req[t].addr]

\* What the map has, or is to have, of the row of an address.
Seen(a) == IF a \in unread THEN NoScore ELSE rows[a]

\* What the load has missed is there, and the map and the table agree on every
\* other address of which no update is cut in two.  An update in between
\* carries what is to become of its row: to be made, if it is not one that was
\* missed, or changed.
MapAndTable ==
  /\ proc \notin {"loaded", "up"} => unread = {}
  /\ proc \in {"loaded", "up"} =>
       /\ \A a \in unread : rows[a] # NoScore
       /\ \A a \in Addrs : Uncommitted(a) = {} => stats_list[a] = Seen(a)
       /\ \A w \in Workers : pc[w] \in {"open", "step"} =>
            LET a == req[w].addr IN
            /\ found[w] = stats_list[a]
            /\ found[w] = Rep!Rated(Seen(a), req[w].good)
            /\ query[w] = IF Seen(a) = NoScore THEN "INSERT" ELSE "UPDATE"

\* The inductive invariant.
IInv == TypeOK /\ Control /\ Finds /\ MapAndTable

-----------------------------------------------------------------------------
(***************************************************************************)
(* The scores.                                                             *)
(***************************************************************************)
\* It is what Reputation knows of it, once there is a table.
LEMMA KnownIs ==
  ASSUME NEW a, rows # NoTable
  PROVE  Rep!Known(a) = Seen(a)
BY DEF Rep!Known, RepScore, Seen

\* A rating makes a number of a score.
LEMMA RatedIsInt ==
  ASSUME NEW s \in Scores, NEW good
  PROVE  Rep!Rated(s, good) \in Int
BY DEF Rep!Rated, Scores

\* A request names an address and whether it was good.
LEMMA RequestType ==
  ASSUME NEW a \in Addrs
  PROVE  [addr |-> a, good |-> TRUE] \in [addr : Addrs, good : BOOLEAN]
OBVIOUS

\* A thread that works has a request.
LEMMA RequestOf ==
  ASSUME TypeOK, NEW t \in Threads, pc[t] # "idle"
  PROVE  /\ req[t] \in [addr : Addrs, good : BOOLEAN]
         /\ req[t].addr \in Addrs
         /\ req[t].good \in BOOLEAN
<1>1. req[t] # Nothing
  BY DEF TypeOK
<1>2. req[t] \in [addr : Addrs, good : BOOLEAN]
  BY <1>1 DEF TypeOK
<1> QED
  BY <1>2

-----------------------------------------------------------------------------
(***************************************************************************)
(* Types.                                                                  *)
(***************************************************************************)
\* A step leaves every variable its type.
LEMMA TypeStep ==
  ASSUME IInv, [Next]_vars
  PROVE  TypeOK'
<1> USE BlacklistAssumption DEF IInv, TypeOK, Threads, ProcStages, Places, volatile
<1>1. CASE UNCHANGED vars
  BY <1>1 DEF vars
<1>2. CASE GoDown
  BY <1>2 DEF GoDown, NoStats, NobodyIn, Scores
<1>3. CASE InitDb
  BY <1>3 DEF InitDb, Stage, NoStats, Scores
<1>4. CASE SelectOpen
  BY <1>4 DEF SelectOpen, Stage
<1>5. CASE SelectLock
  BY <1>5 DEF SelectLock, Stage
<1>6. CASE SelectRows
  <2>1. rows \in [Addrs -> Scores]
    BY <1>6 DEF SelectRows, Stage, Control, AtPlaces
  <2>2. PICK S \in SUBSET Addrs :
          /\ stats_list' = [a \in Addrs |-> IF a \in S THEN rows[a] ELSE NoScore]
          /\ unread' = {a \in Addrs : rows[a] # NoScore} \ S
    BY <1>6 DEF SelectRows
  <2>3. stats_list' \in [Addrs -> Scores] /\ unread' \subseteq Addrs
    BY <2>1, <2>2 DEF Scores
  <2>4. /\ proc' = "loaded" /\ bl_writer' = NoThread /\ db_mutex' = NoThread
        /\ UNCHANGED <<bl_readers, pc, req, query, found, rows>>
    BY <1>6 DEF SelectRows, Stage
  <2> QED
    BY <2>3, <2>4
<1>7. CASE Chdir
  BY <1>7 DEF Chdir, Stage
<1>8. ASSUME NEW a \in Addrs, IsListedCall(a)
      PROVE  TypeOK'
  <2>1. PICK r \in [addr : Addrs, good : BOOLEAN] : req' = [req EXCEPT ![Main] = r]
    BY <1>8, RequestType DEF IsListedCall
  <2>2. /\ pc[Main] = "idle" /\ pc' = [pc EXCEPT ![Main] = "rlock"]
        /\ UNCHANGED <<proc, stats_list, bl_writer, bl_readers, db_mutex, query, found, rows,
                       unread>>
    BY <1>8 DEF IsListedCall, Move
  <2> QED
    BY <2>1, <2>2
<1>9. ASSUME NEW w \in Workers, NEW a \in Addrs, NEW good \in BOOLEAN, NEW sent \in BOOLEAN,
             Served(w, a, good, sent)
      PROVE  TypeOK'
  BY <1>9 DEF Served, Move
<1>10. ASSUME NEW t \in Threads, ReadLock(t)
       PROVE  TypeOK'
  BY <1>10 DEF ReadLock, Move
<1>11. ASSUME NEW t \in Threads, Look(t)
       PROVE  TypeOK'
  BY <1>11 DEF Look, Move, Control, AtPlaces
<1>12. ASSUME NEW t \in Threads, LookReturn(t)
       PROVE  TypeOK'
  BY <1>12 DEF LookReturn, Move, Control, AtPlaces
<1>13. ASSUME NEW w \in Workers, UpdateCall(w)
       PROVE  TypeOK'
  BY <1>13 DEF UpdateCall, Move
<1>14. ASSUME NEW w \in Workers, UpdateLock(w)
       PROVE  TypeOK'
  BY <1>14 DEF UpdateLock, Move
<1>15. ASSUME NEW w \in Workers, UpdateMap(w)
       PROVE  TypeOK'
  <2>1. req[w].addr \in Addrs /\ stats_list[req[w].addr] \in Scores
    BY <1>15 DEF UpdateMap, Move
  <2>2. Rep!Rated(stats_list[req[w].addr], req[w].good) \in Int
    BY <2>1, RatedIsInt
  <2> QED
    BY <1>15, <2>1, <2>2 DEF UpdateMap, Move, Control, AtPlaces, Scores
<1>16. ASSUME NEW w \in Workers, OpenDb(w)
       PROVE  TypeOK'
  BY <1>16 DEF OpenDb, Move
<1>17. ASSUME NEW w \in Workers, Step(w)
       PROVE  TypeOK'
  <2>1. req[w].addr \in Addrs /\ found[w] \in Scores /\ rows \in [Addrs -> Scores]
    BY <1>17 DEF Step, Move, Runs, Scores
  <2> QED
    BY <1>17, <2>1 DEF Step, Move
<1>18. ASSUME NEW w \in Workers, CloseDb(w)
       PROVE  TypeOK'
  BY <1>18 DEF CloseDb, Move
<1>19. ASSUME NEW w \in Workers, UpdateReturn(w)
       PROVE  TypeOK'
  BY <1>19 DEF UpdateReturn, Move, Control, AtPlaces
<1> QED
  BY <1>1, <1>2, <1>3, <1>4, <1>5, <1>6, <1>7, <1>8, <1>9, <1>10, <1>11, <1>12, <1>13,
     <1>14, <1>15, <1>16, <1>17, <1>18, <1>19
  DEF Next, Boot, Kill, LookStep, UpdateStep, Fail, OpenDbFails, StepFails
-----------------------------------------------------------------------------
(***************************************************************************)
(* Control.                                                                *)
(***************************************************************************)
\* An update leaves a table a table.
LEMMA RowsStayRows ==
  ASSUME IInv, NEW w \in Workers, Step(w)
  PROVE  rows' \in [Addrs -> Scores]
<1>1. req[w].addr \in Addrs /\ found[w] \in Scores /\ rows \in [Addrs -> Scores]
  BY DEF IInv, TypeOK, Threads, Step, Move, Runs, Scores
<1> QED
  BY <1>1 DEF Step

\* Threads stay where they can be.
LEMMA AtPlacesStep ==
  ASSUME IInv, [Next]_vars
  PROVE  AtPlaces'
<1> USE BlacklistAssumption DEF IInv, TypeOK, Threads, Control, AtPlaces, volatile
<1>1. CASE UNCHANGED vars
  BY <1>1 DEF vars
<1>2. CASE GoDown
  BY <1>2 DEF GoDown, NobodyIn
<1>3. CASE InitDb
  <2>1. NoStats \in [Addrs -> Scores]
    BY DEF NoStats, Scores
  <2> QED
    BY <1>3, <2>1 DEF InitDb, Stage
<1>4. CASE SelectOpen
  BY <1>4 DEF SelectOpen, Stage
<1>5. CASE SelectLock
  BY <1>5 DEF SelectLock, Stage
<1>6. CASE SelectRows
  BY <1>6 DEF SelectRows, Stage
<1>7. CASE Chdir
  BY <1>7 DEF Chdir, Stage
<1>8. ASSUME NEW a \in Addrs, IsListedCall(a)
      PROVE  AtPlaces'
  BY <1>8 DEF IsListedCall, Move
<1>9. ASSUME NEW w \in Workers, NEW a \in Addrs, NEW good \in BOOLEAN, NEW sent \in BOOLEAN,
             Served(w, a, good, sent)
      PROVE  AtPlaces'
  BY <1>9 DEF Served, Move
<1>10. ASSUME NEW t \in Threads, ReadLock(t)
       PROVE  AtPlaces'
  BY <1>10 DEF ReadLock, Move
<1>11. ASSUME NEW t \in Threads, Look(t)
       PROVE  AtPlaces'
  BY <1>11 DEF Look, Move
<1>12. ASSUME NEW t \in Threads, LookReturn(t)
       PROVE  AtPlaces'
  BY <1>12 DEF LookReturn, Move
<1>13. ASSUME NEW w \in Workers, UpdateCall(w)
       PROVE  AtPlaces'
  BY <1>13 DEF UpdateCall, Move
<1>14. ASSUME NEW w \in Workers, UpdateLock(w)
       PROVE  AtPlaces'
  BY <1>14 DEF UpdateLock, Move
<1>15. ASSUME NEW w \in Workers, UpdateMap(w)
       PROVE  AtPlaces'
  BY <1>15 DEF UpdateMap, Move
<1>16. ASSUME NEW w \in Workers, OpenDb(w)
       PROVE  AtPlaces'
  BY <1>16 DEF OpenDb, Move
<1>17. ASSUME NEW w \in Workers, Step(w)
       PROVE  AtPlaces'
  <2>1. rows' # NoTable
    BY <1>17, RowsStayRows
  <2> QED
    BY <1>17, <2>1 DEF Step, Move
<1>18. ASSUME NEW w \in Workers, CloseDb(w)
       PROVE  AtPlaces'
  BY <1>18 DEF CloseDb, Move
<1>19. ASSUME NEW w \in Workers, UpdateReturn(w)
       PROVE  AtPlaces'
  BY <1>19 DEF UpdateReturn, Move
<1> QED
  BY <1>1, <1>2, <1>3, <1>4, <1>5, <1>6, <1>7, <1>8, <1>9, <1>10, <1>11, <1>12, <1>13,
     <1>14, <1>15, <1>16, <1>17, <1>18, <1>19
  DEF Next, Boot, Kill, LookStep, UpdateStep, Fail, OpenDbFails, StepFails

\* A lock keeps to its owners.
LEMMA LockOwnersStep ==
  ASSUME IInv, [Next]_vars
  PROVE  LockOwners'
<1> USE BlacklistAssumption DEF IInv, TypeOK, Threads, Control, AtPlaces, LockOwners, Writing,
      Reading, AtDb, volatile
<1>1. CASE UNCHANGED vars
  BY <1>1 DEF vars
<1>2. CASE GoDown
  BY <1>2 DEF GoDown
<1>3. CASE InitDb
  BY <1>3 DEF InitDb, Stage
<1>4. CASE SelectOpen
  BY <1>4 DEF SelectOpen, Stage
<1>5. CASE SelectLock
  BY <1>5 DEF SelectLock, Stage
<1>6. CASE SelectRows
  BY <1>6 DEF SelectRows, Stage
<1>7. CASE Chdir
  BY <1>7 DEF Chdir, Stage
<1>8. ASSUME NEW a \in Addrs, IsListedCall(a)
      PROVE  LockOwners'
  BY <1>8 DEF IsListedCall, Move
<1>9. ASSUME NEW w \in Workers, NEW a \in Addrs, NEW good \in BOOLEAN, NEW sent \in BOOLEAN,
             Served(w, a, good, sent)
      PROVE  LockOwners'
  BY <1>9 DEF Served, Move
<1>10. ASSUME NEW t \in Threads, ReadLock(t)
       PROVE  LockOwners'
  BY <1>10 DEF ReadLock, Move
<1>11. ASSUME NEW t \in Threads, Look(t)
       PROVE  LockOwners'
  BY <1>11 DEF Look, Move
<1>12. ASSUME NEW t \in Threads, LookReturn(t)
       PROVE  LockOwners'
  BY <1>12 DEF LookReturn, Move
<1>13. ASSUME NEW w \in Workers, UpdateCall(w)
       PROVE  LockOwners'
  BY <1>13 DEF UpdateCall, Move
<1>14. ASSUME NEW w \in Workers, UpdateLock(w)
       PROVE  LockOwners'
  BY <1>14 DEF UpdateLock, Move
<1>15. ASSUME NEW w \in Workers, UpdateMap(w)
       PROVE  LockOwners'
  BY <1>15 DEF UpdateMap, Move
<1>16. ASSUME NEW w \in Workers, OpenDb(w)
       PROVE  LockOwners'
  BY <1>16 DEF OpenDb, Move
<1>17. ASSUME NEW w \in Workers, Step(w)
       PROVE  LockOwners'
  BY <1>17 DEF Step, Move
<1>18. ASSUME NEW w \in Workers, CloseDb(w)
       PROVE  LockOwners'
  BY <1>18 DEF CloseDb, Move
<1>19. ASSUME NEW w \in Workers, UpdateReturn(w)
       PROVE  LockOwners'
  BY <1>19 DEF UpdateReturn, Move
<1> QED
  BY <1>1, <1>2, <1>3, <1>4, <1>5, <1>6, <1>7, <1>8, <1>9, <1>10, <1>11, <1>12, <1>13,
     <1>14, <1>15, <1>16, <1>17, <1>18, <1>19
  DEF Next, Boot, Kill, LookStep, UpdateStep, Fail, OpenDbFails, StepFails

\* What a lookup has found stays true while it has the lock.
LEMMA FindsStep ==
  ASSUME IInv, [Next]_vars
  PROVE  Finds'
<1> USE BlacklistAssumption DEF IInv, TypeOK, Threads, Control, AtPlaces, Finds, volatile
<1>1. CASE UNCHANGED vars
  BY <1>1 DEF vars
<1>2. CASE GoDown
  BY <1>2 DEF GoDown, NobodyIn
<1>3. CASE InitDb
  BY <1>3 DEF InitDb, Stage
<1>4. CASE SelectOpen
  BY <1>4 DEF SelectOpen, Stage
<1>5. CASE SelectLock
  BY <1>5 DEF SelectLock, Stage
<1>6. CASE SelectRows
  BY <1>6 DEF SelectRows, Stage
<1>7. CASE Chdir
  BY <1>7 DEF Chdir, Stage
<1>8. ASSUME NEW a \in Addrs, IsListedCall(a)
      PROVE  Finds'
  BY <1>8 DEF IsListedCall, Move
<1>9. ASSUME NEW w \in Workers, NEW a \in Addrs, NEW good \in BOOLEAN, NEW sent \in BOOLEAN,
             Served(w, a, good, sent)
      PROVE  Finds'
  BY <1>9 DEF Served, Move
<1>10. ASSUME NEW t \in Threads, ReadLock(t)
       PROVE  Finds'
  BY <1>10 DEF ReadLock, Move
<1>11. ASSUME NEW t \in Threads, Look(t)
       PROVE  Finds'
  BY <1>11 DEF Look, Move
<1>12. ASSUME NEW t \in Threads, LookReturn(t)
       PROVE  Finds'
  BY <1>12 DEF LookReturn, Move
<1>13. ASSUME NEW w \in Workers, UpdateCall(w)
       PROVE  Finds'
  BY <1>13 DEF UpdateCall, Move
<1>14. ASSUME NEW w \in Workers, UpdateLock(w)
       PROVE  Finds'
  BY <1>14 DEF UpdateLock, Move
<1>15. ASSUME NEW w \in Workers, UpdateMap(w)
       PROVE  Finds'
  <2>1. \A t \in Threads : pc[t] # "rret"
    BY <1>15 DEF UpdateMap, Move, LockOwners, Writing, Reading
  <2> QED
    BY <1>15, <2>1 DEF UpdateMap, Move
<1>16. ASSUME NEW w \in Workers, OpenDb(w)
       PROVE  Finds'
  BY <1>16 DEF OpenDb, Move
<1>17. ASSUME NEW w \in Workers, Step(w)
       PROVE  Finds'
  BY <1>17 DEF Step, Move
<1>18. ASSUME NEW w \in Workers, CloseDb(w)
       PROVE  Finds'
  BY <1>18 DEF CloseDb, Move
<1>19. ASSUME NEW w \in Workers, UpdateReturn(w)
       PROVE  Finds'
  BY <1>19 DEF UpdateReturn, Move
<1> QED
  BY <1>1, <1>2, <1>3, <1>4, <1>5, <1>6, <1>7, <1>8, <1>9, <1>10, <1>11, <1>12, <1>13,
     <1>14, <1>15, <1>16, <1>17, <1>18, <1>19
  DEF Next, Boot, Kill, LookStep, UpdateStep, Fail, OpenDbFails, StepFails

\* The map and the table keep together.
LEMMA MapAndTableStep ==
  ASSUME IInv, [Next]_vars
  PROVE  MapAndTable'
<1> USE BlacklistAssumption DEF IInv, TypeOK, Threads, Control, AtPlaces, MapAndTable, Uncommitted,
      Seen, volatile
<1>1. CASE UNCHANGED vars
  BY <1>1 DEF vars
<1>2. CASE GoDown
  BY <1>2 DEF GoDown
<1>3. CASE InitDb
  BY <1>3 DEF InitDb, Stage
<1>4. CASE SelectOpen
  BY <1>4 DEF SelectOpen, Stage
<1>5. CASE SelectLock
  BY <1>5 DEF SelectLock, Stage
<1>6. CASE SelectRows
  <2>1. /\ proc' = "loaded" /\ UNCHANGED <<pc, req, rows>>
        /\ \E S \in SUBSET Addrs :
             /\ stats_list' = [a \in Addrs |-> IF a \in S THEN rows[a] ELSE NoScore]
             /\ unread' = {a \in Addrs : rows[a] # NoScore} \ S
    BY <1>6 DEF SelectRows, Stage
  <2>2. \A w \in Workers : pc[w] \notin {"open", "step"}
    BY <1>6 DEF SelectRows, Stage
  <2> QED
    BY <2>1, <2>2 DEF Seen
<1>7. CASE Chdir
  BY <1>7 DEF Chdir, Stage
<1>8. ASSUME NEW a \in Addrs, IsListedCall(a)
      PROVE  MapAndTable'
  <2>1. \A w \in Workers : req'[w] = req[w] /\ pc'[w] = pc[w]
    BY <1>8 DEF IsListedCall, Move
  <2>2. UNCHANGED <<proc, stats_list, query, found, rows, unread>>
    BY <1>8 DEF IsListedCall, Move
  <2> QED
    BY <2>1, <2>2
<1>9. ASSUME NEW w \in Workers, NEW a \in Addrs, NEW good \in BOOLEAN, NEW sent \in BOOLEAN,
             Served(w, a, good, sent)
      PROVE  MapAndTable'
  BY <1>9 DEF Served, Move
<1>10. ASSUME NEW t \in Threads, ReadLock(t)
       PROVE  MapAndTable'
  BY <1>10 DEF ReadLock, Move
<1>11. ASSUME NEW t \in Threads, Look(t)
       PROVE  MapAndTable'
  BY <1>11 DEF Look, Move
<1>12. ASSUME NEW t \in Threads, LookReturn(t)
       PROVE  MapAndTable'
  BY <1>12 DEF LookReturn, Move
<1>13. ASSUME NEW w \in Workers, UpdateCall(w)
       PROVE  MapAndTable'
  BY <1>13 DEF UpdateCall, Move
<1>14. ASSUME NEW w \in Workers, UpdateLock(w)
       PROVE  MapAndTable'
  BY <1>14 DEF UpdateLock, Move
<1>15. ASSUME NEW w \in Workers, UpdateMap(w)
       PROVE  MapAndTable'
  <2> DEFINE a == req[w].addr
             s == Rep!Rated(stats_list[a], req[w].good)
  <2>1. \A u \in Workers : pc[u] \notin {"open", "step"}
    BY <1>15 DEF UpdateMap, Move, LockOwners, Writing
  <2>2. proc = "up" /\ UNCHANGED <<proc, req, rows, unread>>
    BY <1>15 DEF UpdateMap, Move
  <2>3. \A b \in Addrs : stats_list[b] = Seen(b)
    BY <2>1, <2>2
  <2>4. /\ stats_list' = [stats_list EXCEPT ![a] = s]
        /\ found'[w] = s
        /\ query'[w] = IF stats_list[a] = NoScore THEN "INSERT" ELSE "UPDATE"
    BY <1>15 DEF UpdateMap, Move
  <2>5. pc'[w] = "open" /\ \A u \in Workers : u # w => pc'[u] \notin {"open", "step"}
    BY <1>15, <2>1 DEF UpdateMap, Move
  <2> HIDE DEF s
  <2>6. \A b \in Addrs : Seen(b)' = Seen(b)
    BY <2>2
  <2>7. a \in Addrs
    BY <1>15, RequestOf DEF UpdateMap, Move
  <2>8. ASSUME NEW b \in Addrs, Uncommitted(b)' = {}
        PROVE  stats_list'[b] = Seen(b)'
    BY <2>2, <2>3, <2>4, <2>5, <2>6, <2>7, <2>8
  <2>9. found'[w] = stats_list'[a] /\ s = Rep!Rated(Seen(a), req[w].good)
    BY <2>3, <2>4, <2>7 DEF s
  <2> QED
    BY <2>2, <2>3, <2>4, <2>5, <2>6, <2>7, <2>8, <2>9
<1>16. ASSUME NEW w \in Workers, OpenDb(w)
       PROVE  MapAndTable'
  BY <1>16 DEF OpenDb, Move
<1>17. ASSUME NEW w \in Workers, Step(w)
       PROVE  MapAndTable'
  <2> USE <1>17 DEF Step, Move, Runs
  <2>1. \A u \in Workers : pc[u] \in {"open", "step"} => u = w
    BY DEF LockOwners, Writing
  <2> QED
    BY <2>1
<1>18. ASSUME NEW w \in Workers, CloseDb(w)
       PROVE  MapAndTable'
  BY <1>18 DEF CloseDb, Move
<1>19. ASSUME NEW w \in Workers, UpdateReturn(w)
       PROVE  MapAndTable'
  BY <1>19 DEF UpdateReturn, Move
<1> QED
  BY <1>1, <1>2, <1>3, <1>4, <1>5, <1>6, <1>7, <1>8, <1>9, <1>10, <1>11, <1>12, <1>13,
     <1>14, <1>15, <1>16, <1>17, <1>18, <1>19
  DEF Next, Boot, Kill, LookStep, UpdateStep, Fail, OpenDbFails, StepFails

-----------------------------------------------------------------------------
(***************************************************************************)
(* The invariant, and what follows from it.                                *)
(***************************************************************************)
\* The invariant holds before the process is started for the first time.
LEMMA InitIInv == Init => IInv
<1> SUFFICES ASSUME Init PROVE IInv
  OBVIOUS
<1> USE BlacklistAssumption DEF Init, Threads, NoStats, NobodyIn
<1>1. TypeOK
  BY DEF TypeOK, ProcStages, Places, Scores
<1>2. Control
  BY DEF Control, AtPlaces, LockOwners, Writing, Reading, AtDb
<1>3. Finds /\ MapAndTable
  BY DEF Finds, MapAndTable
<1> QED
  BY <1>1, <1>2, <1>3 DEF IInv

\* The inductive invariant: it holds in every state, whatever fails.
THEOREM Invariance == SafeSpec => []IInv
<1>1. Init => IInv
  BY InitIInv
<1>2. IInv /\ [Next]_vars => IInv'
  BY TypeStep, AtPlacesStep, LockOwnersStep, FindsStep, MapAndTableStep DEF IInv, Control
<1> QED
  BY <1>1, <1>2, PTL DEF SafeSpec

\* The map, its lock, the database and the calls have their types.
THEOREM TypeCorrect == SafeSpec => []TypeOK
<1>1. IInv => TypeOK
  BY DEF IInv
<1> QED
  BY <1>1, Invariance, PTL

\* One update is cut in two at a time: update_ip_addr_stats holds _bl_rwlock
\* from the map to the table.
LEMMA OneUpdate ==
  ASSUME IInv, NEW u \in Workers, NEW w \in Workers,
         pc[u] \in {"map", "open", "step", "close", "wret"},
         pc[w] \in {"map", "open", "step", "close", "wret"}
  PROVE  u = w
BY DEF IInv, Control, LockOwners, Writing, Threads

\* What a restart reads back is what the map said, less at most one request, but
\* for the rows that the load has missed, of which the map says nothing.
THEOREM RestartLosesOneRequest == SafeSpec => []TableFollowsMap
<1>1. ASSUME IInv
      PROVE  TableFollowsMap
  <2> SUFFICES ASSUME proc = "up"
               PROVE  /\ rows # NoTable
                      /\ \A a \in Addrs :
                           IF Uncommitted(a) = {} THEN stats_list[a] = Rep!Known(a)
                           ELSE \E w \in Uncommitted(a) :
                                  /\ Uncommitted(a) = {w}
                                  /\ stats_list[a] = Rep!Rated(Rep!Known(a), req[w].good)
    BY DEF TableFollowsMap
  <2> USE <1>1 DEF IInv
  <2>1. rows # NoTable
    BY DEF Control, AtPlaces
  <2>2. ASSUME NEW a \in Addrs, Uncommitted(a) = {}
        PROVE  stats_list[a] = Rep!Known(a)
    <3>1. stats_list[a] = Seen(a)
      BY <2>2 DEF MapAndTable
    <3> QED
      BY <2>1, <3>1, KnownIs
  <2>3. ASSUME NEW a \in Addrs, Uncommitted(a) # {}
        PROVE  \E w \in Uncommitted(a) :
                 /\ Uncommitted(a) = {w}
                 /\ stats_list[a] = Rep!Rated(Rep!Known(a), req[w].good)
    <3>1. PICK w \in Uncommitted(a) : TRUE
      BY <2>3
    <3>2. w \in Workers /\ pc[w] \in {"open", "step"} /\ req[w].addr = a
      BY <3>1 DEF Uncommitted
    <3>3. Uncommitted(a) = {w}
      BY <3>1, <3>2, OneUpdate DEF Uncommitted
    <3>4. stats_list[a] = Rep!Rated(Rep!Known(a), req[w].good)
      <4>1. stats_list[a] = Rep!Rated(Seen(a), req[w].good)
        BY <3>2 DEF MapAndTable
      <4> QED
        BY <2>1, <4>1, KnownIs
    <3> QED
      BY <3>1, <3>3, <3>4
  <2> QED
    BY <2>1, <2>2, <2>3
<1> QED
  BY <1>1, Invariance, PTL

\* No statement of an update is refused for what the table holds, if the load has
\* not missed its row: no assert (false) is reached and no score dropped.
THEOREM StatementsFit == SafeSpec => []StatementRuns
<1>1. ASSUME IInv
      PROVE  StatementRuns
  <2> SUFFICES ASSUME NEW w \in Workers,
                      pc[w] \in {"open", "step"}, req[w].addr \notin unread
               PROVE  /\ Runs(query[w], req[w].addr)
                      /\ query[w] = "UPDATE" => rows[req[w].addr] # NoScore
    BY DEF StatementRuns
  <2>1. proc = "up"
    BY <1>1 DEF IInv, Control, AtPlaces, Threads
  <2> QED
    BY <1>1, <2>1 DEF IInv, Control, AtPlaces, MapAndTable, Seen, Runs
<1> QED
  BY <1>1, Invariance, PTL

-----------------------------------------------------------------------------
(***************************************************************************)
(* What a step does to the disk.                                           *)
(***************************************************************************)
\* The only steps that change the disk make the table or finish an update.
LEMMA RowsChange ==
  ASSUME IInv, [Next]_vars
  PROVE  \/ UNCHANGED rows
         \/ InitDb /\ rows = NoTable /\ rows' = NoStats
         \/ \E w \in Workers : Step(w)
<1>1. CASE UNCHANGED vars
  BY <1>1 DEF vars
<1>2. CASE GoDown
  BY <1>2 DEF GoDown
<1>3. CASE Boot
  BY <1>3 DEF Boot, InitDb, SelectOpen, SelectLock, SelectRows, Chdir
<1>4. ASSUME NEW a \in Addrs, IsListedCall(a)
      PROVE  UNCHANGED rows
  BY <1>4 DEF IsListedCall
<1>5. ASSUME NEW w \in Workers, NEW a \in Addrs, NEW good \in BOOLEAN, NEW sent \in BOOLEAN,
             Served(w, a, good, sent)
      PROVE  UNCHANGED rows
  BY <1>5 DEF Served
<1>6. ASSUME NEW t \in Threads, LookStep(t)
      PROVE  UNCHANGED rows
  BY <1>6 DEF LookStep, ReadLock, Look, LookReturn
<1>7. ASSUME NEW w \in Workers, UpdateStep(w)
      PROVE  UNCHANGED rows \/ Step(w)
  BY <1>7 DEF UpdateStep, UpdateCall, UpdateLock, UpdateMap, OpenDb, CloseDb, UpdateReturn
<1> QED
  BY <1>1, <1>2, <1>3, <1>4, <1>5, <1>6, <1>7
  DEF Next, Kill, Fail, OpenDbFails, StepFails

\* A statement moves the score of its address by its request, and no other.
LEMMA StepRates ==
  ASSUME IInv, NEW w \in Workers, Step(w)
  PROVE  /\ rows' = [rows EXCEPT ![req[w].addr] = Rep!Rated(@, req[w].good)]
         /\ found[w] = Rep!Rated(rows[req[w].addr], req[w].good)
         /\ req[w].addr \notin unread
<1> DEFINE a == req[w].addr
<1>1. /\ proc = "up" /\ pc[w] = "step" /\ a \in Addrs
      /\ rows \in [Addrs -> Scores]
      /\ query[w] = "INSERT" => rows[a] = NoScore
    BY DEF IInv, TypeOK, Control, AtPlaces, Threads, Step, Move, Runs
<1>2. /\ found[w] = Rep!Rated(Seen(a), req[w].good)
      /\ query[w] = IF Seen(a) = NoScore THEN "INSERT" ELSE "UPDATE"
      /\ a \in unread => rows[a] # NoScore
  BY <1>1 DEF IInv, MapAndTable
<1>3. a \notin unread /\ Seen(a) = rows[a]
  BY <1>1, <1>2 DEF Seen
<1> QED
  BY <1>1, <1>2, <1>3 DEF Step

\* Whatever fails, and whatever the load at the start has missed, a score on
\* disk moves by one request at a time, and no row is lost or started again.
THEOREM ScoresMoveByOne == SafeSpec => RowsMoveByOne
<1>1. ASSUME IInv, [Next]_vars, NEW a \in Addrs, rows # NoTable, rows' # rows
      PROVE  /\ rows' # NoTable
             /\ \/ rows'[a] = rows[a]
                \/ \E good \in BOOLEAN : rows'[a] = Rep!Rated(rows[a], good)
  <2>1. PICK w \in Workers : Step(w)
    BY <1>1, RowsChange
  <2>2. rows' # NoTable
    BY <1>1, <2>1, RowsStayRows, BlacklistAssumption
  <2>3. rows \in [Addrs -> Scores]
    BY <1>1 DEF IInv, TypeOK
  <2>4. req[w].good \in BOOLEAN
    BY <1>1, <2>1 DEF IInv, TypeOK, Threads, Step, Move
  <2> QED
    BY <1>1, <2>1, <2>2, <2>3, <2>4, StepRates
<1>2. IInv /\ [Next]_vars =>
        [\A a \in Addrs :
           rows # NoTable /\ rows' # rows =>
             /\ rows' # NoTable
             /\ \/ rows'[a] = rows[a]
                \/ \E good \in BOOLEAN : rows'[a] = Rep!Rated(rows[a], good)]_vars
  BY <1>1
<1> QED
  BY <1>2, Invariance, PTL DEF SafeSpec, RowsMoveByOne

-----------------------------------------------------------------------------
(***************************************************************************)
(* The blacklist implements Reputation: a lookup takes effect when it      *)
(* looks, an update when its statement commits.                            *)
(***************************************************************************)
\* A step that moves none of it does not show.
LEMMA Unseen ==
  ASSUME RepScore' = RepScore, UNCHANGED unread,
         \A t \in Threads : RepCall(t)' = RepCall(t) /\ RepAnswer(t)' = RepAnswer(t)
  PROVE  UNCHANGED Rep!repVars
BY DEF Rep!repVars

\* A call has begun.
LEMMA CallSeen ==
  ASSUME NEW t \in Threads,
         RepScore' = RepScore, UNCHANGED unread, RepCall(t) = Nothing, RepCall(t)' \in Rep!Calls,
         \A u \in Threads \ {t} : RepCall(u)' = RepCall(u),
         \A u \in Threads : RepAnswer(u)' = RepAnswer(u)
  PROVE  Rep!Next
<1>1. Rep!Call(t, RepCall(t)')
  BY DEF Rep!Call
<1> QED
  BY <1>1 DEF Rep!Next

\* A call has returned.
LEMMA ReturnSeen ==
  ASSUME NEW t \in Threads,
         RepScore' = RepScore, UNCHANGED unread, RepAnswer(t) # Nothing,
         RepCall(t)' = Nothing, RepAnswer(t)' = Nothing,
         \A u \in Threads \ {t} : RepCall(u)' = RepCall(u) /\ RepAnswer(u)' = RepAnswer(u)
  PROVE  Rep!Next
<1>1. Rep!Return(t)
  BY DEF Rep!Return
<1> QED
  BY <1>1 DEF Rep!Next

\* A lookup by Main or by a worker takes effect when it looks in the map.
LEMMA LookSeen ==
  ASSUME IInv, NEW t \in Threads, Look(t)
  PROVE  Rep!Next
<1> DEFINE a == req[t].addr
           s == stats_list[a]
<1>1. /\ pc[t] = "look" /\ pc' = [pc EXCEPT ![t] = "rret"]
      /\ found' = [found EXCEPT ![t] = IF t = Main THEN Rep!Listed(s) ELSE s]
      /\ UNCHANGED <<req, rows, unread>>
      /\ pc \in [Threads -> Places] /\ found = [u \in Threads |-> found[u]]
  BY DEF IInv, TypeOK, Control, AtPlaces, Look, Move
<1>2. proc = "up" /\ rows # NoTable
  BY <1>1 DEF IInv, Control, AtPlaces
<1>3. req[t] \in [addr : Addrs, good : BOOLEAN] /\ a \in Addrs
  <2>1. TypeOK /\ pc[t] # "idle"
    BY <1>1 DEF IInv
  <2> HIDE DEF a, s
  <2>2. req[t] \in [addr : Addrs, good : BOOLEAN] /\ req[t].addr \in Addrs
    BY <2>1, RequestOf
  <2> QED
    BY <2>2 DEF a
<1>4. \A u \in Workers : pc[u] \notin {"open", "step"}
  BY <1>1, BlacklistAssumption DEF IInv, Control, LockOwners, Writing, Reading, Threads
<1>5. s = Rep!Known(a)
  <2>1. s = Seen(a)
    BY <1>1, <1>2, <1>3, <1>4 DEF IInv, MapAndTable, Uncommitted
  <2> QED
    BY <1>2, <2>1, KnownIs
<1>6. RepScore = rows /\ RepScore' = RepScore
  BY <1>1, <1>2 DEF RepScore
<1>7. /\ RepCall(t) = [op |-> IF t = Main THEN "listed" ELSE "score",
                       addr |-> a, good |-> req[t].good]
      /\ RepAnswer(t) = Nothing
      /\ RepAnswer(t)' = IF t = Main THEN Rep!Listed(s) ELSE s
  BY <1>1 DEF RepCall, RepAnswer
<1>8. RepCall(t) # Nothing
  BY <1>3, <1>7, BlacklistAssumption
<1>9. /\ \A u \in Threads : RepCall(u)' = RepCall(u)
      /\ \A u \in Threads \ {t} : RepAnswer(u)' = RepAnswer(u)
  BY <1>1 DEF RepCall, RepAnswer
<1>10. RepCall(t).op = (IF t = Main THEN "listed" ELSE "score") /\ Rep!Known(RepCall(t).addr) = s
  BY <1>5, <1>7
<1> HIDE DEF s
<1>11. [u \in Threads |-> RepAnswer(u)]'
        = [[u \in Threads |-> RepAnswer(u)] EXCEPT ![t] =
             IF t = Main THEN Rep!Listed(s) ELSE s]
  BY <1>7, <1>9
<1>12. [u \in Threads |-> RepCall(u)]' = [u \in Threads |-> RepCall(u)]
  BY <1>9
<1>13. Rep!Look(t)
  BY <1>1, <1>6, <1>7, <1>8, <1>10, <1>11, <1>12 DEF Rep!Look
<1> QED
  BY <1>13 DEF Rep!Next

\* An update takes effect when its statement commits.
LEMMA StepSeen ==
  ASSUME IInv, NEW w \in Workers, Step(w)
  PROVE  Rep!Next
<1> DEFINE a == req[w].addr
           s == Rep!Rated(rows[a], req[w].good)
<1>1. /\ pc[w] = "step" /\ pc' = [pc EXCEPT ![w] = "close"]
      /\ UNCHANGED <<proc, req, found, unread>>
      /\ pc \in [Threads -> Places]
  BY DEF IInv, TypeOK, Step, Move
<1>2. proc = "up" /\ rows # NoTable
  BY <1>1 DEF IInv, Control, AtPlaces, Threads
<1>3. rows' # NoTable
  BY RowsStayRows, BlacklistAssumption
<1>4. w \in Threads /\ w # Main
  BY BlacklistAssumption DEF Threads
<1>5. a \in Addrs /\ rows \in [Addrs -> Scores]
  BY <1>1, <1>2, <1>4, RequestOf DEF IInv, TypeOK
<1>6. rows' = [rows EXCEPT ![a] = s] /\ a \notin unread
  BY StepRates, <1>5
<1>7. found[w] = s
  BY StepRates
<1>8. RepScore = rows /\ RepScore' = [RepScore EXCEPT ![a] = s]
  BY <1>2, <1>3, <1>6 DEF RepScore
<1>9. /\ RepCall(w) = [op |-> "update", addr |-> a, good |-> req[w].good]
      /\ RepAnswer(w) = Nothing
      /\ RepAnswer(w)' = Rep!GoodForNow(s)
  BY <1>1, <1>4, <1>7 DEF RepCall, RepAnswer, Rep!GoodForNow
<1>10. RepCall(w) # Nothing
  BY <1>1, <1>4, <1>9, RequestOf, BlacklistAssumption DEF IInv
<1>11. /\ RepCall(w).op = "update"
       /\ Rep!Rated(RepScore[RepCall(w).addr], RepCall(w).good) = s
       /\ RepCall(w).addr = a
       /\ a \notin unread
  BY <1>6, <1>8, <1>9
<1>12. /\ \A u \in Threads : RepCall(u)' = RepCall(u)
       /\ \A u \in Threads \ {w} : RepAnswer(u)' = RepAnswer(u)
  BY <1>1, <1>4 DEF RepCall, RepAnswer
<1> HIDE DEF s, a
<1>13. [u \in Threads |-> RepAnswer(u)]'
         = [[u \in Threads |-> RepAnswer(u)] EXCEPT ![w] = Rep!GoodForNow(s)]
  BY <1>9, <1>12
<1>14. [u \in Threads |-> RepCall(u)]' = [u \in Threads |-> RepCall(u)]
  BY <1>12
<1>15. Rep!Update(w)
  BY <1>1, <1>4, <1>8, <1>9, <1>10, <1>11, <1>13, <1>14 DEF Rep!Update
<1> QED
  BY <1>4, <1>15 DEF Rep!Next

\* Every end of the process ends every call.
LEMMA CrashSeen ==
  ASSUME GoDown
  PROVE  Rep!Next
<1>1. RepScore' = RepScore
  BY DEF GoDown, RepScore
<1>2. \A t \in Threads : RepCall(t)' = Nothing /\ RepAnswer(t)' = Nothing
  BY DEF GoDown, RepCall, RepAnswer
<1>3. unread' \in SUBSET Addrs
  BY DEF GoDown
<1>4. Rep!Restart
  BY <1>1, <1>2, <1>3 DEF Rep!Restart
<1> QED
  BY <1>4 DEF Rep!Next

\* The load ends the restart; the other steps of the process before it accepts do
\* not show.
LEMMA BootSeen ==
  ASSUME IInv, Boot
  PROVE  [Rep!Next]_(Rep!repVars)
<1>1. /\ \A t \in Threads : RepCall(t)' = RepCall(t) /\ RepAnswer(t)' = RepAnswer(t)
  BY DEF Boot, InitDb, SelectOpen, SelectLock, SelectRows, Chdir, volatile, RepCall, RepAnswer
<1>2. RepScore' = RepScore
  <2>1. CASE InitDb
    BY <2>1 DEF InitDb, RepScore, NoStats
  <2>2. CASE UNCHANGED rows
    BY <2>2 DEF RepScore
  <2> QED
    BY <2>1, <2>2 DEF Boot, SelectOpen, SelectLock, SelectRows, Chdir
<1>3. CASE SelectRows
  <2>1. proc # "up" /\ unread' \in SUBSET Addrs
    BY <1>3 DEF SelectRows, Stage
  <2>2. \A t \in Threads : RepCall(t) = Nothing /\ RepAnswer(t) = Nothing
    BY <2>1 DEF IInv, Control, AtPlaces, RepCall, RepAnswer
  <2>3. Rep!Restart
    BY <1>1, <1>2, <2>1, <2>2 DEF Rep!Restart
  <2> QED
    BY <2>3 DEF Rep!Next
<1>4. CASE ~SelectRows
  <2>1. UNCHANGED unread
    BY <1>4 DEF Boot, InitDb, SelectOpen, SelectLock, Chdir, volatile
  <2> QED
    BY <1>1, <1>2, <2>1, Unseen
<1> QED
  BY <1>3, <1>4

\* Every step of the blacklist is a step of Reputation, or does not show.
LEMMA ReputationStep ==
  ASSUME IInv, [Next]_vars
  PROVE  [Rep!Next]_(Rep!repVars)
<1> USE BlacklistAssumption DEF Threads
<1>1. pc \in [Threads -> Places] /\ found = [t \in Threads |-> found[t]]
  BY DEF IInv, TypeOK, Control, AtPlaces
<1>2. CASE UNCHANGED vars
  BY <1>2, Unseen DEF vars, RepScore, RepCall, RepAnswer
<1>3. CASE GoDown
  BY <1>3, CrashSeen
<1>4. CASE Boot
  BY <1>4, BootSeen
<1>5. ASSUME NEW a \in Addrs, IsListedCall(a)
      PROVE  Rep!Next
  <2> DEFINE c == [op |-> "listed", addr |-> a, good |-> TRUE]
  <2>1. c \in Rep!Calls
    BY DEF Rep!Calls
  <2>2. RepCall(Main) = Nothing /\ RepCall(Main)' = c
    BY <1>1, <1>5 DEF IsListedCall, Move, RepCall, IInv, TypeOK
  <2>3. /\ \A u \in Threads \ {Main} : pc'[u] = pc[u] /\ req'[u] = req[u]
        /\ pc[Main] = "idle" /\ pc'[Main] = "rlock" /\ found' = found
    BY <1>1, <1>5 DEF IsListedCall, Move, IInv, TypeOK
  <2>4. /\ \A u \in Threads \ {Main} : RepCall(u)' = RepCall(u)
        /\ \A u \in Threads : RepAnswer(u)' = RepAnswer(u)
    BY <2>3 DEF RepCall, RepAnswer
  <2>5. RepScore' = RepScore /\ UNCHANGED unread
    BY <1>5 DEF IsListedCall, RepScore
  <2>6. Main \in Threads /\ Workers \subseteq Threads
    OBVIOUS
  <2> HIDE DEF c, Threads
  <2> QED
    BY <2>1, <2>2, <2>4, <2>5, <2>6, CallSeen
<1>6. ASSUME NEW w \in Workers, NEW a \in Addrs, NEW good \in BOOLEAN, NEW sent \in BOOLEAN,
             Served(w, a, good, sent)
      PROVE  [Rep!Next]_(Rep!repVars)
  <2> DEFINE c == [op |-> "score", addr |-> a, good |-> good]
  <2>1. c \in Rep!Calls
    BY DEF Rep!Calls
  <2>2. RepCall(w) = Nothing /\ RepCall(w)' = IF sent THEN c ELSE Nothing
    BY <1>1, <1>6 DEF Served, Move, RepCall, IInv, TypeOK
  <2>3. /\ \A u \in Threads \ {w} : RepCall(u)' = RepCall(u)
        /\ \A u \in Threads : RepAnswer(u)' = RepAnswer(u)
    BY <1>1, <1>6 DEF Served, Move, RepCall, RepAnswer
  <2>4. RepScore' = RepScore /\ UNCHANGED unread
    BY <1>6 DEF Served, RepScore
  <2>5. Main \in Threads /\ Workers \subseteq Threads
    OBVIOUS
  <2> HIDE DEF c, Threads
  <2>6. CASE sent
    BY <2>1, <2>2, <2>3, <2>4, <2>5, <2>6, CallSeen
  <2>7. CASE ~sent
    <3>1. \A u \in Threads : RepCall(u)' = RepCall(u)
      BY <2>2, <2>3, <2>7
    <3> QED
      BY <3>1, <2>3, <2>4, Unseen
  <2> QED
    BY <2>6, <2>7
<1>7. ASSUME NEW t \in Threads, ReadLock(t)
      PROVE  UNCHANGED Rep!repVars
  BY <1>1, <1>7, Unseen DEF ReadLock, Move, RepScore, RepCall, RepAnswer
<1>8. ASSUME NEW t \in Threads, Look(t)
      PROVE  Rep!Next
  BY <1>8, LookSeen
<1>9. ASSUME NEW t \in Threads, LookReturn(t)
      PROVE  Rep!Next
  <2>1. RepCall(t)' = Nothing /\ RepAnswer(t)' = Nothing
    BY <1>1, <1>9 DEF LookReturn, Move, RepCall, RepAnswer
  <2>2. \A u \in Threads \ {t} : RepCall(u)' = RepCall(u) /\ RepAnswer(u)' = RepAnswer(u)
    <3>1. CASE t = Main
      BY <1>1, <1>9, <3>1 DEF LookReturn, Move, RepCall, RepAnswer, IInv, TypeOK
    <3>2. CASE t # Main
      BY <1>1, <1>9, <3>2 DEF LookReturn, Move, RepCall, RepAnswer
    <3> QED
      BY <3>1, <3>2
  <2>3. RepScore' = RepScore /\ UNCHANGED unread
    BY <1>9 DEF LookReturn, RepScore
  <2>4. RepAnswer(t) # Nothing
    <3>1. pc[t] = "rret" /\ req[t].addr \in Addrs
      BY <1>9, RequestOf DEF LookReturn, Move, IInv
    <3>2. found[t] \in BOOLEAN \/ found[t] \in Scores
      BY <3>1 DEF IInv, Finds, TypeOK, Rep!Listed
    <3> QED
      BY <3>1, <3>2 DEF RepAnswer
  <2> QED
    BY <2>1, <2>2, <2>3, <2>4, ReturnSeen
<1>10. ASSUME NEW w \in Workers, UpdateCall(w)
       PROVE  Rep!Next
  <2> DEFINE c == [op |-> "update", addr |-> req[w].addr, good |-> req[w].good]
  <2>1. c \in Rep!Calls
    BY <1>10, RequestOf DEF Rep!Calls, UpdateCall, Move, IInv
  <2>2. RepCall(w) = Nothing /\ RepCall(w)' = c
    BY <1>1, <1>10 DEF UpdateCall, Move, RepCall
  <2>3. /\ \A u \in Threads \ {w} : RepCall(u)' = RepCall(u)
        /\ \A u \in Threads : RepAnswer(u)' = RepAnswer(u)
    BY <1>1, <1>10 DEF UpdateCall, Move, RepCall, RepAnswer
  <2>4. RepScore' = RepScore /\ UNCHANGED unread
    BY <1>10 DEF UpdateCall, RepScore
  <2>5. Main \in Threads /\ Workers \subseteq Threads
    OBVIOUS
  <2> HIDE DEF c, Threads
  <2> QED
    BY <2>1, <2>2, <2>3, <2>4, <2>5, CallSeen
<1>11. ASSUME NEW w \in Workers, UpdateLock(w)
       PROVE  UNCHANGED Rep!repVars
  BY <1>1, <1>11, Unseen DEF UpdateLock, Move, RepScore, RepCall, RepAnswer
<1>12. ASSUME NEW w \in Workers, UpdateMap(w)
       PROVE  UNCHANGED Rep!repVars
  BY <1>1, <1>12, Unseen DEF UpdateMap, Move, RepScore, RepCall, RepAnswer
<1>13. ASSUME NEW w \in Workers, OpenDb(w)
       PROVE  UNCHANGED Rep!repVars
  BY <1>1, <1>13, Unseen DEF OpenDb, Move, RepScore, RepCall, RepAnswer
<1>14. ASSUME NEW w \in Workers, Step(w)
       PROVE  Rep!Next
  BY <1>14, StepSeen
<1>15. ASSUME NEW w \in Workers, CloseDb(w)
       PROVE  UNCHANGED Rep!repVars
  BY <1>1, <1>15, Unseen DEF CloseDb, Move, RepScore, RepCall, RepAnswer
<1>16. ASSUME NEW w \in Workers, UpdateReturn(w)
       PROVE  Rep!Next
  <2>1. RepCall(w)' = Nothing /\ RepAnswer(w)' = Nothing
    BY <1>1, <1>16 DEF UpdateReturn, Move, RepCall, RepAnswer
  <2>2. \A u \in Threads \ {w} : RepCall(u)' = RepCall(u) /\ RepAnswer(u)' = RepAnswer(u)
    BY <1>1, <1>16 DEF UpdateReturn, Move, RepCall, RepAnswer, IInv, TypeOK
  <2>3. RepScore' = RepScore /\ UNCHANGED unread
    BY <1>16 DEF UpdateReturn, RepScore
  <2>4. RepAnswer(w) # Nothing
    <3>1. RepAnswer(w) = (found[w] > blacklist_threshold)
      BY <1>16 DEF UpdateReturn, Move, RepAnswer
    <3>2. (found[w] > blacklist_threshold) \in BOOLEAN
      OBVIOUS
    <3> QED
      BY <3>1, <3>2
  <2> QED
    BY <2>1, <2>2, <2>3, <2>4, ReturnSeen
<1> QED
  BY <1>2, <1>3, <1>4, <1>5, <1>6, <1>7, <1>8, <1>9, <1>10, <1>11, <1>12, <1>13, <1>14,
     <1>15, <1>16
  DEF Next, Kill, LookStep, UpdateStep, Fail, OpenDbFails, StepFails

\* To its callers the blacklist is one durable score per address, each call at
\* one instant, whatever fails; what the load missed is new to them meanwhile.
THEOREM Refinement == SafeSpec => ImplementsReputation
<1>1. Init => Rep!Init
  BY DEF Init, Rep!Init, RepScore, RepCall, RepAnswer, NobodyIn
<1>2. IInv /\ [Next]_vars => [Rep!Next]_(Rep!repVars)
  BY ReputationStep
<1> QED
  BY <1>1, <1>2, Invariance, PTL DEF SafeSpec, ImplementsReputation, Rep!Spec
=============================================================================

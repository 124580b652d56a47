---------------------------- MODULE StartupProofs ----------------------------
(***************************************************************************)
(* Proofs about the start of the server, for any number of processes,      *)
(* whatever their command lines, started, killed and started again in any  *)
(* order: what a server that serves relies on, and what a start is refused *)
(* for.                                                                    *)
(*                                                                         *)
(* The database is shared, and the process that looks at it locks it in no *)
(* way between two statements.  What a stage may conclude from an earlier  *)
(* one therefore has to survive every step of every other process: a file  *)
(* that has the table keeps it, and the table its columns (Grows).         *)
(***************************************************************************)
EXTENDS Startup, TLAPS

\* The stages before the change of directory, and those after it.
Early == Ended \cup (Stages \ {"bind", "pool"})
Late == {"bind", "pool", "serving"}

\* What the variables are that this is about.
Shapes ==
  /\ pc \in [Procs -> Early \cup Late]
  /\ argv \in [Procs -> Argvs \cup {<<>>}]
  /\ DOMAIN options = Procs
  /\ DOMAIN cwd = Procs
  /\ seen \in [Procs -> SUBSET Columns]
  /\ dbs \in [DbFiles -> Tables \cup {NoTable, Garbage}]
  /\ dirs \subseteq AllDirs
  /\ failed \in [Procs -> BOOLEAN]

\* The options are those of a command line, but for the directory, and the
\* working directory is the one it was started in until it is changed.
Chosen(p) ==
  /\ pc[p] \in {"parse", "loguru"} => argv[p] \in Argvs
  /\ pc[p] \notin Ended \cup {"parse"} =>
       \E words \in Argvs : options[p] = [Options(words) EXCEPT !.dir = options[p].dir]
  /\ pc[p] \in Early => cwd[p] = StartDir
  /\ pc[p] \in Late /\ IsAbsolute(options[p].dir) => KeepsDir(p)

\* The stages that come after the database could be opened.
WithDb == AtDb \cup {"reopen", "chdir"} \cup Late

\* What a stage has found in the database, or seen to.
Found(at, busy, cols, db) ==
  /\ at \in {"columns", "add"} => db \in Tables
  /\ at = "add" => cols \subseteq db.cols
  /\ at = "create" /\ ~busy => db \in {NoTable, Garbage} \/ Selectable(db)
  /\ at \in {"close", "reopen", "select"} /\ ~busy =>
       db = Garbage \/ (db \in Tables /\ "count" \in db.cols)
  /\ at \in {"rows", "reclose", "chdir"} \cup Late => Selectable(db)

Prepared(p) ==
  pc[p] \in WithDb =>
    /\ DbAtBoot(p) \in DbFiles
    /\ Found(pc[p], failed[p], seen[p], dbs[DbAtBoot(p)])

\* The inductive invariant.
IInv ==
  /\ Shapes
  /\ \A p \in Procs : Chosen(p) /\ Prepared(p)

-----------------------------------------------------------------------------
(***************************************************************************)
(* What a step leaves alone.                                               *)
(***************************************************************************)
Moves(p) == Exec(p) \/ Start(p) \/ Kill(p)

\* An absolute path is one place, whoever resolves it.
LEMMA AbsolutePath ==
  \A path, at, to : IsAbsolute(path) => Resolve(at, path) = Resolve(to, path)
BY DEF Resolve

\* A step of one process leaves the memory of the others alone.
LEMMA OthersStay ==
  ASSUME IInv, NEW p \in Procs, Moves(p)
  PROVE  \A q \in Procs \ {p} :
           /\ pc'[q] = pc[q] /\ argv'[q] = argv[q] /\ options'[q] = options[q]
           /\ cwd'[q] = cwd[q] /\ seen'[q] = seen[q] /\ failed'[q] = failed[q]
<1> USE DEF IInv, Shapes
<1>1. \A q \in Procs \ {p} : pc'[q] = pc[q]
  BY DEF Moves, Start, Exec, Kill, Parse, InitLoguru, AddFile, OpenDb, ListTables, ReadColumns,
         AddColumns, CreateTable, CloseDb, Select, LoadRows, Chdir, Bind, StartPool,
         Go, Move, End
<1>2. \A q \in Procs \ {p} : argv'[q] = argv[q] /\ seen'[q] = seen[q]
  BY DEF Moves, Start, Exec, Kill, Parse, InitLoguru, AddFile, OpenDb, ListTables, ReadColumns,
         AddColumns, CreateTable, CloseDb, Select, LoadRows, Chdir, Bind, StartPool, End
<1>3. \A q \in Procs \ {p} : options'[q] = options[q] /\ cwd'[q] = cwd[q]
  BY DEF Moves, Start, Exec, Kill, Parse, InitLoguru, AddFile, OpenDb, ListTables, ReadColumns,
         AddColumns, CreateTable, CloseDb, Select, LoadRows, Chdir, Bind, StartPool, End
<1>4. \A q \in Procs \ {p} : failed'[q] = failed[q]
  BY DEF Moves, Start, Exec, Kill, Parse, InitLoguru, AddFile, OpenDb, ListTables, ReadColumns,
         AddColumns, CreateTable, CloseDb, Select, LoadRows, Chdir, Bind, StartPool, MayBeBusy
<1> QED
  BY <1>1, <1>2, <1>3, <1>4

\* A process that has a working directory of its own to be in is where it was
\* started, until it changes it: both names of its database are one.
LEMMA OneDb ==
  ASSUME IInv, NEW p \in Procs, pc[p] \in Early
  PROVE  DbNow(p) = DbAtBoot(p)
BY DEF IInv, Chosen, DbNow, DbAtBoot

\* A step that touches the databases fills one: a file without a table gets it
\* whole, a table gets the column it lacks.
LEMMA Touch ==
  ASSUME IInv, NEW p \in Procs, Moves(p)
  PROVE  \/ dbs' = dbs
         \/ /\ DbAtBoot(p) \in DbFiles
            /\ \E new \in Tables :
                 /\ dbs' = [dbs EXCEPT ![DbAtBoot(p)] = new]
                 /\ \/ dbs[DbAtBoot(p)] = NoTable /\ new.cols = Columns
                    \/ /\ dbs[DbAtBoot(p)] \in Tables
                       /\ new.cols = dbs[DbAtBoot(p)].cols \cup {"count"}
<1>1. CASE AddColumns(p)
  <2> DEFINE db == DbAtBoot(p)
  <2>1. pc[p] = "add" /\ db \in DbFiles /\ dbs[db] \in Tables /\ DbNow(p) = db
    BY <1>1, OneDb DEF IInv, Prepared, Found, WithDb, AddColumns, Move, AtDb, Early, Stages
  <2>2. dbs' = dbs \/ dbs' = [dbs EXCEPT ![db].cols = @ \cup {"count"}]
    BY <1>1, <2>1 DEF AddColumns
  <2>3. dbs[db].cols \subseteq Columns /\ "count" \in Columns
    BY <2>1 DEF Tables, Columns
  <2>4. [dbs[db] EXCEPT !.cols = @ \cup {"count"}] \in Tables
    BY <2>1, <2>3 DEF Tables
  <2>5. [dbs[db] EXCEPT !.cols = @ \cup {"count"}].cols = dbs[db].cols \cup {"count"}
    BY <2>1 DEF Tables
  <2> QED
    BY <2>1, <2>2, <2>4, <2>5
<1>2. CASE CreateTable(p)
  <2> DEFINE new == [cols |-> Columns, nameless |-> FALSE]
  <2>1. pc[p] = "create" /\ DbAtBoot(p) \in DbFiles /\ DbNow(p) = DbAtBoot(p)
    BY <1>2, OneDb DEF IInv, Prepared, WithDb, CreateTable, Move, AtDb, Early, Stages
  <2>2. new \in Tables /\ new.cols = Columns
    BY DEF Tables
  <2>3. dbs' = dbs \/ (Db(p) = NoTable /\ dbs' = [dbs EXCEPT ![DbNow(p)] = new])
    BY <1>2 DEF CreateTable
  <2> QED
    BY <2>1, <2>2, <2>3 DEF Db
<1>3. CASE ~AddColumns(p) /\ ~CreateTable(p)
  BY <1>3 DEF Moves, Start, Exec, Kill, Parse, InitLoguru, AddFile, OpenDb, ListTables, ReadColumns,
         CloseDb, Select, LoadRows, Chdir, Bind, StartPool, End
<1> QED
  BY <1>1, <1>2, <1>3

\* No file loses its table, and no table a column; what is no database stays
\* none, and a file gets a table only as a whole.
LEMMA Grows ==
  ASSUME IInv, NEW p \in Procs, Moves(p), NEW d \in DbFiles
  PROVE  /\ dbs' \in [DbFiles -> Tables \cup {NoTable, Garbage}]
         /\ dbs[d] \in Tables => dbs'[d] \in Tables /\ dbs[d].cols \subseteq dbs'[d].cols
         /\ dbs[d] = Garbage => dbs'[d] = Garbage
         /\ dbs[d] = NoTable => dbs'[d] = NoTable \/ Selectable(dbs'[d])
<1>1. dbs \in [DbFiles -> Tables \cup {NoTable, Garbage}]
  BY DEF IInv, Shapes
<1>2. CASE dbs' = dbs
  BY <1>1, <1>2
<1>3. ASSUME DbAtBoot(p) \in DbFiles, NEW new \in Tables,
             dbs' = [dbs EXCEPT ![DbAtBoot(p)] = new],
             \/ dbs[DbAtBoot(p)] = NoTable /\ new.cols = Columns
             \/ dbs[DbAtBoot(p)] \in Tables /\ new.cols = dbs[DbAtBoot(p)].cols \cup {"count"}
      PROVE  /\ dbs' \in [DbFiles -> Tables \cup {NoTable, Garbage}]
             /\ dbs[d] \in Tables => dbs'[d] \in Tables /\ dbs[d].cols \subseteq dbs'[d].cols
             /\ dbs[d] = Garbage => dbs'[d] = Garbage
             /\ dbs[d] = NoTable => dbs'[d] = NoTable \/ Selectable(dbs'[d])
  <2>1. dbs' \in [DbFiles -> Tables \cup {NoTable, Garbage}]
    BY <1>1, <1>3
  <2>2. CASE d = DbAtBoot(p)
    BY <1>1, <1>3, <2>1, <2>2, StartupAssumption DEF Selectable
  <2>3. CASE d # DbAtBoot(p)
    BY <1>1, <1>3, <2>1, <2>3
  <2> QED
    BY <2>1, <2>2, <2>3
<1> QED
  BY <1>2, <1>3, Touch

-----------------------------------------------------------------------------
(***************************************************************************)
(* The inductive invariant.                                                *)
(***************************************************************************)
\* A database a SELECT can be prepared on stays one.
LEMMA StaysSelectable ==
  ASSUME IInv, NEW p \in Procs, Moves(p), NEW d \in DbFiles, Selectable(dbs[d])
  PROVE  Selectable(dbs'[d])
<1>1. dbs'[d] \in Tables /\ dbs[d].cols \subseteq dbs'[d].cols
  BY Grows DEF Selectable
<1>2. dbs'[d].cols \subseteq Columns
  BY <1>1 DEF Tables
<1> QED
  BY <1>1, <1>2 DEF Selectable

\* What a stage has found survives every step.
LEMMA Survives ==
  ASSUME IInv, NEW p \in Procs, Moves(p), NEW d \in DbFiles,
         NEW at, NEW busy, NEW cols, Found(at, busy, cols, dbs[d])
  PROVE  Found(at, busy, cols, dbs'[d])
<1>1. CASE dbs[d] \in Tables
  BY <1>1, Grows, StaysSelectable, StartupAssumption DEF Found
<1>2. CASE dbs[d] = Garbage
  BY <1>2, Grows, StartupAssumption DEF Found, Selectable
<1>3. CASE dbs[d] = NoTable
  BY <1>3, Grows, StartupAssumption DEF Found, Selectable
<1> QED
  BY <1>1, <1>2, <1>3 DEF IInv, Shapes

LEMMA OtherPrepared ==
  ASSUME IInv, NEW p \in Procs, Moves(p), NEW q \in Procs \ {p}
  PROVE  Chosen(q)' /\ Prepared(q)'
<1>1. /\ pc'[q] = pc[q] /\ argv'[q] = argv[q] /\ options'[q] = options[q]
      /\ cwd'[q] = cwd[q] /\ seen'[q] = seen[q] /\ failed'[q] = failed[q]
  BY OthersStay
<1>2. Chosen(q) /\ Prepared(q)
  BY DEF IInv
<1>3. Chosen(q)'
  BY <1>1, <1>2 DEF Chosen, KeepsDir
<1>4. DbAtBoot(q)' = DbAtBoot(q)
  BY <1>1 DEF DbAtBoot
<1>5. ASSUME pc[q] \in WithDb
      PROVE  /\ DbAtBoot(q) \in DbFiles
             /\ Found(pc[q], failed[q], seen[q], dbs'[DbAtBoot(q)])
  BY <1>2, <1>5, Survives DEF Prepared
<1> QED
  BY <1>1, <1>3, <1>4, <1>5 DEF Prepared

\* A process that ends, or has not begun, claims nothing.
LEMMA EndedPrepared ==
  ASSUME IInv, NEW p \in Procs, NEW how \in Ended, End(p, how)
  PROVE  Chosen(p)' /\ Prepared(p)'
<1>1. pc'[p] = how /\ cwd'[p] = StartDir
  BY DEF IInv, Shapes, End, Go
<1> QED
  BY <1>1 DEF Chosen, Prepared, Ended, WithDb, AtDb, Early, Late

\* From stage to stage, as long as the options and the directory stay.
LEMMA ChosenStays ==
  ASSUME IInv, NEW p \in Procs, UNCHANGED <<options, cwd>>,
         pc[p] \notin Ended \cup {"parse"}, pc'[p] \notin {"parse", "loguru"},
         pc'[p] \in Early => pc[p] \in Early, pc'[p] \in Late => pc[p] \in Late
  PROVE  Chosen(p)'
<1>1. Chosen(p)
  BY DEF IInv
<1> QED
  BY <1>1 DEF Chosen, KeepsDir

\* The memory of a process the step does not end.
LEMMA OwnDb ==
  ASSUME IInv, NEW p \in Procs, UNCHANGED options
  PROVE  DbAtBoot(p)' = DbAtBoot(p)
BY DEF DbAtBoot

LEMMA ShapesStep ==
  ASSUME IInv, NEW p \in Procs, Moves(p)
  PROVE  Shapes'
<1>0. Shapes
  BY DEF IInv
<1>1. pc' \in [Procs -> Early \cup Late]
  <2>1. \E to \in Early \cup Late : pc' = [pc EXCEPT ![p] = to]
    <3>1. \A how \in Ended : End(p, how) => \E to \in Early \cup Late : pc' = [pc EXCEPT ![p] = to]
      BY DEF End, Go, Early
    <3>2. "down" \in Ended /\ "refused" \in Ended /\ "aborted" \in Ended
      BY DEF Ended
    <3>3. CASE Exec(p) \/ Kill(p) \/ InitLoguru(p) \/ AddFile(p)
      BY <3>1, <3>2, <3>3 DEF Exec, Kill, InitLoguru, AddFile, Go, Move, Early, Stages
    <3>4. CASE Parse(p)
      BY <3>1, <3>2, <3>4 DEF Parse, Go, Early, Stages, Ended
    <3>5. CASE OpenDb(p) \/ CloseDb(p) \/ ListTables(p) \/ ReadColumns(p)
      BY <3>1, <3>2, <3>5 DEF OpenDb, CloseDb, ListTables, ReadColumns, Go, Move, Early, Stages,
         AtDb
    <3>6. CASE AddColumns(p) \/ CreateTable(p) \/ Select(p) \/ LoadRows(p)
      BY <3>1, <3>2, <3>6 DEF AddColumns, CreateTable, Select, LoadRows, Go, Move, Early, Stages,
         AtDb
    <3>7. CASE Chdir(p) \/ Bind(p) \/ StartPool(p)
      BY <3>1, <3>2, <3>7 DEF Chdir, Bind, StartPool, Go, Early, Late
    <3> QED
      BY <3>3, <3>4, <3>5, <3>6, <3>7 DEF Moves, Start
  <2> QED
    BY <1>0, <2>1 DEF Shapes
<1>2. argv' \in [Procs -> Argvs \cup {<<>>}]
  BY <1>0 DEF Shapes, Moves, Start, Exec, Kill, Parse, InitLoguru, AddFile, OpenDb, ListTables,
         ReadColumns, AddColumns, CreateTable, CloseDb, Select, LoadRows, Chdir, Bind, StartPool,
         End
<1>3. DOMAIN options' = Procs /\ DOMAIN cwd' = Procs
  BY <1>0 DEF Shapes, Moves, Start, Exec, Kill, Parse, InitLoguru, AddFile, OpenDb, ListTables,
         ReadColumns, AddColumns, CreateTable, CloseDb, Select, LoadRows, Chdir, Bind, StartPool,
         End
<1>4. seen' \in [Procs -> SUBSET Columns]
  <2>1. CASE ReadColumns(p)
    <3>1. Db(p) \in Tables
      <4>1. pc[p] = "columns"
        BY <2>1 DEF ReadColumns, Move
      <4>2. dbs[DbAtBoot(p)] \in Tables
        BY <4>1 DEF IInv, Prepared, Found, WithDb, AtDb
      <4>3. DbNow(p) = DbAtBoot(p)
        BY <4>1, OneDb DEF Early, Stages, AtDb
      <4> QED
        BY <4>2, <4>3 DEF Db
    <3>2. Db(p).cols \subseteq Columns
      BY <3>1 DEF Tables
    <3>3. seen' = [seen EXCEPT ![p] = {}] \/ seen' = [seen EXCEPT ![p] = Db(p).cols]
      BY <2>1 DEF ReadColumns
    <3> QED
      BY <1>0, <3>2, <3>3 DEF Shapes
  <2>2. CASE ~ReadColumns(p)
    BY <1>0, <2>2 DEF Shapes, Moves, Start, Exec, Kill, Parse, InitLoguru, AddFile, OpenDb,
       ListTables, AddColumns, CreateTable, CloseDb, Select, LoadRows, Chdir, Bind, StartPool,
       End
  <2> QED
    BY <2>1, <2>2
<1>5. dbs' \in [DbFiles -> Tables \cup {NoTable, Garbage}]
  BY <1>0, Touch DEF Shapes
<1>6. dirs' \subseteq AllDirs
  <2>1. CASE AddFile(p)
    <3>1. pc[p] = "addfile" /\ cwd[p] = StartDir
      BY <2>1 DEF IInv, Chosen, AddFile, Move, Early, Stages
    <3>2. PICK words \in Argvs : options[p] = [Options(words) EXCEPT !.dir = options[p].dir]
      BY <3>1 DEF IInv, Chosen, Ended
    <3>3. options[p].log_file = Options(words).log_file
      BY <3>2 DEF Options
    <3>4. dirs' \subseteq dirs \cup Ancestors(StartDir, Options(words).log_file)
      BY <2>1, <3>1, <3>3 DEF AddFile
    <3> QED
      BY <1>0, <3>4 DEF Shapes, AllDirs
  <2>2. CASE ~AddFile(p)
    BY <1>0, <2>2 DEF Shapes, Moves, Start, Exec, Kill, Parse, InitLoguru, OpenDb, ListTables,
       ReadColumns, AddColumns, CreateTable, CloseDb, Select, LoadRows, Chdir, Bind, StartPool,
       End
  <2> QED
    BY <2>1, <2>2
<1>7. failed' \in [Procs -> BOOLEAN]
  BY <1>0 DEF Shapes, Moves, Start, Exec, Kill, Parse, InitLoguru, AddFile, OpenDb, ListTables,
         ReadColumns, AddColumns, CreateTable, CloseDb, Select, LoadRows, Chdir, Bind, StartPool,
         MayBeBusy
<1> QED
  BY <1>1, <1>2, <1>3, <1>4, <1>5, <1>6, <1>7 DEF Shapes
\* The options and the directories of the process that takes the step.
LEMMA OwnChosen ==
  ASSUME IInv, NEW p \in Procs, Moves(p)
  PROVE  Chosen(p)'
<1>0. Chosen(p) /\ Shapes
  BY DEF IInv
<1>1. CASE \E how \in Ended : End(p, how)
  BY <1>1, EndedPrepared
<1>2. CASE Exec(p)
  <2>1. pc'[p] = "parse" /\ argv'[p] \in Argvs /\ cwd'[p] = StartDir
    BY <1>0, <1>2 DEF Shapes, Chosen, Exec, Go, Early
  <2> QED
    BY <2>1 DEF Chosen, Late
<1>3. CASE Parse(p) /\ ~\E how \in Ended : End(p, how)
  <2>1. /\ pc[p] = "parse" /\ argv[p] \in Argvs /\ cwd[p] = StartDir
    BY <1>0, <1>3 DEF Chosen, Parse, Early, Stages
  <2>2. /\ pc'[p] = "loguru" /\ argv' = argv /\ cwd' = cwd
        /\ options'[p] = Options(argv[p])
    BY <1>0, <1>3, <2>1 DEF Parse, Shapes, Go, Ended
  <2>3. Options(argv[p]) = [Options(argv[p]) EXCEPT !.dir = Options(argv[p]).dir]
    BY DEF Options
  <2> QED
    BY <2>1, <2>2, <2>3 DEF Chosen, Late
<1>4. CASE Chdir(p) /\ ~\E how \in Ended : End(p, how)
  <2>1. pc[p] = "chdir" /\ pc'[p] = "bind" /\ cwd[p] = StartDir
    BY <1>0, <1>4 DEF Chosen, Shapes, Chdir, Go, Early, Stages, Ended
  <2>2. PICK words \in Argvs : options[p] = [Options(words) EXCEPT !.dir = options[p].dir]
    BY <1>0, <2>1 DEF Chosen, Ended
  <2>3. options'[p] = [Options(words) EXCEPT !.dir = options'[p].dir]
    <3>1. options' = options \/ \E d : options' = [options EXCEPT ![p].dir = d]
      BY <1>4 DEF Chdir, Ended
    <3>2. CASE options' = options
      BY <2>2, <3>2
    <3>3. ASSUME NEW d, options' = [options EXCEPT ![p].dir = d]
          PROVE  options'[p] = [Options(words) EXCEPT !.dir = options'[p].dir]
      <4>1. options'[p] = [options[p] EXCEPT !.dir = d]
        BY <1>0, <3>3 DEF Shapes
      <4>2. options'[p] = [Options(words) EXCEPT !.dir = d]
        BY <2>2, <4>1 DEF Options
      <4> QED
        BY <4>2 DEF Options
    <3> QED
      BY <3>1, <3>2, <3>3
  <2>4. IsAbsolute(options'[p].dir) => Resolve(cwd'[p], options'[p].dir) = cwd'[p]
    <3>1. CASE options[p].dir = <<".">> /\ options' = [options EXCEPT ![p].dir = <<"/">> \o cwd[p]]
               /\ cwd' = cwd
      <4>1. options'[p].dir = <<"/">> \o StartDir
        <5>1. options'[p] = [options[p] EXCEPT !.dir = <<"/">> \o cwd[p]]
          BY <1>0, <3>1 DEF Shapes
        <5> QED
          BY <2>1, <2>2, <5>1 DEF Options
      <4> QED
        BY <2>1, <3>1, <4>1, AbsolutePath, StartupAssumption
    <3>2. CASE options' = options /\ cwd' = [cwd EXCEPT ![p] = Resolve(cwd[p], options[p].dir)]
      <4>1. cwd'[p] = Resolve(cwd[p], options[p].dir)
        BY <1>0, <3>2 DEF Shapes
      <4> QED
        BY <3>2, <4>1, AbsolutePath
    <3> QED
      BY <1>4, <3>1, <3>2 DEF Chdir, Ended
  <2> QED
    BY <2>1, <2>2, <2>3, <2>4 DEF Chosen, KeepsDir, Early, Ended, Stages, AtDb
<1>5. CASE UNCHANGED <<options, cwd>> /\ ~Exec(p) /\ ~Parse(p) /\ ~Chdir(p)
           /\ ~\E how \in Ended : End(p, how)
  <2>1. /\ pc[p] \notin Ended \cup {"parse"} /\ pc'[p] \notin {"parse", "loguru"}
        /\ pc'[p] \in Early => pc[p] \in Early
        /\ pc'[p] \in Late => pc[p] \in Late
    <3>1. CASE InitLoguru(p) \/ AddFile(p) \/ OpenDb(p) \/ CloseDb(p)
      BY <1>0, <1>5, <3>1 DEF InitLoguru, AddFile, OpenDb, CloseDb, Shapes, Go, Move, Early, Late,
         Ended, Stages, AtDb
    <3>2. CASE ListTables(p) \/ ReadColumns(p) \/ AddColumns(p) \/ CreateTable(p)
      BY <1>0, <1>5, <3>2 DEF ListTables, ReadColumns, AddColumns, CreateTable, Shapes, Go, Move,
         Early, Late, Ended, Stages, AtDb
    <3>3. CASE Select(p) \/ LoadRows(p) \/ Bind(p) \/ StartPool(p)
      BY <1>0, <1>5, <3>3 DEF Select, LoadRows, Bind, StartPool, Shapes, Go, Move,
         Early, Late, Ended, Stages, AtDb
    <3> QED
      BY <1>5, <3>1, <3>2, <3>3 DEF Moves, Start, Kill, Ended
  <2> QED
    BY <1>5, <2>1, ChosenStays
<1> QED
  BY <1>1, <1>2, <1>3, <1>4, <1>5 DEF Moves, Start, Kill, Ended, InitLoguru, AddFile, OpenDb,
     CloseDb, ListTables, ReadColumns, AddColumns, CreateTable, Select, LoadRows, Bind, StartPool
\* What the process that takes the step knows of its database.
LEMMA OwnPrepared ==
  ASSUME IInv, NEW p \in Procs, Moves(p)
  PROVE  Prepared(p)'
<1> DEFINE d == DbAtBoot(p)
<1> USE DEF Early, Late, Ended, Stages, AtDb
<1>0. Shapes /\ Chosen(p) /\ Prepared(p)
  BY DEF IInv
<1>1. CASE \E how \in Ended : End(p, how)
  BY <1>1, EndedPrepared
<1>2. CASE Exec(p) \/ Parse(p) \/ InitLoguru(p) \/ AddFile(p)
  <2>1. (\E how \in Ended : End(p, how)) \/ pc'[p] \in {"parse", "loguru", "addfile", "open"}
    BY <1>0, <1>2 DEF Shapes, Exec, Parse, InitLoguru, AddFile, Go, Move
  <2> QED
    BY <1>1, <2>1 DEF Prepared, WithDb
<1>3. CASE UNCHANGED options /\ ~\E how \in Ended : End(p, how)
  <2>1. DbAtBoot(p)' = d
    BY <1>3 DEF DbAtBoot
  <2>2. pc[p] \in WithDb => d \in DbFiles /\ Found(pc[p], failed[p], seen[p], dbs[d])
    BY <1>0 DEF Prepared
  <2>3. pc[p] \in WithDb \ {"bind", "pool", "serving"} => Db(p) = dbs[d]
    BY OneDb DEF Db, WithDb
  <2> SUFFICES ASSUME pc'[p] \in WithDb
               PROVE  d \in DbFiles /\ Found(pc'[p], failed'[p], seen'[p], dbs'[d])
    BY <2>1 DEF Prepared
  <2>4. CASE OpenDb(p)
    <3>1. /\ UNCHANGED <<dbs, seen, failed>>
          /\ \/ pc[p] = "open" /\ pc'[p] = "tables"
             \/ pc[p] = "reopen" /\ pc'[p] = "select"
          /\ Parent(DbNow(p)) \in dirs
      BY <1>0, <1>3, <2>4 DEF Shapes, OpenDb, Go
    <3>2. CASE pc[p] = "open" /\ pc'[p] = "tables"
      <4>1. PICK words \in Argvs : options[p] = [Options(words) EXCEPT !.dir = options[p].dir]
        BY <1>0, <3>2 DEF Chosen
      <4>2. options[p].db_file = Options(words).db_file
        BY <4>1 DEF Options
      <4>3. d = DbOf(words)
        BY <4>2 DEF DbAtBoot, DbOf
      <4>4. Parent(DbOf(words)) \in AllDirs
        BY <1>0, <3>1, <3>2, <4>3, OneDb DEF Shapes
      <4> QED
        BY <3>2, <4>3, <4>4, StartupAssumption DEF Found
    <3> QED
      BY <2>2, <3>1, <3>2 DEF Found, WithDb
  <2>5. CASE ListTables(p)
    <3>1. /\ pc[p] = "tables" /\ dbs' = dbs
          /\ pc'[p] = "columns" => Db(p) \in Tables
          /\ pc'[p] = "create" /\ ~failed'[p] => Db(p) \notin Tables
          /\ pc'[p] \in {"columns", "create"}
      BY <1>0, <2>5 DEF Shapes, ListTables, MayBeBusy, Go
    <3>2. d \in DbFiles /\ Db(p) = dbs[d] /\ dbs[d] \in Tables \cup {NoTable, Garbage}
      BY <1>0, <2>2, <2>3, <3>1 DEF Shapes, WithDb
    <3> QED
      BY <3>1, <3>2 DEF Found
  <2>6. CASE ReadColumns(p)
    <3>1. /\ pc[p] = "columns" /\ dbs' = dbs /\ pc'[p] = "add"
          /\ seen'[p] \in {{}, Db(p).cols}
      BY <1>0, <2>6 DEF Shapes, ReadColumns, Go, Move
    <3>2. d \in DbFiles /\ Db(p) = dbs[d] /\ dbs[d] \in Tables
      BY <2>2, <2>3, <3>1 DEF Found, WithDb
    <3> QED
      BY <3>1, <3>2 DEF Found
  <2>7. CASE AddColumns(p)
    <3>1. /\ pc[p] = "add" /\ pc'[p] = "close"
          /\ ~failed'[p] =>
               dbs' = IF "count" \notin seen[p] THEN [dbs EXCEPT ![DbNow(p)].cols = @ \cup {"count"}]
                      ELSE dbs
      BY <1>0, <2>7 DEF Shapes, AddColumns, MayBeBusy, Go, Move
    <3>2. /\ d \in DbFiles /\ DbNow(p) = d /\ dbs[d] \in Tables
          /\ seen[p] \subseteq dbs[d].cols
      BY <2>2, <3>1, OneDb DEF Found, WithDb
    <3>3. dbs'[d] \in Tables /\ dbs[d].cols \subseteq dbs'[d].cols
      BY <3>2, Grows
    <3>4. ~failed'[p] => "count" \in dbs'[d].cols
      <4>1. CASE "count" \in seen[p]
        BY <3>2, <3>3, <4>1
      <4>2. CASE "count" \notin seen[p]
        BY <1>0, <3>1, <3>2, <4>2 DEF Shapes, Tables
      <4> QED
        BY <4>1, <4>2
    <3> QED
      BY <3>1, <3>2, <3>3, <3>4 DEF Found
  <2>8. CASE CreateTable(p)
    <3>1. /\ pc[p] = "create" /\ pc'[p] = "close"
          /\ ~failed'[p] =>
               /\ ~failed[p]
               /\ dbs' = IF Db(p) = NoTable
                         THEN [dbs EXCEPT ![DbNow(p)] = [cols |-> Columns, nameless |-> FALSE]]
                         ELSE dbs
      BY <1>0, <2>8 DEF Shapes, CreateTable, MayBeBusy, Go, Move
    <3>2. /\ d \in DbFiles /\ DbNow(p) = d /\ Db(p) = dbs[d]
          /\ ~failed[p] => dbs[d] \in {NoTable, Garbage} \/ Selectable(dbs[d])
      BY <2>2, <2>3, <3>1, OneDb DEF Found, WithDb
    <3>3. ~failed'[p] => dbs'[d] = Garbage \/ (dbs'[d] \in Tables /\ "count" \in dbs'[d].cols)
      <4>1. CASE dbs[d] = NoTable
        <5>1. [cols |-> Columns, nameless |-> FALSE] \in Tables /\ "count" \in Columns
          BY DEF Tables, Columns
        <5>2. ~failed'[p] => dbs' = [dbs EXCEPT ![d] = [cols |-> Columns, nameless |-> FALSE]]
          BY <3>1, <3>2, <4>1
        <5>3. ~failed'[p] => dbs'[d] = [cols |-> Columns, nameless |-> FALSE]
          BY <1>0, <3>2, <5>2 DEF Shapes
        <5> QED
          BY <5>1, <5>3
      <4>2. CASE dbs[d] # NoTable
        BY <3>1, <3>2, <4>2 DEF Selectable, Columns
      <4> QED
        BY <4>1, <4>2
    <3> QED
      BY <3>1, <3>2, <3>3 DEF Found
  <2>9. CASE CloseDb(p)
    <3>1. /\ UNCHANGED <<dbs, seen, failed>>
          /\ \/ pc[p] = "close" /\ pc'[p] = "reopen"
             \/ pc[p] = "reclose" /\ pc'[p] = "chdir"
      BY <1>0, <2>9 DEF Shapes, CloseDb, Go
    <3> QED
      BY <2>2, <3>1 DEF Found, WithDb
  <2>10. CASE Select(p)
    <3>1. pc[p] = "select" /\ pc'[p] = "rows" /\ dbs' = dbs /\ Selectable(Db(p))
      BY <1>0, <1>3, <2>10 DEF Shapes, Select, Go
    <3> QED
      BY <2>2, <2>3, <3>1 DEF Found, WithDb
  <2>11. CASE LoadRows(p)
    <3>1. pc[p] = "rows" /\ pc'[p] = "reclose" /\ dbs' = dbs
      BY <1>0, <1>3, <2>11 DEF Shapes, LoadRows, Go
    <3> QED
      BY <2>2, <3>1 DEF Found, WithDb
  <2>12. CASE Bind(p) \/ StartPool(p)
    <3>1. pc[p] \in {"bind", "pool"} /\ pc'[p] \in {"pool", "serving"} /\ dbs' = dbs
      BY <1>0, <1>3, <2>12 DEF Shapes, Bind, StartPool, Go
    <3> QED
      BY <2>2, <3>1 DEF Found, WithDb
  <2>13. CASE Chdir(p)
    <3>1. pc[p] = "chdir" /\ pc'[p] = "bind" /\ dbs' = dbs
      BY <1>0, <1>3, <2>13 DEF Shapes, Chdir, Go
    <3> QED
      BY <2>2, <3>1 DEF Found, WithDb
  <2>14. CASE Exec(p) \/ Parse(p) \/ InitLoguru(p) \/ AddFile(p)
    <3>1. Prepared(p)'
      BY <1>2, <2>14
    <3> QED
      BY <2>1, <3>1 DEF Prepared
  <2> QED
    BY <1>3, <2>14, <2>4, <2>5, <2>6, <2>7, <2>8, <2>9, <2>10, <2>11, <2>12, <2>13
    DEF Moves, Start, Kill
<1>4. CASE Chdir(p) /\ \E to : options' = [options EXCEPT ![p].dir = to]
  <2>1. PICK to : options' = [options EXCEPT ![p].dir = to]
    BY <1>4
  <2>2. CASE \E how \in Ended : End(p, how)
    BY <1>1, <2>2
  <2>3. CASE ~\E how \in Ended : End(p, how)
    <3>1. pc[p] = "chdir" /\ pc'[p] = "bind" /\ dbs' = dbs
      BY <1>0, <1>4, <2>3 DEF Shapes, Chdir, Go
    <3>2. options'[p].db_file = options[p].db_file
      <4>1. PICK words \in Argvs : options[p] = [Options(words) EXCEPT !.dir = options[p].dir]
        BY <1>0, <3>1 DEF Chosen
      <4>2. options'[p] = [options[p] EXCEPT !.dir = to]
        BY <1>0, <2>1 DEF Shapes
      <4> QED
        BY <4>1, <4>2 DEF Options
    <3>3. DbAtBoot(p)' = d
      BY <3>2 DEF DbAtBoot
    <3> QED
      BY <1>0, <3>1, <3>3 DEF Prepared, Found, WithDb
  <2> QED
    BY <2>2, <2>3
<1> QED
  <2>1. CASE Chdir(p)
    BY <1>1, <1>3, <1>4, <2>1 DEF Chdir
  <2>2. CASE ~Chdir(p)
    BY <1>1, <1>2, <1>3, <2>2 DEF Moves, Start, Kill, OpenDb, ListTables, ReadColumns, AddColumns,
       CreateTable, CloseDb, Select, LoadRows, Bind, StartPool
  <2> QED
    BY <2>1, <2>2
LEMMA InitIInv == Init => IInv
<1> SUFFICES ASSUME Init PROVE IInv
  OBVIOUS
<1>1. Shapes
  BY DEF Init, Shapes, Early, Ended, AllDirs
<1>2. \A p \in Procs : Chosen(p) /\ Prepared(p)
  BY DEF Init, Chosen, Prepared, WithDb, AtDb, Early, Late, Ended
<1> QED
  BY <1>1, <1>2 DEF IInv

LEMMA NextIInv == IInv /\ [Next]_vars => IInv'
<1>1. ASSUME IInv, NEW p \in Procs, Moves(p) PROVE IInv'
  <2>1. \A q \in Procs : Chosen(q)' /\ Prepared(q)'
    BY <1>1, OtherPrepared, OwnChosen, OwnPrepared
  <2> QED
    BY <1>1, <2>1, ShapesStep DEF IInv
<1>2. ASSUME IInv, UNCHANGED vars PROVE IInv'
  <2>1. Shapes'
    BY <1>2 DEF vars, IInv, Shapes
  <2>2. \A p \in Procs : Chosen(p)' /\ Prepared(p)'
    BY <1>2 DEF vars, IInv, Chosen, Prepared, KeepsDir, DbAtBoot
  <2> QED
    BY <2>1, <2>2 DEF IInv
<1> QED
  BY <1>1, <1>2 DEF Next, Moves

-----------------------------------------------------------------------------
\* The inductive invariant holds in every state.
THEOREM Invariance == Spec => []IInv
BY InitIInv, NextIInv, PTL DEF Spec

\* A server in its loop has a database its workers' statements can run on,
\* though init_db ignores every answer and other servers prepare the same file.
THEOREM ServesPrepared == Spec => []ServingIsPrepared
<1>1. IInv => ServingIsPrepared
  BY DEF IInv, Prepared, Found, WithDb, Late, ServingIsPrepared
<1> QED
  BY <1>1, Invariance, PTL

\* With absolute paths, or none, the options mean after the change of directory
\* what they meant before it.
THEOREM AbsolutePathsHold == Spec => []AbsoluteKeepsMeaning
<1>1. ASSUME IInv, NEW p \in Procs, pc[p] = "serving"
      PROVE  /\ IsAbsolute(options[p].dir) => KeepsDir(p)
             /\ IsAbsolute(options[p].db_file) \/ cwd[p] = StartDir => KeepsDb(p)
  <2>1. IsAbsolute(options[p].dir) => KeepsDir(p)
    BY <1>1 DEF IInv, Chosen, Late
  <2>2. IsAbsolute(options[p].db_file) \/ cwd[p] = StartDir => KeepsDb(p)
    BY AbsolutePath DEF KeepsDb, DbNow, DbAtBoot
  <2> QED
    BY <2>1, <2>2
<1>2. IInv => AbsoluteKeepsMeaning
  BY <1>1 DEF AbsoluteKeepsMeaning
<1> QED
  BY <1>2, Invariance, PTL

\* Without SQLITE_BUSY no start is refused for its database but for what the
\* file is: others at work on it between two statements are no reason.
THEOREM RefusedWithReason == Spec => RefusedForReason
<1> DEFINE Reason(p) ==
      \/ failed'[p]
      \/ Db(p) = Garbage
      \/ "ipaddr" \notin Db(p).cols
      \/ Db(p).nameless
<1>1. ASSUME IInv, NEW p \in Procs, Moves(p), pc[p] \in AtDb, pc'[p] = "refused"
      PROVE  Reason(p)
  <2>0. pc \in [Procs -> Early \cup Late] /\ DbNow(p) = DbAtBoot(p) /\ Prepared(p)
    BY <1>1, OneDb DEF IInv, Shapes, Early, Stages, AtDb
  <2>1. Select(p) \/ LoadRows(p)
    BY <1>1, <2>0 DEF Moves, Start, Exec, Kill, Parse, InitLoguru, AddFile, OpenDb, ListTables,
       ReadColumns, AddColumns, CreateTable, CloseDb, Chdir, Bind, StartPool, Go, Move, End, AtDb,
       Ended
  <2>2. CASE Select(p)
    <3>1. pc[p] = "select" /\ (failed'[p] \/ (~failed[p] /\ ~Selectable(Db(p))))
      BY <1>1, <2>0, <2>2 DEF IInv, Shapes, Select, MayBeBusy, Go
    <3>2. ~failed[p] => Db(p) = Garbage \/ (Db(p) \in Tables /\ "count" \in Db(p).cols)
      BY <2>0, <3>1 DEF Prepared, Found, WithDb, AtDb, Db
    <3>3. Db(p) \in Tables /\ "count" \in Db(p).cols /\ "ipaddr" \in Db(p).cols => Selectable(Db(p))
      BY DEF Selectable, Tables, Columns
    <3> QED
      BY <3>1, <3>2, <3>3
  <2>3. CASE LoadRows(p)
    BY <1>1, <2>0, <2>3 DEF LoadRows, MayBeBusy, Go
  <2> QED
    BY <2>1, <2>2, <2>3
<1>2. IInv /\ [Next]_vars =>
        [\A p \in Procs : pc[p] \in AtDb /\ pc'[p] = "refused" => Reason(p)]_vars
  <2>1. ASSUME IInv, NEW q \in Procs, Moves(q), NEW p \in Procs,
               pc[p] \in AtDb, pc'[p] = "refused"
        PROVE  Reason(p)
    <3>1. CASE p = q
      BY <1>1, <2>1, <3>1
    <3>2. CASE p # q
      BY <2>1, <3>2, OthersStay DEF AtDb
    <3> QED
      BY <3>1, <3>2
  <2> QED
    BY <2>1 DEF Next, Moves
<1> QED
  BY <1>2, Invariance, PTL DEF Spec, RefusedForReason

-----------------------------------------------------------------------------
(***************************************************************************)
(* The types.  What the options are worth hangs on the loops over the      *)
(* command line, of getopt and of parse: whatever the words, the size of   *)
(* the pool is a number an unsigned holds.                                 *)
(***************************************************************************)
GetOptTurns == INSTANCE LoopProofs WITH Turn <- GetOptWord

ParseTurns == INSTANCE LoopProofs WITH Turn <- ParseOption

\* What an option is made of.
Words == STRING \cup {Nothing, "?"}

\* getopt makes a sequence of options of any sequence of words.
LEMMA GetOptGivesOptions ==
  ASSUME NEW words \in Seq(STRING)
  PROVE  GetOpt(words).opts \in Seq(Words \X Words)
<1> DEFINE A == [opts : Seq(Words \X Words), front : Seq(Words), back : Seq(Words), wants : Words]
<1>1. \A acc \in A : \A w \in STRING : GetOptWord(acc, w) \in A
  <2> SUFFICES ASSUME NEW acc \in A, NEW w \in STRING PROVE GetOptWord(acc, w) \in A
    OBVIOUS
  <2>1. w \in Words /\ Nothing \in Words /\ acc.wants \in Words
    BY DEF Words
  <2>2. Append(acc.front, w) \in Seq(Words) /\ Append(acc.back, w) \in Seq(Words)
    BY <2>1
  <2>3. \A x, y \in Words : Append(acc.opts, <<x, y>>) \in Seq(Words \X Words)
    OBVIOUS
  <2> HIDE DEF Words
  <2> QED
    BY <2>1, <2>2, <2>3 DEF GetOptWord
<1>2. NothingGot \in A
  BY DEF NothingGot, Words
<1>3. Len(words) \in Nat /\ \A n \in 1 .. Len(words) : words[n] \in STRING
  OBVIOUS
<1>4. GetOptTurns!Result(NothingGot, words) \in A
  <2> HIDE DEF A
  <2> QED
    BY <1>1, <1>2, <1>3, GetOptTurns!TurnsKeep
<1>5. GetOptLoop!Result(NothingGot, words) \in A
  <2> HIDE DEF A
  <2> QED
    BY <1>4 DEF GetOptTurns!Result, GetOptTurns!Turns, GetOptLoop!Result, GetOptLoop!Turns
<1>6. Append(GetOptLoop!Result(NothingGot, words).opts, <<"?", Nothing>>) \in Seq(Words \X Words)
  <2>1. "?" \in Words /\ Nothing \in Words
    BY DEF Words
  <2>3. GetOptLoop!Result(NothingGot, words).opts \in Seq(Words \X Words)
    <3> HIDE DEF Words
    <3> QED
      BY <1>5
  <2>2. \A q \in Seq(Words \X Words) : \A x, y \in Words : Append(q, <<x, y>>) \in Seq(Words \X Words)
    OBVIOUS
  <2> HIDE DEF Words
  <2> QED
    BY <2>1, <2>2, <2>3
<1> QED
  BY <1>5, <1>6 DEF GetOpt

\* What parse has so far is a set of options, with a size that an unsigned holds.
Sized(acc) ==
  /\ acc = [options |-> acc.options, then |-> acc.then, unknown |-> acc.unknown]
  /\ LET o == acc.options IN
       o = [dir |-> o.dir, port |-> o.port, tpool_size |-> o.tpool_size,
            log_file |-> o.log_file, db_file |-> o.db_file]
  /\ acc.options.tpool_size \in 0 .. UintMax

LEMMA SizedStep ==
  ASSUME NEW acc, Sized(acc), NEW o
  PROVE  Sized(ParseOption(acc, o))
<1>1. \A x : Sized([acc EXCEPT !.then = x])
  BY DEF Sized
<1>2. \A x : Sized([acc EXCEPT !.unknown = x])
  BY DEF Sized
<1>3. \A x : Sized([acc EXCEPT !.options.dir = x])
  BY DEF Sized
<1>4. \A x : Sized([acc EXCEPT !.options.log_file = x])
  BY DEF Sized
<1>5. \A x : Sized([acc EXCEPT !.options.db_file = x])
  BY DEF Sized
<1>6. \A x : Sized([acc EXCEPT !.options.port = x])
  BY DEF Sized
<1>7. \A x \in 0 .. UintMax : Sized([acc EXCEPT !.options.tpool_size = x])
  BY DEF Sized
<1>8. o[2] \in DOMAIN Number => Number[o[2]] % (UintMax + 1) \in 0 .. UintMax
  <2>1. \A a \in Int : \A b \in Nat : a % (b + 1) \in 0 .. b
    OBVIOUS
  <2> QED
    BY <2>1, StartupAssumption
<1>9. CASE acc.then # "go"
  BY <1>9 DEF ParseOption
<1>10. CASE acc.then = "go" /\ o[1] = "-h"
  BY <1>1, <1>10 DEF ParseOption
<1>11. CASE acc.then = "go" /\ o[1] \in {"-p", "-t", "-T"} /\ o[2] \notin DOMAIN Number
  BY <1>1, <1>11 DEF ParseOption
<1>12. CASE acc.then = "go" /\ o[1] = "-d"
  BY <1>3, <1>12 DEF ParseOption
<1>13. CASE acc.then = "go" /\ o[1] = "-l"
  BY <1>4, <1>13 DEF ParseOption
<1>14. CASE acc.then = "go" /\ o[1] = "-D"
  BY <1>5, <1>14 DEF ParseOption
<1>15. CASE acc.then = "go" /\ o[1] = "-p" /\ o[2] \in DOMAIN Number
  BY <1>6, <1>15 DEF ParseOption
<1>16. CASE acc.then = "go" /\ o[1] = "-t" /\ o[2] \in DOMAIN Number
  BY <1>7, <1>8, <1>16 DEF ParseOption
<1>17. CASE \/ acc.then = "go" /\ o[1] \in {"-V", "-v", "-n"}
            \/ acc.then = "go" /\ o[1] = "-T" /\ o[2] \in DOMAIN Number
  BY <1>17 DEF ParseOption
<1>18. CASE acc.then = "go" /\ o[1] \notin {"-h", "-p", "-t", "-T", "-d", "-l", "-D", "-V", "-v", "-n"}
  BY <1>2, <1>18 DEF ParseOption
<1> QED
  BY <1>9, <1>10, <1>11, <1>12, <1>13, <1>14, <1>15, <1>16, <1>17, <1>18

\* parse leaves a size of the pool that an unsigned holds.
LEMMA ParsedSize ==
  ASSUME NEW opts, Len(opts) \in Nat
  PROVE  ParseLoop!Result(Defaults, opts).options.tpool_size \in 0 .. UintMax
<1> DEFINE S == {n \in 0 .. Len(opts) : Sized(ParseTurns!Turns(Defaults, opts)[n])}
<1>1. Sized(Defaults)
  BY StartupAssumption DEF Sized, ProgOptions, Defaults
<1>2. /\ ParseTurns!Turns(Defaults, opts)[0] = Defaults
      /\ \A n \in 1 .. Len(opts) :
           ParseTurns!Turns(Defaults, opts)[n] = ParseOption(ParseTurns!Turns(Defaults, opts)[n - 1], opts[n])
      /\ ParseTurns!Result(Defaults, opts) = ParseTurns!Turns(Defaults, opts)[Len(opts)]
  BY ParseTurns!TurnsFollow
<1>3. 0 \in S
  BY <1>1, <1>2
<1>4. ASSUME NEW n \in 1 .. Len(opts), n - 1 \in S PROVE n \in S
  BY <1>2, <1>4, SizedStep
<1>5. 0 .. Len(opts) \subseteq S
  <2> HIDE DEF S
  <2> QED
    BY <1>3, <1>4, ParseTurns!IndexInduction
<1>6. Sized(ParseTurns!Result(Defaults, opts))
  BY <1>2, <1>5
<1>7. ParseLoop!Result(Defaults, opts) = ParseTurns!Result(Defaults, opts)
  BY DEF ParseTurns!Result, ParseTurns!Turns, ParseLoop!Result, ParseLoop!Turns
<1> QED
  BY <1>6, <1>7 DEF Sized

LEMMA OptionTypes ==
  ASSUME NEW words \in Argvs
  PROVE  /\ DOMAIN Options(words) = DOMAIN ProgOptions
         /\ Options(words).tpool_size \in 0 .. UintMax
<1>1. Len(GetOpt(words).opts) \in Nat
  BY GetOptGivesOptions, StartupAssumption
<1>2. Understood[words].parsed = ParseLoop!Result(Defaults, GetOpt(words).opts)
  BY DEF Understood
<1>3. Options(words).tpool_size \in 0 .. UintMax
  BY <1>1, <1>2, ParsedSize DEF Options
<1> QED
  BY <1>3 DEF Options, ProgOptions

\* What a process has of its own.
Own(p) ==
  /\ DOMAIN options[p] = DOMAIN ProgOptions
  /\ options[p].tpool_size \in 0 .. UintMax
  /\ pc[p] = "serving" => options[p].tpool_size <= TPOOL_MAX_WORKERS
  /\ cwd[p] \in dirs

\* With the place a process is started in among the directories it is inductive.
TypeIInv ==
  /\ db_mutex \in [Procs -> BOOLEAN]
  /\ StartDir \in dirs
  /\ \A p \in Procs : Own(p)

LEMMA DirsGrow ==
  ASSUME NEW p \in Procs, Moves(p)
  PROVE  dirs \subseteq dirs'
BY DEF Moves, Start, Exec, Kill, Parse, InitLoguru, AddFile, OpenDb, ListTables, ReadColumns,
       AddColumns, CreateTable, CloseDb, Select, LoadRows, Chdir, Bind, StartPool, End

LEMMA OwnStep ==
  ASSUME IInv, TypeIInv, NEW p \in Procs, Moves(p)
  PROVE  Own(p)'
<1>0. /\ DOMAIN options = Procs /\ DOMAIN cwd = Procs /\ pc \in [Procs -> Early \cup Late]
      /\ Own(p) /\ StartDir \in dirs /\ dirs \subseteq dirs'
  BY DirsGrow DEF IInv, Shapes, TypeIInv
<1>1. ASSUME NEW how \in Ended, End(p, how) PROVE Own(p)'
  <2>1. options'[p] = ProgOptions /\ cwd'[p] = StartDir /\ pc'[p] # "serving"
    BY <1>0, <1>1 DEF End, Go, Ended
  <2>2. ProgOptions.tpool_size \in 0 .. UintMax
    BY StartupAssumption DEF ProgOptions
  <2> QED
    BY <1>0, <2>1, <2>2 DEF Own
<1>2. ASSUME UNCHANGED <<options, cwd>>, pc'[p] # "serving" PROVE Own(p)'
  BY <1>0, <1>2 DEF Own
<1>3. "down" \in Ended /\ "refused" \in Ended /\ "aborted" \in Ended /\ "helped" \in Ended
  BY DEF Ended
<1>4. CASE Exec(p) \/ Kill(p)
  BY <1>0, <1>1, <1>2, <1>3, <1>4 DEF Exec, Kill, Go
<1>5. CASE Parse(p)
  <2>1. CASE Go(p, "loguru") /\ options' = [options EXCEPT ![p] = Options(argv[p])] /\ UNCHANGED cwd
    <3>1. argv[p] \in Argvs
      BY <1>5 DEF IInv, Chosen, Parse
    <3>2. options'[p] = Options(argv[p]) /\ pc'[p] # "serving"
      BY <1>0, <2>1 DEF Go
    <3> QED
      BY <1>0, <2>1, <3>1, <3>2, OptionTypes DEF Own
  <2> QED
    BY <1>1, <1>3, <1>5, <2>1 DEF Parse
<1>6. CASE InitLoguru(p) \/ OpenDb(p) \/ Bind(p)
  BY <1>0, <1>1, <1>2, <1>3, <1>6 DEF InitLoguru, OpenDb, Bind, Go
<1>7. CASE Select(p) \/ LoadRows(p)
  BY <1>0, <1>1, <1>2, <1>3, <1>7 DEF Select, LoadRows, Go
<1>8. CASE AddFile(p) \/ ListTables(p) \/ ReadColumns(p) \/ AddColumns(p) \/ CreateTable(p) \/ CloseDb(p)
  BY <1>0, <1>2, <1>8 DEF AddFile, ListTables, ReadColumns, AddColumns, CreateTable, CloseDb, Move, Go
<1>9. CASE Chdir(p)
  <2>1. CASE Go(p, "bind") /\ options' = [options EXCEPT ![p].dir = <<"/">> \o cwd[p]]
             /\ UNCHANGED <<cwd, dirs>>
    <3>1. /\ options'[p] = [options[p] EXCEPT !.dir = <<"/">> \o cwd[p]]
          /\ pc'[p] # "serving" /\ cwd'[p] = cwd[p]
      BY <1>0, <2>1 DEF Go
    <3>2. "tpool_size" \in DOMAIN options[p]
      BY <1>0 DEF Own, ProgOptions
    <3> QED
      BY <1>0, <2>1, <3>1, <3>2 DEF Own
  <2>2. CASE /\ Resolve(cwd[p], options[p].dir) \in dirs /\ Go(p, "bind")
             /\ cwd' = [cwd EXCEPT ![p] = Resolve(cwd[p], options[p].dir)]
             /\ UNCHANGED <<options, dirs>>
    <3>1. pc'[p] # "serving" /\ cwd'[p] \in dirs
      BY <1>0, <2>2 DEF Go
    <3> QED
      BY <1>0, <2>2, <3>1 DEF Own
  <2> QED
    BY <1>1, <1>3, <1>9, <2>1, <2>2 DEF Chdir
<1>10. CASE StartPool(p)
  <2>1. CASE ~(options[p].tpool_size > TPOOL_MAX_WORKERS) /\ UNCHANGED <<options, cwd>>
    <3>1. options[p].tpool_size <= TPOOL_MAX_WORKERS
      BY <1>0, <2>1, StartupAssumption DEF Own
    <3> QED
      BY <1>0, <2>1, <3>1 DEF Own
  <2> QED
    BY <1>1, <1>3, <1>10, <2>1 DEF StartPool
<1> QED
  BY <1>4, <1>5, <1>6, <1>7, <1>8, <1>9, <1>10 DEF Moves, Start

LEMMA TypeStep ==
  ASSUME IInv, TypeIInv, NEW p \in Procs, Moves(p)
  PROVE  TypeIInv'
<1>1. db_mutex' \in [Procs -> BOOLEAN]
  BY DEF TypeIInv, Moves, Start, Exec, Kill, Parse, InitLoguru, AddFile, OpenDb, ListTables,
         ReadColumns, AddColumns, CreateTable, CloseDb, Select, LoadRows, Chdir, Bind, StartPool,
         End
<1>2. StartDir \in dirs'
  BY DirsGrow DEF TypeIInv
<1>3. ASSUME NEW q \in Procs PROVE Own(q)'
  <2>1. CASE q = p
    BY <2>1, OwnStep
  <2>2. CASE q # p
    BY <2>2, OthersStay, DirsGrow DEF TypeIInv, Own
  <2> QED
    BY <2>1, <2>2
<1> QED
  BY <1>1, <1>2, <1>3 DEF TypeIInv

\* Every variable keeps its type whatever the command lines: among them, that the
\* pool of a server has a size an unsigned holds and not too many workers, and
\* that its working directory is there.
THEOREM TypeCorrect == Spec => []TypeOK
<1>1. Init => TypeIInv
  <2> SUFFICES ASSUME Init PROVE TypeIInv
    OBVIOUS
  <2>1. ProgOptions.tpool_size \in 0 .. UintMax
    BY StartupAssumption DEF ProgOptions
  <2> QED
    BY <2>1, StartupAssumption DEF Init, TypeIInv, Own
<1>2. IInv /\ TypeIInv /\ [Next]_vars => TypeIInv'
  <2>1. ASSUME TypeIInv, UNCHANGED vars PROVE TypeIInv'
    BY <2>1 DEF vars, TypeIInv, Own
  <2> QED
    BY <2>1, TypeStep DEF Next, Moves
<1>3. IInv /\ TypeIInv => TypeOK
  BY DEF IInv, Shapes, Early, Late, Stages, TypeIInv, Own, TypeOK
<1> QED
  BY <1>1, <1>2, <1>3, Invariance, PTL DEF Spec
=============================================================================

------------------------------- MODULE Startup -------------------------------
(***************************************************************************)
(* The start of the server, from the command line to the accept loop:      *)
(* main.cpp, ProgOptions::parse (prog_options.cpp), init_loguru and        *)
(* init_db (init.cpp) with loguru::init and add_file, init_blacklist, the  *)
(* change of the working directory, and the constructors of TCPServer and  *)
(* TPool.  Several processes may be started beside each other, killed and  *)
(* started again with other options; they share the file system, and       *)
(* through it the database.                                                *)
(*                                                                         *)
(*   pc: "parse" -> "loguru" -> "addfile" -> "open" -> "tables"            *)
(*       -> "columns" -> "add" or "create" -> "close" -> "reopen"          *)
(*       -> "select" -> "rows" -> "reclose" -> "chdir" -> "bind" -> "pool" *)
(*       -> "serving"                                                      *)
(*                                                                         *)
(* and from any of them to an end: "helped" (exit (0)), "refused" (exit    *)
(* (1)), "aborted" (an exception no one catches, or loguru's CHECK), or    *)
(* "down" (never started, or killed).                                      *)
(*                                                                         *)
(* A path is the sequence of its names and slashes as it is written, where *)
(* it matters whether it begins or ends with one: <<"/", "srv", "/">>.  A  *)
(* place in the file system is the sequence of names from the root.        *)
(***************************************************************************)
EXTENDS Integers, SequencesExt

CONSTANTS Procs,          \* processes
          Argvs,          \* the command lines they are started with
          Path,           \* function: the path a word of them is
          Number,         \* function: the number a word is, where it is one
          VerbosityNames, \* the words get_verbosity_from_name knows
          StartDir,       \* the place every process is started in
          FirstDirs,      \* the places that are directories at first
          DbFiles,        \* the places where a database is or may be made
          NoTable,        \* such a file without the table stats, or no file yet
          Garbage,        \* a file that is no database
          Nothing,
          UintMax,        \* bound: the largest unsigned
          TPOOL_MAX_WORKERS

VARIABLES pc,
          argv,       \* the words of its command line, until loguru has had them
          options,    \* prog_options of each process
          cwd,        \* the working directory of each process
          db_mutex,   \* whether _db_mutex of each process is locked
          seen,       \* the columns it has read, in init_db
          dbs,        \* each database: NoTable, Garbage or its table stats
          dirs,       \* the places that are directories
          failed      \* history: a statement of this start has found the file busy

vars == <<pc, argv, options, cwd, db_mutex, seen, dbs, dirs, failed>>

\* _get_expected_db_schema.
Columns == {"ipaddr", "count"}

\* nameless: there is a row of which ipaddr is NULL or empty.
Tables == {t \in [cols : SUBSET Columns, nameless : BOOLEAN] :
             t.nameless => "ipaddr" \in t.cols}

-----------------------------------------------------------------------------
(***************************************************************************)
(* Paths.                                                                  *)
(***************************************************************************)
IsAbsolute(path) == path # <<>> /\ path[1] = "/"

Names(path) == SelectSeq(path, LAMBDA n : n \notin {"/", "."})

\* The place a path is, for a process in the directory at.
Resolve(at, path) == IF IsAbsolute(path) THEN Names(path) ELSE at \o Names(path)

Parent(place) == Front(place)

\* The directories create_directories makes, the shorter ones first: those of a
\* relative path are below the working directory.
Ancestors(at, path) ==
  {SubSeq(Resolve(at, path), 1, k) :
     k \in (IF IsAbsolute(path) THEN 1 ELSE Len(at) + 1) .. Len(Resolve(at, path)) - 1}

-----------------------------------------------------------------------------
(***************************************************************************)
(* The command line.                                                       *)
(***************************************************************************)
\* The option string of getopt: "d:p:Vht:vl:D:T:n:".
Valued == {"-d", "-p", "-t", "-l", "-D", "-T", "-n"}
Flags == {"-V", "-h", "-v"}

\* Options it does not have: the -b of the help text, and -v3, which is -v -3.
Unsupported == {"-b", "-v3"}

\* getopt, a word at a time: the options it returns, each with its argument, and
\* the words, of which those that are no option go to the back.
GetOptWord(acc, w) ==
  IF acc.wants # Nothing
    THEN [acc EXCEPT !.opts = Append(@, <<acc.wants, w>>),
                     !.front = Append(@, w), !.wants = Nothing]
  ELSE IF w \in Valued
    THEN [acc EXCEPT !.front = Append(@, w), !.wants = w]
  ELSE IF w \in Flags \cup Unsupported
    THEN [acc EXCEPT !.opts = Append(@, <<w, Nothing>>), !.front = Append(@, w)]
  ELSE [acc EXCEPT !.back = Append(@, w)]

NothingGot == [opts |-> <<>>, front |-> <<>>, back |-> <<>>, wants |-> Nothing]

GetOptLoop == INSTANCE Loop WITH Turn <- GetOptWord

\* getopt, run to its end, with the command line as it leaves it.
GetOpt(words) ==
  LET end == GetOptLoop!Result(NothingGot, words)
  IN  [opts |-> IF end.wants = Nothing THEN end.opts
                ELSE Append(end.opts, <<"?", Nothing>>),
       argv |-> end.front \o end.back]

ProgOptions ==
  [dir |-> <<".">>, port |-> 80, tpool_size |-> 5, log_file |-> <<>>, db_file |-> <<>>]

\* -d drops one / at the end.
DropSlash(path) == IF Last(path) = "/" THEN Front(path) ELSE path

\* A turn of the loop of parse.  -h leaves it, and the process, at once; stoi
\* throws for what is no number; an unknown option is held against the command
\* line when the loop is through.
ParseOption(acc, o) ==
  IF acc.then # "go" THEN acc
  ELSE IF o[1] \in {"-p", "-t", "-T"} /\ o[2] \notin DOMAIN Number
         THEN [acc EXCEPT !.then = "aborted"]
  ELSE CASE o[1] = "-h" -> [acc EXCEPT !.then = "helped"]
         [] o[1] = "-d" -> [acc EXCEPT !.options.dir = DropSlash(Path[o[2]])]
         [] o[1] = "-l" -> [acc EXCEPT !.options.log_file = Path[o[2]]]
         [] o[1] = "-D" -> [acc EXCEPT !.options.db_file = Path[o[2]]]
         [] o[1] = "-p" -> [acc EXCEPT !.options.port = Number[o[2]]]
         [] o[1] = "-t" -> [acc EXCEPT !.options.tpool_size = Number[o[2]] % (UintMax + 1)]
         [] o[1] \in {"-V", "-v", "-T", "-n"} -> acc
         [] OTHER -> [acc EXCEPT !.unknown = TRUE]

Defaults == [options |-> ProgOptions, then |-> "go", unknown |-> FALSE]

ParseLoop == INSTANCE Loop WITH Turn <- ParseOption

\* parse_args of loguru, over what getopt has left: the word after -v has to be
\* a verbosity, or a CHECK fails and aborts.
LoguruTakes(words) ==
  LET Turn(acc, w) ==
        IF acc = "value" THEN IF w \in VerbosityNames \cup DOMAIN Number THEN "ok" ELSE "bad"
        ELSE IF acc = "ok" /\ w = "-v" THEN "value"
        ELSE acc
  IN  FoldLeft(Turn, "ok", words) = "ok"

\* What each command line means to the one and to the other.
Understood ==
  [words \in Argvs |-> LET got == GetOpt(words)
                       IN  [parsed |-> ParseLoop!Result(Defaults, got.opts),
                            loguru |-> LoguruTakes(got.argv)]]

\* The options of a command line.  The defaults of log_file and db_file, which
\* init_loguru and init_db set, are set here.
Options(words) ==
  LET acc == Understood[words].parsed.options
  IN  [dir |-> acc.dir, port |-> acc.port, tpool_size |-> acc.tpool_size,
       log_file |-> IF acc.log_file = <<>> THEN <<"http-server.log">> ELSE acc.log_file,
       db_file |-> IF acc.db_file = <<>> THEN <<"http-server.db">> ELSE acc.db_file]

\* The directories there may ever be, for the logs make some.
AllDirs == FirstDirs \cup UNION {Ancestors(StartDir, Options(words).log_file) : words \in Argvs}

\* The place the database of a command line is at, from the place of the start.
DbOf(words) == Resolve(StartDir, Options(words).db_file)

\* A command line is a sequence of words, the numbers in it and the limit of
\* workers are numbers, and an unsigned holds the default of -t.  StartDir is a
\* place and a directory, and DbFiles has every place a database can be made at.
ASSUME StartupAssumption ==
  /\ \A words \in Argvs : words \in Seq(STRING)
  /\ \A w \in DOMAIN Number : Number[w] \in Int
  /\ TPOOL_MAX_WORKERS \in Nat
  /\ UintMax \in Nat /\ ProgOptions.tpool_size <= UintMax
  /\ StartDir \in FirstDirs
  /\ NoTable # Garbage /\ {NoTable, Garbage} \cap Tables = {}
  /\ Resolve(<<>>, <<"/">> \o StartDir) = StartDir
  /\ \A words \in Argvs : Parent(DbOf(words)) \in AllDirs => DbOf(words) \in DbFiles

-----------------------------------------------------------------------------
Ended == {"down", "helped", "refused", "aborted"}

\* The stages with the database open.
AtDb == {"tables", "columns", "add", "create", "close", "select", "rows", "reclose"}

Stages == {"parse", "loguru", "addfile", "open", "reopen", "chdir", "bind", "pool"} \cup AtDb

\* The file sqlite3_open would open now, and the one init_db and init_blacklist open.
DbNow(p) == Resolve(cwd[p], options[p].db_file)
DbAtBoot(p) == Resolve(StartDir, options[p].db_file)

Init ==
  /\ pc = [p \in Procs |-> "down"]
  /\ argv = [p \in Procs |-> <<>>]
  /\ options = [p \in Procs |-> ProgOptions]
  /\ cwd = [p \in Procs |-> StartDir]
  /\ db_mutex = [p \in Procs |-> FALSE]
  /\ seen = [p \in Procs |-> {}]
  /\ dbs \in [DbFiles -> Tables \cup {NoTable, Garbage}]
  /\ dirs = FirstDirs
  /\ failed = [p \in Procs |-> FALSE]

Go(p, to) == pc' = [pc EXCEPT ![p] = to]

Move(p, from, to) == pc[p] = from /\ Go(p, to)

\* The process ends: its memory is gone.
End(p, how) ==
  /\ Go(p, how)
  /\ argv' = [argv EXCEPT ![p] = <<>>]
  /\ options' = [options EXCEPT ![p] = ProgOptions]
  /\ cwd' = [cwd EXCEPT ![p] = StartDir]
  /\ db_mutex' = [db_mutex EXCEPT ![p] = FALSE]
  /\ seen' = [seen EXCEPT ![p] = {}]
  /\ UNCHANGED <<dbs, dirs>>

Exec(p) ==
  /\ pc[p] \in Ended
  /\ Go(p, "parse")
  /\ \E words \in Argvs : argv' = [argv EXCEPT ![p] = words]
  /\ failed' = [failed EXCEPT ![p] = FALSE]
  /\ UNCHANGED <<options, cwd, db_mutex, seen, dbs, dirs>>

Kill(p) == pc[p] \notin Ended /\ End(p, "down") /\ UNCHANGED failed

-----------------------------------------------------------------------------
(***************************************************************************)
(* The options and the log.                                                *)
(***************************************************************************)
\* parse.
Parse(p) ==
  /\ pc[p] = "parse"
  /\ LET acc == Understood[argv[p]].parsed IN
       \/ acc.then \in {"helped", "aborted"} /\ End(p, acc.then)
       \/ acc.then = "go" /\ acc.unknown /\ End(p, "refused")
       \/ /\ acc.then = "go" /\ ~acc.unknown
          /\ Go(p, "loguru")
          /\ options' = [options EXCEPT ![p] = Options(argv[p])]
          /\ UNCHANGED <<argv, cwd, db_mutex, seen, dbs, dirs>>
  /\ UNCHANGED failed

\* loguru::init.
InitLoguru(p) ==
  /\ pc[p] = "loguru"
  /\ IF ~Understood[argv[p]].loguru THEN End(p, "aborted")
     ELSE /\ Go(p, "addfile")
          /\ argv' = [argv EXCEPT ![p] = <<>>]
          /\ UNCHANGED <<options, cwd, db_mutex, seen, dbs, dirs>>
  /\ UNCHANGED failed

\* add_file: the directories of the log's path are made, the shorter ones first
\* and as far as mkdir succeeds.  Its answer is ignored, with or without a log.
AddFile(p) ==
  /\ Move(p, "addfile", "open")
  /\ LET made == Ancestors(cwd[p], options[p].log_file)
     IN  \E n \in 0 .. Len(Resolve(cwd[p], options[p].log_file)) :
           dirs' = dirs \cup {d \in made : Len(d) <= n}
  /\ UNCHANGED <<argv, options, cwd, db_mutex, seen, dbs, failed>>

-----------------------------------------------------------------------------
(***************************************************************************)
(* The database.  Another process that has it open may keep any statement  *)
(* from running (SQLITE_BUSY), and no timeout is set to wait for it.       *)
(***************************************************************************)
OtherAtDb(p) ==
  \E q \in Procs \ {p} : pc[q] \in AtDb \cup {"serving"} /\ DbNow(q) = DbNow(p)

\* A statement fails because the file is busy, or need not.
MayBeBusy(p, busy) ==
  /\ busy => OtherAtDb(p)
  /\ failed' = [failed EXCEPT ![p] = @ \/ busy]

Db(p) == dbs[DbNow(p)]

\* The constructor of db_handle, in init_db and in init_blacklist: _db_mutex,
\* which the thread must not have already, then sqlite3_open, which throws.
OpenDb(p) ==
  /\ pc[p] \in {"open", "reopen"}
  /\ ~db_mutex[p]
  /\ IF Parent(DbNow(p)) \notin dirs THEN End(p, "aborted")
     ELSE /\ Go(p, IF pc[p] = "open" THEN "tables" ELSE "select")
          /\ db_mutex' = [db_mutex EXCEPT ![p] = TRUE]
          /\ UNCHANGED <<argv, options, cwd, seen, dbs, dirs>>
  /\ UNCHANGED failed

\* CloseDb without the unlock of _db_mutex.
CloseDbLocked(p) ==
  /\ pc[p] \in {"close", "reclose"}
  /\ Go(p, IF pc[p] = "close" THEN "reopen" ELSE "chdir")
  /\ UNCHANGED <<argv, options, cwd, db_mutex, seen, dbs, dirs, failed>>

\* cleanup, by the destructor.
CloseDb(p) ==
  /\ pc[p] \in {"close", "reclose"}
  /\ Go(p, IF pc[p] = "close" THEN "reopen" ELSE "chdir")
  /\ db_mutex' = [db_mutex EXCEPT ![p] = FALSE]
  /\ UNCHANGED <<argv, options, cwd, seen, dbs, dirs, failed>>

\* _get_db_tables_list: any answer of step but SQLITE_ROW, an error too, ends
\* the list.
ListTables(p) ==
  /\ pc[p] = "tables"
  /\ \E busy \in BOOLEAN :
       /\ MayBeBusy(p, busy)
       /\ Go(p, IF ~busy /\ Db(p) \in Tables THEN "columns" ELSE "create")
  /\ UNCHANGED <<argv, options, cwd, db_mutex, seen, dbs, dirs>>

\* _get_cols_for_table, in the same way.
ReadColumns(p) ==
  /\ Move(p, "columns", "add")
  /\ \E busy \in BOOLEAN :
       /\ MayBeBusy(p, busy)
       /\ seen' = [seen EXCEPT ![p] = IF busy THEN {} ELSE Db(p).cols]
  /\ UNCHANGED <<argv, options, cwd, db_mutex, dbs, dirs>>

\* _add_column for each column that was not read.  The answers are ignored: that
\* of ipaddr is always an error, for SQLite adds no PRIMARY KEY to a table, and
\* that of a count that has come in the meantime is one too.
AddColumns(p) ==
  /\ Move(p, "add", "close")
  /\ \E busy \in BOOLEAN :
       /\ MayBeBusy(p, busy)
       /\ dbs' = IF "count" \notin seen[p] /\ ~busy
                   THEN [dbs EXCEPT ![DbNow(p)].cols = @ \cup {"count"}]
                   ELSE dbs
  /\ seen' = [seen EXCEPT ![p] = {}]
  /\ UNCHANGED <<argv, options, cwd, db_mutex, dirs>>

\* CreateTable of which the answer is looked at.
CreateTableChecked(p) ==
  /\ pc[p] = "create"
  /\ IF Db(p) = NoTable
       THEN /\ Go(p, "close")
            /\ dbs' = [dbs EXCEPT ![DbNow(p)] = [cols |-> Columns, nameless |-> FALSE]]
            /\ UNCHANGED <<argv, options, cwd, db_mutex, seen, dirs>>
       ELSE End(p, "refused")
  /\ UNCHANGED failed

\* _create_table, of which the answer is ignored as well: the table may have
\* come in the meantime.
CreateTable(p) ==
  /\ Move(p, "create", "close")
  /\ \E busy \in BOOLEAN :
       /\ MayBeBusy(p, busy)
       /\ dbs' = IF Db(p) = NoTable /\ ~busy
                   THEN [dbs EXCEPT ![DbNow(p)] = [cols |-> Columns, nameless |-> FALSE]]
                   ELSE dbs
  /\ UNCHANGED <<argv, options, cwd, db_mutex, seen, dirs>>

Selectable(t) == t \in Tables /\ t.cols = Columns

\* Select that goes on when prepare fails: step () then ends the loop.
SelectUnchecked(p) ==
  /\ Move(p, "select", IF Selectable(Db(p)) THEN "rows" ELSE "reclose")
  /\ UNCHANGED <<argv, options, cwd, db_mutex, seen, dbs, dirs, failed>>

\* _get_stats_from_db: if the SELECT cannot be prepared, exit (1).
Select(p) ==
  /\ pc[p] = "select"
  /\ \E busy \in BOOLEAN :
       /\ MayBeBusy(p, busy)
       /\ IF Selectable(Db(p)) /\ ~busy
            THEN Go(p, "rows") /\ UNCHANGED <<argv, options, cwd, db_mutex, seen, dbs, dirs>>
            ELSE End(p, "refused")

\* A row without a name is exit (1) too.  An error of step () is not: it ends
\* the loop like the last row.
LoadRows(p) ==
  /\ pc[p] = "rows"
  /\ \E busy \in BOOLEAN :
       /\ MayBeBusy(p, busy)
       /\ IF Db(p).nameless /\ ~busy
            THEN End(p, "refused")
            ELSE Go(p, "reclose") /\ UNCHANGED <<argv, options, cwd, db_mutex, seen, dbs, dirs>>

-----------------------------------------------------------------------------
(***************************************************************************)
(* The working directory, the socket and the pool.                         *)
(***************************************************************************)
\* Chdir that does not look at the error.
ChdirUnchecked(p) ==
  /\ Move(p, "chdir", "bind")
  /\ LET to == Resolve(cwd[p], options[p].dir) IN
       IF options[p].dir = <<".">>
         THEN options' = [options EXCEPT ![p].dir = <<"/">> \o cwd[p]] /\ UNCHANGED cwd
         ELSE /\ cwd' = [cwd EXCEPT ![p] = IF to \in dirs THEN to ELSE @]
              /\ UNCHANGED options
  /\ UNCHANGED <<argv, db_mutex, seen, dbs, dirs, failed>>

\* Without -d, dir becomes the working directory by its full path; with -d, the
\* directory is entered and dir stays as it was written.  The empty path, which
\* is what / has become, is no directory.
Chdir(p) ==
  /\ pc[p] = "chdir"
  /\ LET dir == options[p].dir
         to == Resolve(cwd[p], dir)
     IN  \/ /\ dir = <<".">>
            /\ Go(p, "bind")
            /\ options' = [options EXCEPT ![p].dir = <<"/">> \o cwd[p]]
            /\ UNCHANGED <<argv, cwd, db_mutex, seen, dbs, dirs>>
         \/ /\ dir \notin {<<".">>, <<>>} /\ to \in dirs
            /\ Go(p, "bind")
            /\ cwd' = [cwd EXCEPT ![p] = to]
            /\ UNCHANGED <<argv, options, db_mutex, seen, dbs, dirs>>
         \/ /\ dir = <<>> \/ to \notin dirs
            /\ End(p, "refused")
  /\ UNCHANGED failed

\* htons takes 16 bits of the port.
Port(p) == options[p].port % 65536

Listening(p) == pc[p] \in {"pool", "serving"}

\* The constructor of TCPServer: bind or listen fails and throws if the port is
\* taken.
Bind(p) ==
  /\ pc[p] = "bind"
  /\ IF \E q \in Procs : Listening(q) /\ Port(q) = Port(p)
       THEN End(p, "aborted")
       ELSE Go(p, "pool") /\ UNCHANGED <<argv, options, cwd, db_mutex, seen, dbs, dirs>>
  /\ UNCHANGED failed

\* StartPool without the test of the count.
StartPoolUntested(p) ==
  /\ Move(p, "pool", "serving")
  /\ UNCHANGED <<argv, options, cwd, db_mutex, seen, dbs, dirs, failed>>

\* The constructor of TPool throws if there are to be too many workers; none at
\* all is accepted.
StartPool(p) ==
  /\ pc[p] = "pool"
  /\ IF options[p].tpool_size > TPOOL_MAX_WORKERS
       THEN End(p, "aborted")
       ELSE Go(p, "serving") /\ UNCHANGED <<argv, options, cwd, db_mutex, seen, dbs, dirs>>
  /\ UNCHANGED failed

-----------------------------------------------------------------------------
Start(p) ==
  \/ Parse(p)
  \/ InitLoguru(p)
  \/ AddFile(p)
  \/ OpenDb(p)
  \/ ListTables(p)
  \/ ReadColumns(p)
  \/ AddColumns(p)
  \/ CreateTable(p)
  \/ CloseDb(p)
  \/ Select(p)
  \/ LoadRows(p)
  \/ Chdir(p)
  \/ Bind(p)
  \/ StartPool(p)

Next == \E p \in Procs : Exec(p) \/ Start(p) \/ Kill(p)

\* A process that runs takes its next step.
Spec == Init /\ [][Next]_vars /\ \A p \in Procs : WF_vars(Start(p))

-----------------------------------------------------------------------------
(***************************************************************************)
(* Properties.                                                             *)
(***************************************************************************)
\* Type invariant.  The pool of a server has the size the option says, as an
\* unsigned, and not too many workers.
TypeOK ==
  /\ pc \in [Procs -> Ended \cup Stages \cup {"serving"}]
  /\ argv \in [Procs -> Argvs \cup {<<>>}]
  /\ seen \in [Procs -> SUBSET Columns]
  /\ dbs \in [DbFiles -> Tables \cup {NoTable, Garbage}]
  /\ db_mutex \in [Procs -> BOOLEAN]
  /\ failed \in [Procs -> BOOLEAN]
  /\ \A p \in Procs :
       /\ DOMAIN options[p] = DOMAIN ProgOptions
       /\ options[p].tpool_size \in 0 .. UintMax
       /\ pc[p] = "serving" => options[p].tpool_size <= TPOOL_MAX_WORKERS
       /\ cwd[p] \in dirs

\* A server that has reached its loop has a database in which the statements of
\* its workers can run, though every answer of init_db's statements is ignored
\* (init.cpp:83 and 90) and other servers may prepare the same file.
ServingIsPrepared ==
  \A p \in Procs : pc[p] = "serving" => Selectable(dbs[DbAtBoot(p)])

\* No start is refused for its database because another one was at work on it
\* in between two statements: without SQLITE_BUSY, only a file that is no
\* database, a table without ipaddr and a row without a name are refused.
RefusedForReason ==
  [][\A p \in Procs :
       pc[p] \in AtDb /\ pc'[p] = "refused" =>
         \/ failed'[p]
         \/ Db(p) = Garbage
         \/ "ipaddr" \notin Db(p).cols
         \/ Db(p).nameless]_vars

\* The place a server looks resources up in (_cook_path) is the place it sends
\* them from, and its workers open the database it has prepared.
KeepsDir(p) == Resolve(cwd[p], options[p].dir) = cwd[p]
KeepsDb(p) == DbNow(p) = DbAtBoot(p)

\* With an absolute -d or none, and with an absolute -D or no -d, the options
\* mean after the change of directory what they meant before it.
AbsoluteKeepsMeaning ==
  \A p \in Procs : pc[p] = "serving" =>
    /\ IsAbsolute(options[p].dir) => KeepsDir(p)
    /\ IsAbsolute(options[p].db_file) \/ cwd[p] = StartDir => KeepsDb(p)

\* The same for every option: "Configurable working directory (using -d
\* option)" (README.md:13).
PathsKeepMeaning ==
  \A p \in Procs : pc[p] = "serving" => KeepsDir(p) /\ KeepsDb(p)

\* A process that is started comes to serve, or ends: it does not lock
\* _db_mutex twice, nor wait for another one.
StartEnds ==
  \A p \in Procs : pc[p] = "parse" ~> pc[p] \in Ended \cup {"serving"}

\* Every -v of the command line has a verbosity behind it.
VerboseWithLevel(words) ==
  \A i \in DOMAIN words : words[i] = "-v" =>
    i < Len(words) /\ words[i + 1] \in VerbosityNames \cup DOMAIN Number

\* "-v 3" is taken for the verbosity (loguru.hpp:467-474), and does not end the
\* start.
VerboseIsTaken ==
  [][\A p \in Procs :
       pc[p] = "loguru" /\ VerboseWithLevel(argv[p]) => pc'[p] # "aborted"]_vars

=============================================================================

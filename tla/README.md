# Verification of the HTTP file sharing server

TLA+ modules that model the server in `src/` (C++17, about 2,800 lines without
the vendored logging library loguru, of which they model the part the server
runs on), the TLC configurations that check them on small
instances, and proofs of theorems, for every size, about the thread pool, the
blacklist, a request, their composition, the start, the log, and what becomes of
texts, paths and sizes.
Paths below are relative to the repository, as in `src/app/server.cpp`; the
paths in PROJECT.json start with one more `src/`, the directory the repository
lies in. The program is modelled as its release build has it (`-DNDEBUG`,
Makefile): an `assert` is no step.

## The system

One process. The main thread parses the options, prepares an SQLite database,
loads the blacklist of it, changes to the served directory and accepts
connections for ever. Each connection goes to a pool of worker threads; a worker
reads one request, answers with a file, a directory page or an error, rates the
client's address, and closes the connection.

    client ─connect─> server_loop ──is_ipaddr_blacklisted──> blacklist ──> db (SQLite)
                          │ add_job                              ▲
                          ▼                                      │ update_ip_addr_stats
                        TPool ──get_job──> worker: _handle_connection
                       (Semaphore)           recv_req, process_request, send_http_rsp
                                                │ stat, directory_iterator, sendfile
                                                ▼
                                           file system

### Components

| component (code) | state | operations | hard about it | correct if |
|---|---|---|---|---|
| main (`main.cpp`), prog_options | `prog_options`, working directory | parse, then init_loguru, init_db, init_blacklist, chdir, server_loop | order of chdir and of what resolves paths; getopt and loguru both read the command line | every later lookup means the file that was meant at the start; a start ends in the loop or with an error |
| init (`init.cpp`, `db_defaults.cpp`) | the schema in SQLite | init_db: create the table, add columns | results ignored, databases of older versions, another server at the same file | the statements of the blacklist can run afterwards |
| blacklist (`blacklist.cpp`) | `_stats_list` under `_bl_rwlock`; table `stats` | init_blacklist, is_ipaddr_blacklisted, get_score_for_ipaddr, update_ip_addr_stats | two locks, memory before disk, process may end between any two steps | one durable score per address, each call at one instant |
| db (`db.cpp`) | a handle, `_db_mutex` | open (locks), prepare, bind, step, cleanup (unlocks) | throws in a worker when it cannot open | mutual exclusion, unlocked on every path |
| semaphore (`semaphore.cpp`) | `m_val`, `m_mutex`, `m_cv` | post, wait | lost and spurious wakeups, unsigned counter | nobody sleeps beside a permit; never below 0 |
| tpool (`tpool.cpp`) | `m_queue`, `m_queue_mutex`, `m_sem` | add_job, get_job, worker loop | permits and jobs are counted in two places; front and pop are not tested | FIFO, each job to one worker, once, none left |
| server (`server.cpp`) | the connection in the loop's hand | server_loop, _handle_connection | the blacklist is asked before the queue | no socket is shared or lost; a listed address is not served again |
| tcp (`tcp_server.cpp`, `tcp_connection.cpp`) | sockets, owned by `shared_ptr` | accept, recv, send of a buffer, send of a file, close | socket numbers are used again; short sends; the file changes during the send | one client per socket; what is sent is what was announced |
| http (`http.cpp`, `http_req.cpp`, `http_rsp.cpp`) | a request and a response, local to a worker | recv_req, parse, build_rsp, send_http_rsp | a request may come in pieces; errors told by -1 | the response answers the request |
| process_request, file, filesys, html_rsp | none of their own; read the file system | branch on method and resource, stat, list, make pages | the resource is looked up three times and may change in between | the status tells the truth; the request is rated once |
| loguru (vendored) | `s_callbacks` and `g_stderr_verbosity` under the recursive `s_mutex` | LOG_S, flush, the signal handler, on_atexit; init, add_file | a handler that locks and allocates wherever it interrupts; two sinks written one after the other; callbacks destroyed by exit | what LOG_S came back from is written, in one order; a signal ends the process |

Workers and main share `TPool`'s queue and semaphore, the blacklist's map and
the database, and `prog_options` (constant once main has reached the loop).
Everything else is local to one worker.

### What is hard here

- Interleavings in the pool and in the blacklist: five mutexes and locks, one
  condition variable, no test that reaches them.
- The process may end at any moment (killed, `exit (1)`, an exception in a
  worker, a crash) with the map and the database different, or a line in one
  sink of the log and not in the other.
- A signal's handler runs in the middle of a log call and logs itself.
- Servers that start on one database file at once, on files of every history,
  with the answers of the statements ignored.
- The client leaves, sends in pieces or is slow; recv has no timeout.
- Other processes change the served directory between check_if_file, stat,
  fopen and each sendfile.
- Sockets run out; their numbers are used again.

PROJECT.json lists each of these hazards at its line, with the property that
would catch it going wrong.

## Modules

| module | what it is |
|---|---|
| `Semaphore` | semaphore.cpp, one action per lock step |
| `TPool` | tpool.cpp on top of `Semaphore` (EXTENDS): add_job and get_job with their mutex |
| `JobQueue` | abstract: what the pool promises, a FIFO with Add, Take, Finish |
| `Blacklist` | blacklist.cpp on db.cpp, with main's boot and crashes |
| `Reputation` | abstract: what the blacklist promises, a durable score per address, linearizable |
| `Request` | one connection with a worker: server.cpp's handler, http.cpp, process_request.cpp, file.cpp, filesys.cpp, tcp_connection.cpp |
| `Server` | server_loop composed with `JobQueue` and `Reputation`: connections, sockets, the blacklist's check |
| `Startup` | from the command line to the accept loop: main.cpp, prog_options.cpp, init.cpp, db.cpp, parse_args and add_file of loguru, the load of the blacklist, the constructors of TCPServer and TPool; several processes on one file system |
| `Loguru` | the log while the server runs: LOG_S, its sinks, signals and exit |
| `HttpText` | the text of a request: recv's buffer, the lines recv_req cuts it into, parse; operators, no state |
| `Paths` | links, parents, names and sizes: html_rsp.cpp, filesys.cpp, file.cpp; operators, no state |
| `Loop` | a loop over a sequence, by what one turn of it does; `Startup`, `HttpText` and `Paths` have an instance for each loop of the code |
| `TPoolProofs`, `BlacklistProofs`, `ServerProofs`, `RequestProofs`, `StartupProofs`, `LoguruProofs` | theorems about the module of that name |
| `LoopProofs` | lemmas about every loop |
| `TextProofs` | theorems about `HttpText` and `Paths` |
| `MC…` | constants for TLC; `MCText` also has the variables that run through the inputs of `HttpText` and `Paths` |

`Server` uses the two abstract modules where the code uses the pool and the
blacklist, which is sound as far as `TPool` and `Blacklist` implement them (the
runs `tpool` and `blacklist`, and the theorem `Refinement` of either). `Request` is the
handler that `Server` has as three outcomes: rated good, rated bad, or the
client gone before it sent anything.

Definitions have the names of the code where they are its variables and
functions. Definitions commented as a variant ("Push that forgets m_sem.post")
are faulty versions of the action that follows them: each property of a run is
shown to fail when the action is replaced by the variant named in PROJECT.json.
They are not part of any specification.

### State and actions against the code

**Semaphore, TPool.** `m_val`, `m_mutex`, `m_queue`, `m_queue_mutex` are the
members. `semPc[t]` and `poolPc[t]` are where thread t is: the comment of each
module draws the order. A call is split wherever another thread may come in
between: at each lock, and between `front ()` and `pop ()`, which only the mutex
protects. `m_cv.wait` releases and sleeps in one step, as the standard says;
`SpuriousWakeup` wakes anyone at any time. A job is its connection, for
`fn_ptr` has one value. A connection object that is not in the pool may be added
again, so connections stand for any number of them.

**Blacklist.** `stats_list` is the map, `rows` the table on disk,
`bl_writer`, `bl_readers` and `db_mutex` the locks, `pc` the place of each
thread, `proc` the boot. `UpdateMap` is lines 76-92 up to the call, `OpenDb` the
constructor of db_handle, `Step` prepare, bind and step (SQLite commits a
statement whole or not at all), `CloseDb` the destructor. `GoDown` is every end
of the process. The lookup compares a score with the threshold by <, an update by >,
and `Reputation` has both as they are (`Listed`, `GoodForNow`). The loop of the load
takes an error of `step ()` for the end of the rows: `unread` has the rows it missed
(a history variable, which no action reads), and `Reputation` says what a caller sees
of that: until the process ends these addresses are new, and a request that would
rate one ends the process. There is one database file: that the boot and the workers may
mean different ones is `Startup`'s subject.

**Request.** `fs` is the resource the request names: prog_options.dir + uri
(check_if_file, get_file_listing) and the uri relative to the working directory
(get_file, fopen) are taken for one path, which `Startup` shows for an absolute
-d or none. The resource is what the decoded uri names, as check_if_file and get_file
look it up; get_file_listing decodes nothing, so for a `uri` with a `%20`
("encoded") it looks at something else, which may be anything (`Undecoded`), and for
one that makes the path too long ("long") it does not look at all. `Errnos` has
what errno may be by the time it is read. `file` is the open file, which shares the
changes of the resource while it is linked there. `SendHeader` is one turn of _send_wrapper's loop over a
header of `HeadSize` bytes, `SendFile` one of the sendfile loop. The count
send_http_rsp returns is only logged and left out. Pages, headers and names have no content: only the
status, whether there is a file, and `m_len` matter.

**Server.** `m_fd[c]` is the socket of a TCPConnection, `fds[f]` the connection
behind each open socket, `Held(c)` says that some shared_ptr to c is left (the
loop's local, a job in the queue, a worker's job). Whoever drops the last one
closes the socket (`Release`).

**Startup.** `pc[p]` is how far the process p has come; the comment of the module
draws the order. `argv` is the command line, of which getopt (`GetOpt`, with its
permutation) and loguru (`LoguruTakes`) each read their part, `options` is
prog_options, `dbs` the database files with the columns of their table, `dirs`
the directories. A path is a sequence of names and slashes, as written, and
`Resolve` says what it means to a process in a directory. One action is one
statement or call that another process can come in between; a statement finds the
file busy only while another process has it open (`MayBeBusy`), and the code then
does what it does with the answer, often nothing. `End` is exit, a return from
main or an uncaught exception; `Exec` starts a process that has ended again.

**Loguru.** `pc[t]` is where the thread t is on the way of a line. `lines[t]` is
what it is logging: the stack trace is a line inside a line, which is why s_mutex
is recursive. A signal puts the thread into the handler wherever it is
(`Interrupt`); what it was doing is never taken up again, and the locks it held
stay held. `libc` stands for the locks of the C library a line needs while it is
put together. `buffer` and `disk` are the log's FILE and the file. `Destroy` is
the destructor of the static `s_callbacks`, in exit () and without s_mutex:
whoever uses the vector after it may still find the callback, find nothing, or
fault (`Fault`).

**HttpText, Paths.** A text is a sequence of characters of a small alphabet; `"CR"`,
`"LF"`, `"NUL"`, `"SP"` (a space) and `"%20"` are one each. A loop of the code over
a string is an operator for one turn, on a record of the loop's variables
(`CutChar`, `ParseLine`, `NodeChar`, `Shift`), and an instance of `Loop` that takes
the turns one after another. Beside them stand reference definitions without a loop (`LinesAreTheText`,
`UpLeadsBack`, `LinkFetches`, `SizeIsRounded`), and the
properties of the run `text` say that they agree. `GetParentDir` keeps the code's
`unsigned` index, which a uri without a `/` takes below 0.

## Runs

| run | module | states | shows |
|---|---|---|---|
| `tpool` | MCTPool | 61,882 | `TypeOK`, `NoLostWakeup`, `TicketsMatchJobs`, `PopFindsJob`, `OneOwner`; `ImplementsJobQueue` (refinement with its fairness); `QueuedIsServed` |
| `blacklist` | MCBlacklist | 350,569 | under kills, failures of open and step, and loads that end early: `TypeOK`, `TableFollowsMap`, `StatementRuns`; `ImplementsReputation`; `RowsMoveByOne`; `UpdateReturns` |
| `blacklist_answer` | MCBlacklist | violation | an update answers "should now be blacklisted" for a score at the threshold, and the next lookup that it is not |
| `request` | MCRequest | 87,404 | `TypeOK`, `BodyWithinLength`, `BodyIsWhole`, `RatedOnceServed`, `NotFoundMeansMissing`, `OnlyWholeGetsServed`, `ClosesUnlessCut` |
| `request_shrunk` | MCRequest | violation | a file cut short during the send keeps its worker for ever |
| `request_encoded` | MCRequest | violation | a directory with a space in its name is listed, and answered 404 when its link is followed |
| `server` | MCServer | 69,465 | `TypeOK`, `SocketIsMine`, `ScoreFloor`, `ListedStays`, `EveryClientCloses` |
| `text` | MCText | 494,041 | `EveryLineComes`, `ParsedStands`: the lines are the request's, and what parse has read stays when more comes in; `UpFromEntry`, `EntryIsFetched`: links lead to what they name and back; `SizesAreRounded` |
| `startup` | MCStartup | 272,083 | `TypeOK`, `ServingIsPrepared`, `AbsoluteKeepsMeaning`, `RefusedForReason`, `StartEnds` |
| `startup_moved` | MCStartup | violation | -d with a relative directory: resources are looked up below it twice, and workers open another database than the one prepared |
| `startup_verbose` | MCStartup | violation | `-v 3` before another option aborts the start |
| `log` | MCLoguru | 1,061,399 | `TypeOK`, `SinksAgree`, `ReturnedIsWritten`; `SignalEnds` |

The five violations are disagreements between the code and its README and comments,
told in PROJECT.json under "findings". The passing runs beside them show what holds
all the same: `request` has the shrinking, unreadable, encoded and partial cases in
it and states what survives them (`NotFoundMeansMissing` but for directories whose
uri has a `%20`), `text` the links that do fetch, `blacklist` the two answers at the
threshold as the code gives them, `startup` the relative paths and -v. Disagreements
that no run is about are listed below, under "Not modelled".

### Bounds, and why they are enough

- `tpool`: three workers and four connections. Two workers asleep give
  notify_one a choice, a third is awake; more connections than workers make a
  queue. Symmetry is not used, because liveness is checked. Permits are bounded
  by connections. The theorems remove these bounds for the safety part.
- `blacklist`: main and two workers (two updates and a lookup are every pair of
  roles), two addresses (an update that touches another row), scores from -2 to
  2 around a threshold of -1, so that an address is above, at and below it.
  `MaxScore` is in the guard of `Served`: the code's scores are `int`s that it
  does not bound. Crashes are not bounded, and a load may end early for any set of
  rows.
- `request`: one connection, since handlers share no state but the file system
  and the blacklist. A file of up to `MaxSize` = 3 bytes needs up to three
  sendfiles; `MaxChanges` = 3 changes cover one in each of the windows between
  lookup, stat, fopen and send. Three kinds of uri are all that its lookups tell
  apart.
- `server`: four clients, three of one address; two workers; two sockets; a
  threshold of 0. An address falls below the threshold while another connection of
  it is in flight, and clients wait for a socket. No address has a score at the
  start, where the code has loaded those of earlier runs: `ScoreFloor` is about a
  database that was rated under the same threshold. With two sockets there are never
  more jobs than workers; what happens then is `tpool`'s subject.
- `text`: a buffer of seven characters and every request of up to eight, so that a
  request ends before, with and after the buffer, and has a first line, headers
  and a body. Every path of up to six
  characters, cut into a page's uri and a name in every way. A kilo is 4
  (`Kilo`); with three names of sizes and up to 300 bytes every unit, the powers of a
  kilo and the sizes beyond the last unit come up. Each operator treats all letters
  alike, so one letter stands for all.

- `startup`: two processes, since what one does to the file of another is one
  statement between two of its own; they may be killed and started again without
  bound, and with that the second stands for any number of earlier ones. The
  database begins absent, as garbage, or with any of the columns, with or without a
  row that has no name. The twelve command lines have each option once, in each
  way it matters: absolute and relative, with a slash at the end, directories and
  files that are there or not, or are made by the log's path (/new), numbers
  that are negative, too large for a port, zero or no numbers. `UintMax` = 255
  stands for 2^32 - 1: -t -1 is above the limit of workers with either.
- `log`: two threads with a line each and two signals. One thread can hold a lock
  the other's handler waits for, in either role, and a line can be in any of its
  stages when the handler's, the trace's or the exit's lines come. -v ERROR gives
  lines that one sink wants and the other does not. A third thread would wait where
  the second does.

`request*`, `server`, `text` and `log` say CHECK_DEADLOCK FALSE: in the first two
each client connects once and a connection ends, the inputs of `text` have a
largest length, and the process of `log` ends or its threads have no more lines,
so they stop. The others check deadlock.

### Fairness, and why the code justifies it

- `tpool`: weak fairness of each thread's own steps (threads are scheduled;
  `JobDone` says that handlers return), strong fairness of main's acquisition of
  the semaphore's mutex: workers woken spuriously for ever may otherwise take it
  in turn for ever. Nothing makes main accept, and nothing makes a spurious wakeup
  happen or stop. That handlers return is what `request` looks at.
- `blacklist`: weak fairness of each call's steps (a statement that cannot run ends
  the process, as its next step), strong fairness of the
  writer's lock: `std::shared_mutex` promises no order, but main holds its read
  lock only for a map lookup, and on glibc a rwlock does not stay with readers
  for ever. `UpdateReturns` rests on that. Kills and other failures are
  never required.
- `request`: the handler runs; a client sends something or leaves in the end.
  The code has no timeout (server.cpp:54 uses the default of 0), so a client
  that does neither keeps its worker: that is an assumption here, and not
  something the code provides. A client that neither reads nor leaves while it
  is sent to is excluded likewise.
- `startup`: a process that runs takes its next step. Nothing makes one start, be
  killed or find the database busy.
- `log`: a thread in a log call, in a handler or in exit takes its next step when
  it can. Lines are bounded, so weak fairness is enough for s_mutex. Nothing makes
  a thread log, a signal come or exit be called.
- `server`: main's loop runs, the pool keeps JobQueue's fairness, handlers
  return.

## Proofs

TLAPS checks the theorems for every value of the constants that the assumptions
allow. An assumption says what kind of value a constant is, that a value meant
as "none" is no real one, and of the bounds that they are numbers; TLC evaluates
each in the run of its module. What else an assumption says is told below.

Every invariant and every action property of the passing runs is a theorem, and
the refinements are as far as they are safety. None of them but a few is inductive
alone. Each module of proofs about a component with state defines `IInv`, the properties and what they lack, shows that the initial states have it
and every step keeps it (one lemma for each part of it), and has as `Invariance`
that it always holds; the theorems on invariants follow from it. TLC has checked
each `IInv` on the instance of the module's run too.

### The pool: `TPoolProofs`

For any finite set of workers (none included) and any set of connections, from
`SemaphoreAssumption` and `TPoolAssumption` (threads are main and the workers).

| theorem | states |
|---|---|
| `Invariance` | `SafeSpec => []IInv` |
| `TypeCorrect` | `TypeOK` |
| `WakeupsKept` | `NoLostWakeup` |
| `PermitsAreJobs` | `TicketsMatchJobs` |
| `PopIsSafe` | `PopFindsJob` |
| `ServedOnce` | `OneOwner` |
| `Refinement` | `SafeSpec => JQ!SafeSpec` |

`IInv` joins the properties and adds `Control`:
the places a thread can be in (`Places`), that m_queue_mutex is held exactly in
the places between its lock and unlock (`QueueOwner`), and that a thread has a job
exactly from where it gets it to where it drops it (`HasJob`); with `MutexOwner`,
the same of the semaphore's mutex. The argument is a count. Each step of the
semaphore moves one permit: from Main's post into `m_val`, from `m_val` to a
worker (`SemTickets`), while push and pop move one job (`TicketsStep`). So a
worker that holds a permit counts for one job that is there (`HolderFindsJob`),
and since it alone has the mutex, the job it copied is the one it pops
(`PopFindsJobStep`), from which follow that no job is taken twice (`OneOwnerStep`)
and that push and pop are Add and Take (`JobQueueStep`). That no wakeup is lost is
a count too: as long as somebody sleeps, `m_val` is at most the number of awake
threads in wait () (`NoLostWakeupStep`).

### The blacklist: `BlacklistProofs`

For any workers, any addresses and any threshold, with kills, failures and loads that
end early at any moment.

| theorem | states |
|---|---|
| `Invariance` | `SafeSpec => []IInv` |
| `TypeCorrect` | `TypeOK` |
| `RestartLosesOneRequest` | `TableFollowsMap` |
| `StatementsFit` | `StatementRuns` |
| `ScoresMoveByOne` | `RowsMoveByOne` |
| `Refinement` | `ImplementsReputation` |

`Control` has the two locks: who holds `_bl_rwlock` to write, to read, or
`_db_mutex`, by the places of the threads. `Finds` has that what a lookup found is
what the map says as long as it has the lock, and `MapAndTable` that an update
between its steps carries what is to become of its row: its statement is an INSERT
exactly if the row is not there or was missed by the load, its score the row's, as far
as the map knows of it (`Seen`), moved by its request. A row that was missed is there,
so an INSERT of it cannot run (`StepRates`).
From this an update that is not in the middle leaves map and row the same; and only
one is in the middle (`OneUpdate`).

`Refinement` maps a step at a time (`ReputationStep`). The score an address has, to
Reputation, is the row, which outlives a crash; a call is answered where its result
is fixed: a lookup where it reads the map (`LookSeen`: then the row is the same, or
the row of an update in the middle, which is answered only at its own step), an
update where SQLite commits (`StepSeen`); a crash forgets the calls in
progress (`CrashSeen`), and of a boot only what its load has missed is seen
(`BootSeen`).

### A request: `RequestProofs`

For any length of header, any sizes and number of changes, and whatever the client
and the other processes do at any moment.

| theorem | states |
|---|---|
| `Invariance` | `Spec => []IInv` |
| `TypeCorrect` | `TypeOK` |
| `NeverTooMuch` | `BodyWithinLength` |
| `NeverTooLittle` | `BodyIsWhole` |
| `RatedOnce` | `RatedOnceServed` |
| `AbsenceIsTrue` | `NotFoundMeansMissing` |
| `OnlyWholeGets` | `OnlyWholeGetsServed` |

`IInv` adds what each stage of the handler leaves set (`Answer`, `Sent`), when a
rating may be there (`Rating`), and the one fact about the others: a resource that
was there at every moment since recv is of the kind check_if_file saw (`Present`).
Without it `BodyIsWhole` does not follow, for the resource is looked up three times
before it is opened; nor does `NotFoundMeansMissing`, which needs that what comes to
be listed is no file, and, of a listing that fails with ENOENT, that the resource was
missing or the uri not decoded (`ListingFinds`).

### The server: `ServerProofs`

For any clients, workers, addresses, any threshold, and any finite number of
sockets.

| theorem | states |
|---|---|
| `Invariance` | `Spec => []IInv` |
| `TypeCorrect` | `TypeOK` |
| `SocketsAreOwned` | `SocketIsMine` |
| `ScoresHaveAFloor` | `ScoreFloor` |
| `BlacklistedForGood` | `ListedStays` |

`Holders` says who has a connection: it is once in the queue, with one worker, or
main's, as `JobQueue` promises (`AddEffect`, `TakeEffect`, `FinishEffect`).
`Sockets` says that a connection and its socket belong to each other exactly as
long as somebody has it. `ScoreFloor` is a count again: each connection let in
before the address was listed has a socket of its own (`OwnSockets`), and each
rating that lowers the score takes one out of flight (`InFlightStep`). The score
it counts from is `LowestLetIn`, the threshold, or 0 where that is lower, for an
address without a score is let in.

### The start: `StartupProofs`

For any number of processes, any command lines and databases, with starts and kills
in any order. `StartupAssumption` also says that `StartDir` is a directory at first
and, written with a / before it, is itself; that `DbFiles` has every place where a
database of the command lines can be made; and that an unsigned holds 5, the default
of -t.

| theorem | states |
|---|---|
| `Invariance` | `Spec => []IInv` |
| `TypeCorrect` | `TypeOK` |
| `ServesPrepared` | `ServingIsPrepared` |
| `AbsolutePathsHold` | `AbsoluteKeepsMeaning` |
| `RefusedWithReason` | `RefusedForReason` |

Between two statements of a start, other starts may work on its database. What
makes the stages' conclusions good all the same is that no step takes a table or a
column away (`Touch`, `Grows`): `Found` has what a stage may know of the
database, and `Survives` that no step of any process makes it untrue. A start that
has met SQLITE_BUSY knows less, and `Found` says what.

`TypeOK` bounds the size of the pool, which is what the loops of getopt and of
parse make of the command line: `GetOptGivesOptions` has what getopt returns for
any words, `SizedStep` that a turn of parse leaves the size a number an unsigned
holds, and the lemma on loops `TurnsKeep` that so does the whole loop (`ParsedSize`).

### The log: `LoguruProofs`

For any threads, lines, signals and verbosities.

| theorem | states |
|---|---|
| `Invariance` | `Spec => []IInv` |
| `TypeCorrect` | `TypeOK` |
| `WrittenBeforeReturn` | `ReturnedIsWritten` |
| `SinksInvariance` | `Spec => []SinksIInv` |
| `SinksInOrder` | `SinksAgree` |

The type invariant says that s_mutex has an owner exactly while its count is not 0.
That needs how lines are nested (`Nested`) and that a thread has locked the mutex
at least once for each line past the lock (`Holds`); more often if a signal came in
between. `Wrote` has what is written of a line at each stage.

`SinksAgree` takes two writes to break, and what it lacks is what a thread is in the
middle of. `SinksIInv` adds: which lines a thread can be in the middle of (`Mine`);
that no sink has a line that is still to come (`Fresh`, of the lines `ToCome`
lists), so that none comes twice; and that behind a line that is in stderr and not
yet in the file nothing comes in stderr but the lines of handlers (`Behind`), which
are never in the file (`FileSound`). `Behind` is where s_mutex is needed: who is
between the two writes has it, so others write only what needs no lock, the raw
lines of handlers. A line that an interrupt leaves in stderr alone is in no pair of
lines that both sinks have.

### Loops: `LoopProofs`

A theorem of induction takes a property as its parameter, which no installed prover
can instantiate. A set can take its place: `Induction` says that a set of numbers
that has 0 and every successor has them all, and follows from the least element of a
set that is not empty (`WellFoundedInduction`). What a proof wants of all turns
is then put as the set of the turns that have it. `TurnsFollow` says that each turn of a
`Loop` is what `Turn` makes of the one before (the recursive function is defined at
all, `TurnsExist`); `TurnsKeep` that what every turn keeps holds in the end;
`TurnsKeepOn` the same from some turn on; `TurnsAgree` and `TurnsAppend` that loops
over sequences with a common beginning are one so far, and that an element more is a
turn more.

### Texts, paths and sizes: `TextProofs`

For any characters, requests, buffers, paths and sizes of any length, any kilo
above 1 and any number of names of sizes.

| theorem | states |
|---|---|
| `TypeCorrect` | `Types`: requests and paths are made of their characters |
| `ReadStands` | `ParsedStands` |
| `LinesCome` | `EveryLineComes` |
| `LinksFetch` | `EntryIsFetched` |
| `LinksLeadUp` | `UpFromEntry` |
| `SizesRound` | `SizesAreRounded` |

The only invariant is the type; the argument is about the operators.
`ReadStands`: the lines cut of a request without its last character are the first
of those cut with it (`FrontLines`; the zeros behind it push one line at most, and
it is one that any character pushes), and a further line changes nothing that parse
has (`ParseLineStands`). `LinesCome`: of the characters cut so far none is lost, and
a line feed is the last of its line (`CutCharIsCut`, turn by turn). `LinksFetch`:
_parse_http_method reads a link with no space in it as its second word, whole
(`RequestedIsLink`). For a file, cleaning then undoes what made the name friendly,
if the path has no `%20` of its own; a directory is looked up as it comes, and is
found if making its name friendly changed nothing (`LinkLeads`). That a uri the
server has read never has a space in it is `UriHasNoSpace`.
`LinksLeadUp`: the last / of a page's link is the page's own (`ParentIsPage`), and
the links up, with what is left of the uri, are at each turn what the uri begins
with (`LastLinkLeads`). `SizesRound`: after n turns the quotient is the size divided
by the n-th power of a kilo (`ShiftStep`), and the loop ends because each turn takes
something away (`ShiftsEnd`).

The attempt at these proofs found CASE expressions of `HttpText` and `Startup` whose
arms overlapped. TLC takes the first arm that holds; TLA+ does not say which. The
arms are exclusive now, in the order TLC took them.

### Only model-checked

Liveness, which is beyond the prover: `QueuedIsServed`, `UpdateReturns`,
`ClosesUnlessCut`, `EveryClientCloses`, `StartEnds`, `SignalEnds`, and the fairness
of `ImplementsJobQueue` (`Refinement` is its safety). And that the code does what
the five violations say: a counterexample is a behaviour of the instance.

## Not modelled

- The text of log lines, pages and headers.
- Disagreements of the code with its own words that were met on the way and that no
  run is about:
  - A file that stat finds and fopen does not open is closed as NULL
    (tcp_connection.cpp:22), which crashes the process, where http.cpp:102 says
    "number of bytes sent if successful, else -1". `Request` has the crash as a step
    (`OpenFile`).
  - When the send of a file fails, `ret += -1` (http.cpp:121) returns the length of the
    header less one, which is neither the number of bytes sent nor -1, and the test
    for -1 behind it is not met. The count is only logged, and not modelled.
  - A listing that fails with anything but ENOENT (process_request.cpp:107) leaves the
    status HTTP_GEN_ERR, for which nothing is sent; a build with asserts aborts
    (http.cpp:112). `Request` has the response that is not sent.
  - A file with a `%20` of its own in its name is not fetched by its link: file.cpp:91
    makes a space of it. `EntryIsFetched` is stated without such names.
  - `-b` is in the help text (prog_options.cpp:118), in its comment (line 24) and in the
    cases, but not in the string given to getopt (line 31): it is refused as unknown.
    `Startup` has it refused.
- Of loguru, what the server does not use: scopes and indentation, error contexts,
  CHECK and ABORT (but the CHECK in parse_args), fatal handlers, syslog, suggested
  log paths, the removal of callbacks, `shutdown`, and the flush thread, which
  starts only if g_flush_interval_ms is not 0. In `Loguru`, malloc is locked by
  loguru alone: a signal that meets another part of the program in malloc is the
  same deadlock. A second exit while one is under way is left out.
- Transactions, `reset_stmt`, `get_name`/`set_name`, the poll branch of recv_req,
  the other constructor of Semaphore: nothing in the program calls them.
- The names of the statuses (http_status.cpp). `-T` and `-n` are read and have no
  effect in `Startup`; the threshold is a constant of `Blacklist` and `Server`.
- A pool of 0 workers (-t 0) is accepted and serves nobody. `Startup` has it as a
  state that is allowed; the liveness of `tpool` is about pools with workers.
- `int` overflow of a score: it takes 2^31 requests of an address.
- Two limits of the pages, where the properties of `text` stop. A
  uri without a `/` has no parent, and `_get_parent_dir` then reads before the
  string (`GetParentDir` says "out of bounds"); `UpFromEntry` is about the uris
  that pages lead to. Sizes of more than 1024 of the
  last unit are shown with that unit and a number too small for it.
- In `Request`, a resource that is not there is one whose lookup fails with ENOENT;
  a directory above it that may not be searched, or is a file, is left out.
- A signal of another number inside a signal's handler (sa_mask is empty): it logs
  its own lines and ends the process as the first does.
- SQLite's own behaviour beyond "a statement commits or fails", the C++ library's
  beyond the standard's promise.

## Plan

In this order, the most important behaviour first. All of it is done.

1. `Semaphore`, `TPool`, `JobQueue`: the pool and its promise.
2. `TPoolProofs`: its invariants and the safety part of the refinement.
3. `Blacklist`, `Reputation`: the scores in memory and on disk.
4. `Request`: a connection with a worker.
5. `Server`: the composition.
6. `HttpText`, `Paths`: the algorithms on texts and paths.
7. `Startup`: options, log, database and directory up to the loop.
8. `Loguru`: the log of several threads, signals and exit.
9. `BlacklistProofs`: its invariants, and that it implements `Reputation`.
10. `ServerProofs`, `RequestProofs`, `StartupProofs`, `LoguruProofs`: their
   invariants and action properties.
11. That the lines of the two sinks are in one order, said of pairs of lines
   (`SinksInOrder`).
12. `Loop`, `LoopProofs`: the loops of the code, and induction over their turns.
13. `TextProofs`, and the types of `Startup`: what the loops over requests, paths,
   sizes and command lines compute.

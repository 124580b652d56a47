------------------------------- MODULE Loguru -------------------------------
(***************************************************************************)
(* The log of the running server (loguru.cpp): the threads that log with   *)
(* LOG_S, the handler loguru::init installs for the signals that end the   *)
(* process, and the exit of the process that a worker may ask for.         *)
(*                                                                         *)
(* A line goes                                                             *)
(*                                                                         *)
(*   pc: "work" -> "format" -> "formatting" -> "lock" -> "stderr"          *)
(*       -> "file" -> "flush" -> "unlock" -> "work"                        *)
(*                                                                         *)
(* The handler of a signal goes "raw" -> "preflush" -> the way of a line   *)
(* of verbosity FATAL, with the line of the stack trace logged at "trace", *)
(* under the lock -> "lastflush" -> "default".  A thread that exits logs   *)
(* the line "atexit" and goes "lastflush" -> "destroy" -> "end".           *)
(*                                                                         *)
(* s_mutex may be locked again by the thread that holds it.  The locks of  *)
(* the C library (malloc's, localtime_r's), which a line needs while it is *)
(* put together, may not; they are one lock here, and loguru is their only *)
(* user.  A handler never gives control back to the code it interrupted:   *)
(* what that held stays held.                                              *)
(***************************************************************************)
EXTENDS Integers, SequencesExt

CONSTANTS Threads,
          Nobody,
          StderrVerbosities,  \* what -v may have set
          MaxLines,    \* bound: the lines a thread logs
          MaxSignals   \* bound: the signals that arrive

VARIABLES pc,
          lines,         \* the lines a thread is logging, the innermost first
          interrupted,   \* the thread runs the handler of a signal
          exiting,       \* the thread in exit (), or Nobody
          mutex,         \* s_mutex: its owner, and how often it is locked
          libc,          \* who holds the locks of the C library
          g_stderr_verbosity,
          callbacks,     \* s_callbacks: "none", the log "file", or "destroyed"
          stderr,        \* the lines written to it
          buffer,        \* the lines written to the log's FILE
          disk,          \* the lines of the log file
          logged,        \* the lines each thread has logged, or is logging
          returned,      \* history: the lines LOG_S has come back from
          signals        \* the signals that have arrived

ASSUME LoguruAssumption ==
  /\ Nobody \notin Threads
  /\ StderrVerbosities \subseteq Int
  /\ MaxLines \in Nat
  /\ MaxSignals \in Nat

sinks == <<stderr, buffer, disk>>
settings == <<g_stderr_verbosity, callbacks>>
vars == <<pc, lines, interrupted, exiting, mutex, libc, settings, sinks,
          logged, returned, signals>>

\* The verbosities.
OFF == -9
FATAL == -3
ERROR == -2
INFO == 0
MAX == 9

\* Loguru's own lines have n = 0: one of each verbosity is all a thread logs.
Line(t, n, verbosity) == [who |-> t, n |-> n, verbosity |-> verbosity]
Lines == [who : Threads, n : 0 .. MaxLines, verbosity : {OFF, FATAL, ERROR, INFO}]

\* write_to_stderr: what the handler writes before anything else.
CaughtSignal(t) == Line(t, 0, OFF)

\* s_max_out_verbosity, which on_callback_change keeps: init_loguru adds the
\* file with Verbosity_MAX.
s_max_out_verbosity == IF callbacks = "none" THEN OFF ELSE MAX

current_verbosity_cutoff ==
  IF g_stderr_verbosity > s_max_out_verbosity
  THEN g_stderr_verbosity ELSE s_max_out_verbosity

Unlocked == [owner |-> Nobody, depth |-> 0]

\* loguru::init is over; add_file may have failed.
Init ==
  /\ pc = [t \in Threads |-> "work"]
  /\ lines = [t \in Threads |-> <<>>]
  /\ interrupted = [t \in Threads |-> FALSE]
  /\ exiting = Nobody
  /\ mutex = Unlocked
  /\ libc = Nobody
  /\ g_stderr_verbosity \in StderrVerbosities
  /\ callbacks \in {"none", "file"}
  /\ stderr = <<>>
  /\ buffer = <<>>
  /\ disk = <<>>
  /\ logged = [t \in Threads |-> 0]
  /\ returned = {}
  /\ signals = 0

-----------------------------------------------------------------------------
At(t, from) == pc[t] = from
Go(t, to) == pc' = [pc EXCEPT ![t] = to]

MayLock(t) == mutex.owner \in {t, Nobody}

Flushed == disk' = disk \o buffer /\ buffer' = <<>>

up == \A t \in Threads : pc[t] # "down"

\* The process ends; what it has not flushed is lost.
Down ==
  /\ pc' = [t \in Threads |-> "down"]
  /\ lines' = [t \in Threads |-> <<>>]
  /\ interrupted' = [t \in Threads |-> FALSE]
  /\ mutex' = Unlocked
  /\ libc' = Nobody
  /\ exiting' = Nobody
  /\ buffer' = <<>>
  /\ UNCHANGED <<settings, stderr, logged, returned, signals>>

\* A signal is delivered to t, wherever it is.
Interrupt(t) ==
  /\ Go(t, "raw")
  /\ interrupted' = [interrupted EXCEPT ![t] = TRUE]
  /\ lines' = [lines EXCEPT ![t] = <<Line(t, 0, FATAL)>>]
  /\ UNCHANGED <<exiting, mutex, libc, settings, sinks, logged, returned>>

\* s_callbacks is used after its destruction: SIGSEGV, which is blocked in its own
\* handler and ends the process there.  In the handler of another signal, whose
\* sa_mask is empty, its handler would come first; it is taken to end there too.
Fault(t) ==
  /\ callbacks = "destroyed"
  /\ IF interrupted[t] THEN Down /\ UNCHANGED disk ELSE Interrupt(t) /\ UNCHANGED signals

-----------------------------------------------------------------------------
(***************************************************************************)
(* A line.                                                                 *)
(***************************************************************************)
\* LOG_S: a line that no sink wants is not put together.
LogCall(t) ==
  /\ At(t, "work")
  /\ logged[t] < MaxLines
  /\ logged' = [logged EXCEPT ![t] = @ + 1]
  /\ \E v \in {ERROR, INFO} :
       LET line == Line(t, logged'[t], v) IN
       IF v > current_verbosity_cutoff
       THEN returned' = returned \cup {line} /\ UNCHANGED <<pc, lines>>
       ELSE /\ Go(t, "format")
            /\ lines' = [lines EXCEPT ![t] = <<line>>]
            /\ UNCHANGED returned
  /\ UNCHANGED <<interrupted, exiting, mutex, libc, settings, sinks, signals>>

\* print_preamble (localtime_r) and vtextprintf (vasprintf) lock in the C
\* library, ...
Format(t) ==
  /\ At(t, "format")
  /\ libc = Nobody
  /\ libc' = t
  /\ Go(t, "formatting")
  /\ UNCHANGED <<lines, interrupted, exiting, mutex, settings, sinks,
                 logged, returned, signals>>

\* ... and unlock when they have done.
Formatted(t) ==
  /\ At(t, "formatting")
  /\ libc' = Nobody
  /\ Go(t, "lock")
  /\ UNCHANGED <<lines, interrupted, exiting, mutex, settings, sinks,
                 logged, returned, signals>>

\* LockLog with a mutex that is not recursive.
LockLogOnce(t) ==
  /\ At(t, "lock")
  /\ mutex.owner = Nobody
  /\ mutex' = [owner |-> t, depth |-> mutex.depth + 1]
  /\ Go(t, IF Head(lines[t]).verbosity = FATAL THEN "trace" ELSE "stderr")
  /\ UNCHANGED <<lines, interrupted, exiting, libc, settings, sinks, logged,
                 returned, signals>>

\* log_message without its lock.
LockLogNot(t) ==
  /\ At(t, "lock")
  /\ Go(t, IF Head(lines[t]).verbosity = FATAL THEN "trace" ELSE "stderr")
  /\ UNCHANGED <<lines, interrupted, exiting, mutex, libc, settings, sinks,
                 logged, returned, signals>>

\* log_message begins.
LockLog(t) ==
  /\ At(t, "lock")
  /\ MayLock(t)
  /\ mutex' = [owner |-> t, depth |-> mutex.depth + 1]
  /\ Go(t, IF Head(lines[t]).verbosity = FATAL THEN "trace" ELSE "stderr")
  /\ UNCHANGED <<lines, interrupted, exiting, libc, settings, sinks, logged,
                 returned, signals>>

\* A line of verbosity FATAL: the stack trace is collected (backtrace_symbols
\* and strings allocate) and logged first, with RAW_LOG_F, by a log_message
\* inside this one.
Trace(t) ==
  /\ At(t, "trace")
  /\ lines' = [lines EXCEPT ![t] = <<Line(t, 0, ERROR)>> \o @]
  /\ Go(t, "format")
  /\ UNCHANGED <<interrupted, exiting, mutex, libc, settings, sinks, logged,
                 returned, signals>>

ToStderr(t) ==
  /\ At(t, "stderr")
  /\ stderr' = IF Head(lines[t]).verbosity <= g_stderr_verbosity
                 THEN Append(stderr, Head(lines[t])) ELSE stderr
  /\ Go(t, "file")
  /\ UNCHANGED <<lines, interrupted, exiting, mutex, libc, settings, buffer,
                 disk, logged, returned, signals>>

\* The loop over s_callbacks, with file_log for the one there may be.  If it
\* has been destroyed, its memory may still hold the callback, or not.
ToFile(t) ==
  /\ At(t, "file")
  /\ \/ /\ callbacks \in {"file", "destroyed"}
        /\ buffer' = Append(buffer, Head(lines[t]))
        /\ Go(t, "flush")
        /\ UNCHANGED <<lines, interrupted, exiting, mutex, libc, settings,
                       stderr, disk, logged, returned, signals>>
     \/ /\ callbacks \in {"none", "destroyed"}
        /\ Go(t, "unlock")
        /\ UNCHANGED <<lines, interrupted, exiting, mutex, libc, settings,
                       sinks, logged, returned, signals>>
     \/ Fault(t)

\* Flush where g_flush_interval_ms is not 0.
FlushLater(t) ==
  /\ At(t, "flush")
  /\ Go(t, "unlock")
  /\ UNCHANGED <<lines, interrupted, exiting, mutex, libc, settings, sinks,
                 logged, returned, signals>>

\* g_flush_interval_ms is 0: file_log flushes.
Flush(t) ==
  /\ At(t, "flush")
  /\ Flushed
  /\ Go(t, "unlock")
  /\ UNCHANGED <<lines, interrupted, exiting, mutex, libc, settings, stderr,
                 logged, returned, signals>>

\* UnlockLog that gives the mutex up, however often it is locked.
UnlockLogAll(t) ==
  /\ At(t, "unlock")
  /\ mutex' = [owner |-> Nobody, depth |-> mutex.depth - 1]
  /\ IF Head(lines[t]).verbosity = FATAL /\ callbacks = "file"
       THEN Flushed ELSE UNCHANGED <<buffer, disk>>
  /\ lines' = [lines EXCEPT ![t] = Tail(@)]
  /\ returned' = returned \cup {Head(lines[t])}
  /\ Go(t, CASE Len(lines[t]) > 1 -> "stderr"
             [] Len(lines[t]) = 1 /\ (interrupted[t] \/ exiting = t) -> "lastflush"
             [] OTHER -> "work")
  /\ UNCHANGED <<interrupted, exiting, libc, settings, stderr, logged, signals>>

\* log_message ends, after a flush of all if the line was FATAL.
UnlockLog(t) ==
  /\ At(t, "unlock")
  /\ mutex' = [owner |-> IF mutex.depth = 1 THEN Nobody ELSE t,
               depth |-> mutex.depth - 1]
  /\ IF Head(lines[t]).verbosity = FATAL /\ callbacks = "file"
       THEN Flushed ELSE UNCHANGED <<buffer, disk>>
  /\ lines' = [lines EXCEPT ![t] = Tail(@)]
  /\ returned' = returned \cup {Head(lines[t])}
  /\ Go(t, CASE Len(lines[t]) > 1 -> "stderr"
             [] Len(lines[t]) = 1 /\ (interrupted[t] \/ exiting = t) -> "lastflush"
             [] OTHER -> "work")
  /\ UNCHANGED <<interrupted, exiting, libc, settings, stderr, logged, signals>>

-----------------------------------------------------------------------------
(***************************************************************************)
(* The handler of a signal, and exit ().                                   *)
(***************************************************************************)
\* A signal from outside, or one that t has raised itself.
Signal(t) ==
  /\ up
  /\ ~interrupted[t]
  /\ signals < MaxSignals
  /\ signals' = signals + 1
  /\ Interrupt(t)

\* signal_handler begins: "There are few things that are safe to do in a
\* signal handler, but writing to stderr is one of them."
Raw(t) ==
  /\ At(t, "raw")
  /\ stderr' = Append(stderr, CaughtSignal(t))
  /\ Go(t, "preflush")
  /\ UNCHANGED <<lines, interrupted, exiting, mutex, libc, settings, buffer,
                 disk, logged, returned, signals>>

\* flush (): in the handler before its line and after it, and in on_atexit.
FlushAll(t) ==
  /\ pc[t] \in {"preflush", "lastflush"}
  /\ MayLock(t)
  /\ \/ /\ Go(t, CASE pc[t] = "preflush" -> "format"
                   [] pc[t] = "lastflush" /\ interrupted[t] -> "default"
                   [] OTHER -> "destroy")
        /\ Flushed \/ (callbacks = "destroyed" /\ UNCHANGED <<buffer, disk>>)
        /\ UNCHANGED <<lines, interrupted, exiting, mutex, libc, settings,
                       stderr, logged, returned, signals>>
     \/ Fault(t)

\* call_default_signal_handler.
Default(t) == At(t, "default") /\ Down /\ UNCHANGED disk

\* exit (): on_atexit logs its line, if a sink wants it.  A second exit in the
\* meantime is not modelled.
Exit(t) ==
  /\ At(t, "work")
  /\ exiting = Nobody
  /\ exiting' = t
  /\ IF INFO > current_verbosity_cutoff
       THEN Go(t, "lastflush") /\ UNCHANGED lines
       ELSE Go(t, "format") /\ lines' = [lines EXCEPT ![t] = <<Line(t, 0, INFO)>>]
  /\ UNCHANGED <<interrupted, mutex, libc, settings, sinks, logged, returned, signals>>

\* The static s_callbacks is destroyed, whoever holds s_mutex.
Destroy(t) ==
  /\ At(t, "destroy")
  /\ callbacks' = IF callbacks = "file" THEN "destroyed" ELSE callbacks
  /\ Go(t, "end")
  /\ UNCHANGED <<lines, interrupted, exiting, mutex, libc, g_stderr_verbosity,
                 sinks, logged, returned, signals>>

\* exit () flushes every FILE and ends the process.
End(t) ==
  /\ At(t, "end")
  /\ Flushed
  /\ Down

\* SIGKILL.
Kill == up /\ Down /\ UNCHANGED disk

-----------------------------------------------------------------------------
\* What a thread does once it has begun to log, was interrupted or exits.
Step(t) ==
  \/ Format(t) \/ Formatted(t) \/ LockLog(t) \/ Trace(t) \/ ToStderr(t)
  \/ ToFile(t) \/ Flush(t) \/ UnlockLog(t)
  \/ Raw(t) \/ FlushAll(t) \/ Default(t)
  \/ Destroy(t) \/ End(t)

Next ==
  \/ \E t \in Threads : LogCall(t) \/ Step(t) \/ Signal(t) \/ Exit(t)
  \/ Kill

\* A thread that can take a step takes one.
Spec == Init /\ [][Next]_vars /\ \A t \in Threads : WF_vars(Step(t))

-----------------------------------------------------------------------------
(***************************************************************************)
(* Properties.                                                             *)
(***************************************************************************)
\* Type invariant.  The mutex has an owner exactly while it is locked.
TypeOK ==
  /\ \A t \in Threads : \A i \in DOMAIN lines[t] : lines[t][i] \in Lines
  /\ mutex.owner \in Threads \cup {Nobody}
  /\ mutex.owner = Nobody <=> mutex.depth = 0
  /\ libc \in Threads \cup {Nobody}
  /\ callbacks \in {"none", "file", "destroyed"}
  /\ returned \subseteq Lines
  /\ signals \in 0 .. MaxSignals

\* The lines of the log file, those it has not flushed to the disk among them.
file == disk \o buffer

\* stderr and the log file, to which log_message writes one after the other,
\* have the lines they share in the same order, and each of them once, whatever
\* threads log, are interrupted in the middle of a line, or go on while another
\* one exits.
SinksAgree ==
  \A i, j \in DOMAIN stderr : \A k, l \in DOMAIN file :
    stderr[i] = file[k] /\ stderr[j] = file[l] => (i < j <=> k < l)

\* A line is in every sink that wants it when LOG_S comes back, on the disk if
\* that is the log file, and stays there however the process ends: until exit
\* () destroys the callbacks.
ReturnedIsWritten ==
  \A line \in returned :
    /\ line.verbosity <= g_stderr_verbosity => Contains(stderr, line)
    /\ callbacks = "file" => Contains(disk, line)

\* The handler "can for example lead to deadlocks if the signal was triggered
\* from the system's memory management functions" (loguru.cpp:1896): a thread
\* that was interrupted there holds the locks of the C library for ever.
LibcInterrupted == \E t \in Threads : libc = t /\ interrupted[t]

\* A signal ends the process, through the locks the interrupted thread holds
\* or waits for; the one exception is the deadlock loguru warns of, and even
\* then stderr shows the signal.
SignalEnds ==
  \A t \in Threads :
    interrupted[t] ~> \/ ~up
                      \/ LibcInterrupted /\ Contains(stderr, CaughtSignal(t))
=============================================================================

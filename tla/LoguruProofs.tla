---------------------------- MODULE LoguruProofs ----------------------------
(***************************************************************************)
(* Proofs about the log, for any number of threads, lines and signals, and *)
(* any verbosity: the mutex and the nesting of lines that log lines, that  *)
(* a line is written before LOG_S comes back, and the order of the sinks.  *)
(*                                                                         *)
(* The mutex is released by a count.  That the count is right needs how    *)
(* many lines the thread is in the middle of (Nested) and that it has      *)
(* locked the mutex as often at least (Holds); less often it may not be,   *)
(* more often it is when a signal came in the middle of a line.            *)
(***************************************************************************)
EXTENDS Loguru, TLAPS

\* In the middle of a line, and of the part of it that s_mutex guards.
Logging == {"format", "formatting", "lock", "trace", "stderr", "file", "flush", "unlock"}
Locked == {"trace", "stderr", "file", "flush", "unlock"}

\* The places of a thread, and what the other variables are.
Shapes ==
  /\ pc \in [Threads -> Logging \cup {"work", "raw", "preflush", "lastflush", "default",
                                      "destroy", "end", "down"}]
  /\ lines \in [Threads -> Seq(Lines)]
  /\ interrupted \in [Threads -> BOOLEAN]
  /\ exiting \in Threads \cup {Nobody}
  /\ mutex \in [owner : Threads \cup {Nobody}, depth : Nat]
  /\ g_stderr_verbosity \in Int
  /\ stderr \in Seq(Lines)
  /\ buffer \in Seq(Lines)
  /\ disk \in Seq(Lines)
  /\ logged \in [Threads -> 0 .. MaxLines]

\* A thread logs one line, or a stack trace within a line of verbosity FATAL.
Nested(t) ==
  /\ pc[t] \in {"raw", "preflush"} => Len(lines[t]) = 1
  /\ pc[t] \in Logging =>
       \/ Len(lines[t]) = 1
       \/ Len(lines[t]) = 2 /\ lines[t][1].verbosity # FATAL /\ pc[t] # "trace"

\* It has locked s_mutex for each of its lines that is past the lock.
Holds(t) ==
  /\ pc[t] \in Locked => mutex.owner = t /\ mutex.depth >= Len(lines[t])
  /\ pc[t] \in Logging /\ Len(lines[t]) = 2 => mutex.owner = t /\ mutex.depth >= 1

\* What it has written of its line so far.
Wrote(t) ==
  /\ pc[t] \in {"file", "flush", "unlock"} /\ lines[t][1].verbosity <= g_stderr_verbosity =>
       Contains(stderr, lines[t][1])
  /\ pc[t] = "flush" => Contains(disk, lines[t][1]) \/ Contains(buffer, lines[t][1])
  /\ pc[t] = "unlock" /\ callbacks = "file" => Contains(disk, lines[t][1])

\* The inductive invariant.
IInv ==
  /\ TypeOK
  /\ Shapes
  /\ \A t \in Threads : Nested(t) /\ Holds(t) /\ Wrote(t)
  /\ ReturnedIsWritten

-----------------------------------------------------------------------------
(***************************************************************************)
(* The sinks.                                                              *)
(***************************************************************************)
\* What is in a sink is there still when a line, or another sink, comes behind.
LEMMA AppendKeeps ==
  ASSUME NEW s \in Seq(Lines), NEW x \in Lines
  PROVE  /\ Append(s, x) \in Seq(Lines)
         /\ Contains(Append(s, x), x)
         /\ \A y : Contains(s, y) => Contains(Append(s, x), y)
BY DEF Contains

LEMMA ConcatKeeps ==
  ASSUME NEW s \in Seq(Lines), NEW u \in Seq(Lines)
  PROVE  /\ s \o u \in Seq(Lines)
         /\ \A y : Contains(s, y) \/ Contains(u, y) => Contains(s \o u, y)
<1>1. s \o u \in Seq(Lines) /\ Len(s \o u) = Len(s) + Len(u) /\ Len(s) \in Nat /\ Len(u) \in Nat
  OBVIOUS
<1>2. ASSUME NEW y, NEW i \in 1 .. Len(s), s[i] = y PROVE Contains(s \o u, y)
  <2>1. (s \o u)[i] = s[i] /\ i \in 1 .. Len(s \o u)
    OBVIOUS
  <2> QED
    BY <1>2, <2>1 DEF Contains
<1>3. ASSUME NEW y, NEW i \in 1 .. Len(u), u[i] = y PROVE Contains(s \o u, y)
  <2>1. (s \o u)[Len(s) + i] = u[i]
    OBVIOUS
  <2>2. Len(s) + i \in 1 .. Len(s \o u)
    BY <1>1
  <2> QED
    BY <1>3, <2>1, <2>2 DEF Contains
<1> QED
  BY <1>1, <1>2, <1>3 DEF Contains

\* Loguru's own lines are lines.
LEMMA OwnLines ==
  \A t \in Threads : \A v \in {OFF, FATAL, ERROR, INFO} :
    /\ \A n \in 0 .. MaxLines : Line(t, n, v) \in Lines
    /\ Line(t, 0, v) \in Lines
BY LoguruAssumption DEF Line, Lines

\* The verbosities are numbers, the four of the lines below MAX.
LEMMA Numbers ==
  /\ OFF = -9 /\ FATAL = -3 /\ ERROR = -2 /\ INFO = 0 /\ MAX = 9
  /\ \A line \in Lines : line.verbosity \in Int /\ line.verbosity < MAX
BY DEF Lines, OFF, FATAL, ERROR, INFO, MAX

LEMMA InitIInv == Init => IInv
<1> SUFFICES ASSUME Init PROVE IInv
  OBVIOUS
<1> USE LoguruAssumption
<1>1. TypeOK
  BY DEF Init, TypeOK, Unlocked
<1>2. Shapes
  BY DEF Init, Shapes, Unlocked, Logging
<1>3. \A t \in Threads : Nested(t) /\ Holds(t) /\ Wrote(t)
  BY DEF Init, Nested, Holds, Wrote, Logging, Locked
<1>4. ReturnedIsWritten
  BY DEF Init, ReturnedIsWritten
<1> QED
  BY <1>1, <1>2, <1>3, <1>4 DEF IInv

-----------------------------------------------------------------------------
(***************************************************************************)
(* The ends of the process, and the signals.                               *)
(***************************************************************************)
\* A process that has ended holds nothing, and what was on the disk is there.
LEMMA DownStep ==
  ASSUME IInv, Down, disk' = disk \/ disk' = disk \o buffer
  PROVE  IInv'
<1> USE LoguruAssumption
<1>1. TypeOK'
  BY DEF IInv, Shapes, TypeOK, Down, Unlocked, settings
<1>2. disk' \in Seq(Lines) /\ \A y : Contains(disk, y) => Contains(disk', y)
  <2>1. disk \in Seq(Lines) /\ buffer \in Seq(Lines)
    BY DEF IInv, Shapes
  <2>2. CASE disk' = disk
    BY <2>1, <2>2
  <2>3. CASE disk' = disk \o buffer
    BY <2>1, <2>3, ConcatKeeps
  <2> QED
    BY <2>2, <2>3
<1>3. Shapes'
  BY <1>2 DEF IInv, Shapes, TypeOK, Down, Unlocked, settings
<1>4. \A t \in Threads : Nested(t)' /\ Holds(t)' /\ Wrote(t)'
  BY DEF Down, Nested, Holds, Wrote, Logging, Locked
<1>5. ReturnedIsWritten'
  BY <1>2 DEF IInv, ReturnedIsWritten, Down, settings
<1> QED
  BY <1>1, <1>3, <1>4, <1>5 DEF IInv

\* A thread that is interrupted keeps the locks it holds, and no line it was in
\* the middle of.
LEMMA InterruptStep ==
  ASSUME IInv, NEW t \in Threads, Interrupt(t), signals' \in 0 .. MaxSignals
  PROVE  IInv'
<1> USE LoguruAssumption
<1>1. lines' = [lines EXCEPT ![t] = <<Line(t, 0, FATAL)>>] /\ lines' \in [Threads -> Seq(Lines)]
  BY OwnLines DEF IInv, Shapes, Interrupt
<1>2. Shapes'
  BY <1>1 DEF IInv, Shapes, Interrupt, Go, settings, sinks
<1>3. TypeOK'
  BY <1>1, <1>2 DEF IInv, Shapes, TypeOK, Interrupt, settings, sinks
<1>4. \A u \in Threads : Nested(u)' /\ Holds(u)' /\ Wrote(u)'
  BY DEF IInv, Shapes, Interrupt, Go, Nested, Holds, Wrote, Logging, Locked, settings, sinks
<1>5. ReturnedIsWritten'
  BY DEF IInv, ReturnedIsWritten, Interrupt, settings, sinks
<1> QED
  BY <1>2, <1>3, <1>4, <1>5 DEF IInv

\* A thread the memory of s_callbacks is gone for is interrupted, or it is the
\* end.
LEMMA FaultStep ==
  ASSUME IInv, NEW t \in Threads, Fault(t)
  PROVE  IInv'
<1>1. CASE Down /\ UNCHANGED disk
  BY <1>1, DownStep
<1>2. CASE Interrupt(t) /\ UNCHANGED signals
  BY <1>2, InterruptStep DEF IInv, TypeOK
<1> QED
  BY <1>1, <1>2 DEF Fault

-----------------------------------------------------------------------------
(***************************************************************************)
(* The steps that leave the process as it is, but for one thread.          *)
(***************************************************************************)
\* The first part of ToFile and of FlushAll, where s_callbacks can be used.
ToFileSound(t) ==
  /\ At(t, "file")
  /\ \/ /\ callbacks \in {"file", "destroyed"}
        /\ buffer' = Append(buffer, Head(lines[t]))
        /\ Go(t, "flush")
        /\ UNCHANGED disk
     \/ /\ callbacks \in {"none", "destroyed"}
        /\ Go(t, "unlock")
        /\ UNCHANGED <<buffer, disk>>
  /\ UNCHANGED <<lines, interrupted, exiting, mutex, libc, settings, stderr,
                 logged, returned, signals>>

FlushAllSound(t) ==
  /\ pc[t] \in {"preflush", "lastflush"}
  /\ Go(t, CASE pc[t] = "preflush" -> "format"
             [] pc[t] = "lastflush" /\ interrupted[t] -> "default"
             [] OTHER -> "destroy")
  /\ Flushed \/ (callbacks = "destroyed" /\ UNCHANGED <<buffer, disk>>)
  /\ UNCHANGED <<lines, interrupted, exiting, mutex, libc, settings,
                 stderr, logged, returned, signals>>

Sound(t) ==
  \/ LogCall(t) \/ Format(t) \/ Formatted(t) \/ LockLog(t) \/ Trace(t) \/ ToStderr(t)
  \/ ToFileSound(t) \/ Flush(t) \/ UnlockLog(t) \/ Raw(t) \/ FlushAllSound(t)
  \/ Destroy(t) \/ Exit(t)

\* A thread that logs has a line to log.
LEMMA HeadIsLine ==
  ASSUME IInv, NEW t \in Threads, pc[t] \in Logging
  PROVE  /\ Head(lines[t]) = lines[t][1] /\ Head(lines[t]) \in Lines
         /\ Len(lines[t]) \in {1, 2}
         /\ Tail(lines[t]) \in Seq(Lines) /\ Len(Tail(lines[t])) = Len(lines[t]) - 1
<1>1. lines[t] \in Seq(Lines) /\ Len(lines[t]) \in {1, 2}
  BY DEF IInv, Shapes, Nested
<1>2. \A s \in Seq(Lines) : Len(s) \in {1, 2} =>
        /\ Head(s) = s[1] /\ Head(s) \in Lines
        /\ Tail(s) \in Seq(Lines) /\ Len(Tail(s)) = Len(s) - 1
  OBVIOUS
<1> QED
  BY <1>1, <1>2

\* What every such step keeps: the settings, unless s_callbacks is destroyed,
\* the other threads, and what the sinks have.
LEMMA SoundKeeps ==
  ASSUME IInv, NEW t \in Threads, Sound(t)
  PROVE  /\ g_stderr_verbosity' = g_stderr_verbosity
         /\ callbacks' \in {callbacks, "destroyed"}
         /\ \A u \in Threads \ {t} : pc'[u] = pc[u] /\ lines'[u] = lines[u]
         /\ stderr' \in Seq(Lines) /\ buffer' \in Seq(Lines) /\ disk' \in Seq(Lines)
         /\ \A y : /\ Contains(stderr, y) => Contains(stderr', y)
                   /\ Contains(disk, y) => Contains(disk', y)
                   /\ Contains(buffer, y) => Contains(disk', y) \/ Contains(buffer', y)
<1>1. g_stderr_verbosity' = g_stderr_verbosity /\ callbacks' \in {callbacks, "destroyed"}
  BY DEF Sound, LogCall, Format, Formatted, LockLog, Trace, ToStderr, ToFileSound, Flush,
         UnlockLog, Raw, FlushAllSound, Destroy, Exit, settings
<1>2. \A u \in Threads \ {t} : pc'[u] = pc[u] /\ lines'[u] = lines[u]
  BY DEF IInv, Shapes, Sound, LogCall, Format, Formatted, LockLog, Trace, ToStderr,
         ToFileSound, Flush, UnlockLog, Raw, FlushAllSound, Destroy, Exit, Go
<1>3. stderr' = stderr \/ \E x \in Lines : stderr' = Append(stderr, x)
  <2>1. CASE ToStderr(t)
    BY <2>1, HeadIsLine DEF ToStderr, At, Logging
  <2>2. CASE Raw(t)
    BY <2>2, OwnLines DEF Raw, CaughtSignal
  <2> QED
    BY <2>1, <2>2 DEF Sound, LogCall, Format, Formatted, LockLog, Trace, ToFileSound, Flush,
         UnlockLog, FlushAllSound, Destroy, Exit, sinks
<1>4. \/ UNCHANGED <<buffer, disk>>
      \/ Flushed
      \/ UNCHANGED disk /\ \E x \in Lines : buffer' = Append(buffer, x)
  <2>1. CASE ToFileSound(t)
    BY <2>1, HeadIsLine DEF ToFileSound, At, Logging
  <2> QED
    BY <2>1 DEF Sound, LogCall, Format, Formatted, LockLog, Trace, ToStderr, Flush,
         UnlockLog, Raw, FlushAllSound, Destroy, Exit, sinks
<1>5. stderr \in Seq(Lines) /\ buffer \in Seq(Lines) /\ disk \in Seq(Lines)
  BY DEF IInv, Shapes
<1>6. stderr' \in Seq(Lines) /\ \A y : Contains(stderr, y) => Contains(stderr', y)
  <2>1. CASE stderr' = stderr
    BY <2>1, <1>5
  <2>2. ASSUME NEW x \in Lines, stderr' = Append(stderr, x)
        PROVE  stderr' \in Seq(Lines) /\ \A y : Contains(stderr, y) => Contains(stderr', y)
    BY <2>2, <1>5, AppendKeeps
  <2> QED
    BY <1>3, <2>1, <2>2
<1>7. /\ buffer' \in Seq(Lines) /\ disk' \in Seq(Lines)
      /\ \A y : /\ Contains(disk, y) => Contains(disk', y)
                /\ Contains(buffer, y) => Contains(disk', y) \/ Contains(buffer', y)
  <2>1. CASE UNCHANGED <<buffer, disk>>
    BY <2>1, <1>5
  <2>2. CASE Flushed
    BY <2>2, <1>5, ConcatKeeps DEF Flushed
  <2>3. CASE UNCHANGED disk /\ \E x \in Lines : buffer' = Append(buffer, x)
    BY <2>3, <1>5, AppendKeeps
  <2> QED
    BY <1>4, <2>1, <2>2, <2>3
<1> QED
  BY <1>1, <1>2, <1>6, <1>7

LEMMA ShapesStep ==
  ASSUME IInv, NEW t \in Threads, Sound(t)
  PROVE  Shapes' /\ TypeOK'
<1> USE LoguruAssumption
<1>1. pc' \in [Threads -> Logging \cup {"work", "raw", "preflush", "lastflush", "default",
                                        "destroy", "end", "down"}]
  BY DEF IInv, Shapes, Sound, LogCall, Format, Formatted, LockLog, Trace, ToStderr,
         ToFileSound, Flush, UnlockLog, Raw, FlushAllSound, Destroy, Exit, Go, Logging
<1>2. lines' \in [Threads -> Seq(Lines)]
  <2>1. \/ lines' = lines
        \/ \E new \in Seq(Lines) : lines' = [lines EXCEPT ![t] = new]
    <3>1. CASE LogCall(t)
      <4>1. /\ logged[t] + 1 \in 0 .. MaxLines
            /\ logged' = [logged EXCEPT ![t] = logged[t] + 1] /\ logged'[t] = logged[t] + 1
        BY <3>1 DEF IInv, Shapes, LogCall
      <4>2. \A v \in {ERROR, INFO} : <<Line(t, logged'[t], v)>> \in Seq(Lines)
        BY <4>1, OwnLines
      <4> QED
        BY <3>1, <4>2 DEF LogCall
    <3>2. CASE Trace(t)
      <4>1. pc[t] \in Logging /\ lines[t] \in Seq(Lines)
        BY <3>2 DEF IInv, Shapes, Trace, At, Logging
      <4>2. <<Line(t, 0, ERROR)>> \o lines[t] \in Seq(Lines)
        BY <4>1, OwnLines
      <4> QED
        BY <3>2, <4>2 DEF Trace
    <3>3. CASE UnlockLog(t)
      BY <3>3, HeadIsLine DEF UnlockLog, At, Logging
    <3>4. CASE Exit(t)
      <4>1. <<Line(t, 0, INFO)>> \in Seq(Lines)
        BY OwnLines
      <4> QED
        BY <3>4, <4>1 DEF Exit
    <3> QED
      BY <3>1, <3>2, <3>3, <3>4 DEF Sound, Format, Formatted, LockLog, ToStderr,
         ToFileSound, Flush, Raw, FlushAllSound, Destroy
  <2> QED
    BY <2>1 DEF IInv, Shapes
<1>3. mutex' \in [owner : Threads \cup {Nobody}, depth : Nat]
      /\ (mutex'.owner = Nobody <=> mutex'.depth = 0)
  <2>1. mutex \in [owner : Threads \cup {Nobody}, depth : Nat]
        /\ (mutex.owner = Nobody <=> mutex.depth = 0)
    BY DEF IInv, Shapes, TypeOK
  <2>2. CASE LockLog(t)
    BY <2>1, <2>2 DEF LockLog
  <2>3. CASE UnlockLog(t)
    <3>1. mutex.depth \in Nat /\ mutex.depth >= 1
      BY <2>3, HeadIsLine DEF IInv, Shapes, Holds, UnlockLog, At, Logging, Locked
    <3> QED
      BY <2>3, <3>1 DEF UnlockLog
  <2> QED
    BY <2>1, <2>2, <2>3 DEF Sound, LogCall, Format, Formatted, Trace, ToStderr,
       ToFileSound, Flush, Raw, FlushAllSound, Destroy, Exit
<1>4. /\ interrupted' = interrupted
      /\ exiting' \in Threads \cup {Nobody}
      /\ libc' \in Threads \cup {Nobody}
      /\ signals' = signals
  BY DEF IInv, Shapes, TypeOK, Sound, LogCall, Format, Formatted, LockLog, Trace, ToStderr,
         ToFileSound, Flush, UnlockLog, Raw, FlushAllSound, Destroy, Exit
<1>5. logged' \in [Threads -> 0 .. MaxLines]
  <2>1. CASE LogCall(t)
    <3>1. logged[t] + 1 \in 0 .. MaxLines /\ logged' = [logged EXCEPT ![t] = logged[t] + 1]
      BY <2>1 DEF IInv, Shapes, LogCall
    <3> QED
      BY <3>1 DEF IInv, Shapes
  <2> QED
    BY <2>1 DEF IInv, Shapes, Sound, Format, Formatted, LockLog, Trace, ToStderr,
       ToFileSound, Flush, UnlockLog, Raw, FlushAllSound, Destroy, Exit
<1>6. returned' \subseteq Lines
  <2>1. CASE LogCall(t)
    <3>1. \A v \in {ERROR, INFO} : Line(t, logged'[t], v) \in Lines
      BY <2>1, <1>5, OwnLines
    <3> QED
      BY <2>1, <3>1 DEF IInv, TypeOK, LogCall
  <2>2. CASE UnlockLog(t)
    BY <2>2, HeadIsLine DEF IInv, TypeOK, UnlockLog, At, Logging
  <2> QED
    BY <2>1, <2>2 DEF IInv, TypeOK, Sound, Format, Formatted, LockLog, Trace, ToStderr,
       ToFileSound, Flush, Raw, FlushAllSound, Destroy, Exit
<1>7. Shapes'
  BY <1>1, <1>2, <1>3, <1>4, <1>5, SoundKeeps DEF IInv, Shapes
<1>8. TypeOK'
  <2>1. \A u \in Threads : \A i \in DOMAIN lines'[u] : lines'[u][i] \in Lines
    BY <1>2
  <2>2. callbacks' \in {"none", "file", "destroyed"} /\ signals' \in 0 .. MaxSignals
    BY <1>4, SoundKeeps DEF IInv, TypeOK
  <2> QED
    BY <1>3, <1>4, <1>6, <2>1, <2>2 DEF TypeOK
<1> QED
  BY <1>7, <1>8
\* Locks and lines are counted alike.
LEMMA LinesStep ==
  ASSUME IInv, NEW t \in Threads, Sound(t), NEW u \in Threads
  PROVE  Nested(u)' /\ Holds(u)'
<1> USE LoguruAssumption
<1>1. CASE u # t
  <2>1. pc'[u] = pc[u] /\ lines'[u] = lines[u]
    BY <1>1, SoundKeeps
  <2>2. mutex.owner = u => mutex' = mutex
    <3>1. CASE LockLog(t)
      BY <1>1, <3>1 DEF LockLog, MayLock
    <3>2. CASE UnlockLog(t)
      BY <1>1, <3>2 DEF IInv, Holds, UnlockLog, At, Locked
    <3> QED
      BY <3>1, <3>2 DEF Sound, LogCall, Format, Formatted, Trace, ToStderr,
         ToFileSound, Flush, Raw, FlushAllSound, Destroy, Exit
  <2> QED
    BY <2>1, <2>2 DEF IInv, Nested, Holds
<1>2. CASE u = t
  <2> SUFFICES Nested(t)' /\ Holds(t)'
    BY <1>2
  <2>1. /\ mutex \in [owner : Threads \cup {Nobody}, depth : Nat]
        /\ (mutex.owner = Nobody <=> mutex.depth = 0)
        /\ lines[t] \in Seq(Lines)
        /\ Nested(t) /\ Holds(t)
        /\ pc \in [Threads -> Logging \cup {"work", "raw", "preflush", "lastflush", "default",
                                            "destroy", "end", "down"}]
        /\ lines \in [Threads -> Seq(Lines)]
    BY DEF IInv, Shapes, TypeOK
  <2>1a. Nested(t) /\ Holds(t)
    BY <2>1
  <2>1b. mutex.depth \in Nat
    BY <2>1
  <2>1c. lines[t] \in Seq(Lines)
    BY <2>1
  <2>2. CASE LogCall(t) \/ Exit(t)
    <3>1. /\ pc[t] = "work" /\ UNCHANGED mutex
          /\ \/ pc'[t] \in {"work", "lastflush"}
             \/ pc'[t] = "format" /\ Len(lines'[t]) = 1
      BY <2>2, <2>1 DEF LogCall, Exit, At, Go
    <3> QED
      BY <3>1 DEF Nested, Holds, Logging, Locked
  <2>3. CASE Format(t) \/ Formatted(t)
    BY <2>3, <2>1 DEF Format, Formatted, At, Go, Nested, Holds, Logging, Locked
  <2>4. CASE LockLog(t)
    <3>1. /\ pc[t] = "lock" /\ lines' = lines /\ Len(lines[t]) \in {1, 2}
          /\ Head(lines[t]) = lines[t][1]
      BY <2>4, HeadIsLine DEF LockLog, At, Logging
    <3>2. pc'[t] = IF lines[t][1].verbosity = FATAL THEN "trace" ELSE "stderr"
      BY <2>4, <2>1, <3>1 DEF LockLog, Go
    <3>3. mutex'.owner = t /\ mutex'.depth = mutex.depth + 1
      BY <2>4 DEF LockLog
    <3>4. Nested(t)'
      BY <2>1, <3>1, <3>2 DEF Nested, Logging
    <3>5. Holds(t)'
      <4>1. mutex.depth \in Nat /\ mutex.depth + 1 >= Len(lines[t])
        <5>1. Len(lines[t]) = 2 => mutex.depth >= 1
          BY <3>1, <2>1a DEF Holds, Logging
        <5>2. Len(lines[t]) = 1 \/ Len(lines[t]) = 2
          BY <3>1
        <5>3. \A d \in Nat : \A n \in {1, 2} : (n = 2 => d >= 1) => d + 1 >= n
          OBVIOUS
        <5> QED
          BY <2>1b, <5>1, <5>2, <5>3
      <4> QED
        BY <3>1, <3>2, <3>3, <4>1 DEF Holds, Logging
    <3> QED
      BY <3>4, <3>5
  <2>5. CASE Trace(t)
    <3>1. pc[t] = "trace" /\ Len(lines[t]) = 1 /\ UNCHANGED mutex /\ pc'[t] = "format"
      BY <2>5, <2>1 DEF Trace, At, Go, Nested, Logging
    <3>2. lines'[t] = <<Line(t, 0, ERROR)>> \o lines[t]
      BY <2>5, <2>1 DEF Trace
    <3>3. Len(lines'[t]) = 2 /\ lines'[t][1] = Line(t, 0, ERROR)
      <4>1. \A x \in Lines : \A s \in Seq(Lines) :
              Len(<<x>> \o s) = Len(s) + 1 /\ (<<x>> \o s)[1] = x
        OBVIOUS
      <4>2. Line(t, 0, ERROR) \in Lines
        BY OwnLines
      <4> QED
        BY <2>1c, <3>1, <3>2, <4>1, <4>2
    <3>4. lines'[t][1].verbosity # FATAL
      BY <3>3 DEF Line, ERROR, FATAL
    <3> QED
      BY <2>1, <3>1, <3>3, <3>4 DEF Nested, Holds, Logging, Locked
  <2>6. CASE ToStderr(t) \/ ToFileSound(t) \/ Flush(t)
    BY <2>6, <2>1 DEF ToStderr, ToFileSound, Flush, At, Go, Nested, Holds, Logging, Locked
  <2>7. CASE UnlockLog(t)
    BY <2>7, <2>1, HeadIsLine DEF UnlockLog, At, Go, Nested, Holds, Logging, Locked
  <2>8. CASE Raw(t) \/ Destroy(t)
    BY <2>8, <2>1 DEF Raw, Destroy, At, Go, Nested, Holds, Logging, Locked
  <2>9. CASE FlushAllSound(t)
    <3>1. lines' = lines
      BY <2>9 DEF FlushAllSound
    <3>2. \/ pc[t] = "preflush" /\ pc'[t] = "format"
          \/ pc'[t] \in {"default", "destroy"}
      BY <2>9, <2>1 DEF FlushAllSound, Go
    <3> QED
      BY <2>1a, <3>1, <3>2 DEF Nested, Holds, Logging, Locked
  <2> QED
    BY <2>2, <2>3, <2>4, <2>5, <2>6, <2>7, <2>8, <2>9 DEF Sound
<1> QED
  BY <1>1, <1>2
\* A line is written before it is passed on, and stays written.
LEMMA WroteStep ==
  ASSUME IInv, NEW t \in Threads, Sound(t), NEW u \in Threads
  PROVE  Wrote(u)'
<1>0. Wrote(u) /\ (callbacks' = "file" => callbacks = "file")
  BY SoundKeeps DEF IInv
<1>1. CASE u # t
  BY <1>0, <1>1, SoundKeeps DEF Wrote
<1>2. CASE u = t
  <2> SUFFICES Wrote(t)'
    BY <1>2
  <2>1. pc'[t] \notin {"file", "flush", "unlock"} => Wrote(t)'
    BY DEF Wrote
  <2>2. pc \in [Threads -> Logging \cup {"work", "raw", "preflush", "lastflush", "default",
                                         "destroy", "end", "down"}]
    BY DEF IInv, Shapes
  <2>3. CASE ToStderr(t)
    <3>1. pc'[t] = "file" /\ lines' = lines /\ g_stderr_verbosity' = g_stderr_verbosity
      BY <2>2, <2>3 DEF ToStderr, At, Go, settings
    <3>2. /\ Head(lines[t]) = lines[t][1] /\ Head(lines[t]) \in Lines
          /\ stderr \in Seq(Lines)
      BY <2>3, HeadIsLine DEF IInv, Shapes, ToStderr, At, Logging
    <3>3. lines[t][1].verbosity <= g_stderr_verbosity => Contains(stderr', lines[t][1])
      BY <2>3, <3>2, AppendKeeps DEF ToStderr
    <3> QED
      BY <3>1, <3>3 DEF Wrote
  <2>4. CASE ToFileSound(t)
    <3>1. pc[t] = "file" /\ lines' = lines /\ UNCHANGED <<g_stderr_verbosity, callbacks, stderr>>
      BY <2>4 DEF ToFileSound, At, settings
    <3>2. /\ Head(lines[t]) = lines[t][1] /\ Head(lines[t]) \in Lines
          /\ buffer \in Seq(Lines)
      BY <3>1, HeadIsLine DEF IInv, Shapes, Logging
    <3>3. \/ pc'[t] = "flush" /\ Contains(buffer', lines[t][1])
          \/ pc'[t] = "unlock" /\ callbacks # "file"
      BY <2>2, <2>4, <3>2, AppendKeeps DEF ToFileSound, Go
    <3> QED
      BY <1>0, <1>2, <3>1, <3>3 DEF Wrote
  <2>5. CASE Flush(t)
    <3>1. /\ pc[t] = "flush" /\ lines' = lines /\ pc'[t] = "unlock"
          /\ UNCHANGED <<g_stderr_verbosity, callbacks, stderr>>
      BY <2>2, <2>5 DEF Flush, At, Go, settings
    <3>2. disk \in Seq(Lines) /\ buffer \in Seq(Lines) /\ disk' = disk \o buffer
      BY <2>5 DEF IInv, Shapes, Flush, Flushed
    <3>3. Contains(disk', lines[t][1])
      BY <1>0, <1>2, <3>1, <3>2, ConcatKeeps DEF Wrote
    <3> QED
      BY <1>0, <1>2, <3>1, <3>3 DEF Wrote
  <2>6. CASE UnlockLog(t)
    BY <2>1, <2>2, <2>6 DEF UnlockLog, Go
  <2>7. CASE LogCall(t) \/ Exit(t)
    BY <2>1, <2>2, <2>7 DEF LogCall, Exit, Go, At
  <2>8. CASE Format(t) \/ Formatted(t) \/ LockLog(t) \/ Trace(t) \/ Raw(t) \/ Destroy(t)
    BY <2>1, <2>2, <2>8 DEF Format, Formatted, LockLog, Trace, Raw, Destroy, Go
  <2>9. CASE FlushAllSound(t)
    BY <2>1, <2>2, <2>9 DEF FlushAllSound, Go
  <2> QED
    BY <2>3, <2>4, <2>5, <2>6, <2>7, <2>8, <2>9 DEF Sound
<1> QED
  BY <1>1, <1>2

\* A line comes back written, or no sink wants it.
LEMMA ReturnedStep ==
  ASSUME IInv, NEW t \in Threads, Sound(t)
  PROVE  ReturnedIsWritten'
<1> DEFINE Written(line) ==
      /\ line.verbosity <= g_stderr_verbosity => Contains(stderr, line)
      /\ callbacks = "file" => Contains(disk, line)
<1>1. \A line : Written(line) => Written(line)'
  BY SoundKeeps
<1>2. \A line \in returned' \ returned : Written(line)
  <2>1. CASE LogCall(t)
    <3>1. PICK v \in {ERROR, INFO} :
            returned' \ returned = {} \/ (/\ v > current_verbosity_cutoff
                                       /\ returned' = returned \cup {Line(t, logged'[t], v)})
      BY <2>1 DEF LogCall
    <3>2. v > current_verbosity_cutoff =>
            ~(v <= g_stderr_verbosity) /\ callbacks # "file"
      <4>1. g_stderr_verbosity \in Int
        BY DEF IInv, Shapes
      <4> QED
        BY <4>1 DEF current_verbosity_cutoff, s_max_out_verbosity, OFF, ERROR, INFO, MAX
    <3>3. Line(t, logged'[t], v).verbosity = v
      BY DEF Line
    <3> QED
      BY <3>1, <3>2, <3>3
  <2>2. CASE UnlockLog(t)
    <3>1. returned' \ returned \subseteq {lines[t][1]}
      BY <2>2, HeadIsLine DEF UnlockLog, At, Logging
    <3> QED
      BY <2>2, <3>1 DEF IInv, Wrote, UnlockLog, At
  <2> QED
    BY <2>1, <2>2 DEF Sound, Format, Formatted, LockLog, Trace, ToStderr,
       ToFileSound, Flush, Raw, FlushAllSound, Destroy, Exit
<1> QED
  BY <1>1, <1>2 DEF IInv, ReturnedIsWritten

LEMMA SoundStep ==
  ASSUME IInv, NEW t \in Threads, Sound(t)
  PROVE  IInv'
BY ShapesStep, LinesStep, WroteStep, ReturnedStep DEF IInv

-----------------------------------------------------------------------------
\* The inductive invariant holds in every state.
THEOREM Invariance == Spec => []IInv
<1>1. ASSUME IInv, Next PROVE IInv'
  <2>1. ASSUME NEW t \in Threads, LogCall(t) \/ Step(t) \/ Signal(t) \/ Exit(t) PROVE IInv'
    <3>1. CASE Sound(t)
      BY <1>1, <3>1, SoundStep
    <3>2. CASE ToFile(t)
      <4>1. ToFileSound(t) \/ Fault(t)
        BY <3>2 DEF ToFile, ToFileSound, sinks
      <4> QED
        BY <1>1, <4>1, SoundStep, FaultStep DEF Sound
    <3>3. CASE FlushAll(t)
      <4>1. FlushAllSound(t) \/ Fault(t)
        BY <3>3 DEF FlushAll, FlushAllSound
      <4> QED
        BY <1>1, <4>1, SoundStep, FaultStep DEF Sound
    <3>4. CASE Default(t)
      BY <1>1, <3>4, DownStep DEF Default
    <3>5. CASE End(t)
      BY <1>1, <3>5, DownStep DEF End, Flushed
    <3>6. CASE Signal(t)
      <4>1. Interrupt(t) /\ signals' \in 0 .. MaxSignals
        BY <1>1, <3>6, LoguruAssumption DEF IInv, TypeOK, Signal
      <4> QED
        BY <1>1, <4>1, InterruptStep
    <3> QED
      BY <2>1, <3>1, <3>2, <3>3, <3>4, <3>5, <3>6 DEF Step, Sound
  <2>2. CASE Kill
    BY <1>1, <2>2, DownStep DEF Kill
  <2> QED
    BY <1>1, <2>1, <2>2 DEF Next
<1>2. ASSUME IInv, UNCHANGED vars PROVE IInv'
  BY <1>2 DEF vars, settings, sinks, IInv, TypeOK, Shapes, Nested, Holds, Wrote, ReturnedIsWritten
<1> QED
  BY <1>1, <1>2, InitIInv, PTL DEF Spec

\* Every variable keeps its type, and the mutex has an owner exactly while it is
\* locked, however a line and the handlers that interrupt it are nested.
THEOREM TypeCorrect == Spec => []TypeOK
<1>1. IInv => TypeOK
  BY DEF IInv
<1> QED
  BY <1>1, Invariance, PTL

\* A line LOG_S has come back from is in every sink that wants it, on the disk if
\* that is the log file, whatever ends the process.
THEOREM WrittenBeforeReturn == Spec => []ReturnedIsWritten
<1>1. IInv => ReturnedIsWritten
  BY DEF IInv
<1> QED
  BY <1>1, Invariance, PTL

-----------------------------------------------------------------------------
(***************************************************************************)
(* The order of the sinks.                                                 *)
(*                                                                         *)
(* log_message writes a line to stderr and then to the file under s_mutex, *)
(* so what comes behind a line in stderr comes behind it in the file: but  *)
(* for the line a signal handler writes without s_mutex, which is never in *)
(* the file (Behind), and for a line whose thread is interrupted between   *)
(* the two, which never gets there.  That takes that a line is never       *)
(* written again, by its thread or the handler that interrupts it (Fresh), *)
(* hence which lines a thread can be in the middle of (Mine).              *)
(***************************************************************************)
\* The lines a thread can be in the middle of: its last one, the one of its exit,
\* or the handler's, with the stack trace in the middle of it.
Mine(t) ==
  /\ pc[t] = "work" => ~interrupted[t] /\ exiting # t
  /\ pc[t] \in {"raw", "preflush"} => interrupted[t] /\ lines[t] = <<Line(t, 0, FATAL)>>
  /\ pc[t] = "trace" => lines[t][1].verbosity = FATAL
  /\ pc[t] \in Logging =>
       \/ /\ ~interrupted[t] /\ exiting # t /\ logged[t] > 0
          /\ \E v \in {ERROR, INFO} : lines[t] = <<Line(t, logged[t], v)>>
       \/ ~interrupted[t] /\ exiting = t /\ lines[t] = <<Line(t, 0, INFO)>>
       \/ interrupted[t] /\ lines[t] \in {<<Line(t, 0, FATAL)>>,
                                          <<Line(t, 0, ERROR), Line(t, 0, FATAL)>>}

\* The lines t has yet to write, if it writes them at all: those it will log, the
\* one of its exit, the three of the handler, and those it is in the middle of.
ToCome(t, x) ==
  /\ x.who = t
  /\ \/ x.n > logged[t]
     \/ x.n = 0 /\ x.verbosity = INFO /\ exiting # t
     \/ x.n = 0 /\ x.verbosity = OFF /\ (interrupted[t] => pc[t] = "raw")
     \/ /\ x.n = 0 /\ x.verbosity \in {FATAL, ERROR}
        /\ interrupted[t] => pc[t] \in {"raw", "preflush"}
     \/ /\ pc[t] \in {"format", "formatting", "lock", "trace", "stderr"}
        /\ x = lines[t][1]
     \/ /\ pc[t] \in {"format", "formatting", "lock", "trace"}
        /\ lines[t][1].verbosity = FATAL
        /\ x = Line(t, 0, ERROR)
     \/ /\ pc[t] \in Logging /\ Len(lines[t]) = 2
        /\ x = lines[t][2]

\* No sink has a line that is to come.
Fresh(t) ==
  pc[t] # "down" =>
    \A x \in Lines : ToCome(t, x) => ~Contains(stderr, x) /\ ~Contains(file, x)

\* While a line is between the sinks, nothing but the lines of handlers comes
\* behind it in stderr.
Behind(t) ==
  pc[t] = "file" =>
    /\ ~Contains(file, lines[t][1])
    /\ \A i, j \in DOMAIN stderr :
         i < j /\ stderr[i] = lines[t][1] => stderr[j].verbosity = OFF

\* The lines of handlers are in stderr only.
FileSound == \A k \in DOMAIN file : file[k].verbosity # OFF

SinksIInv ==
  /\ \A t \in Threads : Mine(t) /\ Fresh(t) /\ Behind(t)
  /\ FileSound
  /\ SinksAgree

-----------------------------------------------------------------------------
\* What a line that comes behind the others of a sink changes.
LEMMA AppendAdds ==
  ASSUME NEW s \in Seq(Lines), NEW x \in Lines
  PROVE  /\ DOMAIN Append(s, x) = DOMAIN s \cup {Len(s) + 1}
         /\ \A i \in DOMAIN s : i < Len(s) + 1 /\ Append(s, x)[i] = s[i]
         /\ Append(s, x)[Len(s) + 1] = x
         /\ \A y : Contains(Append(s, x), y) <=> Contains(s, y) \/ y = x
<1>1. /\ Len(s) \in Nat /\ DOMAIN s = 1 .. Len(s)
      /\ DOMAIN Append(s, x) = 1 .. Len(s) + 1
      /\ \A i \in 1 .. Len(s) : Append(s, x)[i] = s[i]
      /\ Append(s, x)[Len(s) + 1] = x
      /\ Len(Append(s, x)) = Len(s) + 1
  OBVIOUS
<1>2. \A i : i \in 1 .. Len(s) + 1 <=> i \in 1 .. Len(s) \/ i = Len(s) + 1
  BY <1>1
<1>3. \A y : Contains(Append(s, x), y) <=> Contains(s, y) \/ y = x
  BY <1>1, <1>2 DEF Contains
<1> QED
  BY <1>1, <1>2, <1>3

\* The file is a sequence of lines.  A flush leaves it as it is; the end of the
\* process at most cuts it short.
LEMMA FileLines ==
  ASSUME IInv
  PROVE  file \in Seq(Lines) /\ disk \in Seq(Lines) /\ buffer \in Seq(Lines)
         /\ stderr \in Seq(Lines)
BY DEF IInv, Shapes, file

LEMMA FileAppend ==
  ASSUME IInv, NEW x \in Lines, disk' = disk, buffer' = Append(buffer, x)
  PROVE  file' = Append(file, x)
<1>1. \A s, u \in Seq(Lines) : s \o Append(u, x) = Append(s \o u, x)
  OBVIOUS
<1> QED
  BY <1>1, FileLines DEF file

LEMMA FileFlushed ==
  ASSUME IInv, Flushed
  PROVE  file' = file
<1>1. \A s \in Seq(Lines) : s \o <<>> = s
  OBVIOUS
<1> QED
  BY <1>1, FileLines DEF file, Flushed

LEMMA FileDown ==
  ASSUME IInv, Down, disk' = disk \/ disk' = disk \o buffer
  PROVE  \A k \in DOMAIN file' : k \in DOMAIN file /\ file'[k] = file[k]
<1>1. \A s \in Seq(Lines) : s \o <<>> = s
  OBVIOUS
<1>2. file' = disk'
  <2>1. disk' \in Seq(Lines)
    BY FileLines DEF file
  <2> QED
    BY <1>1, <2>1 DEF file, Down
<1>3. \A s, u \in Seq(Lines) : \A k \in DOMAIN s : k \in DOMAIN (s \o u) /\ (s \o u)[k] = s[k]
  OBVIOUS
<1> QED
  BY <1>2, <1>3, FileLines DEF file

\* What a step of one thread leaves alone of another.
LEMMA Others ==
  ASSUME IInv, NEW t \in Threads, Sound(t)
  PROVE  /\ interrupted' = interrupted
         /\ \A u \in Threads \ {t} :
              /\ pc'[u] = pc[u] /\ lines'[u] = lines[u] /\ logged'[u] = logged[u]
              /\ exiting' = u <=> exiting = u
<1>1. interrupted' = interrupted
  BY DEF Sound, LogCall, Format, Formatted, LockLog, Trace, ToStderr, ToFileSound, Flush,
         UnlockLog, Raw, FlushAllSound, Destroy, Exit
<1>2. \A u \in Threads \ {t} : logged'[u] = logged[u]
  BY DEF IInv, Shapes, Sound, LogCall, Format, Formatted, LockLog, Trace, ToStderr,
         ToFileSound, Flush, UnlockLog, Raw, FlushAllSound, Destroy, Exit
<1>3. \A u \in Threads \ {t} : exiting' = u <=> exiting = u
  BY LoguruAssumption
     DEF Sound, LogCall, Format, Formatted, LockLog, Trace, ToStderr, ToFileSound, Flush,
         UnlockLog, Raw, FlushAllSound, Destroy, Exit
<1> QED
  BY <1>1, <1>2, <1>3, SoundKeeps

\* A line before another one.
LEMMA TwoLines ==
  /\ \A y \in Lines : \A s \in Seq(Lines) : Len(s) = 1 =>
       (<<y>> \o s)[1] = y /\ (<<y>> \o s)[2] = s[1]
  /\ \A x, y \in Lines : <<x>> \o <<y>> = <<x, y>>
<1>1. \A r, s \in Seq(Lines) : Len(r) = 1 /\ Len(s) = 1 =>
        /\ r \o s \in Seq(Lines) /\ Len(r \o s) = 2
        /\ (r \o s)[1] = r[1] /\ (r \o s)[2] = s[1]
  <2>1. ASSUME NEW r \in Seq(Lines), NEW s \in Seq(Lines), Len(r) = 1, Len(s) = 1
        PROVE  /\ r \o s \in Seq(Lines) /\ Len(r \o s) = 2
               /\ (r \o s)[1] = r[1] /\ (r \o s)[2] = s[1]
    <3>1. r \o s \in Seq(Lines) /\ Len(r \o s) = Len(r) + Len(s)
      OBVIOUS
    <3>2. 1 \in 1 .. Len(r) /\ 1 \in 1 .. Len(s)
      BY <2>1
    <3>3. \A i \in 1 .. Len(r) : (r \o s)[i] = r[i]
      OBVIOUS
    <3>4. \A i \in 1 .. Len(s) : (r \o s)[Len(r) + i] = s[i]
      OBVIOUS
    <3>5. (r \o s)[1] = r[1]
      BY <3>2, <3>3
    <3>6. (r \o s)[1 + 1] = s[1]
      BY <2>1, <3>2, <3>4
    <3>7. Len(r \o s) = 1 + 1
      BY <2>1, <3>1
    <3> QED
      BY <3>1, <3>5, <3>6, <3>7
  <2> QED
    BY <2>1
<1>2. \A s \in Seq(Lines) : Len(s) = 2 => s = <<s[1], s[2]>>
  OBVIOUS
<1>3. \A y \in Lines : <<y>> \in Seq(Lines) /\ Len(<<y>>) = 1 /\ <<y>>[1] = y
  OBVIOUS
<1>4. \A y \in Lines : \A s \in Seq(Lines) : Len(s) = 1 =>
        (<<y>> \o s)[1] = y /\ (<<y>> \o s)[2] = s[1]
  BY <1>1, <1>3
<1>5. ASSUME NEW x \in Lines, NEW y \in Lines PROVE <<x>> \o <<y>> = <<x, y>>
  <2>1. /\ <<x>> \o <<y>> \in Seq(Lines) /\ Len(<<x>> \o <<y>>) = 2
        /\ (<<x>> \o <<y>>)[1] = x /\ (<<x>> \o <<y>>)[2] = y
    BY <1>1, <1>3
  <2> QED
    BY <1>2, <2>1
<1> QED
  BY <1>4, <1>5

LEMMA MineStep ==
  ASSUME IInv, SinksIInv, NEW t \in Threads, Sound(t), NEW u \in Threads
  PROVE  Mine(u)'
<1>1. CASE u # t
  BY <1>1, Others DEF SinksIInv, Mine
<1>2. CASE u = t
  <2> SUFFICES Mine(t)'
    BY <1>2
  <2>1. /\ pc \in [Threads -> Logging \cup {"work", "raw", "preflush", "lastflush", "default",
                                            "destroy", "end", "down"}]
        /\ lines \in [Threads -> Seq(Lines)]
        /\ logged \in [Threads -> 0 .. MaxLines]
    BY DEF IInv, Shapes
  <2>2. Mine(t) /\ Nested(t) /\ interrupted' = interrupted
    BY Others DEF SinksIInv, IInv
  <2>3. CASE LogCall(t)
    <3>1. logged'[t] = logged[t] + 1 /\ logged'[t] > 0
      BY <2>1, <2>3, LoguruAssumption DEF LogCall
    <3>2. /\ pc[t] = "work" /\ exiting' = exiting
          /\ \/ pc'[t] = "work"
             \/ /\ pc'[t] = "format"
                /\ \E v \in {ERROR, INFO} : lines'[t] = <<Line(t, logged'[t], v)>>
      BY <2>1, <2>3 DEF LogCall, At, Go
    <3> QED
      BY <2>2, <3>1, <3>2 DEF Mine, Logging
  <2>4. CASE Format(t) \/ Formatted(t) \/ ToStderr(t) \/ ToFileSound(t) \/ Flush(t)
    <3>1. /\ pc[t] \in Logging /\ pc'[t] \in Logging /\ pc'[t] # "trace"
          /\ lines' = lines /\ exiting' = exiting /\ logged' = logged
      BY <2>1, <2>4 DEF Format, Formatted, ToStderr, ToFileSound, Flush, At, Go, Logging
    <3> QED
      BY <2>2, <3>1 DEF Mine, Logging
  <2>5. CASE LockLog(t)
    <3>1. /\ pc[t] \in Logging /\ pc'[t] \in Logging
          /\ lines' = lines /\ exiting' = exiting /\ logged' = logged
      BY <2>1, <2>5 DEF LockLog, At, Go, Logging
    <3>2. pc'[t] = "trace" => lines[t][1].verbosity = FATAL
      BY <2>1, <2>5, <3>1, HeadIsLine DEF LockLog, At, Go
    <3> QED
      BY <2>2, <3>1, <3>2 DEF Mine, Logging
  <2>6. CASE Trace(t)
    <3>1. /\ pc[t] = "trace" /\ pc'[t] = "format"
          /\ exiting' = exiting /\ logged' = logged
          /\ lines'[t] = <<Line(t, 0, ERROR)>> \o lines[t]
      BY <2>1, <2>6 DEF Trace, At, Go
    <3>2. lines[t] = <<Line(t, 0, FATAL)>> /\ interrupted[t]
      <4>1. lines[t][1].verbosity = FATAL /\ Len(lines[t]) = 1
        BY <2>2, <3>1 DEF Mine, Nested, Logging
      <4>2. \A v \in {ERROR, INFO} : \A n : <<Line(t, n, v)>>[1].verbosity # FATAL
        BY DEF Line, ERROR, INFO, FATAL
      <4>3. Len(<<Line(t, 0, ERROR), Line(t, 0, FATAL)>>) = 2
        OBVIOUS
      <4> QED
        BY <2>2, <3>1, <4>1, <4>2, <4>3 DEF Mine, Logging
    <3>3. lines'[t] = <<Line(t, 0, ERROR), Line(t, 0, FATAL)>>
      <4>1. \A x, y \in Lines : <<x>> \o <<y>> = <<x, y>>
        BY TwoLines
      <4> QED
        BY <3>1, <3>2, <4>1, OwnLines
    <3> QED
      BY <2>2, <3>1, <3>2, <3>3 DEF Mine, Logging
  <2>7. CASE UnlockLog(t)
    <3>1. /\ pc[t] \in Logging /\ exiting' = exiting /\ logged' = logged
          /\ lines'[t] = Tail(lines[t])
          /\ pc'[t] = CASE Len(lines[t]) > 1 -> "stderr"
                        [] Len(lines[t]) = 1 /\ (interrupted[t] \/ exiting = t) -> "lastflush"
                        [] OTHER -> "work"
      BY <2>1, <2>7 DEF UnlockLog, At, Go, Logging
    <3>2. CASE Len(lines[t]) = 2
      <4>1. \A x : Len(<<x>>) # 2
        OBVIOUS
      <4>2. lines[t] = <<Line(t, 0, ERROR), Line(t, 0, FATAL)>> /\ interrupted[t]
        BY <2>2, <3>1, <3>2, <4>1 DEF Mine
      <4>3. \A x, y \in Lines : Tail(<<x, y>>) = <<y>>
        OBVIOUS
      <4>4. lines'[t] = <<Line(t, 0, FATAL)>> /\ pc'[t] = "stderr"
        BY <3>1, <3>2, <4>2, <4>3, OwnLines
      <4> QED
        BY <2>2, <4>2, <4>4 DEF Mine, Logging
    <3>3. CASE Len(lines[t]) = 1
      <4>1. \/ (interrupted[t] \/ exiting = t) /\ pc'[t] = "lastflush"
            \/ ~(interrupted[t] \/ exiting = t) /\ pc'[t] = "work"
        BY <3>1, <3>3
      <4> QED
        BY <2>2, <3>1, <4>1 DEF Mine, Logging
    <3> QED
      BY <2>2, <3>1, <3>2, <3>3 DEF Nested
  <2>8. CASE Raw(t)
    BY <2>1, <2>2, <2>8 DEF Raw, At, Go, Mine, Logging
  <2>9. CASE FlushAllSound(t)
    <3>1. /\ lines' = lines /\ exiting' = exiting /\ logged' = logged
          /\ \/ pc[t] = "preflush" /\ pc'[t] = "format"
             \/ pc'[t] \in {"default", "destroy"}
      BY <2>1, <2>9 DEF FlushAllSound, Go
    <3> QED
      BY <2>2, <3>1 DEF Mine, Logging
  <2>10. CASE Destroy(t)
    BY <2>1, <2>10 DEF Destroy, Go, Mine, Logging
  <2>11. CASE Exit(t)
    <3>1. /\ pc[t] = "work" /\ exiting' = t /\ logged' = logged
          /\ \/ pc'[t] = "lastflush"
             \/ pc'[t] = "format" /\ lines'[t] = <<Line(t, 0, INFO)>>
      BY <2>1, <2>11 DEF Exit, At, Go
    <3> QED
      BY <2>2, <3>1 DEF Mine, Logging
  <2> QED
    BY <2>3, <2>4, <2>5, <2>6, <2>7, <2>8, <2>9, <2>10, <2>11 DEF Sound
<1> QED
  BY <1>1, <1>2

\* What was not to come is not to come any more.
LEMMA ToComeStep ==
  ASSUME IInv, SinksIInv, NEW t \in Threads, Sound(t), NEW u \in Threads,
         NEW x \in Lines, ToCome(u, x)', pc'[u] # "down"
  PROVE  ToCome(u, x)
<1>1. CASE u # t
  BY <1>1, Others DEF ToCome
<1>2. CASE u = t
  <2> SUFFICES ToCome(t, x)
    BY <1>2
  <2>1. /\ pc \in [Threads -> Logging \cup {"work", "raw", "preflush", "lastflush", "default",
                                            "destroy", "end", "down"}]
        /\ lines \in [Threads -> Seq(Lines)]
        /\ logged \in [Threads -> 0 .. MaxLines]
    BY DEF IInv, Shapes
  <2>2. Mine(t) /\ Nested(t) /\ interrupted' = interrupted /\ ToCome(t, x)'
    BY <1>2, Others DEF SinksIInv, IInv
  <2>3. CASE LogCall(t)
    <3>1. /\ logged'[t] = logged[t] + 1 /\ logged[t] \in Int /\ x.n \in Int
      BY <2>1, <2>3, LoguruAssumption DEF LogCall, Lines
    <3>2. /\ pc[t] = "work" /\ exiting' = exiting
          /\ \/ pc'[t] = "work"
             \/ /\ pc'[t] = "format"
                /\ \E v \in {ERROR, INFO} : lines'[t] = <<Line(t, logged'[t], v)>>
      BY <2>1, <2>3 DEF LogCall, At, Go
    <3>3. \A v \in {ERROR, INFO} : \A n \in Nat :
            /\ <<Line(t, n, v)>>[1].verbosity # FATAL
            /\ <<Line(t, n, v)>>[1].n = n
            /\ Len(<<Line(t, n, v)>>) # 2
      BY DEF Line, ERROR, INFO, FATAL
    <3>4. x.n > logged'[t] => x.n > logged[t]
      BY <3>1
    <3>5. logged'[t] > logged[t]
      BY <3>1
    <3>6. logged'[t] \in Nat
      BY <2>1, <2>3, LoguruAssumption DEF LogCall
    <3> QED
      BY <2>2, <3>2, <3>3, <3>4, <3>5, <3>6 DEF ToCome, Mine, Logging
  <2>4. CASE Format(t) \/ Formatted(t) \/ ToStderr(t) \/ ToFileSound(t) \/ Flush(t) \/ LockLog(t)
    <3>1. /\ pc[t] \in Logging /\ pc'[t] \in Logging
          /\ lines' = lines /\ exiting' = exiting /\ logged' = logged
          /\ \/ pc'[t] \in {"file", "flush", "unlock"}
             \/ pc[t] \in {"format", "formatting", "lock"}
      BY <2>1, <2>4 DEF Format, Formatted, ToStderr, ToFileSound, Flush, LockLog, At, Go, Logging
    <3> QED
      BY <2>2, <3>1 DEF ToCome, Logging
  <2>6. CASE Trace(t)
    <3>1. /\ pc[t] = "trace" /\ pc'[t] = "format"
          /\ exiting' = exiting /\ logged' = logged
          /\ lines'[t] = <<Line(t, 0, ERROR)>> \o lines[t]
          /\ lines[t] \in Seq(Lines) /\ Len(lines[t]) = 1
      BY <2>1, <2>2, <2>6 DEF Trace, At, Go, Nested, Logging
    <3>2. lines'[t][1] = Line(t, 0, ERROR) /\ lines'[t][2] = lines[t][1]
      <4>1. \A y \in Lines : \A s \in Seq(Lines) : Len(s) = 1 =>
              (<<y>> \o s)[1] = y /\ (<<y>> \o s)[2] = s[1]
        BY TwoLines
      <4> QED
        BY <3>1, <4>1, OwnLines
    <3>3. lines[t][1].verbosity = FATAL /\ Line(t, 0, ERROR).verbosity # FATAL
      BY <2>2, <3>1 DEF Mine, Line, ERROR, FATAL
    <3> QED
      BY <2>2, <3>1, <3>2, <3>3 DEF ToCome, Logging
  <2>7. CASE UnlockLog(t)
    <3>1. /\ pc[t] \in Logging /\ exiting' = exiting /\ logged' = logged
          /\ lines'[t] = Tail(lines[t]) /\ lines[t] \in Seq(Lines)
          /\ \/ Len(lines[t]) = 2 /\ pc'[t] = "stderr"
             \/ pc'[t] \in {"lastflush", "work"}
      BY <2>1, <2>2, <2>7 DEF UnlockLog, At, Go, Logging, Nested
    <3>2. \A s \in Seq(Lines) : Len(s) = 2 => Tail(s)[1] = s[2] /\ Len(Tail(s)) = 1
      OBVIOUS
    <3> QED
      BY <2>2, <3>1, <3>2 DEF ToCome, Logging
  <2>8. CASE Raw(t)
    <3>1. /\ pc[t] = "raw" /\ pc'[t] = "preflush"
          /\ exiting' = exiting /\ logged' = logged
      BY <2>1, <2>8 DEF Raw, At, Go
    <3> QED
      BY <2>2, <3>1 DEF ToCome, Logging
  <2>9. CASE FlushAllSound(t)
    <3>1. /\ lines' = lines /\ exiting' = exiting /\ logged' = logged
          /\ \/ pc[t] = "preflush" /\ pc'[t] = "format"
             \/ pc'[t] \in {"default", "destroy"}
          /\ pc[t] # "raw" /\ (pc'[t] \in {"default", "destroy"} => pc[t] = "lastflush")
      BY <2>1, <2>9 DEF FlushAllSound, Go
    <3>2. pc[t] = "preflush" => /\ lines[t][1].n = 0 /\ lines[t][1].verbosity = FATAL
                                /\ Len(lines[t]) # 2
      BY <2>2 DEF Mine, Nested, Line
    <3>3. Line(t, 0, ERROR).n = 0 /\ Line(t, 0, ERROR).verbosity = ERROR
      BY DEF Line
    <3> QED
      BY <2>2, <3>1, <3>2, <3>3 DEF ToCome, Logging
  <2>10. CASE Destroy(t)
    <3>1. /\ exiting' = exiting /\ logged' = logged
          /\ pc[t] = "destroy" /\ pc'[t] = "end"
      BY <2>1, <2>10 DEF Destroy, Go, At
    <3> QED
      BY <2>2, <3>1 DEF ToCome, Logging
  <2>11. CASE Exit(t)
    <3>1. /\ pc[t] = "work" /\ exiting' = t /\ exiting # t /\ logged' = logged
          /\ \/ pc'[t] = "lastflush"
             \/ pc'[t] = "format" /\ lines'[t] = <<Line(t, 0, INFO)>>
      BY <2>1, <2>11, LoguruAssumption DEF Exit, At, Go
    <3>2. /\ <<Line(t, 0, INFO)>>[1].n = 0 /\ <<Line(t, 0, INFO)>>[1].verbosity = INFO
          /\ Len(<<Line(t, 0, INFO)>>) # 2 /\ INFO # FATAL
      BY DEF Line, INFO, FATAL
    <3> QED
      BY <2>2, <3>1, <3>2 DEF ToCome, Mine, Logging
  <2> QED
    BY <2>3, <2>4, <2>6, <2>7, <2>8, <2>9, <2>10, <2>11 DEF Sound
<1> QED
  BY <1>1, <1>2

-----------------------------------------------------------------------------
\* A line that is not in the file comes behind stderr, ...
LEMMA AgreeStderr ==
  ASSUME IInv, SinksAgree, NEW h \in Lines, ~Contains(file, h),
         stderr' = Append(stderr, h), file' = file
  PROVE  SinksAgree'
<1>1. \A i \in DOMAIN stderr' : \A k \in DOMAIN file :
        stderr'[i] = file[k] => i \in DOMAIN stderr /\ stderr[i] = file[k]
  <2>1. \A k \in DOMAIN file : file[k] # h
    BY FileLines DEF Contains
  <2> QED
    BY <2>1, FileLines, AppendAdds
<1> QED
  BY <1>1 DEF SinksAgree

\* ... or a line that is between the sinks comes behind the file.
LEMMA AgreeFile ==
  ASSUME IInv, SinksAgree, NEW h \in Lines, ~Contains(file, h), h.verbosity # OFF,
         \A i, j \in DOMAIN stderr : i < j /\ stderr[i] = h => stderr[j].verbosity = OFF,
         FileSound, stderr' = stderr, file' = Append(file, h)
  PROVE  SinksAgree'
<1>1. Len(file) \in Nat /\ DOMAIN stderr \subseteq Int /\ DOMAIN file \subseteq Int
  BY FileLines
<1>2. \A k \in DOMAIN file : file[k] # h
  BY FileLines DEF Contains
<1>3. ASSUME NEW i \in DOMAIN stderr, NEW j \in DOMAIN stderr,
             NEW k \in DOMAIN file', NEW l \in DOMAIN file',
             stderr[i] = file'[k], stderr[j] = file'[l]
      PROVE  i < j <=> k < l
  <2>1. \/ k \in DOMAIN file /\ file'[k] = file[k] /\ k < Len(file) + 1
        \/ k = Len(file) + 1 /\ file'[k] = h
    BY FileLines, AppendAdds
  <2>2. \/ l \in DOMAIN file /\ file'[l] = file[l] /\ l < Len(file) + 1
        \/ l = Len(file) + 1 /\ file'[l] = h
    BY FileLines, AppendAdds
  <2>3. CASE k \in DOMAIN file /\ l \in DOMAIN file
    <3>1. k # Len(file) + 1 /\ l # Len(file) + 1
      BY <2>1, <2>2, <2>3, FileLines
    <3>2. stderr[i] = file[k] /\ stderr[j] = file[l]
      BY <1>3, <2>1, <2>2, <3>1
    <3> QED
      BY <2>3, <3>2 DEF SinksAgree
  <2>4. CASE k \in DOMAIN file /\ file'[k] = file[k] /\ k < Len(file) + 1 /\ l = Len(file) + 1
    <3>1. stderr[i] # h /\ stderr[i].verbosity # OFF /\ stderr[j] = h
      BY <1>2, <1>3, <2>2, <2>4, FileLines DEF FileSound
    <3>2. ~(j < i) /\ i # j
      BY <3>1
    <3> QED
      BY <1>1, <2>4, <3>2
  <2>5. CASE l \in DOMAIN file /\ file'[l] = file[l] /\ l < Len(file) + 1 /\ k = Len(file) + 1
    <3>1. stderr[j] # h /\ stderr[j].verbosity # OFF /\ stderr[i] = h
      BY <1>2, <1>3, <2>1, <2>5, FileLines DEF FileSound
    <3>2. ~(i < j)
      BY <3>1
    <3> QED
      BY <1>1, <2>5, <3>2
  <2>6. CASE k = Len(file) + 1 /\ l = Len(file) + 1
    <3>1. stderr[i] = h /\ stderr[j] = h
      BY <1>3, <2>1, <2>2, <2>6, FileLines
    <3>2. ~(i < j)
      BY <3>1
    <3> QED
      BY <1>1, <2>6, <3>2
  <2> QED
    BY <2>1, <2>2, <2>3, <2>4, <2>5, <2>6
<1> QED
  BY <1>3 DEF SinksAgree

\* What a step writes.
LEMMA Writes ==
  ASSUME IInv, NEW t \in Threads, Sound(t)
  PROVE  \/ /\ stderr' = stderr /\ file' = file
         \/ /\ pc[t] = "stderr" /\ pc'[t] = "file" /\ lines'[t] = lines[t]
            /\ lines[t][1] \in Lines
            /\ stderr' = Append(stderr, lines[t][1]) /\ file' = file
         \/ /\ pc[t] = "raw" /\ pc'[t] = "preflush"
            /\ stderr' = Append(stderr, CaughtSignal(t)) /\ file' = file
         \/ /\ pc[t] = "file" /\ pc'[t] = "flush" /\ lines'[t] = lines[t]
            /\ lines[t][1] \in Lines
            /\ stderr' = stderr /\ file' = Append(file, lines[t][1])
<1>1. /\ pc \in [Threads -> Logging \cup {"work", "raw", "preflush", "lastflush", "default",
                                          "destroy", "end", "down"}]
      /\ UNCHANGED <<disk, buffer>> => file' = file
      /\ Flushed => file' = file
  BY FileFlushed DEF IInv, Shapes, file
<1>2. CASE LogCall(t) \/ Format(t) \/ Formatted(t) \/ LockLog(t) \/ Trace(t) \/ Destroy(t) \/ Exit(t)
  BY <1>1, <1>2 DEF LogCall, Format, Formatted, LockLog, Trace, Destroy, Exit, sinks
<1>3. CASE Flush(t) \/ UnlockLog(t) \/ FlushAllSound(t)
  BY <1>1, <1>3 DEF Flush, UnlockLog, FlushAllSound
<1>4. CASE ToStderr(t)
  <2>1. /\ Head(lines[t]) = lines[t][1] /\ lines[t][1] \in Lines
        /\ pc[t] = "stderr" /\ pc'[t] = "file" /\ lines'[t] = lines[t] /\ file' = file
    BY <1>1, <1>4, HeadIsLine DEF ToStderr, At, Go, Logging
  <2> QED
    BY <1>4, <2>1 DEF ToStderr
<1>5. CASE Raw(t)
  BY <1>1, <1>5 DEF Raw, At, Go
<1>6. CASE ToFileSound(t)
  <2>1. /\ Head(lines[t]) = lines[t][1] /\ lines[t][1] \in Lines
        /\ pc[t] = "file" /\ lines'[t] = lines[t] /\ stderr' = stderr
    BY <1>1, <1>6, HeadIsLine DEF ToFileSound, At, Logging
  <2>2. CASE UNCHANGED <<buffer, disk>>
    BY <1>1, <2>1, <2>2
  <2>3. CASE buffer' = Append(buffer, Head(lines[t])) /\ Go(t, "flush") /\ UNCHANGED disk
    <3>1. file' = Append(file, lines[t][1])
      BY <2>1, <2>3, FileAppend
    <3> QED
      BY <1>1, <2>1, <2>3, <3>1 DEF Go
  <2> QED
    BY <1>6, <2>2, <2>3 DEF ToFileSound
<1> QED
  BY <1>2, <1>3, <1>4, <1>5, <1>6 DEF Sound

\* A line that is written is not written again.
LEMMA Done ==
  ASSUME IInv, SinksIInv, NEW t \in Threads, Sound(t), pc'[t] \in {"file", "flush"}
  PROVE  /\ lines'[t][1].who = t /\ lines'[t][1].verbosity # OFF
         /\ ~ToCome(t, lines[t][1])'
<1> DEFINE h == lines'[t][1]
<1>1. Mine(t)' /\ logged'[t] \in Nat /\ pc'[t] \in Logging
  BY MineStep, ShapesStep DEF Shapes, Logging
<1>2. \A n \in Nat : \A v \in {FATAL, ERROR, INFO} :
        /\ <<Line(t, n, v)>>[1] = Line(t, n, v) /\ Len(<<Line(t, n, v)>>) # 2
        /\ Line(t, n, v).who = t /\ Line(t, n, v).n = n /\ Line(t, n, v).verbosity = v
        /\ v # OFF
  BY DEF Line, OFF, FATAL, ERROR, INFO
<1>3. CASE /\ ~interrupted'[t] /\ exiting' # t /\ logged'[t] > 0
           /\ \E v \in {ERROR, INFO} : lines'[t] = <<Line(t, logged'[t], v)>>
  <2>1. /\ h.who = t /\ h.n = logged'[t] /\ h.n # 0 /\ ~(h.n > logged'[t])
        /\ h.verbosity # OFF /\ Len(lines'[t]) # 2
    BY <1>1, <1>2, <1>3
  <2> QED
    BY <2>1 DEF ToCome
<1>4. CASE ~interrupted'[t] /\ exiting' = t /\ lines'[t] = <<Line(t, 0, INFO)>>
  <2>1. /\ h.who = t /\ h.n = 0 /\ ~(h.n > logged'[t])
        /\ h.verbosity = INFO /\ Len(lines'[t]) # 2
    BY <1>1, <1>2, <1>4
  <2>2. INFO \notin {OFF, FATAL, ERROR}
    BY DEF OFF, FATAL, ERROR, INFO
  <2> QED
    BY <1>4, <2>1, <2>2 DEF ToCome
<1>5. CASE interrupted'[t] /\ lines'[t] = <<Line(t, 0, FATAL)>>
  <2>1. /\ h.who = t /\ h.n = 0 /\ ~(h.n > logged'[t])
        /\ h.verbosity = FATAL /\ Len(lines'[t]) # 2
    BY <1>1, <1>2, <1>5
  <2>2. FATAL \notin {OFF, INFO}
    BY DEF OFF, FATAL, INFO
  <2> QED
    BY <1>5, <2>1, <2>2 DEF ToCome
<1>6. CASE interrupted'[t] /\ lines'[t] = <<Line(t, 0, ERROR), Line(t, 0, FATAL)>>
  <2>1. h = Line(t, 0, ERROR) /\ lines'[t][2] = Line(t, 0, FATAL)
    BY <1>6
  <2>2. /\ h.who = t /\ h.n = 0 /\ ~(h.n > logged'[t])
        /\ h.verbosity = ERROR /\ lines'[t][2].verbosity = FATAL
    BY <1>1, <1>2, <2>1
  <2>3. ERROR \notin {OFF, INFO, FATAL}
    BY DEF OFF, FATAL, ERROR, INFO
  <2> QED
    BY <1>6, <2>2, <2>3 DEF ToCome
<1> QED
  BY <1>1, <1>3, <1>4, <1>5, <1>6 DEF Mine

-----------------------------------------------------------------------------
LEMMA FreshStep ==
  ASSUME IInv, SinksIInv, NEW t \in Threads, Sound(t), NEW u \in Threads
  PROVE  Fresh(u)'
<1> SUFFICES ASSUME pc'[u] # "down", NEW x \in Lines, ToCome(u, x)'
             PROVE  ~Contains(stderr', x) /\ ~Contains(file', x)
  BY DEF Fresh
<1>1. ~Contains(stderr, x) /\ ~Contains(file, x)
  <2>1. ToCome(u, x)
    BY ToComeStep
  <2>2. pc[u] # "down"
    <3>1. CASE u # t
      BY <3>1, Others
    <3>2. CASE u = t
      BY <3>2 DEF Sound, LogCall, Format, Formatted, LockLog, Trace, ToStderr, ToFileSound,
         Flush, UnlockLog, Raw, FlushAllSound, Destroy, Exit, At
    <3> QED
      BY <3>1, <3>2
  <2> QED
    BY <2>1, <2>2 DEF SinksIInv, Fresh
<1>2. x.who = u
  BY DEF ToCome
<1>3. CASE stderr' = stderr /\ file' = file
  BY <1>1, <1>3
<1>4. CASE /\ pc'[t] \in {"file", "flush"} /\ lines'[t] = lines[t] /\ lines[t][1] \in Lines
           /\ \/ stderr' = Append(stderr, lines[t][1]) /\ file' = file
              \/ stderr' = stderr /\ file' = Append(file, lines[t][1])
  <2>1. x # lines[t][1]
    <3>1. lines[t][1].who = t /\ ~ToCome(t, lines[t][1])'
      BY <1>4, Done
    <3>2. CASE u = t
      <4>1. ~ToCome(u, lines[t][1])'
        BY <3>1, <3>2
      <4> QED
        BY <1>4, <4>1
    <3> QED
      BY <1>2, <3>1, <3>2
  <2>2. stderr \in Seq(Lines) /\ file \in Seq(Lines)
    BY FileLines
  <2>3. CASE stderr' = Append(stderr, lines[t][1]) /\ file' = file
    BY <1>1, <1>4, <2>1, <2>2, <2>3, AppendAdds
  <2>4. CASE stderr' = stderr /\ file' = Append(file, lines[t][1])
    BY <1>1, <1>4, <2>1, <2>2, <2>4, AppendAdds
  <2> QED
    BY <1>4, <2>3, <2>4
<1>5. CASE /\ pc[t] = "raw" /\ pc'[t] = "preflush"
           /\ stderr' = Append(stderr, CaughtSignal(t)) /\ file' = file
  <2>1. x # CaughtSignal(t)
    <3>1. /\ CaughtSignal(t).who = t /\ CaughtSignal(t).n = 0
          /\ CaughtSignal(t).verbosity = OFF /\ OFF \notin {INFO, FATAL, ERROR}
      BY DEF CaughtSignal, Line, OFF, INFO, FATAL, ERROR
    <3>2. u = t => interrupted'[u] /\ logged'[u] \in Nat
      BY <1>5, MineStep, ShapesStep DEF Mine, Shapes
    <3>3. u = t => ~ToCome(u, CaughtSignal(t))'
      <4>1. u = t => ~(0 > logged'[u])
        BY <3>2
      <4> QED
        BY <1>5, <3>1, <3>2, <4>1 DEF ToCome, Logging
    <3> QED
      BY <1>2, <3>1, <3>3
  <2>2. CaughtSignal(t) \in Lines
    BY OwnLines DEF CaughtSignal
  <2> QED
    BY <1>1, <1>5, <2>1, <2>2, AppendAdds, FileLines
<1> QED
  BY <1>3, <1>4, <1>5, Writes

\* s_mutex keeps what other threads log from coming between.
LEMMA BehindStep ==
  ASSUME IInv, SinksIInv, NEW t \in Threads, Sound(t), NEW u \in Threads
  PROVE  Behind(u)'
<1> SUFFICES ASSUME pc'[u] = "file"
             PROVE  /\ ~Contains(file', lines'[u][1])
                    /\ \A i, j \in DOMAIN stderr' :
                         i < j /\ stderr'[i] = lines'[u][1] => stderr'[j].verbosity = OFF
  BY DEF Behind
<1>1. CASE u # t
  <2>1. pc[u] = "file" /\ lines'[u] = lines[u]
    BY <1>1, Others
  <2>2. /\ ~Contains(file, lines[u][1])
        /\ \A i, j \in DOMAIN stderr :
             i < j /\ stderr[i] = lines[u][1] => stderr[j].verbosity = OFF
    BY <2>1 DEF SinksIInv, Behind
  <2>3. pc[t] \notin {"stderr", "file"}
    BY <1>1, <2>1 DEF IInv, Holds, Locked
  <2>4. CASE stderr' = stderr /\ file' = file
    BY <2>1, <2>2, <2>4
  <2>5. CASE stderr' = Append(stderr, CaughtSignal(t)) /\ file' = file
    <3>1. CaughtSignal(t) \in Lines /\ CaughtSignal(t).verbosity = OFF
      BY OwnLines DEF CaughtSignal, Line
    <3>2. ASSUME NEW i \in DOMAIN stderr', NEW j \in DOMAIN stderr',
                 i < j, stderr'[i] = lines[u][1]
          PROVE  stderr'[j].verbosity = OFF
      <4>1. CASE j \notin DOMAIN stderr
        BY <2>5, <3>1, <4>1, FileLines, AppendAdds
      <4>2. CASE j \in DOMAIN stderr
        <5>1. i \in DOMAIN stderr
          BY <2>5, <3>1, <3>2, <4>2, FileLines, AppendAdds
        <5>2. stderr[i] = lines[u][1] /\ stderr'[j] = stderr[j]
          BY <2>5, <3>1, <3>2, <4>2, <5>1, FileLines, AppendAdds
        <5> QED
          BY <2>2, <3>2, <4>2, <5>1, <5>2
      <4> QED
        BY <4>1, <4>2
    <3> QED
      BY <2>1, <2>2, <2>5, <3>2
  <2> QED
    BY <2>3, <2>4, <2>5, Writes
<1>2. CASE u = t
  <2>1. ToStderr(t)
    BY <1>2 DEF IInv, Shapes, Sound, LogCall, Format, Formatted, LockLog, Trace, ToFileSound,
         Flush, UnlockLog, Raw, FlushAllSound, Destroy, Exit, At, Go
  <2>2. /\ pc[t] = "stderr" /\ lines'[t] = lines[t] /\ file' = file
        /\ lines[t][1] \in Lines /\ Head(lines[t]) = lines[t][1]
    BY <2>1, HeadIsLine DEF ToStderr, At, Logging, file
  <2>3. lines[t][1].who = t
    BY <1>2, <2>2, Done
  <2>4. ~Contains(stderr, lines[t][1]) /\ ~Contains(file, lines[t][1])
    BY <2>2, <2>3 DEF SinksIInv, Fresh, ToCome
  <2>5. \A i \in DOMAIN stderr : stderr[i] # lines[t][1]
    BY <2>4, FileLines DEF Contains
  <2>6. CASE stderr' = stderr
    BY <1>2, <2>2, <2>4, <2>5, <2>6
  <2>7. CASE stderr' = Append(stderr, lines[t][1])
    <3>1. \A i, j \in DOMAIN stderr' : i < j => stderr'[i] # lines[t][1]
      <4>1. Len(stderr) \in Nat /\ DOMAIN stderr = 1 .. Len(stderr)
        BY FileLines
      <4>2. DOMAIN stderr' = DOMAIN stderr \cup {Len(stderr) + 1}
        BY <2>2, <2>7, FileLines, AppendAdds
      <4>3. \A i, j \in DOMAIN stderr' : i < j => i \in DOMAIN stderr
        BY <4>1, <4>2
      <4> QED
        BY <2>2, <2>5, <2>7, <4>3, FileLines, AppendAdds
    <3> QED
      BY <1>2, <2>2, <2>4, <3>1
  <2> QED
    BY <2>1, <2>2, <2>6, <2>7 DEF ToStderr
<1> QED
  BY <1>1, <1>2

LEMMA SinksSoundStep ==
  ASSUME IInv, SinksIInv, NEW t \in Threads, Sound(t)
  PROVE  SinksIInv'
<1>1. \A u \in Threads : Mine(u)' /\ Fresh(u)' /\ Behind(u)'
  BY MineStep, FreshStep, BehindStep
<1>2. CASE stderr' = stderr /\ file' = file
  <2>1. FileSound' /\ SinksAgree'
    BY <1>2 DEF SinksIInv, FileSound, SinksAgree
  <2> QED
    BY <1>1, <2>1 DEF SinksIInv
<1>3. CASE /\ pc[t] = "stderr" /\ pc'[t] = "file" /\ lines'[t] = lines[t]
           /\ lines[t][1] \in Lines
           /\ stderr' = Append(stderr, lines[t][1]) /\ file' = file
  <2>1. lines[t][1].who = t
    BY <1>3, Done
  <2>2. ~Contains(file, lines[t][1])
    BY <1>3, <2>1 DEF SinksIInv, Fresh, ToCome
  <2>3. SinksAgree'
    BY <1>3, <2>2, AgreeStderr DEF SinksIInv
  <2>4. FileSound'
    BY <1>3 DEF SinksIInv, FileSound
  <2> QED
    BY <1>1, <2>3, <2>4 DEF SinksIInv
<1>4. CASE stderr' = Append(stderr, CaughtSignal(t)) /\ file' = file
  <2>1. CaughtSignal(t) \in Lines /\ CaughtSignal(t).verbosity = OFF
    BY OwnLines DEF CaughtSignal, Line
  <2>2. ~Contains(file, CaughtSignal(t))
    BY <2>1, FileLines DEF SinksIInv, FileSound, Contains
  <2>3. SinksAgree'
    BY <1>4, <2>1, <2>2, AgreeStderr DEF SinksIInv
  <2>4. FileSound'
    BY <1>4 DEF SinksIInv, FileSound
  <2> QED
    BY <1>1, <2>3, <2>4 DEF SinksIInv
<1>5. CASE /\ pc[t] = "file" /\ pc'[t] = "flush" /\ lines'[t] = lines[t]
           /\ lines[t][1] \in Lines
           /\ stderr' = stderr /\ file' = Append(file, lines[t][1])
  <2>1. lines[t][1].verbosity # OFF
    BY <1>5, Done
  <2>2. /\ ~Contains(file, lines[t][1])
        /\ \A i, j \in DOMAIN stderr :
             i < j /\ stderr[i] = lines[t][1] => stderr[j].verbosity = OFF
    BY <1>5 DEF SinksIInv, Behind
  <2>3. SinksAgree'
    BY <1>5, <2>1, <2>2, AgreeFile DEF SinksIInv
  <2>4. FileSound'
    BY <1>5, <2>1, FileLines, AppendAdds DEF SinksIInv, FileSound
  <2> QED
    BY <1>1, <2>3, <2>4 DEF SinksIInv
<1> QED
  BY <1>2, <1>3, <1>4, <1>5, Writes

\* The end of the process takes lines from the end of the file.
LEMMA SinksDownStep ==
  ASSUME IInv, SinksIInv, Down, disk' = disk \/ disk' = disk \o buffer
  PROVE  SinksIInv'
<1>1. \A u \in Threads : Mine(u)' /\ Fresh(u)' /\ Behind(u)'
  BY DEF Down, Mine, Fresh, Behind, Logging
<1>2. stderr' = stderr /\ \A k \in DOMAIN file' : k \in DOMAIN file /\ file'[k] = file[k]
  BY FileDown DEF Down
<1>3. FileSound'
  BY <1>2 DEF SinksIInv, FileSound
<1>4. SinksAgree'
  BY <1>2 DEF SinksIInv, SinksAgree
<1> QED
  BY <1>1, <1>3, <1>4 DEF SinksIInv

\* An interrupted thread has the lines of its handler to come, and not the rest
\* of the line it was in the middle of.
LEMMA SinksInterruptStep ==
  ASSUME IInv, SinksIInv, NEW t \in Threads, Interrupt(t), ~interrupted[t], pc[t] # "down"
  PROVE  SinksIInv'
<1>1. /\ pc' = [pc EXCEPT ![t] = "raw"]
      /\ interrupted' = [interrupted EXCEPT ![t] = TRUE]
      /\ lines' = [lines EXCEPT ![t] = <<Line(t, 0, FATAL)>>]
      /\ exiting' = exiting /\ logged' = logged
      /\ stderr' = stderr /\ file' = file
  BY DEF Interrupt, Go, sinks, file
<1>2. /\ pc \in [Threads -> Logging \cup {"work", "raw", "preflush", "lastflush", "default",
                                          "destroy", "end", "down"}]
      /\ lines \in [Threads -> Seq(Lines)]
      /\ interrupted \in [Threads -> BOOLEAN]
  BY DEF IInv, Shapes
<1>3. /\ pc'[t] = "raw" /\ interrupted'[t] /\ lines'[t] = <<Line(t, 0, FATAL)>>
      /\ \A u \in Threads \ {t} :
           pc'[u] = pc[u] /\ interrupted'[u] = interrupted[u] /\ lines'[u] = lines[u]
  BY <1>1, <1>2
<1>4. ASSUME NEW u \in Threads PROVE Mine(u)' /\ Fresh(u)' /\ Behind(u)'
  <2>1. Mine(u) /\ Fresh(u) /\ Behind(u)
    BY DEF SinksIInv
  <2>2. CASE u # t
    BY <1>1, <1>3, <2>1, <2>2 DEF Mine, Fresh, Behind, ToCome
  <2>3. CASE u = t
    <3>1. Mine(t)' /\ Behind(t)'
      BY <1>3 DEF Mine, Behind, Logging
    <3>2. \A x \in Lines : ToCome(t, x)' => ToCome(t, x)
      BY <1>1, <1>3 DEF ToCome, Logging
    <3>3. Fresh(t)'
      BY <1>1, <2>1, <2>3, <3>2 DEF Fresh
    <3> QED
      BY <2>3, <3>1, <3>3
  <2> QED
    BY <2>2, <2>3
<1>5. FileSound' /\ SinksAgree'
  BY <1>1 DEF SinksIInv, FileSound, SinksAgree
<1> QED
  BY <1>4, <1>5 DEF SinksIInv

LEMMA SinksFaultStep ==
  ASSUME IInv, SinksIInv, NEW t \in Threads, Fault(t), pc[t] # "down"
  PROVE  SinksIInv'
BY SinksDownStep, SinksInterruptStep DEF Fault

\* The invariant of the sinks holds in every state.
THEOREM SinksInvariance == Spec => []SinksIInv
<1>1. Init => SinksIInv
  <2> SUFFICES ASSUME Init PROVE SinksIInv
    OBVIOUS
  <2>1. file = <<>> /\ stderr = <<>> /\ \A y : ~Contains(<<>>, y)
    BY DEF Init, file, Contains
  <2>2. \A t \in Threads : Mine(t) /\ Fresh(t) /\ Behind(t)
    BY <2>1, LoguruAssumption DEF Init, Mine, Fresh, Behind, Logging
  <2>3. FileSound /\ SinksAgree
    BY <2>1 DEF FileSound, SinksAgree
  <2> QED
    BY <2>2, <2>3 DEF SinksIInv
<1>2. ASSUME IInv, SinksIInv, Next PROVE SinksIInv'
  <2>1. ASSUME NEW t \in Threads, LogCall(t) \/ Step(t) \/ Signal(t) \/ Exit(t) PROVE SinksIInv'
    <3>1. CASE Sound(t)
      BY <1>2, <3>1, SinksSoundStep
    <3>2. CASE ToFile(t)
      <4>1. ToFileSound(t) \/ (Fault(t) /\ pc[t] # "down")
        BY <3>2 DEF ToFile, ToFileSound, sinks, At
      <4> QED
        BY <1>2, <4>1, SinksSoundStep, SinksFaultStep DEF Sound
    <3>3. CASE FlushAll(t)
      <4>1. FlushAllSound(t) \/ (Fault(t) /\ pc[t] # "down")
        BY <3>3 DEF FlushAll, FlushAllSound
      <4> QED
        BY <1>2, <4>1, SinksSoundStep, SinksFaultStep DEF Sound
    <3>4. CASE Default(t)
      BY <1>2, <3>4, SinksDownStep DEF Default
    <3>5. CASE End(t)
      BY <1>2, <3>5, SinksDownStep DEF End, Flushed
    <3>6. CASE Signal(t)
      BY <1>2, <3>6, SinksInterruptStep DEF Signal, up
    <3> QED
      BY <2>1, <3>1, <3>2, <3>3, <3>4, <3>5, <3>6 DEF Step, Sound
  <2>2. CASE Kill
    BY <1>2, <2>2, SinksDownStep DEF Kill
  <2> QED
    BY <1>2, <2>1, <2>2 DEF Next
<1>3. ASSUME SinksIInv, UNCHANGED vars PROVE SinksIInv'
  BY <1>3 DEF vars, settings, sinks, SinksIInv, Mine, Fresh, ToCome, Behind, FileSound,
              SinksAgree, file
<1> QED
  BY <1>1, <1>2, <1>3, Invariance, PTL DEF Spec

\* stderr and the log file have the lines they share in the same order and each of
\* them once: log_message writes to both under s_mutex, and what the handlers of
\* signals cut off or write without it does not come between.
THEOREM SinksInOrder == Spec => []SinksAgree
<1>1. SinksIInv => SinksAgree
  BY DEF SinksIInv
<1> QED
  BY <1>1, SinksInvariance, PTL
=============================================================================

-------------------------------- MODULE Logger --------------------------------
(***************************************************************************)
(* Logger: threads log lines under logMutex; when the file has maxLines    *)
(* lines the thread that wrote the last one rotates the logs.  SIGINT and  *)
(* SIGTERM run signalHandler on any thread, whose std::exit calls          *)
(* shutdown, registered with atexit: it closes the file without taking the *)
(* mutex, while the other threads are still running.                       *)
(*                                                                         *)
(* Lines are numbered in the order they are written to the file; a call of *)
(* log() that finds the pointer null drops its line, which only reaches    *)
(* the standard output.  A write is taken to succeed: fprintf is not       *)
(* looked at.  The process may also end at any point; the next one runs    *)
(* Logger::init on the files it finds.                                     *)
(***************************************************************************)
EXTENDS Integers, Sequences

CONSTANTS
    Threads,
    MaxLines,    \* maxLines
    Faults,      \* std::filesystem can throw, fopen can fail in a rotation
    LineBound,   \* bound on the lines written
    StartBound   \* bound on the starts of the process

VARIABLES
    cur,      \* lines of the log file
    old,      \* lines of the _old file
    logFile,  \* "null", "open", or "closed": the pointer to a FILE already closed
    count,    \* currentLineCount
    holder,   \* the thread that holds logMutex, or "none"
    pc,       \* where each thread is in log()
    exiting,  \* the thread that runs std::exit, or "none"
    shut,     \* shutdown, which std::exit calls: "no", "closing", "closed" or "done"
    written,  \* history: lines written to the file so far
    starts,   \* history: starts of the process
    misused,  \* history: this process used a FILE after it was closed
    dropped,  \* history: this process dropped a line
    broken    \* history: a rotation of this process failed

vars == <<cur, old, logFile, count, holder, pc, exiting, shut, written, starts, misused,
          dropped, broken>>
files == <<cur, old, written>>
process == <<exiting, shut, starts>>
fate == <<dropped, broken>>
-----------------------------------------------------------------------------
(* Variants with a plausible slip: the old log overwritten by nothing, the *)
(* pointer not cleared after the FILE is closed.                           *)

OldLost(lines) == <<>>
StaysBehind == "closed"
-----------------------------------------------------------------------------
\* if (++currentLineCount >= maxLines)
Full(n) == n >= MaxLines

\* currentLineCount as init counts it.
CountOf(lines) == Len(lines)

\* The _old file after the rename of a log with these lines.
Renamed(lines) == lines

\* logFile = nullptr, after the fclose of a rotation.
Cleared == "null"

Running == starts > 0
Runs(t) == Running /\ exiting # t

\* What the use of a FILE that is already closed does to the process: it is
\* undefined, so the process may as well be gone.
UseAfterClose(t) ==
    /\ misused' = TRUE
    /\ pc' = [pc EXCEPT ![t] = "undefined"]
    /\ UNCHANGED <<files, process, fate, logFile, count, holder>>

Init ==
    /\ cur = <<>> /\ old = <<>> /\ logFile = "null" /\ count = 0
    /\ holder = "none" /\ pc = [t \in Threads |-> "idle"]
    /\ exiting = "none" /\ shut = "no" /\ written = 0 /\ starts = 0 /\ misused = FALSE
    /\ dropped = FALSE /\ broken = FALSE

\* Logger::init, in a new process.
Start ==
    /\ starts < StartBound
    /\ starts' = starts + 1
    /\ logFile' = "open" /\ count' = CountOf(cur)
    /\ holder' = "none" /\ pc' = [t \in Threads |-> "idle"] /\ exiting' = "none"
    /\ shut' = "no" /\ misused' = FALSE /\ dropped' = FALSE /\ broken' = FALSE
    /\ UNCHANGED <<cur, old, written>>

\* log() takes the mutex and tests the pointer: nothing is written when it is
\* null, and nobody opens the file again.
Lock(t) ==
    /\ Runs(t) /\ pc[t] = "idle" /\ holder = "none"
    /\ written < LineBound
    /\ holder' = t
    /\ pc' = [pc EXCEPT ![t] = IF logFile = "null" THEN "unlock" ELSE "print"]
    /\ dropped' = (dropped \/ logFile = "null")
    /\ UNCHANGED <<files, process, logFile, count, misused, broken>>

\* fprintf, fflush and the count.  The pointer was tested before: shutdown
\* may have closed the FILE, and cleared the pointer, in between.
PrintLine(t) ==
    /\ Runs(t) /\ pc[t] = "print" /\ logFile = "open"
    /\ cur' = Append(cur, written + 1)
    /\ written' = written + 1 /\ count' = count + 1
    /\ pc' = [pc EXCEPT ![t] = IF Full(count + 1) THEN "close" ELSE "unlock"]
    /\ UNCHANGED <<fate, old, logFile, holder, process, misused>>

PrintClosed(t) ==
    /\ Runs(t) /\ pc[t] = "print" /\ logFile # "open"
    /\ UseAfterClose(t)

\* rotateLogs, first part: the FILE is closed if the pointer is not null.
RotateClose(t) ==
    /\ Runs(t) /\ pc[t] = "close" /\ logFile # "closed"
    /\ logFile' = Cleared
    /\ pc' = [pc EXCEPT ![t] = "remove"]
    /\ UNCHANGED <<fate, files, process, count, holder, misused>>

RotateClosed(t) ==
    /\ Runs(t) /\ pc[t] = "close" /\ logFile = "closed"
    /\ UseAfterClose(t)

RotateRemove(t) ==
    /\ Runs(t) /\ pc[t] = "remove"
    /\ old' = <<>>
    /\ pc' = [pc EXCEPT ![t] = "rename"]
    /\ UNCHANGED <<fate, cur, written, process, logFile, count, holder, misused>>

RotateRename(t) ==
    /\ Runs(t) /\ pc[t] = "rename"
    /\ old' = Renamed(cur) /\ cur' = <<>>
    /\ pc' = [pc EXCEPT ![t] = "open"]
    /\ UNCHANGED <<fate, written, process, logFile, count, holder, misused>>

\* remove or rename throws out of log(): the lock is released, the file stays
\* closed.
RotateThrows(t) ==
    /\ Runs(t) /\ pc[t] \in {"remove", "rename"} /\ Faults
    /\ pc' = [pc EXCEPT ![t] = "unlock"]
    /\ broken' = TRUE
    /\ UNCHANGED <<files, process, logFile, count, holder, misused, dropped>>

RotateOpen(t) ==
    /\ Runs(t) /\ pc[t] = "open"
    /\ \/ logFile' = "open" /\ UNCHANGED broken
       \/ Faults /\ logFile' = "null" /\ broken' = TRUE
    /\ count' = 0
    /\ pc' = [pc EXCEPT ![t] = "unlock"]
    /\ UNCHANGED <<files, process, holder, misused, dropped>>

Unlock(t) ==
    /\ Runs(t) /\ pc[t] = "unlock"
    /\ holder' = "none" /\ pc' = [pc EXCEPT ![t] = "idle"]
    /\ UNCHANGED <<fate, files, process, logFile, count, misused>>

\* A signal is handled on thread t, wherever it is: it never returns there.
SignalHandler(t) ==
    /\ Running /\ exiting = "none"
    /\ exiting' = t
    /\ UNCHANGED <<fate, files, starts, shut, logFile, count, holder, pc, misused>>

\* shutdown, run once by std::exit without the mutex: the test of the
\* pointer, fclose, the assignment of the pointer.
ShutdownTest ==
    /\ exiting # "none" /\ shut = "no"
    /\ shut' = IF logFile = "null" THEN "done" ELSE "closing"
    /\ UNCHANGED <<fate, files, exiting, starts, logFile, count, holder, pc, misused>>

\* A rotation may have closed the FILE since the test.
ShutdownClose ==
    /\ shut = "closing"
    /\ IF logFile = "open"
          THEN shut' = "closed" /\ logFile' = "closed" /\ UNCHANGED misused
          ELSE shut' = "done" /\ misused' = TRUE /\ UNCHANGED logFile
    /\ UNCHANGED <<fate, files, exiting, starts, count, holder, pc>>

ShutdownNull ==
    /\ shut = "closed"
    /\ shut' = "done" /\ logFile' = "null"
    /\ UNCHANGED <<fate, files, exiting, starts, count, holder, pc, misused>>

Next ==
    \/ Start \/ ShutdownTest \/ ShutdownClose \/ ShutdownNull
    \/ \E t \in Threads :
          \/ Lock(t) \/ PrintLine(t) \/ PrintClosed(t) \/ Unlock(t)
          \/ SignalHandler(t) \/ RotateClose(t) \/ RotateClosed(t) \/ RotateRemove(t) \/ RotateRename(t) \/ RotateThrows(t)
          \/ RotateOpen(t)

Spec == Init /\ [][Next]_vars
-----------------------------------------------------------------------------
(* Properties.                                                             *)

\* The log and the old log hold the most recent of the lines that reached the
\* file: together they end with the last one, have no gap and never fewer than
\* maxLines lines (or all there are), through rotations, failures of a
\* rotation, signals and ends of the process at any point.  A line is dropped
\* only after a rotation of this process failed, which loses every later line
\* although src/README.md:348 says that all logs are saved, or once a signal
\* has started the shutdown: no rotation that goes well lets another thread
\* find the pointer it cleared.
RecentLinesKept ==
    LET kept == old \o cur
    IN  /\ \A i \in 1..Len(kept) : kept[i] = written - Len(kept) + i
        /\ Len(kept) >= IF written < MaxLines THEN written ELSE MaxLines
        /\ dropped => broken \/ exiting # "none"

\* A FILE is used after it was closed only once a signal has started the
\* shutdown: no rotation, even one that fails halfway, leaves the pointer to
\* the FILE it closed behind for the next line.
ClosedOnlyByExit == misused => exiting # "none"
===============================================================================

------------------------------ MODULE HttpServer ------------------------------
(***************************************************************************)
(* The life cycle of the plain HTTP Server: run() with its worker threads, *)
(* which share one io_context, the stats thread, the accept loop, and      *)
(* stop() on another thread.  Connections are coroutines of the shared     *)
(* context; what one of them does is the subject of HttpConnection.        *)
(***************************************************************************)
EXTENDS Integers, FiniteSets

CONSTANTS
    Workers,  \* worker threads
    Conns     \* client connections that may arrive

VARIABLES
    runPc,     \* where run() is
    stopPc,    \* where stop() is
    flag,      \* shutdown_flag_
    stats,     \* the stats thread: "none", "sleeping", "ended", "joined"
    workers,   \* each worker thread: "off", "running", "ended"
    guard,     \* work_guard_ is in place
    ioStopped, \* io_.stop() was called
    accept,    \* the accept loop: "off", "accepting", "dead"
    conn,      \* the state of each connection's coroutine
    count      \* connection_count_

vars == <<runPc, stopPc, flag, stats, workers, guard, ioStopped, accept, conn, count>>
-----------------------------------------------------------------------------
(* A variant with a plausible slip: a stats thread that never looks at the *)
(* flag again.                                                             *)

StatsNeverLooks == "sleeping"
-----------------------------------------------------------------------------

\* The stats thread after its ten seconds of sleep.
StatsAfterSleep == IF flag THEN "ended" ELSE "sleeping"

\* connection_count_ at the end of handle_connection.
CountAfter(n) == n - 1

\* stop() finds a thread to join.
Joinable == stats \in {"sleeping", "ended"}

\* A worker may run a handler of the shared context.
MayRun == ~ioStopped /\ \E w \in Workers : workers[w] = "running"

Init ==
    /\ runPc = "idle" /\ stopPc = "idle"
    /\ flag = FALSE /\ stats = "none"
    /\ workers = [w \in Workers |-> "off"]
    /\ guard = TRUE /\ ioStopped = FALSE
    /\ accept = "off"
    /\ conn = [c \in Conns |-> "none"]
    /\ count = 0

RunStart ==
    /\ runPc = "idle"
    /\ runPc' = "started"
    /\ accept' = "accepting"
    /\ workers' = [w \in Workers |-> "running"]
    /\ UNCHANGED <<stopPc, flag, stats, guard, ioStopped, conn, count>>

RunResetFlag ==
    /\ runPc = "started"
    /\ runPc' = "reset"
    /\ flag' = FALSE
    /\ UNCHANGED <<stopPc, stats, workers, guard, ioStopped, accept, conn, count>>

RunStartStats ==
    /\ runPc = "reset"
    /\ runPc' = "joining"
    /\ stats' = StatsAfterSleep
    /\ UNCHANGED <<stopPc, flag, workers, guard, ioStopped, accept, conn, count>>

RunJoin ==
    /\ runPc = "joining"
    /\ \A w \in Workers : workers[w] = "ended"
    /\ runPc' = "returned"
    /\ UNCHANGED <<stopPc, flag, stats, workers, guard, ioStopped, accept, conn, count>>

\* io_.run() returns: stopped, or no work is left.
WorkerEnd(w) ==
    /\ workers[w] = "running"
    /\ \/ ioStopped
       \/ /\ ~guard /\ accept = "dead"
          /\ \A c \in Conns : conn[c] # "active"
    /\ workers' = [workers EXCEPT ![w] = "ended"]
    /\ UNCHANGED <<runPc, stopPc, flag, stats, guard, ioStopped, accept, conn, count>>

\* Ten seconds of sleep are over.
StatsWake ==
    /\ stats = "sleeping"
    /\ stats' = StatsAfterSleep
    /\ UNCHANGED <<runPc, stopPc, flag, workers, guard, ioStopped, accept, conn, count>>

StopSetFlag ==
    /\ stopPc = "idle"
    /\ stopPc' = "flagged"
    /\ flag' = TRUE
    /\ UNCHANGED <<runPc, stats, workers, guard, ioStopped, accept, conn, count>>

StopResetGuard ==
    /\ stopPc = "flagged"
    /\ stopPc' = "released"
    /\ guard' = FALSE
    /\ UNCHANGED <<runPc, flag, stats, workers, ioStopped, accept, conn, count>>

StopIo ==
    /\ stopPc = "released"
    /\ stopPc' = "testing"
    /\ ioStopped' = TRUE
    /\ UNCHANGED <<runPc, flag, stats, workers, guard, accept, conn, count>>

\* if (stats_thread_.joinable())
StopTest ==
    /\ stopPc = "testing"
    /\ stopPc' = IF Joinable THEN "joining" ELSE "returned"
    /\ UNCHANGED <<runPc, flag, stats, workers, guard, ioStopped, accept, conn, count>>

StopJoin ==
    /\ stopPc = "joining" /\ stats = "ended"
    /\ stopPc' = "returned"
    /\ stats' = "joined"
    /\ UNCHANGED <<runPc, flag, workers, guard, ioStopped, accept, conn, count>>

\* accept_loop spawns handle_connection, which counts itself.
Accept(c) ==
    /\ accept = "accepting" /\ MayRun
    /\ conn[c] = "none"
    /\ conn' = [conn EXCEPT ![c] = "active"]
    /\ count' = count + 1
    /\ UNCHANGED <<runPc, stopPc, flag, stats, workers, guard, ioStopped, accept>>

\* async_accept throws and the detached loop is gone.
AcceptThrows ==
    /\ accept = "accepting" /\ MayRun
    /\ accept' = "dead"
    /\ UNCHANGED <<runPc, stopPc, flag, stats, workers, guard, ioStopped, conn, count>>

ConnEnd(c) ==
    /\ conn[c] = "active" /\ MayRun
    /\ conn' = [conn EXCEPT ![c] = "closed"]
    /\ count' = CountAfter(count)
    /\ UNCHANGED <<runPc, stopPc, flag, stats, workers, guard, ioStopped, accept>>

Finished ==
    /\ runPc = "returned" /\ stopPc = "returned"
    /\ UNCHANGED vars

RunThread == RunStart \/ RunResetFlag \/ RunStartStats \/ RunJoin
StopThread == StopResetGuard \/ StopIo \/ StopTest \/ StopJoin

Next ==
    \/ RunThread \/ StopSetFlag \/ StopThread \/ StatsWake \/ AcceptThrows
    \/ \E w \in Workers : WorkerEnd(w)
    \/ \E c \in Conns : Accept(c) \/ ConnEnd(c)
    \/ Finished

Spec == Init /\ [][Next]_vars

\* Every thread keeps running; nobody has to call stop().
Fairness ==
    /\ WF_vars(RunThread) /\ WF_vars(StopThread) /\ WF_vars(StatsWake)
    /\ \A w \in Workers : WF_vars(WorkerEnd(w))

FairSpec == Spec /\ Fairness
-----------------------------------------------------------------------------
(* Properties.                                                             *)

\* The shape of the state; the counter counts the coroutines that are alive.
TypeOK ==
    /\ runPc \in {"idle", "started", "reset", "joining", "returned"}
    /\ stopPc \in {"idle", "flagged", "released", "testing", "joining", "returned"}
    /\ flag \in BOOLEAN /\ guard \in BOOLEAN /\ ioStopped \in BOOLEAN
    /\ stats \in {"none", "sleeping", "ended", "joined"}
    /\ workers \in [Workers -> {"off", "running", "ended"}]
    /\ accept \in {"off", "accepting", "dead"}
    /\ conn \in [Conns -> {"none", "active", "closed"}]
    /\ count = Cardinality({c \in Conns : conn[c] = "active"})

\* Whenever stop() is called, run() returns; stop() returns as well, unless
\* run() was still starting and stored false over the flag, after which the
\* stats thread that stop() joins never ends.
ShutdownCompletes ==
    /\ (stopPc # "idle") ~> (runPc = "returned")
    /\ (flag /\ runPc \notin {"idle", "started"}) ~> (stopPc = "returned")
=============================================================================

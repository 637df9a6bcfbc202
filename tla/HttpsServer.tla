----------------------------- MODULE HttpsServer -----------------------------
(***************************************************************************)
(* The life cycle of an HttpsServer: run() on one thread, stop() on another, *)
(* one io_context and one thread per core, the accept loops, the admission   *)
(* of connections under max_connections_ and the drain of stop().            *)
(*                                                                           *)
(* An io_context is single threaded: a handler of context x runs to its next *)
(* suspension before another handler of x starts (Idle(x)), but its atomic   *)
(* operations interleave with every other thread.  What a connection does    *)
(* while it is active is the subject of HttpsConnection.                     *)
(*                                                                           *)
(* With SO_REUSEPORT every context has an acceptor and serves what it        *)
(* accepts; otherwise context 1 accepts and deals connections out in turn.   *)
(***************************************************************************)
EXTENDS Integers, FiniteSets

CONSTANTS
    N,               \* io_contexts, numbered 1..N
    ReusePort,       \* platform::has_reuse_port()
    Conns,           \* client connections that may arrive
    NoConn,          \* no socket in hand
    MaxConnections,  \* max_connections_
    StopWhileStarting \* stop() may be called before run() has started stats

ASSUME ContextAssumption == N \in Nat \ {0} /\ ReusePort \in BOOLEAN
ASSUME ConnAssumption == IsFiniteSet(Conns) /\ NoConn \notin Conns
ASSUME LimitAssumption == MaxConnections \in Nat /\ StopWhileStarting \in BOOLEAN

Ctxs == 1..N
Acceptors == IF ReusePort THEN Ctxs ELSE {1}

VARIABLES
    runPc,        \* where run() is
    stopPc,       \* where stop() is
    shutdownFlag, \* shutdown_flag_
    shuttingDown, \* shutting_down_
    stats,        \* where the stats thread is
    io,           \* each context's thread: "off", "running" or "ended"
    guards,       \* contexts whose work guard is in place
    stopped,      \* contexts on which io_context::stop() was called
    open,         \* acceptors that are open
    accPc,        \* where each accept loop is
    sock,         \* the socket each accept loop holds
    next,         \* next of accept_and_dispatch
    count,        \* connection_count_
    conn,         \* the state of each connection's coroutine
    home,         \* the context a connection was spawned on (0: none yet)
    drained,      \* the result of the wait in stop()
    silent        \* history: a rejection last took connection_count_ to zero

server == <<runPc, stopPc, shutdownFlag, shuttingDown, stats, guards, stopped, open, drained>>
traffic == <<accPc, sock, next, count, conn, home, silent>>
vars == <<server, io, traffic>>
-----------------------------------------------------------------------------
(* Variants of definitions below, each with a plausible slip: a limit that *)
(* lets one more in, a rejected connection that keeps its slot, a          *)
(* notification without the mutex, a stats loop without end, a context     *)
(* that ends as soon as its work guard is gone.                            *)

LimitOffByOne(prev) == prev > MaxConnections
RejectKeepsSlot(n) == n
NotifyWithoutLock == TRUE
StatsIgnoresFlag == FALSE
OutOfWorkByGuard(x) == x \notin guards
-----------------------------------------------------------------------------
(* Helpers.                                                                *)

\* The connection's coroutine owns a slot: from fetch_add to its guard's end.
Holding == {c \in Conns : conn[c] \in {"spawned", "active"}}

\* An accept loop is inside a handler: between an await and the next.
LoopBusy(x) == x \in Acceptors /\ accPc[x] \in {"check", "passed", "full"}

\* No handler is running on context x.
Idle(x) ==
    /\ ~LoopBusy(x)
    /\ \A c \in Conns : home[c] = x => conn[c] # "notify"

\* The thread of context x may start another handler.
MayRun(x) == io[x] = "running" /\ x \notin stopped /\ Idle(x)

\* io_context::run returns: nothing is outstanding.
OutOfWork(x) ==
    /\ x \notin guards
    /\ x \in Acceptors => accPc[x] = "ended"
    /\ \A c \in Conns : home[c] = x => conn[c] \notin {"spawned", "active"}

\* prev >= max_connections_
AtLimit(prev) == prev >= MaxConnections

\* connection_count_ after the fetch_sub of a rejected connection.
Rejected(n) == n - 1

\* connection_count_ after the fetch_sub of release_connection.
Released(n) == n - 1

\* shutdown_mutex_ is free: stop() is not between its predicate and the wait.
MutexFree == stopPc # "falling"

\* worker_begin + (next++ % worker_count), with worker_begin = 0.
Dealt == 1 + (next % N)
-----------------------------------------------------------------------------

Init ==
    /\ runPc = "idle" /\ stopPc = "idle"
    /\ shutdownFlag = FALSE /\ shuttingDown = FALSE
    /\ stats = "none"
    /\ io = [x \in Ctxs |-> "off"]
    /\ guards = Ctxs /\ stopped = {} /\ open = Acceptors
    /\ accPc = [a \in Acceptors |-> "none"]
    /\ sock = [a \in Acceptors |-> NoConn]
    /\ next = 0
    /\ count = 0
    /\ conn = [c \in Conns |-> "none"]
    /\ home = [c \in Conns |-> 0]
    /\ drained = FALSE /\ silent = FALSE

(* run()                                                                   *)

\* The accept loops are spawned and the threads started.
RunStart ==
    /\ runPc = "idle"
    /\ runPc' = "started"
    /\ accPc' = [a \in Acceptors |-> "start"]
    /\ io' = [x \in Ctxs |-> "running"]
    /\ UNCHANGED <<stopPc, shutdownFlag, shuttingDown, stats, guards, stopped, open,
                   drained, sock, next, count, conn, home, silent>>

RunResetFlag ==
    /\ runPc = "started"
    /\ runPc' = "reset"
    /\ shutdownFlag' = FALSE
    /\ UNCHANGED <<stopPc, shuttingDown, stats, guards, stopped, open, drained, io, traffic>>

RunStartStats ==
    /\ runPc = "reset"
    /\ runPc' = "joining"
    /\ stats' = "check"
    /\ UNCHANGED <<stopPc, shutdownFlag, shuttingDown, guards, stopped, open, drained, io, traffic>>

RunJoinThreads ==
    /\ runPc = "joining"
    /\ \A x \in Ctxs : io[x] = "ended"
    /\ runPc' = "joinStats"
    /\ UNCHANGED <<stopPc, shutdownFlag, shuttingDown, stats, guards, stopped, open, drained, io, traffic>>

RunJoinStats ==
    /\ runPc = "joinStats"
    /\ stats = "ended"
    /\ runPc' = "returned"
    /\ UNCHANGED <<stopPc, shutdownFlag, shuttingDown, stats, guards, stopped, open, drained, io, traffic>>

\* The thread of context x leaves io_context::run.
ThreadEnd(x) ==
    /\ io[x] = "running"
    /\ Idle(x)
    /\ x \in stopped \/ OutOfWork(x)
    /\ io' = [io EXCEPT ![x] = "ended"]
    /\ UNCHANGED <<server, traffic>>

(* The stats thread; it holds stats_mutex_ in "check" only.                *)

StatsStep(from, to) ==
    /\ stats = from
    /\ stats' = to
    /\ UNCHANGED <<runPc, stopPc, shutdownFlag, shuttingDown, guards, stopped, open, drained, io, traffic>>

\* while (!shutdown_flag_)
StatsEnds == shutdownFlag

StatsCheck == StatsStep("check", IF StatsEnds THEN "ended" ELSE "waiting")

\* A notification or the end of the ten seconds; the predicate is evaluated.
StatsWake == StatsStep("waiting", IF StatsEnds THEN "ended" ELSE "logging")

StatsLog == StatsStep("logging", "check")

(* stop()                                                                  *)

\* stop() moves on with only stopPc and what the caller of StopStep assigns.
StopStep(from, to) == stopPc = from /\ stopPc' = to

StopSetFlag ==
    /\ StopWhileStarting \/ runPc \in {"joining", "joinStats"}
    /\ StopStep("idle", "flagged")
    /\ shutdownFlag' = TRUE
    /\ UNCHANGED <<runPc, shuttingDown, stats, guards, stopped, open, drained, io, traffic>>

StopSetShuttingDown ==
    /\ StopStep("flagged", "notifying")
    /\ shuttingDown' = TRUE
    /\ UNCHANGED <<runPc, shutdownFlag, stats, guards, stopped, open, drained, io, traffic>>

\* Waits for stats_mutex_; the stats thread wakes by StatsWake.
StopNotifyStats ==
    /\ stats # "check"
    /\ StopStep("notifying", "closing")
    /\ UNCHANGED <<runPc, shutdownFlag, shuttingDown, stats, guards, stopped, open, drained, io, traffic>>

StopCloseAcceptor(a) ==
    /\ stopPc = "closing" /\ a \in open
    /\ open' = open \ {a}
    /\ stopPc' = IF open' = {} THEN "releasing" ELSE "closing"
    /\ UNCHANGED <<runPc, shutdownFlag, shuttingDown, stats, guards, stopped, drained, io, traffic>>

StopResetGuard(x) ==
    /\ stopPc = "releasing" /\ x \in guards
    /\ guards' = guards \ {x}
    /\ stopPc' = IF guards' = {} THEN "checking" ELSE "releasing"
    /\ UNCHANGED <<runPc, shutdownFlag, shuttingDown, stats, stopped, open, drained, io, traffic>>

\* The predicate of wait_for, under shutdown_mutex_.
StopCheck ==
    /\ StopStep("checking", IF count = 0 THEN "halting" ELSE "falling")
    /\ drained' = (count = 0)
    /\ UNCHANGED <<runPc, shutdownFlag, shuttingDown, stats, guards, stopped, open, io, traffic>>

\* The wait itself gives the mutex back.
StopFallAsleep ==
    /\ StopStep("falling", "asleep")
    /\ UNCHANGED <<runPc, shutdownFlag, shuttingDown, stats, guards, stopped, open, drained, io, traffic>>

\* Ten seconds are over: one last look at the predicate.
StopTimeout ==
    /\ StopStep("asleep", "halting")
    /\ drained' = (count = 0)
    /\ UNCHANGED <<runPc, shutdownFlag, shuttingDown, stats, guards, stopped, open, io, traffic>>

StopIo(x) ==
    /\ stopPc = "halting" /\ x \notin stopped
    /\ stopped' = stopped \cup {x}
    /\ stopPc' = IF stopped' = Ctxs THEN "returned" ELSE "halting"
    /\ UNCHANGED <<runPc, shutdownFlag, shuttingDown, stats, guards, open, drained, io, traffic>>

(* The accept loops: accept_loop, accept_and_dispatch.                     *)

\* The coroutine starts on its context's thread.
LoopStart(a) ==
    /\ accPc[a] = "start" /\ MayRun(a)
    /\ accPc' = [accPc EXCEPT ![a] = "check"]
    /\ UNCHANGED <<server, io, sock, next, count, conn, home, silent>>

\* The test of shutting_down_, then async_accept.
LoopCheck(a) ==
    /\ accPc[a] = "check"
    /\ accPc' = [accPc EXCEPT ![a] = IF shuttingDown THEN "ended" ELSE "pending"]
    /\ UNCHANGED <<server, io, sock, next, count, conn, home, silent>>

\* The kernel completes the accept; its handler waits for the thread.
Arrive(a, c) ==
    /\ accPc[a] = "pending" /\ a \in open
    /\ conn[c] = "none"
    /\ accPc' = [accPc EXCEPT ![a] = "ready"]
    /\ sock' = [sock EXCEPT ![a] = c]
    /\ conn' = [conn EXCEPT ![c] = "accepted"]
    /\ UNCHANGED <<server, io, next, count, home, silent>>

\* async_accept fails: on a closed acceptor, or with an error the loop logs.
AcceptError(a) ==
    /\ accPc[a] = "pending" /\ MayRun(a)
    /\ accPc' = [accPc EXCEPT ![a] =
                   IF a \notin open \/ shuttingDown THEN "ended" ELSE "check"]
    /\ UNCHANGED <<server, io, sock, next, count, conn, home, silent>>

\* fetch_add, and the comparison with the limit.
LoopCount(a) ==
    /\ accPc[a] = "ready" /\ MayRun(a)
    /\ count' = count + 1
    /\ accPc' = [accPc EXCEPT ![a] = IF AtLimit(count) THEN "full" ELSE "passed"]
    /\ UNCHANGED <<server, io, sock, next, conn, home, silent>>

\* The limit is reached: fetch_sub with no notification, and close.
LoopReject(a) ==
    /\ accPc[a] = "full"
    /\ count' = Rejected(count)
    /\ silent' = (count' = 0)
    /\ conn' = [conn EXCEPT ![sock[a]] = "closed"]
    /\ sock' = [sock EXCEPT ![a] = NoConn]
    /\ accPc' = [accPc EXCEPT ![a] = "check"]
    /\ UNCHANGED <<server, io, next, home>>

\* co_spawn of handle_connection.
LoopSpawn(a) ==
    /\ accPc[a] = "passed"
    /\ LET x == IF ReusePort THEN a ELSE Dealt IN
         home' = [home EXCEPT ![sock[a]] = x]
    /\ next' = IF ReusePort THEN next ELSE (next + 1) % N
    /\ conn' = [conn EXCEPT ![sock[a]] = "spawned"]
    /\ sock' = [sock EXCEPT ![a] = NoConn]
    /\ accPc' = [accPc EXCEPT ![a] = "check"]
    /\ UNCHANGED <<server, io, count, silent>>

(* Connections.                                                            *)

\* handle_connection starts: the ConnectionGuard is built.
ConnStart(c) ==
    /\ conn[c] = "spawned" /\ MayRun(home[c])
    /\ conn' = [conn EXCEPT ![c] = "active"]
    /\ UNCHANGED <<server, io, accPc, sock, next, count, home, silent>>

\* The coroutine ends: release_connection, first half.
ConnRelease(c) ==
    /\ conn[c] = "active" /\ MayRun(home[c])
    /\ count' = Released(count)
    /\ silent' = FALSE
    /\ conn' = [conn EXCEPT ![c] = IF count = 1 THEN "notify" ELSE "closed"]
    /\ UNCHANGED <<server, io, accPc, sock, next, home>>

\* Second half: notify_all under shutdown_mutex_ wakes a stop() that sleeps.
ConnNotify(c) ==
    /\ conn[c] = "notify" /\ MutexFree
    /\ conn' = [conn EXCEPT ![c] = "closed"]
    /\ stopPc' = IF stopPc = "asleep" THEN "checking" ELSE stopPc
    /\ UNCHANGED <<runPc, shutdownFlag, shuttingDown, stats, guards, stopped, open,
                   drained, io, accPc, sock, next, count, home, silent>>

\* run() and stop() have both returned.
Finished ==
    /\ runPc = "returned" /\ stopPc = "returned"
    /\ UNCHANGED vars

RunThread == RunStart \/ RunResetFlag \/ RunStartStats \/ RunJoinThreads \/ RunJoinStats
StatsThread == StatsCheck \/ StatsWake \/ StatsLog
StopThread ==
    \/ StopSetShuttingDown \/ StopNotifyStats \/ StopCheck \/ StopFallAsleep \/ StopTimeout
    \/ \E a \in Acceptors : StopCloseAcceptor(a)
    \/ \E x \in Ctxs : StopResetGuard(x) \/ StopIo(x)
Loop(a) ==
    \/ LoopStart(a) \/ LoopCheck(a) \/ AcceptError(a)
    \/ LoopCount(a) \/ LoopReject(a) \/ LoopSpawn(a)

Next ==
    \/ RunThread \/ StatsThread \/ StopSetFlag \/ StopThread
    \/ \E x \in Ctxs : ThreadEnd(x)
    \/ \E a \in Acceptors : Loop(a) \/ \E c \in Conns : Arrive(a, c)
    \/ \E c \in Conns : ConnStart(c) \/ ConnRelease(c) \/ ConnNotify(c)
    \/ Finished

Spec == Init /\ [][Next]_vars

\* Every thread keeps running; time-outs fire; nobody has to call stop(), no
\* client has to arrive and no connection has to end.  Strong for the lock of
\* stats_mutex_, which is free for ten seconds in every round of the loop.
Fairness ==
    /\ WF_vars(RunThread) /\ WF_vars(StatsThread)
    /\ WF_vars(StopThread) /\ SF_vars(StopNotifyStats)
    /\ \A x \in Ctxs : WF_vars(ThreadEnd(x))
    /\ \A a \in Acceptors : WF_vars(LoopReject(a)) /\ WF_vars(LoopSpawn(a)) /\ WF_vars(LoopCheck(a))
    /\ \A c \in Conns : WF_vars(ConnStart(c)) /\ WF_vars(ConnNotify(c))

FairSpec == Spec /\ Fairness
-----------------------------------------------------------------------------
(* Properties.                                                             *)

\* The shape of the state but for connection_count_.
Shape ==
    /\ runPc \in {"idle", "started", "reset", "joining", "joinStats", "returned"}
    /\ stopPc \in {"idle", "flagged", "notifying", "closing", "releasing",
                   "checking", "falling", "asleep", "halting", "returned"}
    /\ shutdownFlag \in BOOLEAN /\ shuttingDown \in BOOLEAN /\ drained \in BOOLEAN /\ silent \in BOOLEAN
    /\ stats \in {"none", "check", "waiting", "logging", "ended"}
    /\ io \in [Ctxs -> {"off", "running", "ended"}]
    /\ guards \subseteq Ctxs /\ stopped \subseteq Ctxs /\ open \subseteq Acceptors
    /\ accPc \in [Acceptors -> {"none", "start", "check", "pending", "ready",
                                "passed", "full", "ended"}]
    /\ sock \in [Acceptors -> Conns \cup {NoConn}]
    /\ next \in 0..(N - 1)
    /\ conn \in [Conns -> {"none", "accepted", "spawned", "active", "notify", "closed"}]
    /\ home \in [Conns -> 0..N]

\* The shape of the state; connection_count_ stays between zero and the
\* limit plus one transient increment for each accept loop.
TypeOK == Shape /\ count \in 0..(MaxConnections + N)

\* The connections that were let in: being served, or about to be spawned.
Inside == Holding \cup {sock[a] : a \in {b \in Acceptors : accPc[b] = "passed"}}

\* The connections that are being turned away.
Refusing == {sock[a] : a \in {b \in Acceptors : accPc[b] = "full"}}

\* However the loops' fetch_add, compare and fetch_sub interleave, never
\* more than max_connections_ connections are let in.
AdmittedWithinLimit == Cardinality(Inside) <= MaxConnections

\* The accept loops on connection_count_ implement a Gate: a connection is
\* inside from the fetch_add that let it pass to the fetch_sub of its guard,
\* and is refused only while max_connections_ others are inside or being
\* refused.  A slot that leaked would shrink the server for good.
Admission == INSTANCE Gate WITH
    Clients <- Conns,
    Limit <- MaxConnections,
    inside <- Inside,
    refusing <- Refusing
AdmissionIsGate == Admission!Spec

\* A connection is spawned on a context whose thread will run it: the thread
\* does not leave run() before stop() forces it to.  Without SO_REUSEPORT the
\* accepting context may still deal a connection out to another one whose
\* work guard stop() has removed, and whose thread has left.
NoStranded ==
    \A c \in Conns : conn[c] = "spawned" =>
        \/ io[home[c]] = "running" \/ home[c] \in stopped
        \/ ~ReusePort /\ home[c] \notin guards

\* stop() does not sleep through the end of the last connection: while it
\* sleeps with nothing left to wait for, a notification is on its way, or it
\* was the fetch_sub of a rejected connection, which notifies nobody, that
\* took the count to zero.
PromptDrain ==
    stopPc = "asleep" /\ count = 0 => silent \/ \E c \in Conns : conn[c] = "notify"

\* README, "Shutting down": "Acceptors are closed - no new connections" and
\* stop() "returns after all in-flight connections complete (up to 10 s)".
\* When the wait was not cut short, nothing is being served any more.
GracefulDrain == stopPc = "returned" /\ drained => Holding = {}

\* README, "Shutting down": after stop() the worker threads are joined.
\* Whenever stop() is called, it returns and run() has joined the workers;
\* run() then returns as well, unless it was still starting and stored false
\* over the flag: its stats thread never sees that stop().
ShutdownCompletes ==
    /\ (stopPc # "idle") ~> (stopPc = "returned" /\ runPc \in {"joinStats", "returned"})
    /\ (shutdownFlag /\ runPc \notin {"idle", "started"}) ~> (runPc = "returned")

=============================================================================

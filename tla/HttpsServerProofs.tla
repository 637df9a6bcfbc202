-------------------------- MODULE HttpsServerProofs --------------------------
(***************************************************************************)
(* Proofs about HttpsServer for every number of contexts and clients, every *)
(* limit, with and without SO_REUSEPORT, and for a stop() at any moment.    *)
(*                                                                         *)
(* The heart is Accounting: connection_count_ is the number of connections *)
(* that are inside or being refused.  It needs Sockets, that each accept   *)
(* loop holds a socket of its own between an accept and the decision about *)
(* it.  NoStranded needs Threads, which says why a thread may have left.   *)
(***************************************************************************)
EXTENDS HttpsServer, FiniteSetTheorems, TLAPS

USE ContextAssumption, ConnAssumption, LimitAssumption

\* Connections that a fetch_add has counted and no fetch_sub has yet.
Occupying == Inside \cup Refusing

\* An accept loop holds a socket from the accept to the decision about it,
\* and no two loops hold the same one.
Deciding(a) == accPc[a] \in {"ready", "passed", "full"}

Sockets ==
    /\ \A a \in Acceptors : Deciding(a) => sock[a] \in Conns /\ conn[sock[a]] = "accepted"
    /\ \A a, b \in Acceptors : Deciding(a) /\ Deciding(b) /\ sock[a] = sock[b] => a = b

\* connection_count_ is exact, and the limit holds.
Accounting == count = Cardinality(Occupying) /\ Cardinality(Inside) <= MaxConnections

\* A connection that was spawned has a context.
Homes == \A c \in Conns : conn[c] \in {"spawned", "active", "notify"} => home[c] \in Ctxs

\* Before run() nothing runs; afterwards a thread is only gone when its
\* context was stopped, or has neither a work guard nor an accept loop.
Threads ==
    /\ runPc = "idle" => \A a \in Acceptors : accPc[a] = "none"
    /\ runPc # "idle" => \A x \in Ctxs :
          \/ io[x] = "running"
          \/ x \in stopped
          \/ x \notin guards /\ (x \in Acceptors => accPc[x] = "ended")

\* What PromptDrain says, already from the moment stop() has decided to sleep.
Awake ==
    stopPc \in {"falling", "asleep"} /\ count = 0
        => silent \/ \E c \in Conns : conn[c] = "notify"

IInv == Shape /\ Sockets /\ Accounting /\ Homes /\ Threads /\ Awake /\ NoStranded
-----------------------------------------------------------------------------
(* The steps, by what they do to the traffic.                              *)

LoopStep(a) == LoopStart(a) \/ LoopCheck(a) \/ AcceptError(a)

\* Most steps leave the traffic alone.
LEMMA NextCases ==
    ASSUME [Next]_vars
    PROVE  \/ UNCHANGED traffic
           \/ RunStart
           \/ \E a \in Acceptors :
                 \/ LoopStep(a) \/ LoopCount(a) \/ LoopReject(a) \/ LoopSpawn(a)
                 \/ \E c \in Conns : Arrive(a, c)
           \/ \E c \in Conns : ConnStart(c) \/ ConnRelease(c) \/ ConnNotify(c)
<1>1. RunThread => RunStart \/ UNCHANGED traffic
  BY DEF RunThread, RunResetFlag, RunStartStats, RunJoinThreads, RunJoinStats, traffic
<1>2. StatsThread \/ StopSetFlag \/ StopThread => UNCHANGED traffic
  BY DEF StatsThread, StatsCheck, StatsWake, StatsLog, StatsStep, StopSetFlag, StopThread,
         StopSetShuttingDown, StopNotifyStats, StopCheck, StopFallAsleep, StopTimeout,
         StopCloseAcceptor, StopResetGuard, StopIo, traffic
<1>3. (\E x \in Ctxs : ThreadEnd(x)) \/ Finished \/ UNCHANGED vars => UNCHANGED traffic
  BY DEF ThreadEnd, Finished, vars, traffic
<1> QED
  BY <1>1, <1>2, <1>3 DEF Next, Loop, LoopStep

\* Every step keeps the shape.
LEMMA ShapeInv == Shape /\ [Next]_vars => Shape'
<1> SUFFICES ASSUME Shape, [Next]_vars PROVE Shape'
  OBVIOUS
<1>1. CASE RunThread
  <2>1. CASE RunStart
    BY <2>1 DEF Shape, RunStart
  <2>2. CASE RunResetFlag
    BY <2>2 DEF Shape, RunResetFlag, traffic
  <2>3. CASE RunStartStats
    BY <2>3 DEF Shape, RunStartStats, traffic
  <2>4. CASE RunJoinThreads
    BY <2>4 DEF Shape, RunJoinThreads, traffic
  <2>5. CASE RunJoinStats
    BY <2>5 DEF Shape, RunJoinStats, traffic
  <2> QED
    BY <1>1, <2>1, <2>2, <2>3, <2>4, <2>5 DEF RunThread
<1>2. CASE StatsThread
  BY <1>2 DEF Shape, StatsThread, StatsCheck, StatsWake, StatsLog, StatsStep, traffic
<1>3. CASE StopSetFlag \/ StopThread
  <2>1. CASE StopSetFlag
    BY <2>1 DEF Shape, StopSetFlag, StopStep, traffic
  <2>6. CASE StopSetShuttingDown
    BY <2>6 DEF Shape, StopStep, StopSetShuttingDown, traffic
  <2>7. CASE StopNotifyStats \/ StopFallAsleep
    BY <2>7 DEF Shape, StopStep, StopNotifyStats, StopFallAsleep, traffic
  <2>2. CASE StopCheck
    BY <2>2 DEF Shape, StopStep, StopCheck, traffic
  <2>8. CASE StopTimeout
    BY <2>8 DEF Shape, StopStep, StopTimeout, traffic
  <2>3. ASSUME NEW a \in Acceptors, StopCloseAcceptor(a) PROVE Shape'
    BY <2>3 DEF Shape, StopCloseAcceptor, traffic
  <2>4. ASSUME NEW x \in Ctxs, StopResetGuard(x) PROVE Shape'
    BY <2>4 DEF Shape, StopResetGuard, traffic
  <2>5. ASSUME NEW x \in Ctxs, StopIo(x) PROVE Shape'
    BY <2>5 DEF Shape, StopIo, traffic
  <2> QED
    BY <1>3, <2>1, <2>2, <2>3, <2>4, <2>5, <2>6, <2>7, <2>8 DEF StopThread
<1>4. ASSUME NEW x \in Ctxs, ThreadEnd(x) PROVE Shape'
  BY <1>4 DEF Shape, ThreadEnd, server, traffic
<1>5. ASSUME NEW a \in Acceptors, LoopStart(a) \/ LoopCheck(a) \/ AcceptError(a) \/ LoopCount(a)
      PROVE  Shape'
  <2>1. CASE LoopStart(a)
    BY <2>1 DEF Shape, LoopStart, server
  <2>2. CASE LoopCheck(a)
    BY <2>2 DEF Shape, LoopCheck, server
  <2>3. CASE AcceptError(a)
    BY <2>3 DEF Shape, AcceptError, server
  <2>4. CASE LoopCount(a)
    BY <2>4 DEF Shape, LoopCount, server
  <2> QED
    BY <1>5, <2>1, <2>2, <2>3, <2>4
<1>6. ASSUME NEW a \in Acceptors, LoopReject(a) PROVE Shape'
  <2>1. /\ silent' = (count' = 0)
        /\ conn' = [conn EXCEPT ![sock[a]] = "closed"]
        /\ sock' = [sock EXCEPT ![a] = NoConn]
        /\ accPc' = [accPc EXCEPT ![a] = "check"]
        /\ UNCHANGED <<server, io, next, home>>
    BY <1>6 DEF LoopReject
  <2>2. conn' \in [Conns -> {"none", "accepted", "spawned", "active", "notify", "closed"}]
    BY <2>1 DEF Shape
  <2>3. sock' \in [Acceptors -> Conns \cup {NoConn}]
    BY <2>1 DEF Shape
  <2>4. accPc' \in [Acceptors -> {"none", "start", "check", "pending", "ready",
                                 "passed", "full", "ended"}]
    BY <2>1 DEF Shape
  <2>5. silent' \in BOOLEAN /\ UNCHANGED <<server, io, next, home>>
    BY <2>1
  <2> QED
    BY <2>2, <2>3, <2>4, <2>5 DEF Shape, server
<1>7. ASSUME NEW a \in Acceptors, LoopSpawn(a) PROVE Shape'
  <2>1. Dealt \in 1..N /\ (next + 1) % N \in 0..(N - 1)
    BY DEF Shape, Dealt
  <2>2. a \in 1..N
    BY DEF Acceptors, Ctxs
  <2>3. next' \in 0..(N - 1)
    BY <1>7, <2>1 DEF Shape, LoopSpawn
  <2>4. home' \in [Conns -> 0..N]
    <3> DEFINE x == IF ReusePort THEN a ELSE Dealt
    <3>1. x \in 0..N
      BY <2>1, <2>2
    <3>2. home' = [home EXCEPT ![sock[a]] = x]
      BY <1>7 DEF LoopSpawn
    <3> QED
      BY <3>1, <3>2 DEF Shape
  <2> QED
    BY <1>7, <2>3, <2>4 DEF Shape, LoopSpawn, server
<1>8. ASSUME NEW a \in Acceptors, NEW c \in Conns, Arrive(a, c) PROVE Shape'
  BY <1>8 DEF Shape, Arrive, server
<1>9. ASSUME NEW c \in Conns, ConnStart(c) \/ ConnRelease(c) \/ ConnNotify(c) PROVE Shape'
  <2>1. CASE ConnStart(c)
    BY <2>1 DEF Shape, ConnStart, server
  <2>2. CASE ConnRelease(c)
    <3>1. /\ silent' = FALSE
          /\ conn' = [conn EXCEPT ![c] = IF count = 1 THEN "notify" ELSE "closed"]
          /\ UNCHANGED <<server, io, accPc, sock, next, home>>
      BY <2>2 DEF ConnRelease
    <3>2. conn' \in [Conns -> {"none", "accepted", "spawned", "active", "notify", "closed"}]
      BY <3>1 DEF Shape
    <3>3. silent' \in BOOLEAN /\ UNCHANGED <<server, io, accPc, sock, next, home>>
      BY <3>1
    <3> QED
      BY <3>2, <3>3 DEF Shape, server
  <2>3. CASE ConnNotify(c)
    BY <2>3 DEF Shape, ConnNotify
  <2> QED
    BY <1>9, <2>1, <2>2, <2>3
<1>10. CASE Finished \/ UNCHANGED vars
  BY <1>10 DEF Shape, Finished, vars, server, traffic
<1> QED
  BY <1>1, <1>2, <1>3, <1>4, <1>5, <1>6, <1>7, <1>8, <1>9, <1>10 DEF Next, Loop
-----------------------------------------------------------------------------
(* Sockets and the count.                                                  *)

\* No two accept loops get hold of one socket.
LEMMA SocketsInv ==
    ASSUME Shape, Sockets, [Next]_vars
    PROVE  Sockets'
<1>1. CASE UNCHANGED traffic
  BY <1>1 DEF Sockets, Deciding, traffic
<1>2. CASE RunStart
  BY <1>2 DEF Sockets, Deciding, RunStart
<1>3. ASSUME NEW a \in Acceptors, LoopStep(a) PROVE Sockets'
  <2>1. sock' = sock /\ conn' = conn /\ \A b \in Acceptors : Deciding(b)' => Deciding(b)
    BY <1>3 DEF Shape, Deciding, LoopStep, LoopStart, LoopCheck, AcceptError
  <2> QED
    BY <2>1 DEF Sockets
<1>4. ASSUME NEW a \in Acceptors, LoopCount(a) PROVE Sockets'
  <2>1. sock' = sock /\ conn' = conn /\ \A b \in Acceptors : Deciding(b)' => Deciding(b)
    BY <1>4 DEF Shape, Deciding, LoopCount
  <2> QED
    BY <2>1 DEF Sockets
<1>5. ASSUME NEW a \in Acceptors, LoopReject(a) \/ LoopSpawn(a) PROVE Sockets'
  <2>1. Deciding(a) /\ ~Deciding(a)'
    BY <1>5 DEF Shape, Deciding, LoopReject, LoopSpawn
  <2>2. \A b \in Acceptors \ {a} : (Deciding(b)' <=> Deciding(b)) /\ sock'[b] = sock[b]
    BY <1>5 DEF Shape, Deciding, LoopReject, LoopSpawn
  <2>3. \A c \in Conns \ {sock[a]} : conn'[c] = conn[c]
    BY <1>5 DEF Shape, LoopReject, LoopSpawn
  <2> QED
    BY <2>1, <2>2, <2>3 DEF Sockets
<1>6. ASSUME NEW a \in Acceptors, NEW c \in Conns, Arrive(a, c) PROVE Sockets'
  <2>1. ~Deciding(a) /\ sock'[a] = c /\ conn[c] = "none" /\ conn'[c] = "accepted"
    BY <1>6 DEF Shape, Deciding, Arrive
  <2>2. \A b \in Acceptors \ {a} : (Deciding(b)' <=> Deciding(b)) /\ sock'[b] = sock[b]
    BY <1>6 DEF Shape, Deciding, Arrive
  <2>3. \A d \in Conns \ {c} : conn'[d] = conn[d]
    BY <1>6 DEF Shape, Arrive
  <2> QED
    BY <2>1, <2>2, <2>3 DEF Sockets
<1>7. ASSUME NEW c \in Conns, ConnStart(c) \/ ConnRelease(c) \/ ConnNotify(c) PROVE Sockets'
  <2>1. sock' = sock /\ accPc' = accPc /\ conn[c] # "accepted"
    BY <1>7 DEF ConnStart, ConnRelease, ConnNotify
  <2>2. \A d \in Conns \ {c} : conn'[d] = conn[d]
    BY <1>7 DEF Shape, ConnStart, ConnRelease, ConnNotify
  <2> QED
    BY <2>1, <2>2 DEF Sockets, Deciding
<1> QED
  BY <1>1, <1>2, <1>3, <1>4, <1>5, <1>6, <1>7, NextCases

\* The connections that count are connections; nobody is let in and refused.
LEMMA Disjoint ==
    ASSUME Shape, Sockets
    PROVE  /\ Inside \subseteq Conns /\ Refusing \subseteq Conns
           /\ Inside \cap Refusing = {}
  BY DEF Shape, Sockets, Deciding, Inside, Refusing, Holding

\* What a step does to the connections that count, and to the counter.
Counted(c) ==
    /\ c \in Conns \ Occupying /\ count' = count + 1
    /\ \/ ~AtLimit(count) /\ Inside' = Inside \cup {c} /\ Refusing' = Refusing
       \/ AtLimit(count) /\ Inside' = Inside /\ Refusing' = Refusing \cup {c}
TurnedAway(c) ==
    /\ c \in Refusing /\ count' = count - 1
    /\ Inside' = Inside /\ Refusing' = Refusing \ {c}
Left(c) ==
    /\ c \in Inside /\ count' = count - 1
    /\ Inside' = Inside \ {c} /\ Refusing' = Refusing
Same == count' = count /\ Inside' = Inside /\ Refusing' = Refusing

\* Every step counts one connection in, or one out, or leaves all as it is.
LEMMA Effect ==
    ASSUME Shape, Sockets, Threads, [Next]_vars
    PROVE  Same \/ \E c \in Conns : Counted(c) \/ TurnedAway(c) \/ Left(c)
<1>1. CASE UNCHANGED traffic
  BY <1>1 DEF Same, Inside, Refusing, Holding, traffic
<1>2. CASE RunStart
  <2>1. \A a \in Acceptors : accPc[a] = "none" /\ accPc'[a] = "start"
    BY <1>2 DEF RunStart, Threads
  <2> QED
    BY <1>2, <2>1 DEF RunStart, Same, Inside, Refusing, Holding
<1>3. ASSUME NEW a \in Acceptors, LoopStep(a) PROVE Same
  <2>1. /\ {b \in Acceptors : accPc'[b] = "passed"} = {b \in Acceptors : accPc[b] = "passed"}
        /\ {b \in Acceptors : accPc'[b] = "full"} = {b \in Acceptors : accPc[b] = "full"}
    BY <1>3 DEF Shape, LoopStep, LoopStart, LoopCheck, AcceptError
  <2>2. sock' = sock /\ conn' = conn /\ count' = count
    BY <1>3 DEF LoopStep, LoopStart, LoopCheck, AcceptError
  <2> QED
    BY <2>1, <2>2 DEF Same, Inside, Refusing, Holding
<1>4. ASSUME NEW a \in Acceptors, LoopCount(a) PROVE Counted(sock[a])
  <2>1. sock' = sock /\ conn' = conn /\ count' = count + 1 /\ accPc[a] = "ready"
    BY <1>4 DEF LoopCount
  <2>2. \A b \in Acceptors \ {a} : accPc'[b] = accPc[b]
    BY <1>4 DEF LoopCount, Shape
  <2>3. accPc'[a] = IF AtLimit(count) THEN "full" ELSE "passed"
    BY <1>4 DEF LoopCount, Shape
  <2>4. sock[a] \in Conns \ Occupying
    BY <2>1 DEF Sockets, Deciding, Occupying, Inside, Refusing, Holding
  <2>5. CASE AtLimit(count)
    BY <2>1, <2>2, <2>3, <2>4, <2>5 DEF Counted, Inside, Refusing, Holding
  <2>6. CASE ~AtLimit(count)
    BY <2>1, <2>2, <2>3, <2>4, <2>6 DEF Counted, Inside, Refusing, Holding
  <2> QED
    BY <2>5, <2>6
<1>5. ASSUME NEW a \in Acceptors, LoopReject(a) PROVE TurnedAway(sock[a])
  <2>1. accPc[a] = "full" /\ accPc'[a] = "check" /\ count' = count - 1
    BY <1>5 DEF LoopReject, Rejected, Shape
  <2>2. \A b \in Acceptors \ {a} : accPc'[b] = accPc[b] /\ sock'[b] = sock[b]
    BY <1>5 DEF LoopReject, Shape
  <2>3. \A b \in Acceptors \ {a} : Deciding(b) => sock[b] # sock[a]
    BY <2>1 DEF Sockets, Deciding
  <2>4. \A c \in Conns : conn'[c] = IF c = sock[a] THEN "closed" ELSE conn[c]
    BY <1>5 DEF LoopReject, Shape
  <2>5. sock[a] \in Conns /\ conn[sock[a]] = "accepted"
    BY <2>1 DEF Sockets, Deciding
  <2>6. Holding' = Holding
    BY <2>4, <2>5 DEF Holding
  <2> QED
    BY <2>1, <2>2, <2>3, <2>6 DEF TurnedAway, Inside, Refusing, Deciding
<1>6. ASSUME NEW a \in Acceptors, LoopSpawn(a) PROVE Same
  <2>1. accPc[a] = "passed" /\ accPc'[a] = "check" /\ count' = count
    BY <1>6 DEF LoopSpawn, Shape
  <2>2. \A b \in Acceptors \ {a} : accPc'[b] = accPc[b] /\ sock'[b] = sock[b]
    BY <1>6 DEF LoopSpawn, Shape
  <2>4. \A c \in Conns : conn'[c] = IF c = sock[a] THEN "spawned" ELSE conn[c]
    BY <1>6 DEF LoopSpawn, Shape
  <2>5. sock[a] \in Conns
    BY <2>1 DEF Sockets, Deciding
  <2>6. Holding' = Holding \cup {sock[a]}
    BY <2>4, <2>5 DEF Holding
  <2> QED
    BY <2>1, <2>2, <2>6 DEF Same, Inside, Refusing
<1>7. ASSUME NEW a \in Acceptors, NEW c \in Conns, Arrive(a, c) PROVE Same
  <2>1. accPc[a] = "pending" /\ accPc'[a] = "ready"
    BY <1>7 DEF Shape, Arrive
  <2>3. \A b \in Acceptors \ {a} : accPc'[b] = accPc[b] /\ sock'[b] = sock[b]
    BY <1>7 DEF Shape, Arrive
  <2>2. Holding' = Holding /\ count' = count
    BY <1>7 DEF Shape, Arrive, Holding
  <2> QED
    BY <2>1, <2>2, <2>3 DEF Same, Inside, Refusing
<1>8. ASSUME NEW c \in Conns, ConnStart(c) \/ ConnNotify(c) PROVE Same
  <2>1. Holding' = Holding /\ count' = count /\ accPc' = accPc /\ sock' = sock
    BY <1>8 DEF Shape, ConnStart, ConnNotify, Holding
  <2> QED
    BY <2>1 DEF Same, Inside, Refusing
<1>9. ASSUME NEW c \in Conns, ConnRelease(c) PROVE Left(c)
  <2>1. Holding' = Holding \ {c} /\ c \in Holding
    BY <1>9 DEF Shape, ConnRelease, Holding
  <2>2. count' = count - 1 /\ accPc' = accPc /\ sock' = sock
    BY <1>9 DEF ConnRelease, Released
  <2>3. \A a \in Acceptors : Deciding(a) => sock[a] # c
    BY <2>1 DEF Sockets, Holding
  <2> QED
    BY <2>1, <2>2, <2>3 DEF Left, Inside, Refusing, Deciding
<1>10. \A a \in Acceptors : LoopCount(a) \/ LoopReject(a) => sock[a] \in Conns
  BY DEF LoopCount, LoopReject, Sockets, Deciding
<1> QED
  BY <1>1, <1>2, <1>3, <1>4, <1>5, <1>6, <1>7, <1>8, <1>9, <1>10, NextCases

\* The counter stays exact, and the limit is kept.
LEMMA AccountingInv ==
    ASSUME Shape, Sockets, Threads, Accounting, [Next]_vars
    PROVE  Accounting'
<1>1. /\ Inside \subseteq Conns /\ Refusing \subseteq Conns /\ Inside \cap Refusing = {}
      /\ Occupying = Inside \cup Refusing
  BY Disjoint DEF Occupying
<1>2. IsFiniteSet(Inside) /\ IsFiniteSet(Occupying)
  BY <1>1, FS_Subset
<1>3. /\ Cardinality(Inside) \in Nat /\ Cardinality(Occupying) \in Nat
      /\ Cardinality(Inside) <= Cardinality(Occupying)
  BY <1>1, <1>2, FS_CardinalityType, FS_Subset
<1>4. CASE Same
  BY <1>4 DEF Same, Accounting, Occupying
<1>5. ASSUME NEW c \in Conns, Counted(c) PROVE Accounting'
  <2>1. Occupying' = Occupying \cup {c} /\ c \notin Occupying
    BY <1>5 DEF Counted, Occupying
  <2>2. Cardinality(Occupying') = Cardinality(Occupying) + 1
    BY <2>1, <1>2, FS_AddElement
  <2>3. CASE AtLimit(count)
    BY <1>5, <2>2, <2>3 DEF Counted, Accounting
  <2>4. CASE ~AtLimit(count)
    <3>1. Inside' = Inside \cup {c} /\ c \notin Inside
      BY <1>5, <2>4 DEF Counted, Occupying
    <3>2. Cardinality(Inside') = Cardinality(Inside) + 1
      BY <3>1, <1>2, FS_AddElement
    <3> QED
      BY <1>3, <1>5, <2>2, <2>4, <3>2 DEF Counted, Accounting, AtLimit
  <2> QED
    BY <2>3, <2>4
<1>6. ASSUME NEW c \in Conns, TurnedAway(c) PROVE Accounting'
  <2>1. Occupying' = Occupying \ {c} /\ c \in Occupying
    BY <1>1, <1>6 DEF TurnedAway, Occupying
  <2>2. Cardinality(Occupying') = Cardinality(Occupying) - 1
    BY <2>1, <1>2, FS_RemoveElement
  <2> QED
    BY <1>6, <2>2 DEF TurnedAway, Accounting
<1>7. ASSUME NEW c \in Conns, Left(c) PROVE Accounting'
  <2>1. Occupying' = Occupying \ {c} /\ c \in Occupying
    BY <1>1, <1>7 DEF Left, Occupying
  <2>2. Cardinality(Occupying') = Cardinality(Occupying) - 1
    BY <2>1, <1>2, FS_RemoveElement
  <2>3. Cardinality(Inside') = Cardinality(Inside) - 1
    BY <1>7, <1>2, FS_RemoveElement DEF Left
  <2> QED
    BY <1>3, <1>7, <2>2, <2>3 DEF Left, Accounting
<1> QED
  BY <1>4, <1>5, <1>6, <1>7, Effect

-----------------------------------------------------------------------------
(* Threads, homes and notifications.                                       *)

\* A spawned connection is at home on one of the contexts.
LEMMA HomesInv ==
    ASSUME Shape, Homes, [Next]_vars
    PROVE  Homes'
<1>1. CASE UNCHANGED traffic
  BY <1>1 DEF Homes, traffic
<1>2. CASE RunStart
  BY <1>2 DEF Homes, RunStart
<1>3. ASSUME NEW a \in Acceptors, LoopStep(a) \/ LoopCount(a) PROVE Homes'
  BY <1>3 DEF Homes, LoopStep, LoopStart, LoopCheck, AcceptError, LoopCount
<1>4. ASSUME NEW a \in Acceptors, LoopReject(a) PROVE Homes'
  BY <1>4 DEF Shape, Homes, LoopReject
<1>5. ASSUME NEW a \in Acceptors, LoopSpawn(a) PROVE Homes'
  <2> DEFINE x == IF ReusePort THEN a ELSE Dealt
  <2>1. x \in Ctxs
    BY DEF Shape, Dealt, Ctxs, Acceptors
  <2>2. home' = [home EXCEPT ![sock[a]] = x] /\ conn' = [conn EXCEPT ![sock[a]] = "spawned"]
    BY <1>5 DEF LoopSpawn
  <2> QED
    BY <2>1, <2>2 DEF Shape, Homes
<1>6. ASSUME NEW a \in Acceptors, NEW c \in Conns, Arrive(a, c) PROVE Homes'
  BY <1>6 DEF Shape, Homes, Arrive
<1>7. ASSUME NEW c \in Conns, ConnStart(c) \/ ConnRelease(c) \/ ConnNotify(c) PROVE Homes'
  BY <1>7 DEF Shape, Homes, ConnStart, ConnRelease, ConnNotify
<1> QED
  BY <1>1, <1>2, <1>3, <1>4, <1>5, <1>6, <1>7, NextCases

\* A thread leaves only a context that was stopped or has nothing to do: no
\* step gives such a context a guard or an accept loop again.
LEMMA ThreadsInv ==
    ASSUME Shape, Threads, [Next]_vars
    PROVE  Threads'
<1>1. CASE RunStart
  BY <1>1 DEF Threads, RunStart
<1>2. CASE UNCHANGED <<runPc, io, guards, stopped, accPc>>
  BY <1>2 DEF Threads
<1>3. CASE RunResetFlag \/ RunStartStats \/ RunJoinThreads \/ RunJoinStats
  BY <1>3 DEF Threads, RunResetFlag, RunStartStats, RunJoinThreads, RunJoinStats, traffic
<1>4. ASSUME NEW x \in Ctxs, ThreadEnd(x) PROVE Threads'
  <2>1. x \in stopped \/ OutOfWork(x)
    BY <1>4 DEF ThreadEnd
  <2>2. \A y \in Ctxs \ {x} : io'[y] = io[y]
    BY <1>4 DEF ThreadEnd, Shape
  <2>3. UNCHANGED <<runPc, guards, stopped, accPc>>
    BY <1>4 DEF ThreadEnd, server, traffic
  <2> QED
    BY <2>1, <2>2, <2>3 DEF Threads, OutOfWork
<1>5. ASSUME NEW x \in Ctxs, StopResetGuard(x) \/ StopIo(x) PROVE Threads'
  BY <1>5 DEF Threads, StopResetGuard, StopIo, traffic
<1>6. ASSUME NEW a \in Acceptors, Loop(a) PROVE Threads'
  <2>1. accPc[a] \notin {"none", "ended"} /\ UNCHANGED <<runPc, io, guards, stopped>>
    BY <1>6 DEF Loop, LoopStart, LoopCheck, AcceptError, LoopCount, LoopReject, LoopSpawn, server
  <2>2. \A b \in Acceptors \ {a} : accPc'[b] = accPc[b]
    BY <1>6 DEF Shape, Loop, LoopStart, LoopCheck, AcceptError, LoopCount, LoopReject, LoopSpawn
  <2> QED
    BY <2>1, <2>2 DEF Threads
<1>7. ASSUME NEW a \in Acceptors, NEW c \in Conns, Arrive(a, c) PROVE Threads'
  <2>1. accPc[a] \notin {"none", "ended"} /\ UNCHANGED <<runPc, io, guards, stopped>>
    BY <1>7 DEF Arrive, server
  <2>2. \A b \in Acceptors \ {a} : accPc'[b] = accPc[b]
    BY <1>7 DEF Shape, Arrive
  <2> QED
    BY <2>1, <2>2 DEF Threads
<1>8. StatsThread \/ StopSetFlag => UNCHANGED <<runPc, io, guards, stopped, accPc>>
  BY DEF StatsThread, StatsCheck, StatsWake, StatsLog, StatsStep, StopSetFlag, traffic
<1>9. StopThread => \/ UNCHANGED <<runPc, io, guards, stopped, accPc>>
                    \/ \E x \in Ctxs : StopResetGuard(x) \/ StopIo(x)
  BY DEF StopThread, StopSetShuttingDown, StopNotifyStats, StopCheck, StopFallAsleep,
         StopTimeout, StopCloseAcceptor, traffic
<1>10. ASSUME NEW c \in Conns, ConnStart(c) \/ ConnRelease(c) \/ ConnNotify(c)
       PROVE  UNCHANGED <<runPc, io, guards, stopped, accPc>>
  BY <1>10 DEF ConnStart, ConnRelease, ConnNotify, server
<1>11. Finished \/ UNCHANGED vars => UNCHANGED <<runPc, io, guards, stopped, accPc>>
  BY DEF Finished, vars, server, traffic
<1> QED
  BY <1>1, <1>2, <1>3, <1>4, <1>5, <1>6, <1>7, <1>8, <1>9, <1>10, <1>11 DEF Next, RunThread

\* A sleeping stop() is not left behind by the step that empties the server:
\* release_connection notifies under the mutex that stop() gave back.
LEMMA AwakeInv ==
    ASSUME Shape, Sockets, count \in Nat, Awake, [Next]_vars
    PROVE  Awake'
<1> DEFINE kept == <<stopPc, count, conn, silent>>
<1>1. CASE UNCHANGED kept
  BY <1>1 DEF Awake
<1>2. CASE StopThread \/ StopSetFlag
  <2>1. UNCHANGED <<count, conn, silent>>
    BY <1>2 DEF StopThread, StopSetFlag, StopSetShuttingDown, StopNotifyStats, StopCheck,
           StopFallAsleep, StopTimeout, StopCloseAcceptor, StopResetGuard, StopIo, traffic
  <2>2. stopPc' \in {"falling", "asleep"} => count # 0 \/ stopPc = "falling"
    BY <1>2 DEF StopThread, StopSetFlag, StopSetShuttingDown, StopNotifyStats, StopCheck,
           StopFallAsleep, StopTimeout, StopCloseAcceptor, StopResetGuard, StopIo, StopStep
  <2> QED
    BY <2>1, <2>2 DEF Awake
<1>3. ASSUME NEW a \in Acceptors, LoopCount(a) PROVE Awake'
  BY <1>3 DEF Awake, LoopCount
<1>4. ASSUME NEW a \in Acceptors, LoopReject(a) PROVE Awake'
  BY <1>4 DEF Awake, LoopReject
<1>5. ASSUME NEW a \in Acceptors, LoopSpawn(a) PROVE Awake'
  <2>1. sock[a] \in Conns /\ conn[sock[a]] = "accepted"
    BY <1>5 DEF Sockets, Deciding, LoopSpawn
  <2>2. \A c \in Conns \ {sock[a]} : conn'[c] = conn[c]
    BY <1>5 DEF Shape, LoopSpawn
  <2>3. UNCHANGED <<stopPc, count, silent>>
    BY <1>5 DEF LoopSpawn, server
  <2> QED
    BY <2>1, <2>2, <2>3 DEF Awake
<1>6. ASSUME NEW a \in Acceptors, NEW c \in Conns, Arrive(a, c) PROVE Awake'
  <2>1. conn[c] = "none" /\ \A d \in Conns \ {c} : conn'[d] = conn[d]
    BY <1>6 DEF Shape, Arrive
  <2>2. UNCHANGED <<stopPc, count, silent>>
    BY <1>6 DEF Arrive, server
  <2> QED
    BY <2>1, <2>2 DEF Awake
<1>7. ASSUME NEW c \in Conns, ConnStart(c) PROVE Awake'
  <2>1. conn[c] = "spawned" /\ \A d \in Conns \ {c} : conn'[d] = conn[d]
    BY <1>7 DEF Shape, ConnStart
  <2>2. UNCHANGED <<stopPc, count, silent>>
    BY <1>7 DEF ConnStart, server
  <2> QED
    BY <2>1, <2>2 DEF Awake
<1>8. ASSUME NEW c \in Conns, ConnRelease(c) PROVE Awake'
  <2>1. count' = count - 1 /\ (count = 1 => conn'[c] = "notify")
    BY <1>8 DEF Shape, ConnRelease, Released
  <2> QED
    BY <2>1 DEF Awake
<1>9. ASSUME NEW c \in Conns, ConnNotify(c) PROVE Awake'
  BY <1>9 DEF Awake, ConnNotify, MutexFree
<1>10. RunThread \/ StatsThread => UNCHANGED kept
  BY DEF RunThread, RunStart, RunResetFlag, RunStartStats, RunJoinThreads, RunJoinStats,
         StatsThread, StatsCheck, StatsWake, StatsLog, StatsStep, traffic
<1>11. (\E x \in Ctxs : ThreadEnd(x)) \/ Finished \/ UNCHANGED vars => UNCHANGED kept
  BY DEF ThreadEnd, Finished, vars, server, traffic
<1>12. ASSUME NEW a \in Acceptors, LoopStart(a) \/ LoopCheck(a) \/ AcceptError(a)
       PROVE  UNCHANGED kept
  BY <1>12 DEF LoopStart, LoopCheck, AcceptError, server
<1> QED
  BY <1>1, <1>2, <1>3, <1>4, <1>5, <1>6, <1>7, <1>8, <1>9, <1>10, <1>11, <1>12 DEF Next, Loop

\* A thread does not leave its context while a connection waits to start.
LEMMA NoStrandedInv ==
    ASSUME Shape, Sockets, Homes, Threads, NoStranded, [Next]_vars
    PROVE  NoStranded'
<1> DEFINE kept == <<io, stopped, guards>>
<1>1. ASSUME UNCHANGED kept, UNCHANGED home,
             \A c \in Conns : conn'[c] = "spawned" => conn[c] = "spawned"
      PROVE  NoStranded'
  BY <1>1 DEF NoStranded
<1>2. CASE RunStart
  <2>1. \A x \in Ctxs : io'[x] = "running"
    BY <1>2 DEF RunStart
  <2>2. conn' = conn /\ home' = home
    BY <1>2 DEF RunStart
  <2> QED
    BY <2>1, <2>2 DEF NoStranded, Homes
<1>3. ASSUME NEW x \in Ctxs, ThreadEnd(x) PROVE NoStranded'
  <2>1. /\ x \in stopped \/ \A c \in Conns : home[c] = x => conn[c] # "spawned"
        /\ UNCHANGED <<stopped, guards, conn, home>>
    BY <1>3 DEF ThreadEnd, OutOfWork, server, traffic
  <2>2. \A y \in Ctxs \ {x} : io'[y] = io[y]
    BY <1>3 DEF ThreadEnd, Shape
  <2> QED
    BY <2>1, <2>2 DEF NoStranded, Homes
<1>4. ASSUME NEW x \in Ctxs, StopResetGuard(x) \/ StopIo(x) PROVE NoStranded'
  BY <1>4 DEF NoStranded, StopResetGuard, StopIo, traffic
<1>5. ASSUME NEW a \in Acceptors, LoopSpawn(a) PROVE NoStranded'
  <2> DEFINE x == IF ReusePort THEN a ELSE Dealt
  <2>1. x \in Ctxs
    BY DEF Shape, Dealt, Ctxs, Acceptors
  <2>2. /\ home' = [home EXCEPT ![sock[a]] = x] /\ conn' = [conn EXCEPT ![sock[a]] = "spawned"]
        /\ accPc[a] = "passed" /\ UNCHANGED kept
    BY <1>5 DEF LoopSpawn, server
  <2>3. sock[a] \in Conns
    BY <2>2 DEF Sockets, Deciding
  <2>4. io[x] = "running" \/ x \in stopped \/ (~ReusePort /\ x \notin guards)
    BY <2>1, <2>2 DEF Threads
  <2>5. home'[sock[a]] = x /\ \A c \in Conns \ {sock[a]} : home'[c] = home[c] /\ conn'[c] = conn[c]
    BY <2>2, <2>3 DEF Shape
  <2> QED
    BY <2>2, <2>4, <2>5 DEF NoStranded
<1>6. RunResetFlag \/ RunStartStats \/ RunJoinThreads \/ RunJoinStats \/ StatsThread
        => UNCHANGED kept /\ UNCHANGED <<home, conn>>
  BY DEF RunResetFlag, RunStartStats, RunJoinThreads, RunJoinStats,
         StatsThread, StatsCheck, StatsWake, StatsLog, StatsStep, traffic
<1>7. StopSetFlag \/ StopThread
        => \/ UNCHANGED kept /\ UNCHANGED <<home, conn>>
           \/ \E x \in Ctxs : StopResetGuard(x) \/ StopIo(x)
  BY DEF StopSetFlag, StopThread, StopSetShuttingDown, StopNotifyStats, StopCheck, StopFallAsleep,
         StopTimeout, StopCloseAcceptor, traffic
<1>8. Finished \/ UNCHANGED vars => UNCHANGED kept /\ UNCHANGED <<home, conn>>
  BY DEF Finished, vars, server, traffic
<1>9. ASSUME NEW a \in Acceptors, LoopStep(a) \/ LoopCount(a)
      PROVE  UNCHANGED kept /\ UNCHANGED <<home, conn>>
  BY <1>9 DEF LoopStep, LoopStart, LoopCheck, AcceptError, LoopCount, server
<1>10. ASSUME NEW a \in Acceptors, LoopReject(a) PROVE NoStranded'
  BY <1>1, <1>10 DEF Shape, LoopReject, server
<1>11. ASSUME NEW a \in Acceptors, NEW c \in Conns, Arrive(a, c) PROVE NoStranded'
  BY <1>1, <1>11 DEF Shape, Arrive, server
<1>12. ASSUME NEW c \in Conns, ConnStart(c) \/ ConnRelease(c) \/ ConnNotify(c) PROVE NoStranded'
  BY <1>1, <1>12 DEF Shape, ConnStart, ConnRelease, ConnNotify, server
<1> QED
  BY <1>1, <1>2, <1>3, <1>4, <1>5, <1>6, <1>7, <1>8, <1>9, <1>10, <1>11, <1>12
     DEF Next, RunThread, Loop, LoopStep
-----------------------------------------------------------------------------
(* The invariant and what follows from it.                                 *)

LEMMA InitInv == Init => IInv
<1> SUFFICES ASSUME Init PROVE IInv
  OBVIOUS
<1>1. Shape
  <2>1. accPc \in [Acceptors -> {"none", "start", "check", "pending", "ready",
                                "passed", "full", "ended"}]
    BY DEF Init
  <2>2. conn \in [Conns -> {"none", "accepted", "spawned", "active", "notify", "closed"}]
    BY DEF Init
  <2>3. io \in [Ctxs -> {"off", "running", "ended"}] /\ home \in [Conns -> 0..N]
    BY DEF Init
  <2>4. sock \in [Acceptors -> Conns \cup {NoConn}] /\ next \in 0..(N - 1)
    BY DEF Init
  <2> QED
    BY <2>1, <2>2, <2>3, <2>4 DEF Init, Shape
<1>2. Sockets /\ Homes /\ Threads /\ Awake /\ NoStranded
  BY DEF Init, Sockets, Deciding, Homes, Threads, Awake, NoStranded
<1>3. Inside = {} /\ Refusing = {}
  BY DEF Init, Inside, Refusing, Holding
<1>4. Accounting
  BY <1>3, FS_EmptySet DEF Init, Accounting, Occupying
<1> QED
  BY <1>1, <1>2, <1>4 DEF IInv

\* The number of counted connections is a number.
LEMMA CountNat ==
    ASSUME Shape, Sockets, Accounting
    PROVE  /\ count \in Nat /\ IsFiniteSet(Inside) /\ IsFiniteSet(Refusing)
           /\ Cardinality(Inside) \in Nat /\ Cardinality(Refusing) \in Nat
           /\ count = Cardinality(Inside) + Cardinality(Refusing)
<1>1. IsFiniteSet(Inside) /\ IsFiniteSet(Refusing) /\ Inside \cap Refusing = {}
  BY Disjoint, FS_Subset
<1>2. Cardinality(Inside) \in Nat /\ Cardinality(Refusing) \in Nat
  BY <1>1, FS_CardinalityType
<1>3. Cardinality(Inside \cup Refusing) = Cardinality(Inside) + Cardinality(Refusing)
  <2>1. Cardinality(Inside \cap Refusing) = 0
    BY <1>1, FS_EmptySet
  <2>2. Cardinality(Inside \cup Refusing)
          = Cardinality(Inside) + Cardinality(Refusing) - Cardinality(Inside \cap Refusing)
    BY <1>1, FS_Union, Zenon
  <2> QED
    BY <1>2, <2>1, <2>2
<1> QED
  BY <1>1, <1>2, <1>3 DEF Accounting, Occupying

LEMMA NextInv == IInv /\ [Next]_vars => IInv'
  BY ShapeInv, SocketsInv, AccountingInv, HomesInv, ThreadsInv, AwakeInv, NoStrandedInv, CountNat
     DEF IInv

\* The invariant holds in every reachable state of run(), stop() and traffic.
THEOREM Invariance == Spec => []IInv
  BY InitInv, NextInv, PTL DEF Spec

\* An accept loop refuses one connection at a time.
LEMMA RefusingBound ==
    ASSUME Shape, Sockets
    PROVE  Cardinality(Refusing) <= N
<1> DEFINE F == {b \in Acceptors : accPc[b] = "full"}
           f == [b \in F |-> sock[b]]
<1>1. IsFiniteSet(Ctxs) /\ Cardinality(Ctxs) = N /\ F \subseteq Ctxs
  BY FS_Interval DEF Ctxs, Acceptors
<1>2. IsFiniteSet(F) /\ Cardinality(F) <= N /\ Cardinality(F) \in Nat
  BY <1>1, FS_Subset, FS_CardinalityType
<1>3. f \in Surjection(F, Refusing)
  BY DEF Surjection, Refusing
<1>4. IsFiniteSet(Refusing) /\ Cardinality(Refusing) <= Cardinality(F)
  BY <1>2, <1>3, FS_Surjection
<1> QED
  BY <1>2, <1>4, FS_CardinalityType

\* Type correctness: connection_count_ never falls below zero and exceeds the
\* limit by at most the refusals in progress, one for each accept loop.
THEOREM TypeCorrect == Spec => []TypeOK
<1>1. IInv => TypeOK
  <2> SUFFICES ASSUME IInv PROVE TypeOK
    OBVIOUS
  <2>1. Shape /\ Sockets /\ Accounting
    BY DEF IInv
  <2> QED
    BY <2>1, CountNat, RefusingBound DEF TypeOK, Accounting
<1> QED
  BY <1>1, Invariance, PTL

\* Never more than max_connections_ connections are let in.
THEOREM LimitKept == Spec => []AdmittedWithinLimit
<1>1. IInv => AdmittedWithinLimit
  BY DEF IInv, Accounting, AdmittedWithinLimit
<1> QED
  BY <1>1, Invariance, PTL

\* No connection is spawned on a context that nobody runs.
THEOREM NobodyStranded == Spec => []NoStranded
<1>1. IInv => NoStranded
  BY DEF IInv
<1> QED
  BY <1>1, Invariance, PTL

\* The end of the last connection wakes a sleeping stop().
THEOREM DrainIsPrompt == Spec => []PromptDrain
<1>1. IInv => PromptDrain
  BY DEF IInv, Awake, PromptDrain
<1> QED
  BY <1>1, Invariance, PTL

\* The accept loops, with their fetch_add, compare and fetch_sub on
\* connection_count_, implement the gate that decides in one step.
THEOREM ImplementsGate == Spec => AdmissionIsGate
<1>1. Init => Admission!Init
  BY DEF Init, Admission!Init, Inside, Refusing, Holding
<1>2. IInv /\ [Next]_vars => [Admission!Next]_<<Inside, Refusing>>
  <2> SUFFICES ASSUME IInv, [Next]_vars PROVE [Admission!Next]_<<Inside, Refusing>>
    OBVIOUS
  <2>1. Shape /\ Sockets /\ Threads /\ Accounting
    BY DEF IInv
  <2>2. AtLimit(count) <=> Admission!Full
    <3>1. Admission!Cardinality(Occupying) = Cardinality(Occupying)
      BY Zenon DEF Admission!Cardinality, Cardinality, Admission!IsFiniteSet, IsFiniteSet
    <3> QED
      BY <2>1, <3>1 DEF Accounting, Occupying, AtLimit, Admission!Full
  <2>3. ASSUME NEW c \in Conns, Counted(c) PROVE Admission!Enter(c) \/ Admission!Refuse(c)
    BY <2>2, <2>3 DEF Counted, Occupying, Admission!Enter, Admission!Refuse
  <2>4. ASSUME NEW c \in Conns, TurnedAway(c) PROVE Admission!TurnAway(c)
    BY <2>4 DEF TurnedAway, Admission!TurnAway
  <2>5. ASSUME NEW c \in Conns, Left(c) PROVE Admission!Leave(c)
    BY <2>5 DEF Left, Admission!Leave
  <2>6. Same => UNCHANGED <<Inside, Refusing>>
    BY DEF Same
  <2> QED
    BY <2>1, <2>3, <2>4, <2>5, <2>6, Effect DEF Admission!Next
<1> QED
  BY <1>1, <1>2, Invariance, PTL DEF Spec, AdmissionIsGate, Admission!Spec
=============================================================================

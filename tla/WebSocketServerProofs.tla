------------------------ MODULE WebSocketServerProofs ------------------------
(***************************************************************************)
(* Proofs about WebSocketServer for any number of connections, any         *)
(* handlers of the manager and any number of spawned coroutines.           *)
(*                                                                         *)
(* Roster needs Registry: a session gets into the manager's vector only by *)
(* add_session, once, and out only by a removal, which moves the last      *)
(* session into the gap (DroppedFacts).  HandlerPrecedence needs Given: the *)
(* handlers a session has before it is registered are those of its route.  *)
(* DiesOnlyBy needs Owners: a session that neither the manager nor a frame *)
(* holds has no coroutine left that could drop the last reference, but for *)
(* the named cases.                                                        *)
(***************************************************************************)
EXTENDS WebSocketServer, FiniteSetTheorems, TLAPS

USE WebSocketAssumption, ManagerAssumption, SocketAssumption

\* What a session's handlers are before and after add_session.
Given ==
    \A c \in Conns :
        /\ pc[c] \in {"none", "reading"} => handlers[c] = NoHandlers
        /\ pc[c] \in {"chosen", "add"} => handlers[c] = FromRoute(route[c])
        /\ pc[c] = "run" => handlers[c] # NoHandlers

Registry ==
    /\ IsInjective(sessions)
    /\ \A c \in Conns : Contains(sessions, c) => Registered(c) /\ c \notin removed
    /\ \A c \in removed : Registered(c)
    /\ ~stopped =>
          /\ count = Len(sessions)
          /\ \A c \in Conns : Registered(c) => Contains(sessions, c) \/ c \in removed

\* Who may hold the last reference to a session while the server runs.
Owners ==
    ~stopped => \A c \in Conns :
        /\ ops[c] <= MaxOps
        /\ pc[c] \in {"none", "reading"} => ops[c] = 0
        /\ pc[c] = "threw" => ops[c] = 0 \/ route[c] # NoRoute
        /\ pc[c] \in {"ended", "escaped"} =>
              ops[c] = 0 \/ Contains(sessions, c) \/ c \in removed

IInv == TypeOK /\ Given /\ Registry /\ HandlerPrecedence /\ Owners /\ DiesOnlyBy /\ CountCoversFrames
-----------------------------------------------------------------------------
(* The manager's vector.                                                   *)

\* push_back of a session that is not in the vector.
LEMMA AddedFacts ==
    ASSUME sessions \in Seq(Conns), IsInjective(sessions),
           NEW c \in Conns, ~Contains(sessions, c)
    PROVE  /\ Added(c) \in Seq(Conns) /\ IsInjective(Added(c))
           /\ \A d \in Conns : Contains(Added(c), d) <=> Contains(sessions, d) \/ d = c
<1> DEFINE n == Len(sessions)
<1>1. /\ n \in Nat /\ Added(c) \in Seq(Conns) /\ Len(Added(c)) = n + 1
      /\ DOMAIN sessions = 1..n /\ DOMAIN Added(c) = 1..(n + 1)
  BY DEF Added
<1>2. Added(c)[n + 1] = c /\ \A i \in 1..n : Added(c)[i] = sessions[i]
  BY DEF Added
<1>3. \A i \in 1..n : sessions[i] # c
  BY DEF Contains
<1>4. IsInjective(Added(c))
  BY <1>1, <1>2, <1>3 DEF IsInjective
<1>5. \A d \in Conns : Contains(Added(c), d) <=> Contains(sessions, d) \/ d = c
  BY <1>1, <1>2 DEF Contains
<1> QED
  BY <1>1, <1>4, <1>5

\* Moving the last session into the gap and popping it takes out exactly the
\* session that is removed.
LEMMA DroppedFacts ==
    ASSUME sessions \in Seq(Conns), IsInjective(sessions),
           NEW c \in Conns, Contains(sessions, c)
    PROVE  /\ Dropped(c) \in Seq(Conns) /\ IsInjective(Dropped(c))
           /\ \A d \in Conns : Contains(Dropped(c), d) <=> Contains(sessions, d) /\ d # c
<1> DEFINE n == Len(sessions)
<1>1. n \in Nat /\ DOMAIN sessions = 1..n
  OBVIOUS
<1>2. PICK i \in 1..n :
          /\ sessions[i] = c
          /\ Dropped(c) = SubSeq([sessions EXCEPT ![i] = Last(sessions)], 1, n - 1)
  BY DEF Contains, Dropped
<1>3. Last(sessions) = sessions[n] /\ sessions[n] \in Conns
  BY <1>1 DEF Last
<1>4. [sessions EXCEPT ![i] = sessions[n]] \in Seq(Conns)
  BY <1>1, <1>3
<1>5. /\ Dropped(c) \in Seq(Conns) /\ Len(Dropped(c)) = n - 1 /\ DOMAIN Dropped(c) = 1..(n - 1)
      /\ \A j \in 1..(n - 1) : Dropped(c)[j] = IF j = i THEN sessions[n] ELSE sessions[j]
  BY <1>1, <1>2, <1>3, <1>4
<1> HIDE DEF n
<1>6. \A j, k \in 1..n : sessions[j] = sessions[k] => j = k
  BY <1>1 DEF IsInjective
<1>7. IsInjective(Dropped(c))
  <2> SUFFICES ASSUME NEW j \in 1..(n - 1), NEW k \in 1..(n - 1), Dropped(c)[j] = Dropped(c)[k]
               PROVE  j = k
    BY <1>5 DEF IsInjective
  <2> QED
    BY <1>1, <1>2, <1>5, <1>6
<1>8. ASSUME NEW d \in Conns, Contains(Dropped(c), d) PROVE Contains(sessions, d) /\ d # c
  <2>1. PICK j \in 1..(n - 1) : Dropped(c)[j] = d
    BY <1>5, <1>8 DEF Contains
  <2>2. CASE j = i
    <3>1. d = sessions[n] /\ n # i /\ n \in 1..n
      BY <1>1, <1>2, <1>5, <2>1, <2>2
    <3> QED
      BY <1>1, <1>2, <1>6, <3>1 DEF Contains, n
  <2>3. CASE j # i
    <3>1. d = sessions[j] /\ j \in 1..n
      BY <1>1, <1>2, <1>5, <2>1, <2>3
    <3> QED
      BY <1>1, <1>2, <1>6, <2>3, <3>1 DEF Contains, n
  <2> QED
    BY <2>2, <2>3
<1>9. ASSUME NEW d \in Conns, Contains(sessions, d), d # c PROVE Contains(Dropped(c), d)
  <2>1. PICK j \in 1..n : sessions[j] = d
    BY <1>9 DEF Contains, n
  <2>2. j # i
    BY <1>2, <1>9, <2>1
  <2>3. CASE j = n
    <3>1. i \in 1..(n - 1) /\ Dropped(c)[i] = d
      BY <1>1, <1>2, <1>5, <2>1, <2>2, <2>3
    <3> QED
      BY <1>5, <3>1 DEF Contains
  <2>4. CASE j # n
    <3>1. j \in 1..(n - 1) /\ Dropped(c)[j] = d
      BY <1>1, <1>2, <1>5, <2>1, <2>2, <2>4
    <3> QED
      BY <1>5, <3>1 DEF Contains
  <2> QED
    BY <2>3, <2>4
<1> QED
  BY <1>5, <1>7, <1>8, <1>9
-----------------------------------------------------------------------------
(* connection_count_.                                                      *)

Counted == {c \in Conns : pc[c] \in InFrame \cup {"threw", "escaped"}}

\* Every step counts one connection in or out, or leaves all as it is.
LEMMA CountInv ==
    ASSUME TypeOK, CountCoversFrames, [Next]_vars
    PROVE  CountCoversFrames' /\ connCount' \in Nat
<1> USE DEF InFrame, HoldsSession
<1>0. CountCoversFrames' <=> connCount' = Cardinality(Counted')
  BY DEF Counted, CountCoversFrames
<1>1. IsFiniteSet(Counted) /\ Cardinality(Counted) \in Nat /\ connCount = Cardinality(Counted)
  <2>1. Counted \subseteq Conns /\ connCount = Cardinality(Counted)
    BY DEF Counted, CountCoversFrames
  <2> QED
    BY <2>1, FS_Subset, FS_CardinalityType
<1>2. ASSUME connCount' = connCount, Counted' = Counted
      PROVE  CountCoversFrames' /\ connCount' \in Nat
  BY <1>1, <1>2 DEF Counted, CountCoversFrames
<1>3. ASSUME NEW c \in Conns, Accept(c) PROVE CountCoversFrames' /\ connCount' \in Nat
  <2>1. connCount' = connCount + 1
    BY <1>3 DEF Accept, Entered
  <2>2. Counted' = Counted \cup {c} /\ c \notin Counted
    BY <1>3 DEF Accept, Counted, TypeOK
  <2>3. Cardinality(Counted \cup {c}) = Cardinality(Counted) + 1
    BY <1>1, <2>2, FS_AddElement
  <2> QED
    BY <1>0, <1>1, <2>1, <2>2, <2>3
<1>4. ASSUME NEW c \in Conns, Refused(c) \/ Leave(c) PROVE CountCoversFrames' /\ connCount' \in Nat
  <2>1. connCount' = connCount - 1
    BY <1>4 DEF Refused, Leave
  <2>2. Counted' = Counted \ {c} /\ c \in Counted
    BY <1>4 DEF Refused, Leave, Counted, TypeOK
  <2>3. Cardinality(Counted \ {c}) = Cardinality(Counted) - 1 /\ Cardinality(Counted \ {c}) \in Nat
    BY <1>1, <2>2, FS_RemoveElement, FS_CardinalityType
  <2> QED
    BY <1>0, <1>1, <2>1, <2>2, <2>3
<1>5. ASSUME NEW c \in Conns, RequestThrows(c) \/ Upgrade(c) \/ OnConnect(c) \/ OnConnectThrows(c)
             \/ AddSession(c) \/ ErrorHandlerThrows(c)
      PROVE  connCount' = connCount /\ Counted' = Counted
  BY <1>5 DEF RequestThrows, Upgrade, OnConnect, OnConnectThrows, AddSession, ErrorHandlerThrows,
              Counted, TypeOK
<1>6. ASSUME NEW c \in Conns, Message(c) \/ OpEnds(c) \/ RemoveSession(c)
      PROVE  connCount' = connCount /\ Counted' = Counted
  BY <1>6 DEF Message, OpEnds, RemoveSession, Counted
<1>7. ASSUME AcceptFails \/ Broadcast \/ Stop \/ Exit \/ UNCHANGED vars
             \/ \E k \in Kinds : SetManagerHandler(k)
      PROVE  connCount' = connCount /\ Counted' = Counted
  BY <1>7 DEF AcceptFails, Broadcast, Stop, Exit, SetManagerHandler, vars, Counted
<1> QED
  BY <1>2, <1>3, <1>4, <1>5, <1>6, <1>7 DEF Next, Closed, Errs

-----------------------------------------------------------------------------
(* The registry of sessions and their handlers.                            *)

\* No step of the registry: the same sessions are registered and listed.
Quiet ==
    /\ UNCHANGED <<sessions, count, removed, stopped>>
    /\ \A c \in Conns : Registered(c)' <=> Registered(c)

LEMMA RegistrySteps ==
    ASSUME TypeOK, Given, Registry, [Next]_vars
    PROVE  \/ Quiet \/ Stop \/ Exit
           \/ \E c \in Conns : AddSession(c) \/ RemoveSession(c)
<1>1. ASSUME NEW c \in Conns, Accept(c) \/ RequestThrows(c) \/ Refused(c)
      PROVE  Quiet
  <2>1. /\ UNCHANGED <<sessions, count, removed, stopped, handlers>>
        /\ pc[c] \in {"none", "reading"} /\ pc'[c] \in {"reading", "threw", "ended"}
        /\ \A d \in Conns \ {c} : pc'[d] = pc[d]
    BY <1>1 DEF Accept, RequestThrows, Refused, TypeOK, session, manager, flags
  <2>2. handlers[c] = NoHandlers
    BY <2>1 DEF Given
  <2> QED
    BY <2>1, <2>2 DEF Quiet, Registered
<1>2. ASSUME NEW c \in Conns, Upgrade(c) \/ OnConnect(c) \/ OnConnectThrows(c)
      PROVE  Quiet
  <2>1. /\ UNCHANGED <<sessions, count, removed, stopped>>
        /\ pc[c] \in {"reading", "chosen"} /\ pc'[c] \in {"chosen", "add", "threw"}
        /\ \A d \in Conns \ {c} : pc'[d] = pc[d] /\ handlers'[d] = handlers[d]
    BY <1>2 DEF Upgrade, OnConnect, OnConnectThrows, TypeOK, manager, flags
  <2> QED
    BY <2>1 DEF Quiet, Registered
<1>3. ASSUME NEW c \in Conns, Leave(c) \/ ErrorHandlerThrows(c) PROVE Quiet
  <2>1. /\ UNCHANGED <<sessions, count, removed, stopped, handlers>>
        /\ pc[c] = "run" /\ pc'[c] \in {"ended", "escaped"}
        /\ \A d \in Conns \ {c} : pc'[d] = pc[d]
    BY <1>3 DEF Leave, ErrorHandlerThrows, TypeOK, manager, flags
  <2>2. handlers[c] # NoHandlers
    BY <2>1 DEF Given
  <2> QED
    BY <2>1, <2>2 DEF Quiet, Registered
<1>4. ASSUME NEW c \in Conns, Message(c) \/ OpEnds(c) PROVE Quiet
  BY <1>4 DEF Message, OpEnds, Quiet, Registered, manager, flags
<1>5. AcceptFails \/ Broadcast \/ UNCHANGED vars => Quiet
  BY DEF AcceptFails, Broadcast, vars, Quiet, Registered, session, manager, flags
<1>6. ASSUME NEW k \in Kinds, SetManagerHandler(k) PROVE Quiet
  <2>1. UNCHANGED <<pc, sessions, count, removed, stopped>>
    BY <1>6 DEF SetManagerHandler, flags
  <2>2. \A d \in Conns : handlers[d] \in [Kinds -> SUBSET Origins]
    BY DEF TypeOK
  <2>3. ASSUME NEW d \in Conns PROVE Registered(d)' <=> Registered(d)
    <3>1. CASE ~Contains(sessions, d)
      <4>1. handlers'[d] = handlers[d]
        BY <1>6, <3>1 DEF SetManagerHandler
      <4> QED
        BY <2>1, <4>1 DEF Registered
    <3>2. CASE Contains(sessions, d)
      <4>1. handlers'[d] = [handlers[d] EXCEPT ![k] = {"manager"}]
        BY <1>6, <3>2 DEF SetManagerHandler
      <4>2. handlers'[d][k] = {"manager"} /\ NoHandlers[k] = {}
        BY <2>2, <4>1 DEF NoHandlers
      <4>3. handlers'[d] # NoHandlers
        BY <4>2
      <4>4. Registered(d)
        BY <3>2 DEF Registry
      <4> QED
        BY <2>1, <4>3, <4>4 DEF Registered
    <3> QED
      BY <3>1, <3>2
  <2> QED
    BY <2>1, <2>3 DEF Quiet
<1> QED
  BY <1>1, <1>2, <1>3, <1>4, <1>5, <1>6 DEF Next, Closed, Errs

\* The vector stays free of duplicates and complete.
LEMMA RegistryInv ==
    ASSUME TypeOK, Given, Registry, [Next]_vars
    PROVE  Registry' /\ sessions' \in Seq(Conns) /\ count' \in Nat
<1>1. CASE Quiet
  <2>1. sessions \in Seq(Conns) /\ count \in Nat /\ removed \subseteq Conns
    BY DEF TypeOK
  <2> QED
    BY <1>1, <2>1 DEF Quiet, Registry
<1>2. CASE Stop
  <2>1. UNCHANGED <<pc, handlers, sessions, removed, count>> /\ stopped'
    BY <1>2 DEF Stop, manager
  <2> QED
    BY <2>1 DEF Registry, Registered, TypeOK
<1>3. CASE Exit
  <2>1. IsInjective(sessions') /\ sessions' \in Seq(Conns) /\ \A c \in Conns : ~Contains(sessions', c)
    BY <1>3 DEF Exit, IsInjective, Contains
  <2>2. stopped' /\ UNCHANGED <<pc, handlers, removed, count>>
    BY <1>3 DEF Exit, session
  <2> QED
    BY <2>1, <2>2 DEF Registry, Registered, TypeOK
<1>4. ASSUME NEW c \in Conns, AddSession(c)
      PROVE  Registry' /\ sessions' \in Seq(Conns) /\ count' \in Nat
  <2>1. /\ pc[c] = "add" /\ pc'[c] = "run"
        /\ \A d \in Conns \ {c} : pc'[d] = pc[d] /\ handlers'[d] = handlers[d]
    BY <1>4 DEF AddSession, TypeOK
  <2>2. ~Contains(sessions, c) /\ c \notin removed
    BY <2>1 DEF Registry, Registered
  <2>3. sessions' = Added(c) /\ count' = Len(sessions') /\ UNCHANGED <<removed, stopped>>
    BY <1>4 DEF AddSession, flags
  <2>4. /\ sessions' \in Seq(Conns) /\ IsInjective(sessions')
        /\ \A d \in Conns : Contains(sessions', d) <=> Contains(sessions, d) \/ d = c
    BY <2>2, <2>3, AddedFacts DEF TypeOK, Registry
  <2>5. removed \subseteq Conns
    BY DEF TypeOK
  <2>6. Registered(c)' /\ \A d \in Conns \ {c} : Registered(d)' <=> Registered(d)
    BY <2>1 DEF Registered
  <2> QED
    BY <2>2, <2>3, <2>4, <2>5, <2>6 DEF Registry
<1>5. ASSUME NEW c \in Conns, RemoveSession(c)
      PROVE  Registry' /\ sessions' \in Seq(Conns) /\ count' \in Nat
  <2>1. /\ Contains(sessions, c) /\ stopped' = stopped
        /\ \A d \in Conns : Registered(d)' <=> Registered(d)
    BY <1>5 DEF RemoveSession, Registered
  <2>2. sessions' = Dropped(c) /\ count' = Len(sessions') /\ removed' = removed \cup {c}
    BY <1>5 DEF RemoveSession
  <2>3. /\ sessions' \in Seq(Conns) /\ IsInjective(sessions')
        /\ \A d \in Conns : Contains(sessions', d) <=> Contains(sessions, d) /\ d # c
    BY <2>1, <2>2, DroppedFacts DEF TypeOK, Registry
  <2>4. removed \subseteq Conns
    BY DEF TypeOK
  <2> QED
    BY <2>1, <2>2, <2>3, <2>4 DEF Registry
<1>6. \/ Quiet \/ Stop \/ Exit
      \/ \E c \in Conns : AddSession(c) \/ RemoveSession(c)
  BY RegistrySteps
<1> QED
  BY <1>1, <1>2, <1>3, <1>4, <1>5, <1>6

\* The handlers of a route and those of a session that is registered are some.
LEMMA SomeHandlers ==
    ASSUME TypeOK, NEW c \in Conns, pc[c] = "add", Given
    PROVE  /\ Overridden(c) # NoHandlers
           /\ Overridden(c) = [k \in Kinds |->
                 IF k \in mgr THEN {"manager"} ELSE FromRoute(route[c])[k]]
<1>1. handlers[c] = FromRoute(route[c])
  BY DEF Given
<1>2. \A k \in Kinds : FromRoute(route[c])[k] # {}
  BY DEF FromRoute, ChosenClose, Chosen
<1>3. Overridden(c) = [k \in Kinds |-> IF k \in mgr THEN {"manager"} ELSE FromRoute(route[c])[k]]
  BY <1>1 DEF Overridden
<1>4. "message" \in Kinds
  BY DEF Kinds
<1>5. NoHandlers["message"] = {}
  BY <1>4 DEF NoHandlers
<1>6. Overridden(c)["message"] # {}
  BY <1>2, <1>3, <1>4
<1>7. Overridden(c) # NoHandlers
  BY <1>5, <1>6
<1> QED
  BY <1>3, <1>7

\* A session keeps its route's handlers until it is registered.
LEMMA GivenInv ==
    ASSUME TypeOK, Given, Registry, [Next]_vars
    PROVE  Given'
<1>1. CASE UNCHANGED <<pc, handlers, route>>
  BY <1>1 DEF Given
<1>2. ASSUME NEW c \in Conns, Accept(c) \/ RequestThrows(c) \/ Refused(c) \/ OnConnect(c)
             \/ OnConnectThrows(c) \/ Leave(c) \/ ErrorHandlerThrows(c)
      PROVE  Given'
  <2>1. UNCHANGED <<handlers, route>> /\ \A d \in Conns \ {c} : pc'[d] = pc[d]
    BY <1>2 DEF Accept, RequestThrows, Refused, OnConnect, OnConnectThrows, Leave,
                ErrorHandlerThrows, TypeOK, session
  <2>2. \/ pc[c] = "none" /\ pc'[c] = "reading"
        \/ pc[c] = "chosen" /\ pc'[c] = "add"
        \/ pc'[c] \in {"threw", "ended", "escaped"}
    BY <1>2 DEF Accept, RequestThrows, Refused, OnConnect, OnConnectThrows, Leave,
                ErrorHandlerThrows, TypeOK
  <2> QED
    BY <2>1, <2>2 DEF Given
<1>3. ASSUME NEW c \in Conns, Upgrade(c) PROVE Given'
  <2>1. /\ pc'[c] = "chosen" /\ handlers'[c] = FromRoute(route'[c])
        /\ \A d \in Conns \ {c} : pc'[d] = pc[d] /\ handlers'[d] = handlers[d] /\ route'[d] = route[d]
    BY <1>3 DEF Upgrade, TypeOK
  <2> QED
    BY <2>1 DEF Given
<1>4. ASSUME NEW c \in Conns, AddSession(c) PROVE Given'
  <2>1. /\ pc[c] = "add" /\ pc'[c] = "run" /\ handlers'[c] = Overridden(c) /\ route' = route
        /\ \A d \in Conns \ {c} : pc'[d] = pc[d] /\ handlers'[d] = handlers[d]
    BY <1>4 DEF AddSession, TypeOK
  <2>2. handlers'[c] # NoHandlers
    BY <2>1, SomeHandlers
  <2> QED
    BY <2>1, <2>2 DEF Given
<1>5. ASSUME NEW k \in Kinds, SetManagerHandler(k) PROVE Given'
  <2>1. UNCHANGED <<pc, route>>
    BY <1>5 DEF SetManagerHandler
  <2>2. ASSUME NEW d \in Conns
        PROVE  /\ pc[d] \in {"none", "reading", "chosen", "add"} => handlers'[d] = handlers[d]
               /\ handlers'[d] = handlers[d] \/ handlers'[d][k] = {"manager"}
    <3>1. handlers[d] \in [Kinds -> SUBSET Origins]
      BY DEF TypeOK
    <3>2. Contains(sessions, d) => Registered(d)
      BY DEF Registry
    <3> QED
      BY <1>5, <3>1, <3>2 DEF SetManagerHandler, Registered
  <2>3. NoHandlers[k] = {}
    BY DEF NoHandlers
  <2> QED
    BY <2>1, <2>2, <2>3 DEF Given
<1>6. ASSUME NEW c \in Conns, Message(c) \/ OpEnds(c) \/ RemoveSession(c)
      PROVE  UNCHANGED <<pc, handlers, route>>
  BY <1>6 DEF Message, OpEnds, RemoveSession, session
<1>7. AcceptFails \/ Broadcast \/ Stop \/ Exit \/ UNCHANGED vars => UNCHANGED <<pc, handlers, route>>
  BY DEF AcceptFails, Broadcast, Stop, Exit, vars, session
<1> QED
  BY <1>1, <1>2, <1>3, <1>4, <1>5, <1>6, <1>7 DEF Next, Closed, Errs

\* Registered sessions answer with the manager's handlers, else their route's.
LEMMA PrecedenceInv ==
    ASSUME TypeOK, Given, Registry, HandlerPrecedence, [Next]_vars
    PROVE  HandlerPrecedence'
<1>1. CASE UNCHANGED <<sessions, handlers, route, mgr>>
  BY <1>1 DEF HandlerPrecedence
<1>2. ASSUME NEW c \in Conns, Upgrade(c) PROVE HandlerPrecedence'
  <2>1. ~Contains(sessions, c)
    BY <1>2 DEF Upgrade, Registry, Registered
  <2>2. /\ UNCHANGED <<sessions, mgr>>
        /\ \A d \in Conns \ {c} : handlers'[d] = handlers[d] /\ route'[d] = route[d]
    BY <1>2 DEF Upgrade, TypeOK, manager
  <2> QED
    BY <2>1, <2>2 DEF HandlerPrecedence
<1>3. ASSUME NEW c \in Conns, AddSession(c) PROVE HandlerPrecedence'
  <2>1. ~Contains(sessions, c)
    BY <1>3 DEF AddSession, Registry, Registered
  <2>2. \A d \in Conns : Contains(sessions', d) <=> Contains(sessions, d) \/ d = c
    BY <1>3, <2>1, AddedFacts DEF AddSession, TypeOK, Registry
  <2>3. /\ pc[c] = "add" /\ mgr' = mgr /\ route' = route
        /\ \A d \in Conns \ {c} : handlers'[d] = handlers[d]
        /\ handlers'[c] = Overridden(c)
    BY <1>3 DEF AddSession, TypeOK
  <2>4. handlers'[c] = [k \in Kinds |-> IF k \in mgr' THEN {"manager"} ELSE FromRoute(route'[c])[k]]
    BY <2>3, SomeHandlers
  <2> QED
    BY <2>2, <2>3, <2>4 DEF HandlerPrecedence
<1>4. ASSUME NEW c \in Conns, RemoveSession(c) PROVE HandlerPrecedence'
  <2>1. \A d \in Conns : Contains(sessions', d) => Contains(sessions, d)
    BY <1>4, DroppedFacts DEF RemoveSession, TypeOK, Registry
  <2>2. UNCHANGED <<handlers, route, mgr>>
    BY <1>4 DEF RemoveSession
  <2> QED
    BY <2>1, <2>2 DEF HandlerPrecedence
<1>5. CASE Exit
  <2>1. \A d \in Conns : ~Contains(sessions', d)
    BY <1>5 DEF Exit, Contains
  <2> QED
    BY <2>1 DEF HandlerPrecedence
<1>6. ASSUME NEW k \in Kinds, SetManagerHandler(k) PROVE HandlerPrecedence'
  <2>1. sessions' = sessions /\ mgr' = mgr \cup {k} /\ route' = route
    BY <1>6 DEF SetManagerHandler
  <2>2. ASSUME NEW c \in Conns, Contains(sessions, c)
        PROVE  handlers'[c] = [q \in Kinds |->
                   IF q \in mgr' THEN {"manager"} ELSE FromRoute(route'[c])[q]]
    <3>1. handlers'[c] = [handlers[c] EXCEPT ![k] = {"manager"}]
      BY <1>6, <2>2 DEF SetManagerHandler
    <3>2. handlers[c] = [q \in Kinds |-> IF q \in mgr THEN {"manager"} ELSE FromRoute(route[c])[q]]
      BY <2>2 DEF HandlerPrecedence
    <3> QED
      BY <2>1, <3>1, <3>2
  <2> QED
    BY <2>1, <2>2 DEF HandlerPrecedence
<1>7. ASSUME NEW c \in Conns, Accept(c) \/ RequestThrows(c) \/ Refused(c) \/ OnConnect(c)
             \/ OnConnectThrows(c) \/ Message(c) \/ Leave(c) \/ ErrorHandlerThrows(c) \/ OpEnds(c)
      PROVE  UNCHANGED <<sessions, handlers, route, mgr>>
  BY <1>7 DEF Accept, RequestThrows, Refused, OnConnect, OnConnectThrows, Message, Leave,
              ErrorHandlerThrows, OpEnds, session, manager
<1>8. AcceptFails \/ Broadcast \/ Stop \/ UNCHANGED vars => UNCHANGED <<sessions, handlers, route, mgr>>
  BY DEF AcceptFails, Broadcast, Stop, vars, session, manager
<1> QED
  BY <1>1, <1>2, <1>3, <1>4, <1>5, <1>6, <1>7, <1>8 DEF Next, Closed, Errs
-----------------------------------------------------------------------------
(* The owners of a session, and the end of the process.                    *)

\* Only a registered session can be given more coroutines.
LEMMA SpawnAllFacts ==
    ASSUME TypeOK, NEW c \in Conns
    PROVE  /\ SpawnAll[c] \in Nat /\ SpawnAll[c] <= ops[c] + 1
           /\ ~Contains(sessions, c) => SpawnAll[c] = ops[c]
  BY DEF SpawnAll, TypeOK

\* stop() and the exit of the process leave the server stopped.
LEMMA StopsForGood == Stop \/ Exit => stopped'
<1>1. Stop => stopped'
  BY DEF Stop
<1>2. ASSUME Exit PROVE stopped'
  <2>1. stopped /\ stopped' = stopped
    BY <1>2 DEF Exit
  <2> QED
    BY <2>1, Zenon
<1> QED
  BY <1>1, <1>2

\* While the server runs, the last reference is where Owners says.
LEMMA OwnersInv ==
    ASSUME TypeOK, Registry, Owners, [Next]_vars
    PROVE  Owners'
<1> USE DEF Registered
<1>0. CASE stopped'
  BY <1>0 DEF Owners
<1>1. ASSUME UNCHANGED <<pc, route, ops, sessions, removed, stopped>> PROVE Owners'
  BY <1>1 DEF Owners
<1>2. ASSUME NEW c \in Conns, Accept(c) \/ RequestThrows(c) \/ Refused(c)
      PROVE  Owners'
  BY <1>2 DEF Accept, RequestThrows, Refused, Owners, TypeOK, session, manager, flags
<1>3. ASSUME NEW c \in Conns, Upgrade(c) PROVE Owners'
  <2>1. UNCHANGED <<ops, sessions, removed, stopped>> /\ pc[c] = "reading" /\ pc'[c] = "chosen"
    BY <1>3 DEF Upgrade, TypeOK, manager, flags
  <2>2. \A d \in Conns \ {c} : pc'[d] = pc[d] /\ route'[d] = route[d]
    BY <1>3 DEF Upgrade, TypeOK
  <2> QED
    BY <2>1, <2>2 DEF Owners
<1>4. ASSUME NEW c \in Conns, OnConnect(c) \/ OnConnectThrows(c) PROVE Owners'
  <2>1. /\ UNCHANGED <<route, sessions, removed, stopped>> /\ pc[c] = "chosen"
        /\ pc'[c] = "add" \/ (pc'[c] = "threw" /\ route[c] # NoRoute)
        /\ ops'[c] \in {0, 1}
    BY <1>4 DEF OnConnect, OnConnectThrows, TypeOK, manager, flags
  <2>2. \A d \in Conns \ {c} : pc'[d] = pc[d] /\ ops'[d] = ops[d]
    BY <1>4 DEF OnConnect, OnConnectThrows, TypeOK
  <2> QED
    BY <2>1, <2>2 DEF Owners
<1>5. ASSUME NEW c \in Conns, AddSession(c) PROVE Owners'
  <2>1. UNCHANGED <<ops, route, removed, stopped>> /\ pc[c] = "add" /\ pc'[c] = "run"
    BY <1>5 DEF AddSession, TypeOK, flags
  <2>2. \A d \in Conns \ {c} : pc'[d] = pc[d]
    BY <1>5 DEF AddSession, TypeOK
  <2>3. \A d \in Conns : Contains(sessions, d) => Contains(sessions', d)
    BY <1>5, <2>1, AddedFacts DEF AddSession, TypeOK, Registry
  <2> QED
    BY <2>1, <2>2, <2>3 DEF Owners
<1>6. ASSUME NEW c \in Conns, RemoveSession(c) PROVE Owners'
  <2>1. UNCHANGED <<pc, ops, route, stopped>> /\ removed' = removed \cup {c}
    BY <1>6 DEF RemoveSession
  <2>2. \A d \in Conns \ {c} : Contains(sessions, d) => Contains(sessions', d)
    BY <1>6, DroppedFacts DEF RemoveSession, TypeOK, Registry
  <2> QED
    BY <2>1, <2>2 DEF Owners
<1>7. ASSUME NEW c \in Conns, Message(c) PROVE Owners'
  <2>1. UNCHANGED <<pc, route, sessions, removed, stopped>> /\ pc[c] = "run" /\ ops'[c] <= MaxOps
    BY <1>7 DEF Message, TypeOK, manager, flags
  <2>2. \A d \in Conns \ {c} : ops'[d] = ops[d]
    BY <1>7 DEF Message, TypeOK
  <2> QED
    BY <2>1, <2>2 DEF Owners
<1>8. ASSUME NEW c \in Conns, Leave(c) \/ ErrorHandlerThrows(c) PROVE Owners'
  <2>1. /\ UNCHANGED <<ops, route, sessions, removed, stopped>>
        /\ pc[c] = "run" /\ pc'[c] \in {"ended", "escaped"} /\ ~stopped
    BY <1>8 DEF Leave, ErrorHandlerThrows, Running, TypeOK, manager, flags
  <2>2. \A d \in Conns \ {c} : pc'[d] = pc[d]
    BY <1>8 DEF Leave, ErrorHandlerThrows, TypeOK
  <2>3. Contains(sessions, c) \/ c \in removed
    BY <2>1 DEF Registry
  <2> QED
    BY <2>1, <2>2, <2>3 DEF Owners
<1>9. ASSUME NEW c \in Conns, OpEnds(c) PROVE Owners'
  <2>1. UNCHANGED <<pc, route, sessions, removed, stopped>>
    BY <1>9 DEF OpEnds, manager, flags
  <2>2. \A d \in Conns : ops[d] \in Nat /\ ops'[d] \in Nat /\ ops'[d] <= ops[d]
    BY <1>9 DEF OpEnds, TypeOK
  <2>3. MaxOps \in Nat
    OBVIOUS
  <2> QED
    BY <2>1, <2>2, <2>3 DEF Owners
<1>10. CASE Broadcast
  <2>1. UNCHANGED <<pc, route, sessions, removed, stopped>> /\ ops' = SpawnAll
    BY <1>10 DEF Broadcast, manager, flags
  <2>2. \A d \in Conns : ops'[d] <= MaxOps /\ (~Contains(sessions, d) => ops'[d] = ops[d])
    BY <1>10, <2>1, SpawnAllFacts DEF Broadcast
  <2>3. \A d \in Conns : Contains(sessions, d) => pc[d] \in {"run", "ended", "escaped"}
    BY DEF Registry
  <2> QED
    BY <2>1, <2>2, <2>3 DEF Owners
<1>11. AcceptFails \/ UNCHANGED vars \/ (\E k \in Kinds : SetManagerHandler(k))
         => UNCHANGED <<pc, route, ops, sessions, removed, stopped>>
  BY DEF AcceptFails, SetManagerHandler, vars, session, manager, flags
<1>12. Stop \/ Exit => stopped'
  BY StopsForGood
<1> QED
  BY <1>0, <1>1, <1>2, <1>3, <1>4, <1>5, <1>6, <1>7, <1>8, <1>9, <1>10, <1>11, <1>12
     DEF Next, Closed, Errs

\* No traffic ends the process.
LEMMA DiesOnlyByInv ==
    ASSUME TypeOK, Registry, Owners, DiesOnlyBy, [Next]_vars
    PROVE  DiesOnlyBy'
<1>1. ASSUME terminated' = terminated, removed \subseteq removed', stopped => stopped',
             \A c \in Conns : pc[c] = "threw" => pc'[c] = "threw" /\ route'[c] = route[c]
      PROVE  DiesOnlyBy'
  BY <1>1 DEF DiesOnlyBy
<1>2. ASSUME NEW c \in Conns, Leave(c) \/ ErrorHandlerThrows(c) PROVE DiesOnlyBy'
  <2>1. pc[c] = "run" /\ ~stopped /\ UNCHANGED removed /\ (terminated' => ~Contains(sessions, c))
    BY <1>2 DEF Leave, ErrorHandlerThrows, Running, ManagerOwns, manager
  <2>2. Contains(sessions, c) \/ c \in removed
    BY <2>1 DEF Registry, Registered
  <2> QED
    BY <2>1, <2>2 DEF DiesOnlyBy
<1>3. ASSUME NEW c \in Conns, OpEnds(c) PROVE DiesOnlyBy'
  <2>1. /\ UNCHANGED <<pc, route, removed>> /\ ~stopped /\ ops[c] > 0
        /\ terminated' => ~Contains(sessions, c) /\ pc[c] \notin HoldsSession
    BY <1>3 DEF OpEnds, Running, ManagerOwns, manager
  <2>2. pc[c] \in HoldsSession \cup {"none", "reading", "threw", "ended", "escaped"}
    BY DEF TypeOK, InFrame
  <2>3. terminated' => c \in removed \/ (pc[c] = "threw" /\ route[c] # NoRoute)
    BY <2>1, <2>2 DEF Owners
  <2> QED
    BY <2>1, <2>3 DEF DiesOnlyBy
<1>4. ASSUME NEW c \in Conns, OnConnectThrows(c) PROVE DiesOnlyBy'
  <2>1. pc'[c] = "threw" /\ route'[c] # NoRoute
    BY <1>4 DEF OnConnectThrows, TypeOK
  <2> QED
    BY <2>1 DEF DiesOnlyBy
<1>5. ASSUME NEW c \in Conns, RemoveSession(c) PROVE DiesOnlyBy'
  BY <1>5 DEF RemoveSession, DiesOnlyBy
<1>6. Stop \/ Exit => DiesOnlyBy'
  BY StopsForGood DEF DiesOnlyBy
<1>7. ASSUME NEW c \in Conns, Accept(c) \/ RequestThrows(c) \/ Refused(c) \/ OnConnect(c)
      PROVE  DiesOnlyBy'
  <2>1. /\ UNCHANGED <<terminated, removed, stopped, route>>
        /\ \A d \in Conns : pc[d] = "threw" => pc'[d] = "threw"
    BY <1>7 DEF Accept, RequestThrows, Refused, OnConnect, TypeOK, session, manager, flags
  <2> QED
    BY <1>1, <2>1
<1>8. ASSUME NEW c \in Conns, Upgrade(c) PROVE DiesOnlyBy'
  <2>1. /\ UNCHANGED <<terminated, removed, stopped>>
        /\ \A d \in Conns : pc[d] = "threw" => pc'[d] = "threw" /\ route'[d] = route[d]
    BY <1>8 DEF Upgrade, TypeOK, manager, flags
  <2> QED
    BY <1>1, <2>1
<1>9. ASSUME NEW c \in Conns, AddSession(c) \/ Message(c) PROVE DiesOnlyBy'
  <2>1. /\ UNCHANGED <<terminated, removed, stopped, route>>
        /\ \A d \in Conns : pc[d] = "threw" => pc'[d] = "threw"
    BY <1>9 DEF AddSession, Message, TypeOK, manager, flags
  <2> QED
    BY <1>1, <2>1
<1>10. AcceptFails \/ Broadcast \/ UNCHANGED vars \/ (\E k \in Kinds : SetManagerHandler(k))
         => UNCHANGED <<terminated, removed, stopped, route, pc>>
  BY DEF AcceptFails, Broadcast, SetManagerHandler, vars, session, manager, flags
<1> QED
  BY <1>1, <1>2, <1>3, <1>4, <1>5, <1>6, <1>7, <1>8, <1>9, <1>10 DEF Next, Closed, Errs
-----------------------------------------------------------------------------
(* The invariant and what follows from it.                                 *)

LEMMA TypeInv ==
    ASSUME TypeOK, Given, Registry, Owners, CountCoversFrames, [Next]_vars
    PROVE  TypeOK'
<1> DEFINE PCs == InFrame \cup {"none", "ended", "threw", "escaped"}
<1>1. sessions' \in Seq(Conns) /\ count' \in Nat /\ connCount' \in Nat
  BY RegistryInv, CountInv
<1>2. removed' \subseteq Conns /\ mgr' \subseteq ManagerKinds
  <2>1. ASSUME NEW c \in Conns, RemoveSession(c) PROVE removed' \subseteq Conns /\ mgr' = mgr
    BY <2>1 DEF RemoveSession, TypeOK
  <2>2. ASSUME NEW k \in Kinds, SetManagerHandler(k) PROVE removed' = removed /\ mgr' \subseteq ManagerKinds
    BY <2>2 DEF SetManagerHandler, TypeOK
  <2>3. ASSUME NEW c \in Conns, Accept(c) \/ RequestThrows(c) \/ Refused(c) \/ Upgrade(c) \/ OnConnect(c)
               \/ OnConnectThrows(c) \/ AddSession(c) \/ Message(c) \/ Leave(c)
               \/ ErrorHandlerThrows(c) \/ OpEnds(c)
        PROVE  UNCHANGED <<mgr, removed>>
    BY <2>3 DEF Accept, RequestThrows, Refused, Upgrade, OnConnect, OnConnectThrows, AddSession,
                Message, Leave, ErrorHandlerThrows, OpEnds, manager
  <2>4. AcceptFails \/ Broadcast \/ Stop \/ Exit \/ UNCHANGED vars => UNCHANGED <<mgr, removed>>
    BY DEF AcceptFails, Broadcast, Stop, Exit, vars, manager
  <2> QED
    BY <2>1, <2>2, <2>3, <2>4 DEF TypeOK, Next, Closed, Errs
<1>3. accepting' \in BOOLEAN /\ stopped' \in BOOLEAN /\ terminated' \in BOOLEAN
  <2>1. ASSUME NEW c \in Conns, Accept(c) \/ RequestThrows(c) \/ Refused(c) \/ Upgrade(c) \/ OnConnect(c)
               \/ AddSession(c) \/ Message(c)
        PROVE  UNCHANGED flags
    BY <2>1 DEF Accept, RequestThrows, Refused, Upgrade, OnConnect, AddSession, Message
  <2>2. ASSUME NEW c \in Conns, OnConnectThrows(c) \/ Leave(c) \/ ErrorHandlerThrows(c)
               \/ OpEnds(c) \/ RemoveSession(c)
        PROVE  UNCHANGED <<accepting, stopped>> /\ terminated' \in BOOLEAN
    BY <2>2 DEF OnConnectThrows, Leave, ErrorHandlerThrows, OpEnds, RemoveSession
  <2>3. AcceptFails => accepting' = FALSE /\ UNCHANGED <<stopped, terminated>>
    BY DEF AcceptFails
  <2>4. Broadcast \/ UNCHANGED vars \/ (\E k \in Kinds : SetManagerHandler(k)) => UNCHANGED flags
    BY DEF Broadcast, SetManagerHandler, vars, flags
  <2>5. Stop => stopped' = TRUE /\ UNCHANGED <<accepting, terminated>>
    BY DEF Stop
  <2>6. Exit => UNCHANGED <<accepting, stopped>> /\ terminated' \in BOOLEAN
    BY DEF Exit
  <2> QED
    BY <2>1, <2>2, <2>3, <2>4, <2>5, <2>6 DEF TypeOK, Next, Closed, Errs, flags
<1>4. pc' \in [Conns -> PCs]
  <2>1. ASSUME NEW c \in Conns, Accept(c) \/ RequestThrows(c) \/ Refused(c) \/ Upgrade(c) \/ OnConnect(c)
               \/ OnConnectThrows(c) \/ AddSession(c) \/ Leave(c) \/ ErrorHandlerThrows(c)
        PROVE  \E p \in PCs : pc' = [pc EXCEPT ![c] = p]
    BY <2>1 DEF Accept, RequestThrows, Refused, Upgrade, OnConnect, OnConnectThrows, AddSession,
                Leave, ErrorHandlerThrows, InFrame, HoldsSession
  <2>2. ASSUME NEW c \in Conns, Message(c) \/ OpEnds(c) \/ RemoveSession(c) PROVE UNCHANGED pc
    BY <2>2 DEF Message, OpEnds, RemoveSession
  <2>3. AcceptFails \/ Broadcast \/ Stop \/ Exit \/ UNCHANGED vars
          \/ (\E k \in Kinds : SetManagerHandler(k)) => UNCHANGED pc
    BY DEF AcceptFails, Broadcast, Stop, Exit, SetManagerHandler, vars
  <2> HIDE DEF PCs
  <2>4. pc \in [Conns -> PCs]
    BY DEF TypeOK, PCs
  <2>5. ASSUME NEW c \in Conns, NEW p \in PCs, pc' = [pc EXCEPT ![c] = p] PROVE pc' \in [Conns -> PCs]
    BY <2>4, <2>5
  <2> QED
    BY <2>1, <2>2, <2>3, <2>4, <2>5 DEF Next, Closed, Errs
<1>5. /\ route' \in [Conns -> {NoRoute} \cup SUBSET Kinds]
      /\ handlers' \in [Conns -> [Kinds -> SUBSET Origins]]
  <2>1. ASSUME NEW c \in Conns, Upgrade(c)
        PROVE  /\ route' \in [Conns -> {NoRoute} \cup SUBSET Kinds]
               /\ handlers' \in [Conns -> [Kinds -> SUBSET Origins]]
    <3>1. PICK R \in {NoRoute} \cup SUBSET Kinds :
            /\ route' = [route EXCEPT ![c] = R]
            /\ handlers' = [handlers EXCEPT ![c] = FromRoute(R)]
      BY <2>1 DEF Upgrade
    <3>2. FromRoute(R) \in [Kinds -> SUBSET Origins]
      BY DEF FromRoute, ChosenClose, Chosen, Origins
    <3> QED
      BY <3>1, <3>2 DEF TypeOK
  <2>2. ASSUME NEW c \in Conns, AddSession(c)
        PROVE  route' = route /\ handlers' \in [Conns -> [Kinds -> SUBSET Origins]]
    <3>1. Overridden(c) \in [Kinds -> SUBSET Origins]
      BY DEF TypeOK, Overridden, Origins
    <3> QED
      BY <2>2, <3>1 DEF AddSession, TypeOK
  <2>3. ASSUME NEW k \in Kinds, SetManagerHandler(k)
        PROVE  route' = route /\ handlers' \in [Conns -> [Kinds -> SUBSET Origins]]
    <3>1. \A c \in Conns : [handlers[c] EXCEPT ![k] = {"manager"}] \in [Kinds -> SUBSET Origins]
      BY DEF TypeOK, Origins
    <3> QED
      BY <2>3, <3>1 DEF SetManagerHandler, TypeOK
  <2>4. ASSUME NEW c \in Conns, Accept(c) \/ RequestThrows(c) \/ Refused(c) \/ OnConnect(c)
               \/ OnConnectThrows(c) \/ Message(c) \/ Leave(c) \/ ErrorHandlerThrows(c)
               \/ OpEnds(c) \/ RemoveSession(c)
        PROVE  UNCHANGED <<route, handlers>>
    BY <2>4 DEF Accept, RequestThrows, Refused, OnConnect, OnConnectThrows, Message, Leave,
                ErrorHandlerThrows, OpEnds, RemoveSession, session
  <2>5. AcceptFails \/ Broadcast \/ Stop \/ Exit \/ UNCHANGED vars => UNCHANGED <<route, handlers>>
    BY DEF AcceptFails, Broadcast, Stop, Exit, vars, session
  <2> QED
    BY <2>1, <2>2, <2>3, <2>4, <2>5 DEF TypeOK, Next, Closed, Errs
<1>6. isOpen' \in [Conns -> BOOLEAN] /\ ops' \in [Conns -> 0..(MaxOps + 1)]
  <2>1. ASSUME NEW c \in Conns, Accept(c) \/ RequestThrows(c) \/ Refused(c) \/ AddSession(c) \/ RemoveSession(c)
        PROVE  UNCHANGED <<isOpen, ops>>
    BY <2>1 DEF Accept, RequestThrows, Refused, AddSession, RemoveSession, session
  <2>2. ASSUME NEW c \in Conns, Upgrade(c) \/ Closed(c) \/ Errs(c) \/ ErrorHandlerThrows(c)
        PROVE  isOpen' \in [Conns -> BOOLEAN] /\ ops' = ops
    BY <2>2 DEF Upgrade, Closed, Errs, Leave, ErrorHandlerThrows, TypeOK
  <2>3. ASSUME NEW c \in Conns, OnConnect(c) \/ OnConnectThrows(c) \/ Message(c)
        PROVE  isOpen' = isOpen /\ ops' \in [Conns -> 0..(MaxOps + 1)]
    <3>1. isOpen' = isOpen /\ \E n \in 0..(MaxOps + 1) : ops' = [ops EXCEPT ![c] = n]
      <4>1. CASE OnConnect(c) \/ OnConnectThrows(c)
        BY <4>1 DEF OnConnect, OnConnectThrows
      <4>2. CASE Message(c)
        <5>1. PICK n \in {0, 1} : ops[c] + n <= MaxOps /\ ops' = [ops EXCEPT ![c] = ops[c] + n]
          BY <4>2 DEF Message
        <5>2. ops[c] + n \in 0..(MaxOps + 1)
          BY <5>1 DEF TypeOK
        <5> QED
          BY <4>2, <5>1, <5>2 DEF Message
      <4> QED
        BY <2>3, <4>1, <4>2
    <3> QED
      BY <3>1 DEF TypeOK
  <2>4. ASSUME NEW c \in Conns, OpEnds(c)
        PROVE  isOpen' \in [Conns -> BOOLEAN] /\ ops' \in [Conns -> 0..(MaxOps + 1)]
    <3>1. PICK open \in {isOpen[c], FALSE} : isOpen' = [isOpen EXCEPT ![c] = open]
      BY <2>4 DEF OpEnds
    <3>2. isOpen' \in [Conns -> BOOLEAN]
      BY <3>1 DEF TypeOK
    <3>3. ops' = [ops EXCEPT ![c] = ops[c] - 1] /\ ops[c] > 0
      BY <2>4 DEF OpEnds
    <3> QED
      BY <3>2, <3>3 DEF TypeOK
  <2>5. ASSUME Broadcast \/ Stop PROVE isOpen' = isOpen /\ ops' \in [Conns -> 0..(MaxOps + 1)]
    <3>1. isOpen' = isOpen /\ ops' = SpawnAll /\ ~stopped
      BY <2>5 DEF Broadcast, Stop, Running
    <3>2. \A c \in Conns : SpawnAll[c] \in Nat /\ SpawnAll[c] <= MaxOps + 1
      BY <3>1, SpawnAllFacts DEF Owners, TypeOK
    <3> QED
      BY <3>1, <3>2 DEF SpawnAll
  <2>6. AcceptFails \/ Exit \/ UNCHANGED vars \/ (\E k \in Kinds : SetManagerHandler(k))
          => UNCHANGED <<isOpen, ops>>
    BY DEF AcceptFails, Exit, SetManagerHandler, vars, session
  <2> QED
    BY <2>1, <2>2, <2>3, <2>4, <2>5, <2>6 DEF TypeOK, Next
<1> QED
  BY <1>1, <1>2, <1>3, <1>4, <1>5, <1>6 DEF TypeOK

LEMMA InitInv == Init => IInv
<1> SUFFICES ASSUME Init PROVE IInv
  OBVIOUS
<1>1. TypeOK
  <2>1. pc \in [Conns -> InFrame \cup {"none", "ended", "threw", "escaped"}]
    BY DEF Init
  <2>2. route \in [Conns -> {NoRoute} \cup SUBSET Kinds] /\ isOpen \in [Conns -> BOOLEAN]
    BY DEF Init
  <2>3. handlers \in [Conns -> [Kinds -> SUBSET Origins]]
    BY DEF Init, NoHandlers
  <2>4. ops \in [Conns -> 0..(MaxOps + 1)] /\ sessions \in Seq(Conns)
    BY DEF Init
  <2> QED
    BY <2>1, <2>2, <2>3, <2>4 DEF Init, TypeOK
<1>2. \A c \in Conns : ~Contains(sessions, c)
  BY DEF Init, Contains
<1>3. Given /\ Registry /\ HandlerPrecedence /\ Owners /\ DiesOnlyBy
  BY <1>2 DEF Init, Given, Registry, Registered, IsInjective, HandlerPrecedence, Owners, DiesOnlyBy
<1>4. {c \in Conns : pc[c] \in InFrame \cup {"threw", "escaped"}} = {}
  BY DEF Init, InFrame, HoldsSession
<1>5. CountCoversFrames
  BY <1>4, FS_EmptySet DEF Init, CountCoversFrames
<1> QED
  BY <1>1, <1>3, <1>5 DEF IInv

LEMMA NextInv == IInv /\ [Next]_vars => IInv'
  BY TypeInv, GivenInv, RegistryInv, PrecedenceInv, OwnersInv, DiesOnlyByInv, CountInv DEF IInv

\* The invariant holds in every reachable state of the server.
THEOREM Invariance == Spec => []IInv
  BY InitInv, NextInv, PTL DEF Spec

\* Type correctness; connection_count_ never falls below zero.
THEOREM TypeCorrect == Spec => []TypeOK
<1>1. IInv => TypeOK
  BY DEF IInv
<1> QED
  BY <1>1, Invariance, PTL

\* add_session and remove_session keep the vector exact: the sessions ever
\* registered but for the removed ones, whether their connections are over or
\* not.
THEOREM RosterKept == Spec => []Roster
<1>1. IInv => Roster
  BY DEF IInv, Registry, Roster
<1> QED
  BY <1>1, Invariance, PTL

\* Which handlers a registered session has, for all that the manager, the
\* route and the router may have.
THEOREM PrecedenceKept == Spec => []HandlerPrecedence
<1>1. IInv => HandlerPrecedence
  BY DEF IInv
<1> QED
  BY <1>1, Invariance, PTL

\* ~WebSocketSession ends the process in the named cases only.
THEOREM TrafficNeverKills == Spec => []DiesOnlyBy
<1>1. IInv => DiesOnlyBy
  BY DEF IInv
<1> QED
  BY <1>1, Invariance, PTL

\* connection_count_ is exact but for the connections that an exception ended
\* in the request's read or refusal, in on_connect or in the error handler.
THEOREM CountExact == Spec => []CountCoversFrames
<1>1. IInv => CountCoversFrames
  BY DEF IInv
<1> QED
  BY <1>1, Invariance, PTL
==============================================================================

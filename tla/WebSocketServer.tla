--------------------------- MODULE WebSocketServer ---------------------------
(***************************************************************************)
(* WebSocketServer, WebSocketSession, WebSocketManager and the handlers of *)
(* WebSocketRouter.  Each accepted socket runs handle_connection as one    *)
(* coroutine: read the upgrade request, complete the handshake, choose the *)
(* session's handlers from the route and the router's global ones, call    *)
(* on_connect, register the session with the manager, and read messages    *)
(* until the stream fails.  send() and close() only test is_open and spawn *)
(* a coroutine that holds a reference to the session.                      *)
(*                                                                         *)
(* Sessions are owned by shared pointers: the connection's frame, the      *)
(* manager's vector and every spawned coroutine.  When the last one goes,  *)
(* ~WebSocketSession evaluates shared_from_this(), which throws when no    *)
(* owner is left, and an exception that leaves a destructor ends the       *)
(* process: `terminated'.                                                  *)
(*                                                                         *)
(* A handler is known by where it was registered: "route", "router" (the   *)
(* router's global one, never null: the constructor sets all of them) or   *)
(* "manager".  Text and binary messages are treated alike: "message".      *)
(***************************************************************************)
EXTENDS Integers, Sequences, SequencesExt, FiniteSets

CONSTANTS
    Conns,          \* sockets that may be accepted
    NoRoute,        \* the path matches no route
    ManagerKinds,   \* kinds for which the application may set a manager handler
    AppRemoves,     \* the application itself may call remove_session
    MaxOps          \* bound: spawned coroutines per session

ASSUME WebSocketAssumption ==
    /\ MaxOps \in Nat \ {0}
    /\ AppRemoves \in BOOLEAN
ASSUME SocketAssumption == IsFiniteSet(Conns)

Kinds == {"message", "close", "error"}
ASSUME ManagerAssumption == ManagerKinds \subseteq Kinds
Origins == {"route", "router", "manager"}
NoHandlers == [k \in Kinds |-> {}]

VARIABLES
    accepting,  \* accept_loop is still running
    pc,         \* where each connection's coroutine is
    route,      \* the kinds the matching route has handlers for, or NoRoute
    handlers,   \* for each session and kind, the handlers that would be called
    isOpen,     \* ws_.is_open()
    ops,        \* spawned coroutines of each session that have not ended
    sessions,   \* WebSocketManager::sessions_
    count,      \* session_count_
    connCount,  \* connection_count_
    mgr,        \* kinds for which the manager holds a global handler
    removed,    \* history: sessions the application removed
    stopped,    \* io_.stop() was called
    terminated  \* std::terminate

vars == <<accepting, pc, route, handlers, isOpen, ops, sessions, count, connCount,
          mgr, removed, stopped, terminated>>

session == <<route, handlers, isOpen, ops>>
manager == <<sessions, count, mgr, removed>>
flags == <<accepting, stopped, terminated>>
-----------------------------------------------------------------------------
(* Variants with a plausible slip: a manager that does not own its         *)
(* sessions, a removal that pops the last session without moving it, a     *)
(* session added without the manager's handlers, an entry that is not      *)
(* counted.                                                                *)

WeakManager(c) == FALSE
PopsLast(c) == [i \in 1..(Len(sessions) - 1) |-> sessions[i]]
KeepsOwn(c) == handlers[c]
CountForgotten == connCount
-----------------------------------------------------------------------------
Running == ~stopped /\ ~terminated

\* The frame of handle_websocket holds the session.
HoldsSession == {"chosen", "add", "run"}

\* In handle_websocket.
InFrame == HoldsSession \cup {"reading"}

\* A data or error handler: the route's when it has one, else the router's.
Chosen(R, k) == IF R # NoRoute /\ k \in R THEN {"route"} ELSE {"router"}

\* A close handler: the route's, when it has one, and the router's.
ChosenClose(R) == {"router"} \cup (IF R # NoRoute /\ "close" \in R THEN {"route"} ELSE {})

\* The handlers handle_websocket gives a session, without the manager.
FromRoute(R) == [k \in Kinds |-> IF k = "close" THEN ChosenClose(R) ELSE Chosen(R, k)]

\* sessions_ after add_session and after remove_session.
Added(c) == Append(sessions, c)
Dropped(c) ==
    LET i == CHOOSE j \in 1..Len(sessions) : sessions[j] = c
    IN  SubSeq([sessions EXCEPT ![i] = Last(sessions)], 1, Len(sessions) - 1)

\* The handlers of a session that add_session registers.
Overridden(c) == [k \in Kinds |-> IF k \in mgr THEN {"manager"} ELSE handlers[c][k]]

Entered == connCount + 1

\* The manager's vector holds a reference to the session.
ManagerOwns(c) == Contains(sessions, c)

\* ~WebSocketSession, with the last owner gone: the argument of the close
\* handler throws, whatever the handler is.
Destroyed(c) == handlers[c]["close"] # {}

Init ==
    /\ accepting = TRUE
    /\ pc = [c \in Conns |-> "none"]
    /\ route = [c \in Conns |-> NoRoute]
    /\ handlers = [c \in Conns |-> NoHandlers]
    /\ isOpen = [c \in Conns |-> FALSE]
    /\ ops = [c \in Conns |-> 0]
    /\ sessions = <<>> /\ count = 0
    /\ connCount = 0
    /\ mgr = {} /\ removed = {}
    /\ stopped = FALSE /\ terminated = FALSE

-----------------------------------------------------------------------------
(* The connection's coroutine.                                             *)

\* accept_loop accepts and spawns handle_connection.
Accept(c) ==
    /\ Running /\ accepting /\ pc[c] = "none"
    /\ pc' = [pc EXCEPT ![c] = "reading"]
    /\ connCount' = Entered
    /\ UNCHANGED <<flags, session, manager>>

\* async_accept throws: the detached loop is gone.
AcceptFails ==
    /\ Running /\ accepting
    /\ accepting' = FALSE
    /\ UNCHANGED <<pc, session, manager, connCount, stopped, terminated>>

\* async_read of the request, or async_write of the refusal, throws:
\* connection_count_ is not decremented.
RequestThrows(c) ==
    /\ Running /\ pc[c] = "reading"
    /\ pc' = [pc EXCEPT ![c] = "threw"]
    /\ UNCHANGED <<flags, session, manager, connCount>>

\* No upgrade was asked for, or the handshake fails; the session, if there
\* is one, has no close handler yet.
Refused(c) ==
    /\ Running /\ pc[c] = "reading"
    /\ pc' = [pc EXCEPT ![c] = "ended"]
    /\ connCount' = connCount - 1
    /\ UNCHANGED <<flags, session, manager>>

\* The handshake is complete; find_route and the choice of handlers.
Upgrade(c) ==
    /\ Running /\ pc[c] = "reading"
    /\ \E R \in {NoRoute} \cup SUBSET Kinds :
          /\ route' = [route EXCEPT ![c] = R]
          /\ handlers' = [handlers EXCEPT ![c] = FromRoute(R)]
    /\ isOpen' = [isOpen EXCEPT ![c] = TRUE]
    /\ pc' = [pc EXCEPT ![c] = "chosen"]
    /\ UNCHANGED <<ops, flags, manager, connCount>>

\* on_connect of the application, if there is a route; it may send.
OnConnect(c) ==
    /\ Running /\ pc[c] = "chosen"
    /\ pc' = [pc EXCEPT ![c] = "add"]
    /\ \E n \in {0, 1} :
          /\ n > 0 => route[c] # NoRoute
          /\ ops' = [ops EXCEPT ![c] = n]
    /\ UNCHANGED <<route, handlers, isOpen, flags, manager, connCount>>

\* on_connect throws: the frame is unwound and its reference dropped.
OnConnectThrows(c) ==
    /\ Running /\ pc[c] = "chosen" /\ route[c] # NoRoute
    /\ pc' = [pc EXCEPT ![c] = "threw"]
    /\ \E n \in {0, 1} :
          /\ ops' = [ops EXCEPT ![c] = n]
          /\ terminated' = (n = 0 /\ Destroyed(c))
    /\ UNCHANGED <<route, handlers, isOpen, accepting, stopped, manager, connCount>>

\* add_session, under the manager's lock: the manager's global handlers
\* replace the ones chosen before.
AddSession(c) ==
    /\ Running /\ pc[c] = "add"
    /\ pc' = [pc EXCEPT ![c] = "run"]
    /\ sessions' = Added(c)
    /\ count' = Len(Added(c))
    /\ handlers' = [handlers EXCEPT ![c] = Overridden(c)]
    /\ UNCHANGED <<route, isOpen, ops, mgr, removed, flags, connCount>>

\* A message is read and handled; the handler may call send.
Message(c) ==
    /\ Running /\ pc[c] = "run" /\ isOpen[c]
    /\ \E n \in {0, 1} :
          /\ ops[c] + n <= MaxOps
          /\ ops' = [ops EXCEPT ![c] = @ + n]
    /\ UNCHANGED <<pc, route, handlers, isOpen, flags, manager, connCount>>

\* The frame of handle_connection ends and its reference is dropped; the
\* manager and the spawned coroutines may still own the session.
Leave(c) ==
    /\ Running /\ pc[c] = "run"
    /\ pc' = [pc EXCEPT ![c] = "ended"]
    /\ connCount' = connCount - 1
    /\ terminated' = (ops[c] = 0 /\ ~ManagerOwns(c) /\ Destroyed(c))
    /\ UNCHANGED <<route, handlers, ops, accepting, stopped, manager>>

\* The read ends with error::closed, or the loop finds the stream closed.
Closed(c) ==
    /\ Leave(c)
    /\ isOpen' = [isOpen EXCEPT ![c] = FALSE]

\* The read ends with another error, which also closes the stream, or the
\* message handler throws, which does not.
Errs(c) ==
    /\ Leave(c)
    /\ \E open \in {isOpen[c], FALSE} : isOpen' = [isOpen EXCEPT ![c] = open]

\* The error handler throws as well: the count keeps the connection.
ErrorHandlerThrows(c) ==
    /\ Running /\ pc[c] = "run"
    /\ pc' = [pc EXCEPT ![c] = "escaped"]
    /\ \E open \in {isOpen[c], FALSE} : isOpen' = [isOpen EXCEPT ![c] = open]
    /\ terminated' = (ops[c] = 0 /\ ~ManagerOwns(c) /\ Destroyed(c))
    /\ UNCHANGED <<route, handlers, ops, accepting, stopped, manager, connCount>>

\* A spawned async_write or async_close ends (or throws, which is caught).
\* A close leaves the stream closed.
OpEnds(c) ==
    /\ Running /\ ops[c] > 0
    /\ ops' = [ops EXCEPT ![c] = @ - 1]
    /\ \E open \in {isOpen[c], FALSE} : isOpen' = [isOpen EXCEPT ![c] = open]
    /\ terminated' = (ops[c] = 1 /\ ~ManagerOwns(c) /\ pc[c] \notin HoldsSession
                      /\ Destroyed(c))
    /\ UNCHANGED <<pc, route, handlers, accepting, stopped, manager, connCount>>
-----------------------------------------------------------------------------
(* The manager, called by the application, and stop().                     *)

\* One more coroutine for every registered session that is open.
SpawnAll == [c \in Conns |->
    IF Contains(sessions, c) /\ isOpen[c] THEN ops[c] + 1 ELSE ops[c]]

\* broadcast, broadcast_binary, close_all.
Broadcast ==
    /\ Running /\ sessions # <<>>
    /\ \A c \in Conns : SpawnAll[c] <= MaxOps
    /\ ops' = SpawnAll
    /\ UNCHANGED <<pc, route, handlers, isOpen, flags, manager, connCount>>

\* set_global_*_handler of the manager: also every registered session's.
SetManagerHandler(k) ==
    /\ Running /\ k \in ManagerKinds \ mgr
    /\ mgr' = mgr \cup {k}
    /\ handlers' = [c \in Conns |->
          IF Contains(sessions, c) THEN [handlers[c] EXCEPT ![k] = {"manager"}] ELSE handlers[c]]
    /\ UNCHANGED <<pc, route, isOpen, ops, sessions, count, removed, flags, connCount>>

\* The application removes a session it got from a handler or get_session.
RemoveSession(c) ==
    /\ Running /\ AppRemoves /\ Contains(sessions, c)
    /\ sessions' = Dropped(c)
    /\ count' = Len(Dropped(c))
    /\ removed' = removed \cup {c}
    /\ terminated' = (ops[c] = 0 /\ pc[c] \notin HoldsSession /\ Destroyed(c))
    /\ UNCHANGED <<pc, route, handlers, isOpen, ops, mgr, accepting, stopped, connCount>>

\* stop(): close_all, then io_.stop() (the spawned closes need not run).
Stop ==
    /\ Running
    /\ ops' = SpawnAll
    /\ stopped' = TRUE
    /\ UNCHANGED <<pc, route, handlers, isOpen, accepting, terminated, manager, connCount>>

\* The process exits: the static manager drops every session.
Exit ==
    /\ stopped /\ ~terminated
    /\ sessions' = <<>>
    /\ terminated' = (\E c \in Conns : Contains(sessions, c) /\ Destroyed(c))
    /\ sessions # <<>>
    /\ UNCHANGED <<pc, session, accepting, stopped, count, mgr, removed, connCount>>

Next ==
    \/ \E c \in Conns :
          \/ Accept(c) \/ RequestThrows(c) \/ Refused(c) \/ Upgrade(c)
          \/ OnConnect(c) \/ OnConnectThrows(c) \/ AddSession(c)
          \/ Message(c) \/ Closed(c) \/ Errs(c) \/ ErrorHandlerThrows(c) \/ OpEnds(c) \/ RemoveSession(c)
    \/ AcceptFails \/ Broadcast \/ Stop \/ Exit
    \/ \E k \in Kinds : SetManagerHandler(k)

Spec == Init /\ [][Next]_vars
-----------------------------------------------------------------------------
(* Properties.                                                             *)

\* The shape of the state.
TypeOK ==
    /\ accepting \in BOOLEAN /\ stopped \in BOOLEAN /\ terminated \in BOOLEAN
    /\ pc \in [Conns -> InFrame \cup {"none", "ended", "threw", "escaped"}]
    /\ route \in [Conns -> {NoRoute} \cup SUBSET Kinds]
    /\ handlers \in [Conns -> [Kinds -> SUBSET Origins]]
    /\ isOpen \in [Conns -> BOOLEAN] /\ ops \in [Conns -> 0..(MaxOps + 1)]
    /\ sessions \in Seq(Conns) /\ count \in Nat /\ connCount \in Nat
    /\ mgr \subseteq ManagerKinds /\ removed \subseteq Conns

\* add_session was called for the session, whose connection may be over.
Registered(c) ==
    pc[c] \in {"run", "escaped"} \/ (pc[c] = "ended" /\ handlers[c] # NoHandlers)

\* Until stop() the manager's vector lists every session that was ever
\* registered, once, except those the application removed, and no other, also
\* after removals that move the last session into the gap;
\* get_session_count() is its length.  The end of a connection takes nothing
\* out: the close handler that calls remove_session is called only by the
\* session's destructor, which the vector itself puts off.  The count is thus
\* not one of the active sessions, as src/README.md:1130 takes it for.
Roster ==
    ~stopped =>
      /\ IsInjective(sessions) /\ count = Len(sessions)
      /\ \A c \in Conns : Contains(sessions, c) <=> Registered(c) /\ c \notin removed

\* Who is called for a registered session.  A handler given to the manager
\* replaces whatever the session had, registered before or after; without one,
\* messages and errors go to the route's handler or else to the router's global
\* one, a close to both.  src/README.md:1144-1167 has route handlers always win
\* and errors call both: of the WS_G_ handlers the first holds, the second not,
\* and of the manager's set_global_ handlers neither.
HandlerPrecedence ==
    \A c \in Conns : Contains(sessions, c) =>
        handlers[c] = [k \in Kinds |->
            IF k \in mgr THEN {"manager"} ELSE FromRoute(route[c])[k]]

\* A destructor ends the process only after an on_connect that threw, a
\* removal by the application, or the exit of the process: no traffic does.
DiesOnlyBy ==
    terminated => stopped \/ removed # {} \/ \E c \in Conns : pc[c] = "threw" /\ route[c] # NoRoute

\* connection_count_ is the number of connections in flight and of those whose
\* coroutine was ended by an exception: from the read of the request or the
\* write of its refusal, from on_connect, or from the error handler.  These
\* stay in the count for ever.
CountCoversFrames ==
    connCount = Cardinality({c \in Conns : pc[c] \in InFrame \cup {"threw", "escaped"}})
=============================================================================

------------------------------- MODULE Routing -------------------------------
(***************************************************************************)
(* Router and WebSocketRouter.  A route is found by the first registered   *)
(* path whose regular expression matches the target.  The macros WS_MSG,   *)
(* WS_BIN, WS_CLOSE and WS_ERR name the route they give a handler to by    *)
(* looking the text of its path up as if it were a target, so an earlier   *)
(* route may receive the handler, or none.                                 *)
(*                                                                         *)
(* A path or target is the sequence of the pieces after each '/': "/" is   *)
(* <<"">>, "/a/" is <<"a", "">>.  Parameters are the tokens ":x"; literal  *)
(* tokens hold no character that is special in a regular expression.       *)
(***************************************************************************)
EXTENDS Naturals, Sequences

CONSTANTS
    Paths,      \* the paths routes are registered with
    Targets,    \* the targets of requests; the text of every path is one
    Parameters, \* the tokens that start with ':'
    Methods,    \* HTTP methods
    Kinds,      \* "message", "binary", "close", "error"
    HttpBound,  \* bound on the routes of one method
    RouteBound  \* bound on the WebSocket routes

VARIABLES
    routes,   \* Router::routes_: the paths of each method
    wsRoutes  \* WebSocketRouter::routes_: records [path, handler]

vars == <<routes, wsRoutes>>

NoHandler == <<"no handler">>
-----------------------------------------------------------------------------
(* A variant with a plausible slip: new routes are tried first.            *)

InFront(table, r) == <<r>> \o table
-----------------------------------------------------------------------------
\* The tokens after each of the pieces getline yields: empty ones are skipped.
TokensUpTo(p) ==
    LET F[i \in 0..Len(p)] ==
          IF i = 0 THEN <<>> ELSE IF p[i] = "" THEN F[i - 1] ELSE Append(F[i - 1], p[i])
    IN  F

\* The tokens of a path.
Tokens(p) == TokensUpTo(p)[Len(p)]

\* regex_match of "^/tok1/.../tokn$", where ":x" became ([^/]+).
RegexMatch(tokens, t) ==
    /\ Len(tokens) = Len(t)
    /\ \A i \in 1..Len(tokens) :
          tokens[i] = t[i] \/ (tokens[i] \in Parameters /\ t[i] # "")

\* Route::match.  A path without tokens becomes "^/?$".
Match(p, t) ==
    IF Tokens(p) = <<>> THEN t = <<>> \/ t = <<"">> ELSE RegexMatch(Tokens(p), t)

\* extractParamNames and the assignments of outParams: a name that occurs
\* twice keeps the last value.
ParamsOf(p, t) ==
    LET tokens == Tokens(p)
        At(name) == {i \in 1..Len(tokens) : tokens[i] = name}
    IN  [name \in {tokens[i] : i \in 1..Len(tokens)} \cap Parameters |->
            t[CHOOSE i \in At(name) : \A j \in At(name) : j <= i]]

\* The first of the routes that match, in the order of registration.
First(indices) == CHOOSE i \in indices : \A j \in indices : i <= j

\* emplace_back
Registered(table, r) == Append(table, r)

Matching(table, t) == {i \in 1..Len(table) : Match(table[i], t)}
WsPaths == [i \in 1..Len(wsRoutes) |-> wsRoutes[i].path]

\* The routes find_route tries for the path of a macro, taken as a target.
FoundByText(p) == Matching(WsPaths, p)

\* What Router::handle_request and find_route do with a target: nothing
\* (404, nullptr), or a route and its parameters.
Answer(table, t) ==
    IF Matching(table, t) = {} THEN <<>>
    ELSE LET i == First(Matching(table, t)) IN <<table[i], ParamsOf(table[i], t)>>
-----------------------------------------------------------------------------
Init ==
    /\ routes = [m \in Methods |-> <<>>]
    /\ wsRoutes = <<>>

\* Router::add
Add(m, p) ==
    /\ Len(routes[m]) < HttpBound
    /\ routes' = [routes EXCEPT ![m] = Registered(@, p)]
    /\ UNCHANGED wsRoutes

\* WebSocketRouter::add_route (WS_R)
AddRoute(p) ==
    /\ Len(wsRoutes) < RouteBound
    /\ wsRoutes' = Registered(wsRoutes, [path |-> p, handler |-> [k \in Kinds |-> NoHandler]])
    /\ UNCHANGED routes

\* WS_MSG, WS_BIN, WS_CLOSE, WS_ERR: the handler is named after the path it
\* is meant for.  When no route matches nothing happens.
SetHandler(k, p) ==
    /\ FoundByText(p) # {}
    /\ wsRoutes' = [wsRoutes EXCEPT ![First(FoundByText(p))].handler[k] = p]
    /\ UNCHANGED routes

Next ==
    \/ \E m \in Methods, p \in Paths : Add(m, p)
    \/ \E p \in Paths : AddRoute(p)
    \/ \E k \in Kinds, p \in Paths : SetHandler(k, p)

Spec == Init /\ [][Next]_vars
-----------------------------------------------------------------------------
(* Properties.                                                             *)

\* A handler that was given with the path p sits on a route that takes every
\* target of p which no earlier route takes: find_route by the text of a path
\* never hands the handler to a route that other targets than p's reach while
\* p's own go by.  This is about the handlers that routes have now: one that a
\* later macro replaced, for an overlapping path or the same, is not among
\* them (RouterRegisterer.hpp, WS_MSG and the like).
HandlerMeetsTargets ==
    \A i \in 1..Len(wsRoutes), k \in Kinds, t \in Targets :
        LET p == wsRoutes[i].handler[k]
        IN  p # NoHandler /\ Match(p, t) =>
               /\ Match(wsRoutes[i].path, t)
               /\ First(Matching(WsPaths, t)) <= i

\* A target that a table answers keeps its answer, parameters included.
Keeps(table, later) ==
    table = later \/ \A t \in Targets :
        Answer(table, t) # <<>> => Answer(later, t) = Answer(table, t)

AnswerIsKept == Keeps(WsPaths, WsPaths') /\ \A m \in Methods : Keeps(routes[m], routes'[m])

\* The first route that was registered for a target answers it, now and
\* later, with the same parameters, and no handler that a route has is kept
\* from the targets of the path it was given with.  A route may hold another
\* path's handler in place of its own: the later WS_ macro overwrites.
FirstRouteWins == []HandlerMeetsTargets /\ [][AnswerIsKept]_vars
===============================================================================

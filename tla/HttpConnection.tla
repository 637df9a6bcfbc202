---------------------------- MODULE HttpConnection ----------------------------
(***************************************************************************)
(* One connection of the plain HTTP Server: the coroutine                  *)
(* Server::handle_connection and its idle timer.  One io_context serves    *)
(* all worker threads and the connection has no strand, so the timer's     *)
(* handler may run on another thread between any two steps of the          *)
(* coroutine.  The handler sets timed_out and then calls socket.cancel(),  *)
(* which only reaches an operation that is outstanding at that moment.     *)
(***************************************************************************)
EXTENDS Integers

CONSTANTS
    MaxRequests, \* bound: requests the client sends
    MaxFired     \* bound: idle handlers waiting for a thread

Results == {"none", "ok", "eof", "aborted", "err"}

VARIABLES
    pc,        \* where the coroutine is
    pending,   \* a read or write is outstanding
    res,       \* the result that will resume the coroutine
    armed,     \* idle_timer has an outstanding wait
    fired,     \* idle handlers that expired and wait for a thread
    cancels,   \* idle handlers that have set timed_out and not yet cancelled
    timedOut,  \* timed_out
    keepAlive, \* keep_alive
    reqs,      \* requests read
    resps,     \* responses written
    late       \* history: requests read since timed_out was set

vars == <<pc, pending, res, armed, fired, cancels, timedOut, keepAlive, reqs, resps, late>>
timer == <<armed, fired, cancels, timedOut>>
-----------------------------------------------------------------------------
(* A variant with a plausible slip: a loop that forgets the time-out.      *)

LoopIgnoresTimeout == keepAlive
-----------------------------------------------------------------------------

\* while (keep_alive && !timed_out)
LoopGoesOn == keepAlive /\ ~timedOut

\* if (!keep_alive) break
AfterWrite == IF keepAlive THEN "loop" ELSE "closing"

\* Responses written after one more.
Answered(n) == n + 1

Init ==
    /\ pc = "setup" /\ pending = FALSE /\ res = "none"
    /\ armed = FALSE /\ fired = 0 /\ cancels = 0 /\ timedOut = FALSE
    /\ keepAlive = TRUE
    /\ reqs = 0 /\ resps = 0 /\ late = 0

(* The timer.                                                              *)

Expire ==
    /\ armed /\ fired < MaxFired
    /\ armed' = FALSE
    /\ fired' = fired + 1
    /\ UNCHANGED <<pc, pending, res, cancels, timedOut, keepAlive, reqs, resps, late>>

\* The handler writes through references into the coroutine's frame, also
\* when the coroutine has ended in the meantime.
HandlerFlag ==
    /\ fired > 0 /\ cancels < MaxFired
    /\ fired' = fired - 1
    /\ timedOut' = TRUE
    /\ cancels' = cancels + 1
    /\ UNCHANGED <<pc, pending, res, armed, keepAlive, reqs, resps, late>>

HandlerCancel ==
    /\ cancels > 0
    /\ cancels' = cancels - 1
    /\ pending' = FALSE
    /\ res' = IF pending THEN "aborted" ELSE res
    /\ UNCHANGED <<pc, armed, fired, timedOut, keepAlive, reqs, resps, late>>

(* The coroutine.                                                          *)

\* Socket options, which may throw, and the first reset_timer.
Setup ==
    /\ pc = "setup"
    /\ \/ pc' = "loop" /\ armed' = TRUE
       \/ pc' = "ended" /\ UNCHANGED armed
    /\ UNCHANGED <<pending, res, fired, cancels, timedOut, keepAlive, reqs, resps, late>>

LoopTest ==
    /\ pc = "loop"
    /\ pc' = IF LoopGoesOn THEN "toRead" ELSE "closing"
    /\ UNCHANGED <<pending, res, timer, keepAlive, reqs, resps, late>>

\* async_read and async_write start an operation.
Issue ==
    /\ pc \in {"toRead", "toWrite"}
    /\ pc' = IF pc = "toRead" THEN "reading" ELSE "writing"
    /\ pending' = TRUE
    /\ res' = "none"
    /\ UNCHANGED <<timer, keepAlive, reqs, resps, late>>

\* The peer sends a request, takes the response, leaves, or breaks the link.
PeerCompletes(r) ==
    /\ pending
    /\ r \in IF pc = "reading" THEN {"ok", "eof", "err"} ELSE {"ok", "err"}
    /\ pc = "reading" /\ r = "ok" => reqs < MaxRequests
    /\ pending' = FALSE
    /\ res' = r
    /\ UNCHANGED <<pc, timer, keepAlive, reqs, resps, late>>

\* end_of_stream and operation_aborted leave the loop, other errors throw.
ReadFailed ==
    /\ pc = "reading" /\ ~pending
    /\ \/ res \in {"eof", "aborted"} /\ pc' = "closing" /\ UNCHANGED armed
       \/ res = "err" /\ pc' = "ended" /\ armed' = FALSE
    /\ UNCHANGED <<pending, res, fired, cancels, timedOut, keepAlive, reqs, resps, late>>

\* A request: reset_timer, and the router is called.
ReadDone ==
    /\ pc = "reading" /\ ~pending /\ res = "ok"
    /\ pc' = "handling"
    /\ armed' = TRUE
    /\ reqs' = reqs + 1
    /\ late' = IF timedOut THEN late + 1 ELSE late
    /\ keepAlive' \in BOOLEAN
    /\ UNCHANGED <<pending, res, fired, cancels, timedOut, resps>>

\* The router fills in the response or throws, which ends the connection.
RouterReturns ==
    /\ pc = "handling"
    /\ \/ pc' = "toWrite" /\ UNCHANGED armed
       \/ pc' = "ended" /\ armed' = FALSE
    /\ UNCHANGED <<pending, res, fired, cancels, timedOut, keepAlive, reqs, resps, late>>

WriteFailed ==
    /\ pc = "writing" /\ ~pending /\ res # "ok"
    /\ pc' = "ended"
    /\ armed' = FALSE
    /\ UNCHANGED <<pending, res, fired, cancels, timedOut, keepAlive, reqs, resps, late>>

WriteDone ==
    /\ pc = "writing" /\ ~pending /\ res = "ok"
    /\ pc' = AfterWrite
    /\ resps' = Answered(resps)
    /\ UNCHANGED <<pending, res, timer, keepAlive, reqs, late>>

\* idle_timer.cancel(), shutdown, close.
Close ==
    /\ pc = "closing"
    /\ pc' = "ended"
    /\ armed' = FALSE
    /\ UNCHANGED <<pending, res, fired, cancels, timedOut, keepAlive, reqs, resps, late>>

Coroutine ==
    \/ Setup \/ LoopTest \/ Issue \/ ReadFailed \/ ReadDone
    \/ RouterReturns \/ WriteFailed \/ WriteDone \/ Close

\* The connection is over and no handler is left.
Finished ==
    /\ pc = "ended" /\ fired = 0 /\ cancels = 0
    /\ UNCHANGED vars

Next ==
    \/ Coroutine \/ Expire \/ HandlerFlag \/ HandlerCancel
    \/ \E r \in Results : PeerCompletes(r)
    \/ Finished

Spec == Init /\ [][Next]_vars

-----------------------------------------------------------------------------
(* Properties.                                                             *)

\* The shape of the state; no response without its request.
TypeOK ==
    /\ pc \in {"setup", "loop", "toRead", "reading", "handling", "toWrite", "writing",
               "closing", "ended"}
    /\ pending \in BOOLEAN /\ armed \in BOOLEAN /\ timedOut \in BOOLEAN /\ keepAlive \in BOOLEAN
    /\ res \in Results
    /\ fired \in 0..MaxFired /\ cancels \in 0..MaxFired
    /\ reqs \in 0..MaxRequests /\ resps \in 0..reqs /\ late \in 0..reqs

\* However the handler races the loop, at most one more request is served
\* once the connection has timed out.
OneLateRequest == late <= 1

=============================================================================

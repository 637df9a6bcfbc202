--------------------------- MODULE HttpsConnection ---------------------------
(***************************************************************************)
(* One HTTPS connection: the coroutine handle_connection, the three timers *)
(* that bound its phases (TLS handshake, idle, TLS shutdown) and the queue *)
(* of completion handlers of its io_context, which one thread runs in      *)
(* order.                                                                  *)
(*                                                                         *)
(* A timer that expires puts its handler into the queue.  cancel(),        *)
(* expires_after() and the timer's destructor only reach a wait that has   *)
(* not expired: a handler already in the queue still runs, without error,  *)
(* and closes the socket.  The coroutine's own continuation is the other   *)
(* kind of entry: the result of the operation it awaits.                   *)
(***************************************************************************)
EXTENDS Integers, Sequences

CONSTANTS
    MaxRequests, \* bound: requests the client sends
    MaxQueue     \* bound: handlers waiting in the queue

Timers == {"hs", "idle", "sd"}

\* What the router does with a request: answers it, throws an exception that
\* handle_connection turns into a 500, or throws something else.
RouterResults == {"ok", "throw", "raise"}
ReadResults == {"ok", "err", "bodyLimit", "headerLimit"}
Results == RouterResults \cup ReadResults

\* Phases in which the coroutine waits for the peer.
PeerPhases == {"handshake", "reading", "writing", "refusing", "shutdown"}

VARIABLES
    pc,        \* what the coroutine awaits, or "ended"
    pending,   \* the awaited operation is outstanding
    queue,     \* completion handlers ready to run: timers and results
    armed,     \* timers with an outstanding wait
    open,      \* the socket is open
    timedOut,  \* timed_out
    keepAlive, \* keep_alive
    reqs,      \* requests read
    resps      \* responses written

vars == <<pc, pending, queue, armed, open, timedOut, keepAlive, reqs, resps>>
-----------------------------------------------------------------------------
(* A variant of a definition below with a plausible slip: an idle handler  *)
(* that starts its timer again.                                            *)

IdleRearms(t) ==
    /\ queue # <<>> /\ Head(queue) = t
    /\ queue' = Tail(queue)
    /\ armed' = IF pc # "ended" /\ t = "idle" THEN armed \cup {t} ELSE armed
    /\ open' = (open /\ (pc = "ended" \/ t = "idle"))
    /\ UNCHANGED <<pc, pending, timedOut, keepAlive, reqs, resps>>
-----------------------------------------------------------------------------

\* The result r of an operation that the coroutine may be waiting for.
Possible(r) ==
    IF pc = "handling" THEN r \in RouterResults
    ELSE IF ~open THEN r = "err"
    ELSE IF pc = "reading"
         THEN r \in ReadResults /\ (r = "ok" => reqs < MaxRequests)
         ELSE r \in {"ok", "err"}

\* The socket after the handler of timer t.
OpenAfter(t) == FALSE

\* The timers armed for the phase of the TLS shutdown.
ShutdownTimers == {"sd"}

\* while (keep_alive && !timed_out)
LoopGoesOn(ka, out) == ka /\ ~out

\* Responses written after one more.
Answered(n) == n + 1

Init ==
    /\ pc = "setup" /\ pending = FALSE
    /\ queue = <<>>
    /\ armed = {}
    /\ open = TRUE
    /\ timedOut = FALSE /\ keepAlive = TRUE
    /\ reqs = 0 /\ resps = 0

(* The environment: time and the peer.                                     *)

Expire(t) ==
    /\ t \in armed
    /\ Len(queue) < MaxQueue
    /\ armed' = armed \ {t}
    /\ queue' = Append(queue, t)
    /\ UNCHANGED <<pc, pending, open, timedOut, keepAlive, reqs, resps>>

Complete(r) ==
    /\ pending
    /\ Possible(r)
    /\ Len(queue) < MaxQueue
    /\ pending' = FALSE
    /\ queue' = Append(queue, r)
    /\ UNCHANGED <<pc, armed, open, timedOut, keepAlive, reqs, resps>>

(* The thread runs the handler at the head of the queue.                   *)

\* A timer's handler: it closes the socket, whatever the coroutine is doing,
\* the router's work included.  After the end of the coroutine it runs through
\* references into a frame that is gone; the model leaves that without effect.
RunTimer(t) ==
    /\ queue # <<>> /\ Head(queue) = t
    /\ queue' = Tail(queue)
    /\ IF pc = "ended"
       THEN UNCHANGED <<open, timedOut>>
       ELSE open' = OpenAfter(t) /\ timedOut' = (timedOut \/ t = "idle")
    /\ UNCHANGED <<pc, pending, armed, keepAlive, reqs, resps>>

\* The coroutine goes on with result r; it is now in phase p with timers a.
Resume(r, p, a) ==
    /\ queue # <<>> /\ Head(queue) = r
    /\ queue' = Tail(queue)
    /\ pc' = p
    /\ armed' = a
    /\ pending' = (p # "ended")
    /\ UNCHANGED timedOut

\* Socket options and the TLS stream, then the handshake under its timer; an
\* option that fails throws to the end of the coroutine.
Setup ==
    /\ pc = "setup"
    /\ \/ pc' = "handshake" /\ pending' = TRUE /\ armed' = {"hs"}
       \/ pc' = "ended" /\ UNCHANGED <<pending, armed>>
    /\ UNCHANGED <<queue, open, timedOut, keepAlive, reqs, resps>>

HandshakeFailed ==
    /\ pc = "handshake"
    /\ Resume("err", "ended", {})
    /\ UNCHANGED <<open, keepAlive, reqs, resps>>

HandshakeDone ==
    /\ pc = "handshake"
    /\ Resume("ok", "reading", {"idle"})
    /\ UNCHANGED <<open, keepAlive, reqs, resps>>

\* body_limit (413) and header_limit (431): an error response, then out.
ReadRefused ==
    /\ pc = "reading"
    /\ \E r \in {"bodyLimit", "headerLimit"} : Resume(r, "refusing", armed)
    /\ UNCHANGED <<open, keepAlive, reqs, resps>>

\* end_of_stream or any other error: out of the loop, shutdown.
ReadFailed ==
    /\ pc = "reading"
    /\ Resume("err", "shutdown", ShutdownTimers)
    /\ UNCHANGED <<open, keepAlive, reqs, resps>>

\* A request: the idle timer starts over and the router is called.
ReadDone ==
    /\ pc = "reading"
    /\ Resume("ok", "handling", {"idle"})
    /\ reqs' = reqs + 1
    /\ keepAlive' \in BOOLEAN
    /\ UNCHANGED <<open, resps>>

Refused ==
    /\ pc = "refusing"
    /\ \E r \in {"ok", "err"} : Resume(r, "shutdown", ShutdownTimers)
    /\ UNCHANGED <<open, keepAlive, reqs, resps>>

\* The response, or a 500 that closes the connection, is written.
RouterAnswered ==
    /\ pc = "handling"
    /\ \/ Resume("ok", "writing", armed) /\ UNCHANGED keepAlive
       \/ Resume("throw", "writing", armed) /\ keepAlive' = FALSE
    /\ UNCHANGED <<open, reqs, resps>>

\* The last catch clause: the frame is gone without a shutdown.
RouterRaised ==
    /\ pc = "handling"
    /\ Resume("raise", "ended", {})
    /\ UNCHANGED <<open, keepAlive, reqs, resps>>

WriteFailed ==
    /\ pc = "writing"
    /\ Resume("err", "shutdown", ShutdownTimers)
    /\ UNCHANGED <<open, keepAlive, reqs, resps>>

\* Back to the loop's condition.
WriteDone ==
    /\ pc = "writing"
    /\ IF LoopGoesOn(keepAlive, timedOut)
       THEN Resume("ok", "reading", armed)
       ELSE Resume("ok", "shutdown", ShutdownTimers)
    /\ resps' = Answered(resps)
    /\ UNCHANGED <<open, keepAlive, reqs>>

\* async_shutdown is over, well or not: close, and the end of the frame.
ShutdownDone ==
    /\ pc = "shutdown"
    /\ \E r \in {"ok", "err"} : Resume(r, "ended", {})
    /\ open' = FALSE
    /\ UNCHANGED <<keepAlive, reqs, resps>>

Coroutine ==
    \/ Setup \/ HandshakeFailed \/ HandshakeDone \/ ReadRefused \/ ReadFailed \/ ReadDone \/ Refused
    \/ RouterAnswered \/ RouterRaised \/ WriteFailed \/ WriteDone \/ ShutdownDone

Thread == Coroutine \/ \E t \in Timers : RunTimer(t)

\* The coroutine has ended and no handler is left.
Finished ==
    /\ pc = "ended" /\ queue = <<>>
    /\ UNCHANGED vars

Next ==
    \/ Thread
    \/ \E t \in Timers : Expire(t)
    \/ \E r \in Results : Complete(r)
    \/ Finished

Spec == Init /\ [][Next]_vars

\* The router answers, or an operation on a closed socket fails.
Settles == \E r \in Results : (pc = "handling" \/ ~open) /\ Complete(r)

\* The thread runs what is in the queue, timers expire, the router answers,
\* and an operation on a closed socket fails.  The peer owes nothing.
Fairness ==
    /\ WF_vars(Thread)
    /\ \A t \in Timers : WF_vars(Expire(t))
    /\ WF_vars(Settles)

FairSpec == Spec /\ Fairness
-----------------------------------------------------------------------------
(* Properties.                                                             *)

\* The shape of the state; no response without its request.
TypeOK ==
    /\ pc \in PeerPhases \cup {"setup", "handling", "ended"}
    /\ pending \in BOOLEAN /\ open \in BOOLEAN /\ timedOut \in BOOLEAN /\ keepAlive \in BOOLEAN
    /\ queue \in Seq(Timers \cup Results)
    /\ armed \subseteq Timers
    /\ reqs \in 0..MaxRequests /\ resps \in 0..reqs

\* Whatever a client does or leaves undone, its connection ends and gives
\* its slot back.
ConnectionEnds == <>(pc = "ended")
=============================================================================

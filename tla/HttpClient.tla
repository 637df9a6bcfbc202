------------------------------ MODULE HttpClient ------------------------------
(***************************************************************************)
(* One request of HttpClient.  Over plain HTTP (send_http_request) one     *)
(* steady_timer guards the phases connect, write and read in turn: each    *)
(* phase arms it with a handler that, unless it is cancelled, sets         *)
(* timed_out and closes the socket; both are locals of the coroutine,      *)
(* captured by reference.  Over TLS (send_https_request) every operation   *)
(* has its own cancel_after.                                               *)
(*                                                                         *)
(* A completion is first queued on the executor and handled later, so a    *)
(* timer that expired can no longer be cancelled when the operation it     *)
(* guards has completed as well: its handler then closes the socket in a   *)
(* later phase, or after the coroutine has ended.  Time is abstract: an    *)
(* armed timer may expire at any moment.  The io_context of the server has *)
(* several threads, so queued handlers run in any order.                   *)
(***************************************************************************)
EXTENDS Integers, Sequences

TimedPhases == {"connect", "handshake", "write", "read"}
Results == {"ok", "error", "torn", "aborted"}

VARIABLES
    tls,       \* the URL is https
    stage,     \* "resolve", a phase, "returned" or "threw"
    op,        \* the phase's operation: "none", "pending" or its queued result
    armed,     \* phases whose timer is armed
    queued,    \* phases whose timer handler is queued, having expired
    timedOut,  \* timed_out
    open       \* the socket is open

vars == <<tls, stage, op, armed, queued, timedOut, open>>
-----------------------------------------------------------------------------
(* Variants with a plausible slip: a read without a timer, a timeout that  *)
(* is not looked at.                                                       *)

ReadUntimed(p) == IF p = "read" THEN {} ELSE {p}
TimeoutUnseen(r) == r = "ok"
-----------------------------------------------------------------------------
Ended == stage \in {"returned", "threw"}

\* The phases that have a timeout, in order.
Phases == IF tls THEN <<"connect", "handshake", "write", "read">> ELSE <<"connect", "write", "read">>

\* The phase after p.
After(p) ==
    LET i == CHOOSE j \in 1..Len(Phases) : Phases[j] = p
    IN  IF i = Len(Phases) THEN "returned" ELSE Phases[i + 1]

\* The timers that entering phase p arms.
Arms(p) == {p}

\* timer.cancel() after p's operation, or its destruction with the frame.
Cancelled(p) == armed \ {p}

\* The response has a length and a body of that length.  Beast fills it in
\* when a read has succeeded, and leaves it empty otherwise.
ResponseValid(r) == r = "ok"

\* Over TLS a read may end in a teardown error if the response is complete.
Tolerated(r) == tls /\ stage = "read" /\ r = "torn" /\ ResponseValid(r)

\* A completion that lets the coroutine go on.
Succeeds(r) == (r = "ok" /\ ~timedOut) \/ Tolerated(r)

Init ==
    /\ tls \in BOOLEAN
    /\ stage = "resolve" /\ op = "none" /\ armed = {} /\ queued = {}
    /\ timedOut = FALSE /\ open = TRUE

\* The coroutine enters phase p: timed_out is reset, the timer armed, the
\* operation started (on a closed socket it fails at once).
Enter(p) ==
    /\ stage' = p
    /\ timedOut' = FALSE
    /\ op' = IF open THEN "pending" ELSE "error"

\* The frame is destroyed: so are the socket and the timer.
Leave(end) ==
    /\ stage' = end /\ op' = "none" /\ open' = FALSE
    /\ UNCHANGED timedOut

\* async_resolve has no timeout.
Resolve(r) ==
    /\ stage = "resolve"
    /\ IF Succeeds(r)
         THEN Enter("connect") /\ armed' = Arms("connect") /\ UNCHANGED open
         ELSE Leave("threw") /\ UNCHANGED armed
    /\ UNCHANGED <<tls, queued>>

\* The peer, or the network, completes the operation; "torn" stands for the
\* errors of a connection torn down.
Completes(r) ==
    /\ op = "pending"
    /\ op' = r
    /\ UNCHANGED <<tls, stage, armed, queued, timedOut, open>>

\* The timer of phase p expires.  A cancel_after then aborts the operation;
\* the plain client's handler is queued.
Expires(p) ==
    /\ p \in armed
    /\ armed' = Cancelled(p)
    /\ queued' = IF tls THEN queued ELSE queued \cup {p}
    /\ op' = IF tls /\ op = "pending" THEN "aborted" ELSE op
    /\ UNCHANGED <<tls, stage, timedOut, open>>

\* The queued handler of p's timer runs: it writes to the frame.  When the
\* coroutine has ended these are writes to freed memory, with no effect on
\* the request.
TimerHandler(p) ==
    /\ p \in queued
    /\ queued' = queued \ {p}
    /\ IF Ended
         THEN UNCHANGED <<op, timedOut, open>>
         ELSE /\ timedOut' = TRUE /\ open' = FALSE
              /\ op' = IF op = "pending" THEN "aborted" ELSE op
    /\ UNCHANGED <<tls, stage, armed>>

\* The coroutine resumes after the operation of the phase.
Resume ==
    /\ op \in Results
    /\ LET p == stage
           good == Succeeds(op)
       IN  IF good /\ After(p) # "returned"
             THEN /\ Enter(After(p)) /\ UNCHANGED open
                  /\ armed' = Cancelled(p) \cup Arms(After(p))
             ELSE /\ Leave(IF good THEN "returned" ELSE "threw")
                  /\ armed' = Cancelled(p)
    /\ UNCHANGED <<tls, queued>>

\* The request is over.
Finished == Ended /\ queued = {} /\ UNCHANGED vars

Next ==
    \/ \E r \in {"ok", "error"} : Resolve(r)
    \/ \E r \in Results \ {"aborted"} : Completes(r)
    \/ \E p \in TimedPhases : Expires(p) \/ TimerHandler(p)
    \/ Resume \/ Finished

Spec == Init /\ [][Next]_vars

Resolution == \E r \in {"ok", "error"} : Resolve(r)

\* Resolution ends, timers expire, queued handlers and the coroutine run;
\* nothing is assumed of the peer.
Fairness ==
    /\ WF_vars(Resolution) /\ WF_vars(Resume)
    /\ \A p \in TimedPhases :
          WF_vars(Expires(p)) /\ WF_vars(TimerHandler(p))

FairSpec == Spec /\ Fairness
-----------------------------------------------------------------------------
(* Properties.                                                             *)

\* The shape of the state; only the current phase's timer is ever armed.
TypeOK ==
    /\ tls \in BOOLEAN
    /\ stage \in TimedPhases \cup {"resolve", "returned", "threw"}
    /\ op \in Results \cup {"none", "pending"}
    /\ armed \subseteq {stage}
    /\ queued \subseteq TimedPhases
    /\ timedOut \in BOOLEAN /\ open \in BOOLEAN

\* A response is returned only by a request whose every operation succeeded
\* on a socket no timer had closed.
WholeResponse ==
    [][stage # "returned" /\ stage' = "returned" => op = "ok" /\ stage = "read" /\ open]_vars

\* Whatever the peer does, the request ends: each phase is under a timer.
RequestEnds == <>Ended
===============================================================================

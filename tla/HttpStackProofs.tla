--------------------------- MODULE HttpStackProofs ---------------------------
(***************************************************************************)
(* Proofs about the protocols of HttpStack, for every number of workers,   *)
(* clients, requests and handlers, and for every machine and setting.      *)
(* Each component has an inductive invariant of its own; a step of one     *)
(* component leaves the variables of the others alone.                     *)
(***************************************************************************)
EXTENDS HttpStack, Sequences, TLAPS

\* The initial state of each component is the one of its module.
LEMMA InitParts ==
    ASSUME Init
    PROVE  /\ Session!Init /\ Client!Init /\ Mail!Init
           /\ subject = "limits" => Config!Init
BY Zenon DEF Init

\* A step is one of a component, or leaves all of them alone.
LEMMA NextParts ==
    ASSUME [Next]_vars
    PROVE  /\ Session!Next \/ UNCHANGED connectionVars
           /\ Client!Next \/ UNCHANGED clientVars
           /\ Mail!Next \/ UNCHANGED mailVars
           /\ (subject = "limits" /\ Config!Next) \/ UNCHANGED limitVars
           /\ UNCHANGED subject
BY Zenon DEF Next, vars, OnServer, OnConnection, OnHttps, OnClient, OnMail, OnLimits
-----------------------------------------------------------------------------
(* A connection of the plain server.                                       *)

\* Where the coroutine can be once it has read a request after the timeout:
\* past the read, and never again before it.
PastRead == {"handling", "toWrite", "writing", "loop", "closing", "ended"}

\* The late request is the last one: timed_out stays set, and the loop is not
\* entered again.
LateIsLast ==
    /\ late \in {0, 1} /\ timedOut \in BOOLEAN
    /\ late = 1 => timedOut /\ pc \in PastRead

\* Every step of the connection, in any order with its timer's handlers,
\* keeps the late request the last one.
LEMMA SessionStep ==
    ASSUME LateIsLast, Session!Next
    PROVE  LateIsLast'
<1> USE DEF LateIsLast, PastRead
<1>1. CASE Session!Setup BY <1>1 DEF Session!Setup
<1>2. CASE Session!LoopTest
  BY <1>2 DEF Session!LoopTest, Session!LoopGoesOn, Session!timer
<1>3. CASE Session!Issue BY <1>3 DEF Session!Issue, Session!timer
<1>4. CASE Session!ReadFailed BY <1>4 DEF Session!ReadFailed
<1>5. CASE Session!ReadDone BY <1>5 DEF Session!ReadDone
<1>6. CASE Session!RouterReturns BY <1>6 DEF Session!RouterReturns
<1>7. CASE Session!WriteFailed BY <1>7 DEF Session!WriteFailed
<1>8. CASE Session!WriteDone
  BY <1>8 DEF Session!WriteDone, Session!AfterWrite, Session!timer
<1>9. CASE Session!Close BY <1>9 DEF Session!Close
<1>10. CASE Session!Expire BY <1>10 DEF Session!Expire
<1>11. CASE Session!HandlerFlag BY <1>11 DEF Session!HandlerFlag
<1>12. CASE Session!HandlerCancel BY <1>12 DEF Session!HandlerCancel
<1>13. ASSUME NEW r \in Session!Results, Session!PeerCompletes(r)
       PROVE  LateIsLast'
  BY <1>13 DEF Session!PeerCompletes, Session!timer
<1>14. CASE Session!Finished BY <1>14 DEF Session!Finished, Session!vars
<1> QED
  BY <1>1, <1>2, <1>3, <1>4, <1>5, <1>6, <1>7, <1>8, <1>9, <1>10, <1>11,
     <1>12, <1>13, <1>14 DEF Session!Next, Session!Coroutine

\* OneLateRequest, for every number of requests and handlers in flight: at
\* most one more request is served once the idle handler has set timed_out.
THEOREM LateRequests == Spec => []OneLateRequest
<1>1. Init => LateIsLast
  BY InitParts DEF Session!Init, LateIsLast
<1>2. LateIsLast /\ [Next]_vars => LateIsLast'
  <2>1. LateIsLast /\ UNCHANGED connectionVars => LateIsLast'
    BY DEF connectionVars, LateIsLast
  <2> QED
    BY <2>1, NextParts, SessionStep
<1>3. LateIsLast => OneLateRequest
  BY DEF LateIsLast, OneLateRequest, Session!OneLateRequest
<1> QED
  BY <1>1, <1>2, <1>3, PTL DEF Spec
-----------------------------------------------------------------------------
(* A request of the client.                                                *)

\* An operation belongs to a phase of the request, and if it can still
\* succeed its socket is open or a handler has told the coroutine otherwise.
ClosedIsTold ==
    /\ tls \in BOOLEAN /\ expired \in BOOLEAN /\ open \in BOOLEAN
    /\ op # "none" => stage \in Client!TimedPhases /\ (stage = "handshake" => tls)
    /\ op \in {"pending", "ok", "torn"} => open \/ expired

\* The phases follow each other in their order, and only the read is last.
LEMMA AfterFacts ==
    ASSUME tls \in BOOLEAN,
           NEW p \in Client!TimedPhases, p = "handshake" => tls
    PROVE  /\ Client!After(p) = "returned" <=> p = "read"
           /\ \/ Client!After(p) = "returned"
              \/ /\ Client!After(p) \in Client!TimedPhases
                 /\ Client!After(p) = "handshake" => tls
<1> DEFINE S == Client!Phases
           i == CHOOSE j \in 1..Len(S) : S[j] = p
<1>1. CASE tls
  <2>1. S = <<"connect", "handshake", "write", "read">>
    BY <1>1 DEF Client!Phases
  <2>2. \E j \in 1..Len(S) : S[j] = p
    <3>1. Len(S) = 4 BY <2>1
    <3>2. CASE p = "connect" BY <3>1, <3>2, <2>1, 1 \in 1..4
    <3>3. CASE p = "handshake" BY <3>1, <3>3, <2>1, 2 \in 1..4
    <3>4. CASE p = "write" BY <3>1, <3>4, <2>1, 3 \in 1..4
    <3>5. CASE p = "read" BY <3>1, <3>5, <2>1, 4 \in 1..4
    <3> QED BY <3>2, <3>3, <3>4, <3>5 DEF Client!TimedPhases
  <2>3. i \in 1..Len(S) /\ S[i] = p
    BY <2>2, Zenon
  <2>4. Client!After(p) = IF i = Len(S) THEN "returned" ELSE S[i + 1]
    BY DEF Client!After
  <2> HIDE DEF i
  <2> QED BY <2>1, <2>3, <2>4, <1>1 DEF Client!TimedPhases
<1>2. CASE ~tls
  <2>1. S = <<"connect", "write", "read">>
    BY <1>2 DEF Client!Phases
  <2>2. \E j \in 1..Len(S) : S[j] = p
    <3>1. Len(S) = 3 BY <2>1
    <3>2. CASE p = "connect" BY <3>1, <3>2, <2>1, 1 \in 1..3
    <3>3. CASE p = "write" BY <3>1, <3>3, <2>1, 2 \in 1..3
    <3>4. CASE p = "read" BY <3>1, <3>4, <2>1, 3 \in 1..3
    <3> QED BY <3>2, <3>3, <3>4, <1>2 DEF Client!TimedPhases
  <2>3. i \in 1..Len(S) /\ S[i] = p
    BY <2>2, Zenon
  <2>4. Client!After(p) = IF i = Len(S) THEN "returned" ELSE S[i + 1]
    BY DEF Client!After
  <2> HIDE DEF i
  <2> QED BY <2>1, <2>3, <2>4, <1>2 DEF Client!TimedPhases
<1> QED BY <1>1, <1>2

\* Of all steps only Resume returns, and what it resumes with is a response
\* read completely from an open socket; every step keeps ClosedIsTold.
LEMMA ClientStep ==
    ASSUME ClosedIsTold, Client!Next
    PROVE  /\ ClosedIsTold'
           /\ stage # "returned" /\ stage' = "returned" => op = "ok" /\ stage = "read" /\ open
<1> DEFINE G == /\ ClosedIsTold'
                /\ stage # "returned" /\ stage' = "returned"
                      => op = "ok" /\ stage = "read" /\ open
<1>1. ASSUME NEW r \in {"ok", "error"}, Client!Resolve(r) PROVE G
  BY <1>1 DEF ClosedIsTold, Client!Resolve, Client!Enter, Client!Leave,
              Client!TimedPhases
<1>2. ASSUME NEW r \in Client!Results \ {"aborted"}, Client!Completes(r) PROVE G
  BY <1>2 DEF ClosedIsTold, Client!Completes, Client!Results, Client!TimedPhases
<1>3. ASSUME NEW p \in Client!TimedPhases, Client!Expires(p) PROVE G
  BY <1>3 DEF ClosedIsTold, Client!Expires, Client!TimedPhases
<1>4. ASSUME NEW p \in Client!TimedPhases, Client!TimerHandler(p) PROVE G
  BY <1>4 DEF ClosedIsTold, Client!TimerHandler, Client!TimedPhases
<1>5. CASE Client!Resume
  <2>1. /\ stage \in Client!TimedPhases /\ (stage = "handshake" => tls)
        /\ op \in Client!Results /\ tls \in BOOLEAN
    BY <1>5 DEF Client!Resume, Client!Results, ClosedIsTold
  <2>2. Client!Succeeds(op) => op = "ok" /\ ~expired
    BY DEF Client!Succeeds, Client!Tolerated, Client!ResponseValid
  <2>3. CASE Client!Succeeds(op) /\ Client!After(stage) # "returned"
    BY <2>1, <2>3, <1>5, AfterFacts
       DEF ClosedIsTold, Client!Resume, Client!Enter, Client!TimedPhases
  <2>4. CASE ~(Client!Succeeds(op) /\ Client!After(stage) # "returned")
    <3>1. Client!Leave(IF Client!Succeeds(op) THEN "returned" ELSE "threw") /\ UNCHANGED tls
      BY <2>4, <1>5 DEF Client!Resume
    <3>2. ClosedIsTold'
      BY <3>1 DEF ClosedIsTold, Client!Leave
    <3>3. stage' = "returned" => op = "ok" /\ stage = "read" /\ open
      <4> SUFFICES ASSUME stage' = "returned" PROVE op = "ok" /\ stage = "read" /\ open
        OBVIOUS
      <4>1. Client!Succeeds(op)
        BY <3>1 DEF Client!Leave
      <4> QED BY <4>1, <2>1, <2>2, <2>4, AfterFacts DEF ClosedIsTold
    <3> QED BY <3>2, <3>3
  <2> QED BY <2>3, <2>4
<1>6. CASE Client!Finished
  BY <1>6 DEF Client!Finished, Client!vars, ClosedIsTold
<1> QED
  BY <1>1, <1>2, <1>3, <1>4, <1>5, <1>6 DEF Client!Next

\* WholeResponse, whatever the peer does and whenever the timers expire: the
\* client returns only a response that it has read completely.
THEOREM ResponsesWhole == Spec => WholeResponse
<1>1. Init => ClosedIsTold
  BY InitParts DEF Client!Init, ClosedIsTold
<1>2. ClosedIsTold /\ [Next]_vars
         => /\ ClosedIsTold'
            /\ [stage # "returned" /\ stage' = "returned"
                  => op = "ok" /\ stage = "read" /\ open]_(Client!vars)
  <2>1. ClosedIsTold /\ UNCHANGED clientVars => ClosedIsTold' /\ UNCHANGED Client!vars
    BY DEF clientVars, ClosedIsTold, Client!vars
  <2> QED
    BY <2>1, NextParts, ClientStep
<1> QED
  BY <1>1, <1>2, PTL DEF Spec, WholeResponse, Client!WholeResponse
-----------------------------------------------------------------------------
(* A mail.                                                                 *)

\* The reply to the text of the mail is the last one, and 250 agrees to it.
LEMMA LastReply ==
    /\ Len(Mail!Expected) = 8 /\ Mail!Expected[8] = 250
    /\ Mail!Agrees[8] = 250 /\ Mail!Refuses # 250
BY DEF Mail!Expected, Mail!Agrees, Mail!Refuses

\* What the server has taken, against what the client knows: the server takes
\* the mail with the last reply and no sooner; the client writes QUIT only
\* when it has read that reply; and when the server has taken the mail, only
\* a broken connection keeps the client from learning it.
TakenIsKnown ==
    /\ step \in 1..8 /\ dotted \in BOOLEAN
    /\ up \in BOOLEAN /\ (wire # Mail!None => mStage = "reading" /\ up)
    /\ mail = "cut" => dotted
    /\ mail # "none" => step = 8 /\ mStage \notin {"resolve", "connect", "handshake"}
    /\ mStage \in {"masking", "failed"} /\ mail # "none" => ~up
    /\ mStage = "sent" \/ (mStage = "writing" /\ step = 8) => mail # "none"
    /\ mStage = "reading" /\ mail # "none" =>
          said /\ (wire = Mail!None \/ (wire.kind \in {"last", "bare"} /\ wire.code = 250))
    /\ wire # Mail!None /\ step = 8 /\ wire.kind = "last" /\ wire.code = 250 => mail # "none"

\* Every step of the client, the server and the network keeps TakenIsKnown.
LEMMA MailStep ==
    ASSUME TakenIsKnown, Mail!Next
    PROVE  TakenIsKnown'
<1> USE LastReply DEF TakenIsKnown
<1>1. CASE Mail!Prepare
  BY <1>1 DEF Mail!Prepare
<1>2. CASE Mail!ReadLine
  BY <1>2 DEF Mail!ReadLine, Mail!IsLast, Mail!AsExpected
<1>3. CASE Mail!OperationFails
  BY <1>3 DEF Mail!OperationFails
<1>4. CASE Mail!WriteCommand
  BY <1>4 DEF Mail!WriteCommand
<1>5. CASE Mail!Masks
  BY <1>5 DEF Mail!Masks
<1>6. CASE Mail!Break
  BY <1>6 DEF Mail!Break
<1>7. CASE Mail!Finished
  BY <1>7 DEF Mail!Finished, Mail!vars
<1>8. ASSUME NEW k \in Mail!LineKinds, NEW c \in {Mail!Refuses, Mail!Agrees[step]},
             Mail!ServerSays(k, c)
      PROVE  TakenIsKnown'
  <2>1. /\ up /\ mStage = "reading" /\ wire = Mail!None /\ ~said
        /\ wire'.kind = k /\ wire'.code = c /\ wire' # Mail!None
        /\ said' = (k # "more")
        /\ mail' = IF step = 8 /\ c = Mail!Agrees[step] /\ k \in {"last", "bare"}
                    THEN (IF dotted THEN "cut" ELSE "whole") ELSE mail
        /\ UNCHANGED <<mStage, step, up, dotted>>
    BY <1>8 DEF Mail!ServerSays, Mail!None, Mail!LineKinds
  <2>2. CASE step = 8 /\ c = Mail!Agrees[step] /\ k \in {"last", "bare"}
    <3>1. mail' \in {"cut", "whole"} /\ (mail' = "cut" => dotted)
      BY <2>1, <2>2
    <3>2. /\ said' /\ mStage' = "reading" /\ step' = 8 /\ wire'.kind \in {"last", "bare"}
          /\ wire'.code = 250
      <4>1. c = 250 /\ k # "more" /\ k \in {"last", "bare"} /\ step = 8
        BY <2>2
      <4> HIDE DEF TakenIsKnown
      <4>2. wire'.kind = k /\ wire'.code = c
        BY <2>1
      <4>3. said' /\ mStage' = "reading" /\ step' = 8
        BY <2>1, <4>1
      <4> QED BY <4>1, <4>2, <4>3
    <3> QED
      BY <2>1, <3>1, <3>2
  <2>3. CASE ~(step = 8 /\ c = Mail!Agrees[step] /\ k \in {"last", "bare"})
    BY <2>1, <2>3
  <2> QED BY <2>2, <2>3
<1> QED
  BY <1>1, <1>2, <1>3, <1>4, <1>5, <1>6, <1>7, <1>8 DEF Mail!Next, Mail!Progress

\* ResultTellsTruth, for every server: a send() that succeeds has delivered
\* the mail, and one that fails has delivered it only if the connection broke
\* after the server had agreed.
THEOREM SendResult == Spec => []ResultTellsTruth
<1>1. Init => TakenIsKnown
  BY InitParts DEF Mail!Init, TakenIsKnown
<1>2. TakenIsKnown /\ [Next]_vars => TakenIsKnown'
  <2>1. TakenIsKnown /\ UNCHANGED mailVars => TakenIsKnown'
    BY DEF mailVars, TakenIsKnown
  <2> QED
    BY <2>1, NextParts, MailStep
<1>3. TakenIsKnown => ResultTellsTruth
  BY DEF TakenIsKnown, ResultTellsTruth, Mail!ResultTellsTruth
<1> QED
  BY <1>1, <1>2, <1>3, PTL DEF Spec
-----------------------------------------------------------------------------
(* The limits of an HttpsServer.                                           *)

\* The larger and the smaller of two numbers.
LEMMA MinMax ==
    ASSUME NEW a \in Int, NEW b \in Int
    PROVE  /\ Config!Max({a, b}) = IF a >= b THEN a ELSE b
           /\ Config!Min({a, b}) = IF a <= b THEN a ELSE b
<1>1. \E x \in {a, b} : \A y \in {a, b} : x >= y
  OBVIOUS
<1>2. Config!Max({a, b}) \in {a, b} /\ \A y \in {a, b} : Config!Max({a, b}) >= y
  BY <1>1, Zenon DEF Config!Max
<1>3. \E x \in {a, b} : \A y \in {a, b} : x =< y
  OBVIOUS
<1>4. Config!Min({a, b}) \in {a, b} /\ \A y \in {a, b} : Config!Min({a, b}) =< y
  BY <1>3, Zenon DEF Config!Min
<1> QED BY <1>2, <1>4

\* A clamped number is between its bounds, and above the floor it is no
\* larger than the number itself.
LEMMA ClampedFacts ==
    ASSUME NEW n \in Int, NEW low \in Int, NEW high \in Int, low <= high
    PROVE  /\ Config!Clamped(n, low, high) \in low..high
           /\ Config!Clamped(n, low, high) > low => Config!Clamped(n, low, high) <= n
<1> DEFINE m == Config!Max({n, low})
<1>1. m = IF n >= low THEN n ELSE low
  BY MinMax
<1>2. Config!Clamped(n, low, high) = IF m <= high THEN m ELSE high
  BY <1>1, MinMax DEF Config!Clamped
<1> QED BY <1>1, <1>2

\* Division does not give more than there is.
LEMMA DivBound ==
    ASSUME NEW n \in Nat, NEW d \in Nat \ {0}
    PROVE  n \div d \in Nat /\ d * (n \div d) <= n
OBVIOUS

\* The shares of all the connections together are within the share of the
\* memory they were cut from.
LEMMA ShareBound ==
    ASSUME NEW ram \in Nat, NEW pct \in Nat, NEW conns \in Int
    PROVE  /\ Config!PerConnection(ram, pct, conns) \in Nat
           /\ \A x \in Nat : x <= Config!PerConnection(ram, pct, conns)
                 => 100 * conns * x <= pct * ram * MB
<1> DEFINE total == ram * MB * pct
           share == total \div 100
           d == IF conns <= 0 THEN 1 ELSE conns
           each == share \div d
<1>1. total \in Nat /\ d \in Nat \ {0}
  BY MemoryAssumption
<1>2. share \in Nat /\ 100 * share <= total
  BY <1>1, DivBound
<1>3. each \in Nat /\ d * each <= share
  BY <1>1, <1>2, DivBound
<1>4. Config!PerConnection(ram, pct, conns) = each
  BY <1>1, <1>2, MemoryAssumption DEF Config!PerConnection, Config!Quotient
<1>5. ASSUME NEW x \in Nat, x <= each
      PROVE  100 * conns * x <= total
  <2>1. CASE conns <= 0
    BY <2>1, <1>1
  <2>2. CASE conns > 0
    <3>1. d = conns /\ conns \in Nat BY <2>2
    <3>2. conns * x <= conns * each BY <3>1, <1>3, <1>5
    <3> QED BY <3>1, <3>2, <1>1, <1>2, <1>3
  <2> QED BY <2>1, <2>2
<1>6. total = pct * ram * MB
  BY MemoryAssumption
<1> QED BY <1>3, <1>4, <1>5, <1>6

\* The limit on open files, wrapped or assumed, and what is derived from it
\* are ints.
LEMMA ConnectionsInt ==
    ASSUME NEW m, m.cur \in Int, m.max \in Int
    PROVE  Config!DerivedConnections(Config!FdLimit(m)) \in Int
<1>1. \A n \in Int : Config!Wrap(n) \in Int
  BY IntAssumption DEF Config!Wrap
<1>2. Config!FdLimit(m) \in Int
  BY <1>1, IntAssumption DEF Config!FdLimit
<1>3. Config!Wrap(Config!FdLimit(m) * 8) \in Int
  BY <1>1, <1>2
<1> QED BY <1>3 DEF Config!DerivedConnections, Config!Quotient

\* What the machine and the settings are, and the budget.
BudgetInv ==
    subject = "limits" =>
        /\ machine.cur \in Int /\ machine.max \in Int /\ machine.ram \in Nat
        /\ DOMAIN setting
              = {"conn", "connTesting", "body", "bodyTesting", "header", "headerTesting"}
        /\ Config!MemoryBudgetKept

\* load_limits_from_config keeps the budget, whatever the machine is.
LEMMA LimitsStep ==
    ASSUME BudgetInv, subject = "limits", Config!Next, subject' = subject
    PROVE  BudgetInv'
<1>1. CASE Config!LoadLimits
  <2> DEFINE c == Config!DerivedConnections(Config!FdLimit(machine))
  <2>1. machine' = machine /\ setting' = setting
    BY <1>1 DEF Config!LoadLimits
  <2>2. c \in Int
    BY ConnectionsInt DEF BudgetInv
  <2>3. SUFFICES ASSUME \A k \in DOMAIN setting : setting[k] = 0
                 PROVE  /\ limits'.body \in MinBody..MaxBodyCap
                        /\ limits'.header \in MinHeader..MaxHeaderCap
                        /\ limits'.body > MinBody
                              => 100 * limits'.conn * limits'.body <= 25 * machine.ram * MB
                        /\ limits'.header > MinHeader
                              => 100 * limits'.conn * limits'.header <= machine.ram * MB
    BY <2>1 DEF BudgetInv, Config!MemoryBudgetKept, Config!Derived
  <2>4. /\ setting.conn = 0 /\ setting.connTesting = 0 /\ setting.body = 0
        /\ setting.bodyTesting = 0 /\ setting.header = 0 /\ setting.headerTesting = 0
    BY <2>3 DEF BudgetInv
  <2>5. \A d : Config!Chosen(0, 0, d) = d
    BY DEF Config!Chosen
  <2>6. /\ limits'.conn = c
        /\ limits'.body = Config!ComputeMaxBodySize(machine.ram, c)
        /\ limits'.header = Config!ComputeMaxHeaderSize(machine.ram, c)
    BY <1>1, <2>4, <2>5 DEF Config!LoadLimits
  <2>7. machine.ram \in Nat
    BY DEF BudgetInv
  <2> HIDE DEF c
  <2>8. /\ limits'.body \in MinBody..MaxBodyCap
        /\ limits'.body > MinBody => limits'.body <= Config!PerConnection(machine.ram, 25, c)
    <3> DEFINE p == Config!PerConnection(machine.ram, 25, c)
    <3>1. p \in Int
      <4>1. 25 \in Nat OBVIOUS
      <4>2. p \in Nat BY <4>1, <2>2, <2>7, ShareBound, Zenon
      <4> QED BY <4>2
    <3>2. limits'.body = Config!Clamped(p, MinBody, MaxBodyCap)
      BY <2>6 DEF Config!ComputeMaxBodySize
    <3> HIDE DEF p
    <3>3. /\ Config!Clamped(p, MinBody, MaxBodyCap) \in MinBody..MaxBodyCap
          /\ Config!Clamped(p, MinBody, MaxBodyCap) > MinBody
                => Config!Clamped(p, MinBody, MaxBodyCap) <= p
      BY <3>1, ClampedFacts, MemoryAssumption
    <3> QED BY <3>2, <3>3 DEF p
  <2>9. /\ limits'.header \in MinHeader..MaxHeaderCap
        /\ limits'.header > MinHeader => limits'.header <= Config!PerConnection(machine.ram, 1, c)
    <3> DEFINE p == Config!PerConnection(machine.ram, 1, c)
    <3>1. p \in Int
      <4>1. 1 \in Nat OBVIOUS
      <4>2. p \in Nat BY <4>1, <2>2, <2>7, ShareBound, Zenon
      <4> QED BY <4>2
    <3>2. limits'.header = Config!Clamped(p, MinHeader, MaxHeaderCap)
      BY <2>6 DEF Config!ComputeMaxHeaderSize
    <3> HIDE DEF p
    <3>3. /\ Config!Clamped(p, MinHeader, MaxHeaderCap) \in MinHeader..MaxHeaderCap
          /\ Config!Clamped(p, MinHeader, MaxHeaderCap) > MinHeader
                => Config!Clamped(p, MinHeader, MaxHeaderCap) <= p
      BY <3>1, ClampedFacts, MemoryAssumption
    <3> QED BY <3>2, <3>3 DEF p
  <2>10. limits'.body \in Nat /\ limits'.header \in Nat
    BY <2>8, <2>9, MemoryAssumption
  <2>11. limits'.body > MinBody => 100 * limits'.conn * limits'.body <= 25 * machine.ram * MB
    BY <2>2, <2>6, <2>7, <2>8, <2>10, ShareBound
  <2>12. limits'.header > MinHeader => 100 * limits'.conn * limits'.header <= 1 * machine.ram * MB
    BY <2>2, <2>6, <2>7, <2>9, <2>10, ShareBound
  <2> QED BY <2>7, <2>8, <2>9, <2>11, <2>12, MemoryAssumption
<1>2. CASE Config!Loaded
  BY <1>2 DEF Config!Loaded, Config!vars, BudgetInv, Config!MemoryBudgetKept, Config!Derived
<1> QED BY <1>1, <1>2 DEF Config!Next

\* MemoryBudgetKept, for every width of an int, limit on open files and size
\* of memory: derived limits keep the buffers of all connections within the
\* memory set aside for them.
THEOREM BudgetKept == Spec => []MemoryBudgetKept
<1>1. Init => BudgetInv
  <2> SUFFICES ASSUME Init, subject = "limits" PROVE BudgetInv
    BY DEF BudgetInv
  <2>1. Config!Init
    BY InitParts
  <2>2. machine.cur \in Int /\ machine.max \in Int /\ machine.ram \in Nat
    <3>1. /\ machine.cur \in Rlimits \cup {Infinity, Failed}
          /\ machine.max \in Rlimits \cup {Infinity} /\ machine.ram \in Memories
      <4>1. machine \in [cur : Rlimits \cup {Infinity, Failed},
                         max : Rlimits \cup {Infinity}, ram : Memories]
        BY <2>1, Zenon DEF Config!Init
      <4> QED BY <4>1
    <3>2. Rlimits \cup {Infinity, Failed} \subseteq Nat
      BY IntAssumption, Zenon
    <3>3. machine.cur \in Int /\ machine.max \in Int
      BY <3>1, <3>2
    <3>4. machine.ram \in Nat
      BY <3>1, MemoryAssumption
    <3> QED BY <3>3, <3>4
  <2>3. DOMAIN setting
           = {"conn", "connTesting", "body", "bodyTesting", "header", "headerTesting"}
    BY <2>1 DEF Config!Init
  <2>4. Config!MemoryBudgetKept
    BY <2>1, Zenon DEF Config!Init, Config!MemoryBudgetKept
  <2> QED BY <2>2, <2>3, <2>4 DEF BudgetInv
<1>2. BudgetInv /\ [Next]_vars => BudgetInv'
  <2>1. BudgetInv /\ UNCHANGED limitVars /\ UNCHANGED subject => BudgetInv'
    BY DEF limitVars, BudgetInv, Config!MemoryBudgetKept, Config!Derived
  <2> QED
    BY <2>1, NextParts, LimitsStep
<1>3. BudgetInv => MemoryBudgetKept
  BY DEF BudgetInv, MemoryBudgetKept
<1> QED
  BY <1>1, <1>2, <1>3, PTL DEF Spec
===============================================================================

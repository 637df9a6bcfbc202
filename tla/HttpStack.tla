------------------------------ MODULE HttpStack ------------------------------
(***************************************************************************)
(* The protocols of one connection, and the plain server:                  *)
(*   - a Server with its worker threads, and one of its connections;       *)
(*   - one HTTPS connection;                                               *)
(*   - one request of the HttpClient, over plain HTTP or over TLS;         *)
(*   - one mail;                                                           *)
(*   - the limits of an HttpsServer.                                       *)
(* None of the models reads another's state, so it is enough to look at    *)
(* the behaviours in which one of them, chosen at the start, takes all     *)
(* the steps.                                                              *)
(***************************************************************************)
EXTENDS Integers

CONSTANTS
    Workers, Conns,               \* worker threads and clients of the Server
    MaxRequests, MaxFired,        \* bounds: requests, idle handlers in flight
    MaxQueue,                     \* bound: completions of an HTTPS connection
    Half, Infinity, Failed,       \* ints, and the answers of getrlimit
    FdUnknown, FdUnlimited,
    Rlimits, Memories,            \* limits on open files, MB of memory
    ConnSettings, Sizes,          \* values of the settings
    MB, MinBody, MaxBodyCap, MinHeader, MaxHeaderCap

\* An int has a sign; limits and the memory are not negative; a floor
\* is below its cap.
ASSUME IntAssumption ==
    /\ Half \in Nat \ {0} /\ FdUnknown \in Int /\ FdUnlimited \in Int
    /\ Rlimits \subseteq Nat /\ Infinity \in Nat /\ Failed \in Nat
ASSUME MemoryAssumption ==
    /\ MB \in Nat /\ Memories \subseteq Nat
    /\ MinBody \in Nat /\ MaxBodyCap \in Nat /\ MinBody <= MaxBodyCap
    /\ MinHeader \in Nat /\ MaxHeaderCap \in Nat /\ MinHeader <= MaxHeaderCap

VARIABLES
    subject,
    runPc, stopPc, flag, stats, workers, guard, ioStopped, accept, conn, count,
    pc, pending, res, armed, fired, cancels, timedOut, keepAlive, reqs, resps, late,
    sPc, sPending, queue, sArmed, sOpen, sTimedOut, sKeepAlive, sReqs, sResps,
    tls, stage, op, timers, queued, expired, open,
    mStage, step, wire, said, up, mail, dotted, credentials,
    machine, setting, limits

serverVars == <<runPc, stopPc, flag, stats, workers, guard, ioStopped, accept, conn, count>>
connectionVars ==
    <<pc, pending, res, armed, fired, cancels, timedOut, keepAlive, reqs, resps, late>>
httpsVars == <<sPc, sPending, queue, sArmed, sOpen, sTimedOut, sKeepAlive, sReqs, sResps>>
clientVars == <<tls, stage, op, timers, queued, expired, open>>
mailVars == <<mStage, step, wire, said, up, mail, dotted, credentials>>
limitVars == <<machine, setting, limits>>
vars == <<subject, serverVars, connectionVars, httpsVars, clientVars, mailVars, limitVars>>

Server == INSTANCE HttpServer
Session == INSTANCE HttpConnection
Https == INSTANCE HttpsConnection
    WITH pc <- sPc, pending <- sPending, armed <- sArmed, open <- sOpen,
         timedOut <- sTimedOut, keepAlive <- sKeepAlive, reqs <- sReqs, resps <- sResps
Client == INSTANCE HttpClient WITH armed <- timers, timedOut <- expired
Mail == INSTANCE SmtpClient WITH stage <- mStage
Config == INSTANCE HttpsConfig

\* A model that takes no steps rests in one state of its own.
Rest(s, p) == subject = s \/ p

Init ==
    /\ subject \in {"server", "connection", "https", "client", "mail", "limits"}
    /\ Server!Init /\ Session!Init /\ Https!Init /\ Client!Init /\ Mail!Init
    /\ Rest("client", ~tls) /\ Rest("mail", ~dotted /\ ~credentials)
    /\ IF subject = "limits"
         THEN Config!Init
         ELSE machine = <<>> /\ setting = <<>> /\ limits = Config!NoLimits

OnServer(A) ==
    /\ subject = "server" /\ A
    /\ UNCHANGED <<subject, connectionVars, httpsVars, clientVars, mailVars, limitVars>>
OnConnection(A) ==
    /\ subject = "connection" /\ A
    /\ UNCHANGED <<subject, serverVars, httpsVars, clientVars, mailVars, limitVars>>
OnHttps(A) ==
    /\ subject = "https" /\ A
    /\ UNCHANGED <<subject, serverVars, connectionVars, clientVars, mailVars, limitVars>>
OnClient(A) ==
    /\ subject = "client" /\ A
    /\ UNCHANGED <<subject, serverVars, connectionVars, httpsVars, mailVars, limitVars>>
OnMail(A) ==
    /\ subject = "mail" /\ A
    /\ UNCHANGED <<subject, serverVars, connectionVars, httpsVars, clientVars, limitVars>>
OnLimits(A) ==
    /\ subject = "limits" /\ A
    /\ UNCHANGED <<subject, serverVars, connectionVars, httpsVars, clientVars, mailVars>>

Next ==
    \/ OnServer(Server!Next) \/ OnConnection(Session!Next) \/ OnHttps(Https!Next)
    \/ OnClient(Client!Next) \/ OnMail(Mail!Next) \/ OnLimits(Config!Next)

Spec == Init /\ [][Next]_vars

\* The fairness of the modules, each where it takes the steps.
FairSpec ==
    /\ Spec
    /\ WF_vars(OnServer(Server!RunThread)) /\ WF_vars(OnServer(Server!StopThread))
    /\ WF_vars(OnServer(Server!StatsWake))
    /\ \A w \in Workers : WF_vars(OnServer(Server!WorkerEnd(w)))
    /\ WF_vars(OnHttps(Https!Thread)) /\ WF_vars(OnHttps(Https!Settles))
    /\ \A t \in Https!Timers : WF_vars(OnHttps(Https!Expire(t)))
    /\ WF_vars(OnClient(Client!Resolution)) /\ WF_vars(OnClient(Client!Resume))
    /\ \A p \in {"connect", "handshake", "write", "read"} :
          WF_vars(OnClient(Client!Expires(p))) /\ WF_vars(OnClient(Client!TimerHandler(p)))
    /\ WF_vars(OnMail(Mail!Progress)) /\ SF_vars(OnMail(Mail!LastLine))
-----------------------------------------------------------------------------
(* The properties of the modules.                                          *)

\* At most one more request is served once the connection has timed out.
OneLateRequest == Session!OneLateRequest

\* Whenever stop() is called run() returns, and stop() itself unless it came
\* while run() was starting.
ShutdownCompletes == Server!ShutdownCompletes

\* Whatever a client does, its HTTPS connection ends and gives its slot back.
ConnectionEnds == (subject = "https") => Https!ConnectionEnds

\* The client returns only a response it has read completely.
WholeResponse == Client!WholeResponse

\* A request of the client ends, whatever the peer does.
RequestEnds == (subject = "client") => Client!RequestEnds

\* The result of send() says whether the server has taken the mail.
ResultTellsTruth == Mail!ResultTellsTruth

\* A send() ends, but for a reply without text and for empty credentials.
SendEnds == (subject = "mail") => Mail!SendEnds

\* The derived limits keep the buffers within the memory set aside for them.
MemoryBudgetKept == subject = "limits" => Config!MemoryBudgetKept
===============================================================================

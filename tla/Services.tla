------------------------------- MODULE Services -------------------------------
(***************************************************************************)
(* The services a program uses beside its servers: the configuration, the  *)
(* log, the two Redis clients, the file driver, the routing tables and the *)
(* functions on OpenSSL objects.                                           *)
(* They share no state, so it is enough to look at the behaviours in which *)
(* one of them, chosen at the start, takes all the steps.                  *)
(***************************************************************************)
EXTENDS Integers, Sequences, FiniteSets

CONSTANTS
    SettingKeys, Inputs, Docs, Nested,        \* what the settings are set to
    Faults,                                   \* disks and files may fail
    Threads, MaxLines,                        \* threads that log, maxLines
    LineBound, StartBound,                    \* bounds: lines, starts
    Jobs, CacheKeys, Values, Attempts,        \* jobs, keys, values, pushes
    Tasks, FilePaths, FileBound,              \* calls of the driver, paths
    RoutePaths, RouteTargets, Parameters,     \* paths, targets, ":x"
    Methods, Kinds, HttpBound, RouteBound

\* The settings' keys are sequences of parts, and their documents finite;
\* maxLines is positive; "none" is no thread; bounds are numbers; paths and
\* targets are sequences of pieces.
ASSUME SettingsAssumption ==
    /\ SettingKeys \subseteq Seq(STRING) /\ \A n \in Nested : n[1] \in Seq(STRING)
    /\ \A d \in Docs \cup {n[2] : n \in Nested} :
          /\ d = [p \in DOMAIN d |-> d[p]]
          /\ IsFiniteSet(DOMAIN d) /\ DOMAIN d \subseteq Seq(STRING)
ASSUME LogAssumption == MaxLines \in Nat \ {0} /\ "none" \notin Threads
ASSUME DiskAssumption == FileBound \in Nat
ASSUME RouteAssumption == RoutePaths \subseteq Seq(STRING) /\ RouteTargets \subseteq Seq(STRING)

VARIABLES
    subject,
    config, file, autoSave, outcome, saved,
    cur, old, logFile, count, holder, pc, exiting, shut, written, starts, misused,
    dropped, broken,
    queue, cache, list, store, volatile, tries, acked, refused, entered, popped, maySee,
    dir, data, created, task, raced,
    routes, wsRoutes,
    fn, at, held, end

settingsVars == <<config, file, autoSave, outcome, saved>>
logVars ==
    <<cur, old, logFile, count, holder, pc, exiting, shut, written, starts, misused,
      dropped, broken>>
clientVars ==
    <<queue, cache, list, store, volatile, tries, acked, refused, entered, popped, maySee>>
diskVars == <<dir, data, created, task, raced>>
tableVars == <<routes, wsRoutes>>
cryptoVars == <<fn, at, held, end>>
vars == <<subject, settingsVars, logVars, clientVars, diskVars, tableVars, cryptoVars>>

Settings == INSTANCE ConfigManager WITH Keys <- SettingKeys
Log == INSTANCE Logger
Clients == INSTANCE Redis WITH Keys <- CacheKeys
Disk == INSTANCE FileDriver WITH Paths <- FilePaths
Tables == INSTANCE Routing WITH Paths <- RoutePaths, Targets <- RouteTargets
Crypto == INSTANCE Cryptography

Init ==
    /\ subject \in {"settings", "log", "queue", "cache", "disk", "tables", "crypto"}
    /\ Settings!Init /\ Log!Init /\ Clients!Init /\ Disk!Init /\ Tables!Init
    /\ Crypto!Init /\ (subject = "crypto" \/ fn = "sign")

Next ==
    /\ UNCHANGED subject
    /\ \/ /\ subject = "settings" /\ Settings!Next
          /\ UNCHANGED <<logVars, clientVars, diskVars, tableVars, cryptoVars>>
       \/ /\ subject = "log" /\ Log!Next
          /\ UNCHANGED <<settingsVars, clientVars, diskVars, tableVars, cryptoVars>>
       \/ /\ \/ subject = "queue" /\ Clients!QueueNext
             \/ subject = "cache" /\ Clients!CacheNext
          /\ UNCHANGED <<settingsVars, logVars, diskVars, tableVars, cryptoVars>>
       \/ /\ subject = "disk" /\ Disk!Next
          /\ UNCHANGED <<settingsVars, logVars, clientVars, tableVars, cryptoVars>>
       \/ /\ subject = "tables" /\ Tables!Next
          /\ UNCHANGED <<settingsVars, logVars, clientVars, diskVars, cryptoVars>>
       \/ /\ subject = "crypto" /\ Crypto!Next
          /\ UNCHANGED <<settingsVars, logVars, clientVars, diskVars, tableVars>>

Spec == Init /\ [][Next]_vars
-----------------------------------------------------------------------------
(* The properties of the modules, under the names of the services.         *)

\* After a save() the file has, for every setting whose key is not above or
\* below another's, what json::parse makes of its text, and nothing else but
\* what came from a setting, in whatever order unflattenMap walks the map.
SavedIsReloadable == subject = "settings" => Settings!SavedIsReloadable

\* The log files together hold the most recent of the lines that reached them,
\* without a gap, through rotations, failures, signals and restarts, and lines
\* are dropped only after a rotation failed or a signal came.
RecentLinesKept == subject = "log" => Log!RecentLinesKept

\* Logger uses a closed FILE only once a signal has begun the shutdown.
ClosedOnlyByExit == subject = "log" => Log!ClosedOnlyByExit

\* Accepted jobs leave the queue in order, with no copies but those of retried
\* pushes.
InOrderNoExtraCopies == subject = "queue" => Clients!InOrderNoExtraCopies

\* The cache holds a value that the calls made so far allow.
CacheHoldsLastWrite == subject = "cache" => Clients!CacheHoldsLastWrite

\* A file nobody writes to holds the content of one put, unless two writers
\* or a failed write spoilt it, or its source was written to while it was
\* copied.
WholeUnlessRaced == subject = "disk" => Disk!WholeUnlessRaced

\* A target is answered by the first route registered for it, and keeps that
\* answer; a handler that a route still has meets the targets of the path it
\* was given with.
FirstRouteWins == Tables!FirstRouteWins

\* OpenSSL objects are freed once, and none is left behind, whichever call
\* fails, unless memory or the logger fails on the way out.
ObjectsComeHome == Crypto!ObjectsComeHome
===============================================================================

--------------------------------- MODULE Redis ---------------------------------
(***************************************************************************)
(* Queue and Cache: each keeps one static redisContext.  A command whose   *)
(* connection breaks returns no reply and leaves the context in error, in  *)
(* which every later command fails until disconnect and connect; whether   *)
(* the server executed it is not known.  push, set, del and expire look    *)
(* only for a missing reply: an error reply passes for success.            *)
(*                                                                         *)
(* The calls of one context do not overlap (nothing in the code makes sure *)
(* of it).  A caller pushes a job again until push returns.                *)
(***************************************************************************)
EXTENDS Naturals, Sequences, FiniteSets

CONSTANTS
    Jobs,
    Keys,
    Values,     \* values set in the cache; none of them is ""
    Attempts    \* bound on the pushes of one job

VARIABLES
    queue,     \* Queue::context_: "null", "ok" or "error"
    cache,     \* Cache::context_
    list,      \* the list at the server
    store,     \* the server's value of each key, "" when it has none
    volatile,  \* the keys that have an expiry at the server
    tries,     \* history: pushes of each job so far
    acked,     \* history: jobs whose push returned
    refused,   \* history: jobs whose push returned on an error reply
    entered,   \* history: the jobs in the order the server took them
    popped,    \* history: the jobs the server gave out, with whether pop returned them
    maySee     \* history: the values a get may return, by the calls made so far

vars == <<queue, cache, list, store, volatile, tries, acked, refused, entered, popped, maySee>>
queueVars == <<queue, list, tries, acked, refused, entered, popped>>
cacheVars == <<cache, store, volatile, maySee>>

\* How a command can end at a context that is "ok".
Outcomes == {"done", "refused", "unsent", "unanswered"}
Executed(o) == o \in {"done", "unanswered"}
Replied(o) == o \in {"done", "refused"}
-----------------------------------------------------------------------------
(* Variants with a plausible slip: LPUSH in place of RPUSH, an expiry sent *)
(* with every SET.                                                         *)

PushedInFront(s, j) == <<j>> \o s
AnyExpiry(ttl) == TRUE
-----------------------------------------------------------------------------
\* RPUSH
Pushed(s, j) == Append(s, j)

\* if (reply == nullptr) throw
Returns(o) == Replied(o)

\* if (expire_seconds > 0): the command has an EX.
WithExpiry(ttl) == ttl

AfterCommand(o) == IF Replied(o) THEN "ok" ELSE "error"

Init ==
    /\ queue = "null" /\ cache = "null"
    /\ list = <<>> /\ store = [k \in Keys |-> ""] /\ volatile = {}
    /\ tries = [j \in Jobs |-> 0] /\ acked = {} /\ refused = {}
    /\ entered = <<>> /\ popped = <<>>
    /\ maySee = [k \in Keys |-> {""}]

\* Queue::connect throws unless the context is null; a failed connection
\* leaves it null.
QueueConnect ==
    /\ queue = "null"
    /\ queue' = "ok"
    /\ UNCHANGED <<list, tries, acked, refused, entered, popped, cacheVars>>

QueueDisconnect ==
    /\ queue # "null"
    /\ queue' = "null"
    /\ UNCHANGED <<list, tries, acked, refused, entered, popped, cacheVars>>

\* Queue::push.  At a context that is null or in error it throws, which
\* changes nothing.
Push(j) ==
    /\ queue = "ok" /\ j \notin acked /\ tries[j] < Attempts
    /\ \E o \in Outcomes :
          /\ queue' = AfterCommand(o)
          /\ list' = IF Executed(o) THEN Pushed(list, j) ELSE list
          /\ entered' = IF Executed(o) THEN Append(entered, j) ELSE entered
          /\ acked' = IF Returns(o) THEN acked \cup {j} ELSE acked
          /\ refused' = IF o = "refused" THEN refused \cup {j} ELSE refused
    /\ tries' = [tries EXCEPT ![j] = @ + 1]
    /\ UNCHANGED <<popped, cacheVars>>

\* Queue::pop.  NIL gives "", an error reply throws.
Pop ==
    /\ queue = "ok" /\ list # <<>>
    /\ \E o \in Outcomes :
          /\ queue' = AfterCommand(o)
          /\ list' = IF Executed(o) THEN Tail(list) ELSE list
          /\ popped' = IF Executed(o)
                         THEN Append(popped, [job |-> Head(list), returned |-> o = "done"])
                         ELSE popped
    /\ UNCHANGED <<tries, acked, refused, entered, cacheVars>>

\* Queue::length, and a pop of an empty list: only the context can change.
Length ==
    /\ queue = "ok"
    /\ \E o \in Outcomes : queue' = AfterCommand(o)
    /\ UNCHANGED <<list, tries, acked, refused, entered, popped, cacheVars>>

CacheConnect ==
    /\ cache = "null"
    /\ cache' = "ok"
    /\ UNCHANGED <<store, volatile, maySee, queueVars>>

CacheDisconnect ==
    /\ cache # "null"
    /\ cache' = "null"
    /\ UNCHANGED <<store, volatile, maySee, queueVars>>

\* A write of the cache that ends as o: the server's new value and expiry of
\* k, and the values sees that a get may return if the write took place.
Write(k, o, value, expires, sees) ==
    /\ cache' = AfterCommand(o)
    /\ store' = IF Executed(o) THEN [store EXCEPT ![k] = value] ELSE store
    /\ volatile' = IF Executed(o)
                     THEN IF expires THEN volatile \cup {k} ELSE volatile \ {k}
                     ELSE volatile
    /\ maySee' = [maySee EXCEPT ![k] = IF o = "done" THEN sees ELSE @ \cup sees]
    /\ UNCHANGED queueVars

\* Cache::set, with or without an expiry.
Set(k, v, ttl) ==
    /\ cache = "ok"
    /\ \E o \in Outcomes :
          Write(k, o, v, WithExpiry(ttl), {v} \cup (IF ttl THEN {""} ELSE {}))

\* Cache::del
Del(k) ==
    /\ cache = "ok"
    /\ \E o \in Outcomes : Write(k, o, "", FALSE, {""})

\* Cache::expire: the value stays until it is due.
Expire(k) ==
    /\ cache = "ok"
    /\ \E o \in Outcomes : Write(k, o, store[k], store[k] # "", maySee[k] \cup {""})

\* Cache::get
Get(k) ==
    /\ cache = "ok"
    /\ \E o \in Outcomes : cache' = AfterCommand(o)
    /\ UNCHANGED <<store, volatile, maySee, queueVars>>

\* The server drops a key whose expiry is due.
Due(k) ==
    /\ k \in volatile
    /\ store' = [store EXCEPT ![k] = ""] /\ volatile' = volatile \ {k}
    /\ UNCHANGED <<cache, maySee, queueVars>>

\* The two clients share neither a context nor a key.
QueueNext ==
    \/ QueueConnect \/ QueueDisconnect \/ Pop \/ Length
    \/ \E j \in Jobs : Push(j)

CacheNext ==
    \/ CacheConnect \/ CacheDisconnect
    \/ \E k \in Keys :
          \/ Del(k) \/ Expire(k) \/ Get(k) \/ Due(k)
          \/ \E v \in Values, ttl \in BOOLEAN : Set(k, v, ttl)

Next == QueueNext \/ CacheNext

Spec == Init /\ [][Next]_vars
-----------------------------------------------------------------------------
(* Properties.                                                             *)

\* How often job j is in the sequence s.
Copies(s, j) == Cardinality({i \in DOMAIN s : s[i] = j})

\* Jobs come out in the order they went in, and each at most once for every
\* push that was not answered and once for the one that returned: a retry
\* after a lost reply is the only source of duplicates. A job whose push
\* returned is among them, unless push took an error reply for success.
InOrderNoExtraCopies ==
    /\ [i \in 1..Len(popped) |-> popped[i].job] \o list = entered
    /\ \A j \in Jobs : Copies(entered, j) <= tries[j]
    /\ \A j \in acked \ refused : Copies(entered, j) > 0

\* What the cache holds is what the calls so far allow: the value of the last
\* write that was answered, or of one after it whose fate is unknown; nothing
\* only if a delete or an expiry was asked for.
CacheHoldsLastWrite == \A k \in Keys : store[k] \in maySee[k]
===============================================================================

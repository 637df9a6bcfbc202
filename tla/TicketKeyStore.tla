--------------------------- MODULE TicketKeyStore ---------------------------
(***************************************************************************)
(* The TLS session-ticket key ring of an HttpsServer (class TicketKeyStore)*)
(* and the SSL_CTX objects it is attached to.  OpenSSL calls ticket_key_cb *)
(* on a context to encrypt a new ticket or to look up the key of a ticket  *)
(* that a client presents; the callback finds the store in the context's   *)
(* ex_data and runs TicketKeyStore::handle.  Every member function takes   *)
(* mtx_ for its whole body, so each is one atomic action.                  *)
(*                                                                         *)
(* A key is its name (RAND_bytes: fresh every time), its creation time and *)
(* a history field saying whether the rotation schedule or a caller of     *)
(* rotate_now made it.  Key material and IVs are left out.                 *)
(***************************************************************************)
EXTENDS Integers, Sequences, FiniteSets

CONSTANTS
    Stores,           \* TicketKeyStore objects, one per HttpsServer
    Ctxs,             \* SSL_CTX objects
    NoStore,          \* a null ex_data slot
    RotationInterval, \* kRotationInterval, in ticks of the clock
    KeyLifetime,      \* kKeyLifetime, in ticks of the clock
    MaxTime,          \* bound: the clock stops here
    MaxKeys,          \* bound: keys generated in all
    MaxTickets        \* bound: tickets remembered by clients

ASSUME StoreAssumption == NoStore \notin Stores
ASSUME IntervalAssumption ==
    /\ RotationInterval \in Nat \ {0}
    /\ KeyLifetime \in Nat
    /\ RotationInterval <= KeyLifetime
ASSUME BoundAssumption == MaxTime \in Nat /\ MaxKeys \in Nat /\ MaxTickets \in Nat

VARIABLES
    now,      \* now_provider_(): a steady clock
    keys,     \* keys_ of each store, the newest key first
    made,     \* number of keys generated so far, in all stores
    attached, \* the store in each context's ex_data, or NoStore
    tickets,  \* the tickets clients hold, each with the key it is sealed by
    reply     \* the last return value of handle with enc = 0

vars == <<now, keys, made, attached, tickets, reply>>

Time == 0..MaxTime
Names == 1..MaxKeys
Key == [name: Names, created: Time, auto: BOOLEAN]
Ticket == [ctx: Ctxs, name: Names, created: Time, issued: Time]

-----------------------------------------------------------------------------
(* Variants of the definitions below, each with a plausible slip: a purge  *)
(* one tick early, a rotation one tick late, a key named after the clock   *)
(* in place of RAND_bytes, a push to the wrong end, a rotation that        *)
(* forgets to purge, a position returned in place of a verdict.            *)

ExpiredEarly(k) == now - k.created >= KeyLifetime
RotationDueLate(ks) == now - Head(ks).created > RotationInterval
NewKeyFromClock(auto) == [name |-> 1 + (now % MaxKeys), created |-> now, auto |-> auto]
PushedBack(s, auto) == Append(keys[s], [name |-> made + 1, created |-> now, auto |-> auto])
KeepsAll(ks, n) == n = Len(ks)
LookupPosition(ks, n) ==
    IF \E i \in DOMAIN ks : ks[i].name = n
    THEN CHOOSE i \in DOMAIN ks : ks[i].name = n
    ELSE 0
-----------------------------------------------------------------------------
(* The key ring.                                                           *)

\* The condition of the loops that pop keys off the back.
Expired(k) == now - k.created > KeyLifetime

\* maybe_rotate_locked goes on: the newest key has reached the interval.
RotationDue(ks) == ~(now - Head(ks).created < RotationInterval)

\* generate_key: RAND_bytes gives a name no other key has.
NewKey(auto) == [name |-> made + 1, created |-> now, auto |-> auto]

\* The deque after push_front.
Pushed(s, auto) == <<NewKey(auto)>> \o keys[s]

\* Popping expired keys off the back stops with the first n of them left.
KeepsFirst(ks, n) ==
    /\ n # 0 => ~Expired(ks[n])
    /\ \A i \in (n + 1)..Len(ks) : Expired(ks[i])

\* The search loop of handle: 1 for the current key, 2 for an older one
\* (OpenSSL then renews the ticket), 0 when no key has this name.
Lookup(ks, n) ==
    IF ks # <<>> /\ ks[1].name = n THEN 1
    ELSE IF \E i \in DOMAIN ks : ks[i].name = n THEN 2
    ELSE 0

\* attach_to does not throw: the slot is null or already holds this store.
MayAttach(c, s) == attached[c] \in {NoStore, s}

Rotate(s, auto) ==
    /\ made < MaxKeys
    /\ \E n \in 0..Len(Pushed(s, auto)) :
          /\ KeepsFirst(Pushed(s, auto), n)
          /\ keys' = [keys EXCEPT ![s] = SubSeq(Pushed(s, auto), 1, n)]
    /\ made' = made + 1

\* The ring was empty: push_back of a first key.
FirstKey(s) ==
    /\ keys[s] = <<>>
    /\ made < MaxKeys
    /\ keys' = [keys EXCEPT ![s] = <<NewKey(TRUE)>>]
    /\ made' = made + 1

\* maybe_rotate_locked on a ring that has a key.
MaybeRotate(s) ==
    /\ keys[s] # <<>>
    /\ \/ RotationDue(keys[s]) /\ Rotate(s, TRUE)
       \/ ~RotationDue(keys[s]) /\ UNCHANGED <<keys, made>>
-----------------------------------------------------------------------------

Init ==
    /\ now = 0
    /\ keys = [s \in Stores |-> <<>>]
    /\ made = 0
    /\ attached = [c \in Ctxs |-> NoStore]
    /\ tickets = {}
    /\ reply = 0

Tick ==
    /\ now < MaxTime
    /\ now' = now + 1
    /\ UNCHANGED <<keys, made, attached, tickets, reply>>

\* ensure_initialized (a no-op on a store that has a key).
EnsureInitialized(s) ==
    /\ FirstKey(s)
    /\ UNCHANGED <<now, attached, tickets, reply>>

RotateNow(s) ==
    /\ Rotate(s, FALSE)
    /\ UNCHANGED <<now, attached, tickets, reply>>

AttachTo(c, s) ==
    /\ MayAttach(c, s)
    /\ attached' = [attached EXCEPT ![c] = s]
    /\ UNCHANGED <<now, keys, made, tickets, reply>>

\* handle with enc = 1, reached through the context's ex_data: a first key
\* for an empty ring, a rotation when one is due, and a ticket sealed by the
\* front key.  When the cipher or the MAC cannot be set up it returns -1
\* after the rotation, and no ticket goes out.
HandleEncrypt(c) ==
    /\ attached[c] # NoStore
    /\ FirstKey(attached[c]) \/ MaybeRotate(attached[c])
    /\ \/ /\ Cardinality(tickets) < MaxTickets
          /\ LET front == Head(keys'[attached[c]]) IN
               tickets' = tickets \cup
                   {[ctx |-> c, name |-> front.name,
                     created |-> front.created, issued |-> now]}
       \/ UNCHANGED tickets
    /\ UNCHANGED <<now, attached, reply>>

\* handle with enc = 0 on a ticket: the verdict of the search, or -1 when
\* the cipher or the MAC of the key found cannot be set up.
HandleDecrypt(c, t) ==
    /\ attached[c] # NoStore
    /\ \/ FirstKey(attached[c])
       \/ keys[attached[c]] # <<>> /\ UNCHANGED <<keys, made>>
    /\ LET rc == Lookup(keys'[attached[c]], t.name) IN
         reply' \in IF rc = 0 THEN {0} ELSE {rc, -1}
    /\ UNCHANGED <<now, attached, tickets>>

Next ==
    \/ Tick
    \/ \E s \in Stores : EnsureInitialized(s) \/ RotateNow(s)
    \/ \E c \in Ctxs, s \in Stores : AttachTo(c, s)
    \/ \E c \in Ctxs : HandleEncrypt(c)
    \/ \E c \in Ctxs, t \in tickets : HandleDecrypt(c, t)

Spec == Init /\ [][Next]_vars
-----------------------------------------------------------------------------
(* Properties.                                                             *)

\* The shape of the state; the return values of handle are -1, 0, 1 and 2.
TypeOK ==
    /\ now \in Time
    /\ keys \in [Stores -> Seq(Key)]
    /\ made \in 0..MaxKeys
    /\ attached \in [Ctxs -> Stores \cup {NoStore}]
    /\ tickets \subseteq Ticket
    /\ reply \in {-1, 0, 1, 2}

\* keys_ is sorted by age, newest in front, whatever mix of first keys,
\* scheduled and forced rotations built it: the purge, which only looks at
\* the back, relies on it.
NewestFirst ==
    \A s \in Stores : \A i, j \in DOMAIN keys[s] :
        i < j => keys[s][i].created >= keys[s][j].created

\* A ticket can be resumed for the whole lifetime of its key on every
\* context of the same server: rotations in between, forced ones included,
\* and a reload that puts a new SSL_CTX in place do not lose the key.
TicketsResume ==
    \A t \in tickets, c \in Ctxs :
        attached[c] = attached[t.ctx] /\ now - t.created <= KeyLifetime
            => Lookup(keys[attached[c]], t.name) # 0

\* A ticket of one server is never accepted by a context of another.
Isolation ==
    \A t \in tickets, c \in Ctxs :
        attached[c] \notin {NoStore, attached[t.ctx]}
            => Lookup(keys[attached[c]], t.name) = 0

\* No ticket is sealed by a key that has reached the rotation interval,
\* however long the store was idle before the handshake.
SealedByFreshKey ==
    \A t \in tickets : t.issued - t.created < RotationInterval

\* The keys made on schedule never outnumber what one lifetime holds, so a
\* server that is left alone keeps a bounded ring.
BoundedRing ==
    \A s \in Stores :
        Cardinality({i \in DOMAIN keys[s] : keys[s][i].auto})
            <= KeyLifetime \div RotationInterval + 1
=============================================================================

------------------------ MODULE TicketKeyStoreProofs ------------------------
(***************************************************************************)
(* Proofs about TicketKeyStore for every set of stores and contexts, every *)
(* interval and lifetime and every bound.                                  *)
(*                                                                         *)
(* NewestFirst is what makes the purge, which only looks at the back of    *)
(* the ring, remove exactly the expired keys; with the uniqueness of key   *)
(* names that gives TicketsResume and Isolation.  The inductive invariant  *)
(* is the conjunction of these facts about the rings (RingInv) and about   *)
(* the tickets sealed by their keys (TicketInv).                           *)
(*                                                                         *)
(* BoundedRing needs SpaceInv: a key made on schedule is an interval       *)
(* younger than the ones behind it, and the whole ring lies within a       *)
(* lifetime of its front.  The ages of such keys then fall into different  *)
(* intervals, of which there are KeyLifetime \div RotationInterval + 1.    *)
(***************************************************************************)
EXTENDS TicketKeyStore, FunctionTheorems, FiniteSetTheorems, TLAPS

USE StoreAssumption, IntervalAssumption, BoundAssumption

\* Newest first, and names are given out in increasing order.
Ordered ==
    \A s \in Stores : \A i, j \in DOMAIN keys[s] :
        i < j => /\ keys[s][i].created >= keys[s][j].created
                 /\ keys[s][i].name > keys[s][j].name

\* Keys were made before now, under names already given out.
Past ==
    \A s \in Stores : \A i \in DOMAIN keys[s] :
        keys[s][i].created <= now /\ keys[s][i].name <= made

\* No name is in the rings of two stores.
Distinct ==
    \A s, r \in Stores : \A i \in DOMAIN keys[s], j \in DOMAIN keys[r] :
        keys[s][i].name = keys[r][j].name => s = r

RingInv == Ordered /\ Past /\ Distinct

\* The key with the name of a ticket belongs to the server that issued it.
TicketKey(t) ==
    /\ attached[t.ctx] \in Stores
    /\ t.name <= made
    /\ t.issued - t.created < RotationInterval
    /\ \A s \in Stores : \A i \in DOMAIN keys[s] :
          keys[s][i].name = t.name =>
              s = attached[t.ctx] /\ keys[s][i].created = t.created

\* ... and is in the ring for its lifetime.
Retained(t) ==
    now - t.created <= KeyLifetime =>
        \E i \in DOMAIN keys[attached[t.ctx]] : keys[attached[t.ctx]][i].name = t.name

TicketInv == \A t \in tickets : TicketKey(t) /\ Retained(t)

IInv == TypeOK /\ RingInv /\ TicketInv
-----------------------------------------------------------------------------
(* What a step does to the rings.                                          *)

\* The ring of s gets a new front key and loses expired ones at the back.
RingStep(s) ==
    /\ made < MaxKeys
    /\ made' = made + 1
    /\ keys' \in [Stores -> Seq(Key)]
    /\ \A r \in Stores \ {s} : keys'[r] = keys[r]
    /\ Len(keys'[s]) \in 1..(Len(keys[s]) + 1)
    /\ keys'[s][1].name = made + 1
    /\ keys'[s][1].created = now
    /\ \A i \in 2..Len(keys'[s]) : keys'[s][i] = keys[s][i - 1]
    /\ \A i \in Len(keys'[s])..Len(keys[s]) : now - keys[s][i].created > KeyLifetime

\* A fresh key is a key.
LEMMA NewKeyType ==
    ASSUME TypeOK, made < MaxKeys, NEW auto \in BOOLEAN
    PROVE  NewKey(auto) \in Key
  BY DEF TypeOK, NewKey, Key, Names, Time

\* The first key of an empty ring is a RingStep.
LEMMA FirstKeyStep ==
    ASSUME TypeOK, NEW s \in Stores, FirstKey(s)
    PROVE  RingStep(s)
<1>1. NewKey(TRUE) \in Key
  BY NewKeyType DEF FirstKey
<1>2. Len(keys[s]) = 0
  BY DEF FirstKey
<1>3. keys'[s] = <<NewKey(TRUE)>> /\ keys' \in [Stores -> Seq(Key)]
  <2> DEFINE k == NewKey(TRUE)
  <2>1. k \in Key /\ keys' = [keys EXCEPT ![s] = <<k>>] /\ keys \in [Stores -> Seq(Key)]
    BY <1>1 DEF FirstKey, TypeOK
  <2> HIDE DEF k
  <2>2. <<k>> \in Seq(Key)
    BY <2>1
  <2>3. keys'[s] = <<k>> /\ keys' \in [Stores -> Seq(Key)]
    BY <2>1, <2>2
  <2> QED
    BY <2>3 DEF k
<1> QED
  BY <1>1, <1>2, <1>3 DEF FirstKey, RingStep, NewKey, TypeOK

\* A rotation, forced or scheduled, is a RingStep: the new key is never
\* purged, what is purged has expired and the key left at the back has not.
LEMMA RotateStep ==
    ASSUME TypeOK, NEW s \in Stores, NEW auto \in BOOLEAN, Rotate(s, auto)
    PROVE  /\ RingStep(s)
           /\ keys'[s][1] = NewKey(auto)
           /\ now - keys'[s][Len(keys'[s])].created <= KeyLifetime
<1> DEFINE ps == Pushed(s, auto)
<1>1. NewKey(auto) \in Key /\ keys[s] \in Seq(Key)
  BY NewKeyType DEF Rotate, TypeOK
<1>2. /\ ps \in Seq(Key)
      /\ Len(ps) = Len(keys[s]) + 1
      /\ ps[1] = NewKey(auto)
      /\ \A i \in 2..Len(ps) : ps[i] = keys[s][i - 1]
  BY <1>1 DEF Pushed
<1>3. PICK n \in 0..Len(ps) :
        KeepsFirst(ps, n) /\ keys' = [keys EXCEPT ![s] = SubSeq(ps, 1, n)]
  BY DEF Rotate
<1> HIDE DEF ps
<1>4. n # 0
  <2> SUFFICES ASSUME n = 0 PROVE FALSE
    OBVIOUS
  <2>1. Expired(ps[1])
    BY <1>2, <1>3, <1>1 DEF KeepsFirst
  <2> QED
    BY <2>1, <1>2 DEF Expired, NewKey, TypeOK, Time
<1>5. /\ SubSeq(ps, 1, n) \in Seq(Key)
      /\ Len(SubSeq(ps, 1, n)) = n
      /\ \A i \in 1..n : SubSeq(ps, 1, n)[i] = ps[i]
  BY <1>2, <1>3, <1>4
<1>6. keys' \in [Stores -> Seq(Key)] /\ keys'[s] = SubSeq(ps, 1, n)
  BY <1>3, <1>5 DEF TypeOK
<1>7. \A i \in n..Len(keys[s]) : now - keys[s][i].created > KeyLifetime
  <2> SUFFICES ASSUME NEW i \in n..Len(keys[s])
               PROVE  now - keys[s][i].created > KeyLifetime
    OBVIOUS
  <2>1. ps[i + 1] = keys[s][i] /\ i + 1 \in (n + 1)..Len(ps)
    BY <1>1, <1>2, <1>4
  <2> QED
    BY <2>1, <1>3 DEF KeepsFirst, Expired
<1>8. \A i \in 2..n : keys'[s][i] = keys[s][i - 1]
  BY <1>2, <1>5, <1>6
<1>9. keys'[s][1] = NewKey(auto)
  BY <1>2, <1>4, <1>5, <1>6
<1>10. Len(keys'[s]) = n /\ n \in 1..(Len(keys[s]) + 1)
  BY <1>1, <1>2, <1>3, <1>4, <1>5, <1>6
<1>11. \A r \in Stores \ {s} : keys'[r] = keys[r]
  BY <1>3 DEF TypeOK
<1>12. made < MaxKeys /\ made' = made + 1
  BY DEF Rotate
<1>13. RingStep(s)
  BY <1>6, <1>7, <1>8, <1>9, <1>10, <1>11, <1>12 DEF RingStep, NewKey
<1>14. now - keys'[s][n].created <= KeyLifetime
  <2>1. ~(now - keys'[s][n].created > KeyLifetime)
    BY <1>3, <1>4, <1>5, <1>6 DEF KeepsFirst, Expired
  <2>2. now \in Nat /\ keys'[s][n].created \in Nat
    BY <1>4, <1>5, <1>6 DEF TypeOK, Time, Key
  <2> QED
    BY <2>1, <2>2
<1> QED
  BY <1>9, <1>10, <1>13, <1>14

-----------------------------------------------------------------------------
(* Preservation.                                                           *)

\* The fields of the keys in the rings are numbers.
LEMMA KeyFields ==
    ASSUME TypeOK
    PROVE  /\ now \in Nat /\ made \in Nat
           /\ \A r \in Stores : keys[r] \in Seq(Key)
           /\ \A r \in Stores : \A i \in DOMAIN keys[r] :
                 keys[r][i].created \in Nat /\ keys[r][i].name \in Nat
<1>1. now \in Nat /\ made \in Nat /\ \A r \in Stores : keys[r] \in Seq(Key)
  BY DEF TypeOK, Time
<1>2. \A r \in Stores : \A i \in DOMAIN keys[r] : keys[r][i] \in Key
  BY <1>1
<1>3. \A k \in Key : k.created \in Nat /\ k.name \in Nat
  BY DEF Key, Names, Time
<1> QED
  BY <1>1, <1>2, <1>3

\* A ring step keeps the rings sorted, past and disjoint.
LEMMA RingStepInv ==
    ASSUME TypeOK, RingInv, NEW s \in Stores, RingStep(s), now' = now
    PROVE  RingInv'
<1>1. \A r \in Stores : keys[r] \in Seq(Key) /\ keys'[r] \in Seq(Key)
  BY DEF TypeOK, RingStep
<1>2. \A i \in DOMAIN keys'[s] : i = 1 \/ (i \in 2..Len(keys'[s]) /\ i - 1 \in DOMAIN keys[s])
  BY <1>1 DEF RingStep
<1>3. Past'
  <2> SUFFICES ASSUME NEW r \in Stores, NEW i \in DOMAIN keys'[r]
               PROVE  keys'[r][i].created <= now /\ keys'[r][i].name <= made + 1
    BY DEF Past, RingStep
  <2>1. CASE r # s
    <3>1. keys'[r] = keys[r]
      BY <2>1 DEF RingStep
    <3>2. keys[r][i].created <= now /\ keys[r][i].name <= made
      BY <3>1 DEF RingInv, Past
    <3>3. made \in Nat /\ keys[r][i].name \in Nat
      BY <3>1, KeyFields
    <3> QED
      BY <3>1, <3>2, <3>3
  <2>2. CASE r = s /\ i = 1
    BY <2>2, KeyFields DEF RingStep
  <2>3. CASE r = s /\ i # 1
    <3>1. keys'[s][i] = keys[s][i - 1] /\ i - 1 \in DOMAIN keys[s]
      BY <2>3, <1>2 DEF RingStep
    <3> QED
      BY <3>1, <2>3, KeyFields DEF RingInv, Past
  <2> QED
    BY <2>1, <2>2, <2>3
<1>4. Ordered'
  <2> SUFFICES ASSUME NEW r \in Stores, NEW i \in DOMAIN keys'[r], NEW j \in DOMAIN keys'[r], i < j
               PROVE  /\ keys'[r][i].created >= keys'[r][j].created
                      /\ keys'[r][i].name > keys'[r][j].name
    BY DEF Ordered
  <2>1. CASE r # s
    BY <2>1 DEF RingStep, RingInv, Ordered
  <2>2. CASE r = s
    <3>1. j \in 2..Len(keys'[s]) /\ j - 1 \in DOMAIN keys[s]
      BY <1>1, <1>2, <2>2
    <3>2. keys'[s][j] = keys[s][j - 1]
      BY <3>1 DEF RingStep
    <3>3. CASE i = 1
      <4>1. keys[s][j - 1].created <= now /\ keys[s][j - 1].name <= made
        BY <3>1 DEF RingInv, Past
      <4>2. /\ now \in Nat /\ made \in Nat
            /\ keys[s][j - 1].created \in Nat /\ keys[s][j - 1].name \in Nat
        BY <3>1, KeyFields
      <4>3. keys'[s][1].created = now /\ keys'[s][1].name = made + 1
        BY DEF RingStep
      <4> QED
        BY <2>2, <3>2, <3>3, <4>1, <4>2, <4>3
    <3>4. CASE i # 1
      <4>1. i \in 2..Len(keys'[s]) /\ i - 1 \in DOMAIN keys[s] /\ i - 1 < j - 1
        BY <1>1, <1>2, <2>2, <3>1, <3>4
      <4>2. keys'[s][i] = keys[s][i - 1]
        BY <4>1 DEF RingStep
      <4> QED
        BY <2>2, <3>1, <3>2, <4>1, <4>2 DEF RingInv, Ordered
    <3> QED
      BY <3>3, <3>4
  <2> QED
    BY <2>1, <2>2
<1>5. Distinct'
  <2> SUFFICES ASSUME NEW r \in Stores, NEW q \in Stores,
                      NEW i \in DOMAIN keys'[r], NEW j \in DOMAIN keys'[q],
                      keys'[r][i].name = keys'[q][j].name, r # q
               PROVE  FALSE
    BY DEF Distinct
  <2>1. ASSUME NEW p \in Stores, NEW k \in DOMAIN keys'[p]
        PROVE  \/ p = s /\ keys'[p][k].name = made + 1
               \/ \E m \in DOMAIN keys[p] : keys'[p][k].name = keys[p][m].name
    <3>1. CASE p # s
      BY <3>1, <2>1 DEF RingStep
    <3>2. CASE p = s /\ k = 1
      BY <3>2 DEF RingStep
    <3>3. CASE p = s /\ k # 1
      <4>1. keys'[s][k] = keys[s][k - 1] /\ k - 1 \in DOMAIN keys[s]
        BY <2>1, <3>3, <1>2 DEF RingStep
      <4> QED
        BY <4>1, <3>3
    <3> QED
      BY <3>1, <3>2, <3>3
  <2>2. \A p \in Stores : \A m \in DOMAIN keys[p] : keys[p][m].name # made + 1
    BY KeyFields DEF RingInv, Past
  <2> QED
    BY <2>1, <2>2 DEF RingInv, Distinct
<1> QED
  BY <1>3, <1>4, <1>5 DEF RingInv

\* A ticket issued earlier keeps its facts through a ring step: only an
\* expired key leaves its ring, and the new key has a new name.
LEMMA RingStepTicket ==
    ASSUME IInv, NEW s \in Stores, RingStep(s), now' = now, attached' = attached,
           NEW t \in tickets
    PROVE  TicketKey(t)' /\ Retained(t)'
<1>1. /\ \A r \in Stores : keys[r] \in Seq(Key) /\ keys'[r] \in Seq(Key)
      /\ t \in Ticket
  BY DEF IInv, TypeOK, RingStep
<1>2. \A i \in DOMAIN keys'[s] : i = 1 \/ (i \in 2..Len(keys'[s]) /\ i - 1 \in DOMAIN keys[s])
  BY <1>1 DEF RingStep
<1>3. TicketKey(t) /\ Retained(t)
  BY DEF IInv, TicketInv
<1>4. TicketKey(t)'
  <2>1. ASSUME NEW r \in Stores, NEW i \in DOMAIN keys'[r], keys'[r][i].name = t.name
        PROVE  r = attached[t.ctx] /\ keys'[r][i].created = t.created
    <3>1. CASE r # s
      <4>1. keys'[r] = keys[r]
        BY <3>1 DEF RingStep
      <4> QED
        BY <2>1, <4>1, <1>3 DEF TicketKey
    <3>2. CASE r = s
      <4>1. i # 1
        BY <2>1, <3>2, <1>1, <1>3 DEF RingStep, TicketKey, IInv, TypeOK, Ticket, Names
      <4>2. keys'[s][i] = keys[s][i - 1] /\ i - 1 \in DOMAIN keys[s]
        BY <2>1, <3>2, <4>1, <1>2 DEF RingStep
      <4> QED
        BY <2>1, <3>2, <4>2, <1>3 DEF TicketKey
    <3> QED
      BY <3>1, <3>2
  <2>2. t.name <= made'
    BY <1>1, <1>3 DEF TicketKey, RingStep, IInv, TypeOK, Ticket, Names
  <2> QED
    BY <1>3, <2>1, <2>2 DEF TicketKey
<1>5. Retained(t)'
  <2> SUFFICES ASSUME now - t.created <= KeyLifetime
               PROVE  \E i \in DOMAIN keys'[attached[t.ctx]] : keys'[attached[t.ctx]][i].name = t.name
    BY DEF Retained
  <2>1. PICK i \in DOMAIN keys[attached[t.ctx]] : keys[attached[t.ctx]][i].name = t.name
    BY <1>3 DEF Retained
  <2>2. attached[t.ctx] \in Stores /\ keys[attached[t.ctx]][i].created = t.created
    BY <1>3, <2>1 DEF TicketKey
  <2>3. CASE attached[t.ctx] # s
    BY <2>1, <2>2, <2>3 DEF RingStep
  <2>4. CASE attached[t.ctx] = s
    <3>1. ~(i \in Len(keys'[s])..Len(keys[s]))
      BY <2>2, <2>4, <1>1 DEF RingStep, IInv, TypeOK, Time, Ticket
    <3>2. i + 1 \in 2..Len(keys'[s])
      BY <3>1, <2>1, <2>4, <1>1 DEF RingStep
    <3>3. keys'[s][i + 1] = keys[s][i] /\ i + 1 \in DOMAIN keys'[s]
      BY <3>2, <2>1, <2>4, <1>1 DEF RingStep
    <3> QED
      BY <3>3, <2>1, <2>4
  <2> QED
    BY <2>3, <2>4
<1> QED
  BY <1>4, <1>5

\* maybe_rotate_locked leaves a front key within the interval.
LEMMA EncryptRing ==
    ASSUME TypeOK, NEW s \in Stores, FirstKey(s) \/ MaybeRotate(s)
    PROVE  /\ RingStep(s) \/ UNCHANGED <<keys, made>>
           /\ keys'[s] # <<>>
           /\ now - keys'[s][1].created < RotationInterval
<1>0. keys[s] \in Seq(Key)
  BY DEF TypeOK
<1>1. CASE RingStep(s)
  BY <1>1, <1>0 DEF RingStep, TypeOK, Time
<1>2. CASE keys[s] # <<>> /\ ~RotationDue(keys[s]) /\ UNCHANGED <<keys, made>>
  BY <1>2, <1>0 DEF RotationDue
<1> QED
  BY <1>1, <1>2, FirstKeyStep, RotateStep DEF MaybeRotate
-----------------------------------------------------------------------------
(* The theorems.                                                           *)

\* A new store has no key and no context holds it.
LEMMA InitInv == Init => IInv
<1> SUFFICES ASSUME Init PROVE IInv
  OBVIOUS
<1>1. TypeOK
  BY DEF Init, TypeOK, Time
<1>2. RingInv /\ TicketInv
  BY DEF Init, RingInv, Ordered, Past, Distinct, TicketInv
<1> QED
  BY <1>1, <1>2 DEF IInv

\* Steps that only touch one ring.
LEMMA RingOnlyInv ==
    ASSUME IInv, NEW s \in Stores, RingStep(s), UNCHANGED <<now, attached, tickets>>,
           reply' \in {-1, 0, 1, 2}
    PROVE  IInv'
<1>1. TypeOK'
  BY DEF IInv, TypeOK, RingStep
<1>2. RingInv'
  BY RingStepInv DEF IInv
<1>3. TicketInv'
  BY RingStepTicket DEF TicketInv
<1> QED
  BY <1>1, <1>2, <1>3 DEF IInv

\* Time passing purges nothing: a key may only outlive its lifetime.
LEMMA TickInv == IInv /\ Tick => IInv'
<1> SUFFICES ASSUME IInv, Tick PROVE IInv'
  OBVIOUS
<1>1. TypeOK'
  BY DEF IInv, TypeOK, Tick, Time
<1>2. RingInv'
  <2>1. Past'
    BY KeyFields DEF IInv, RingInv, Past, Tick
  <2> QED
    BY <2>1 DEF IInv, RingInv, Ordered, Distinct, Tick
<1>3. TicketInv'
  <2> SUFFICES ASSUME NEW t \in tickets PROVE TicketKey(t)' /\ Retained(t)'
    BY DEF TicketInv, Tick
  <2>1. TicketKey(t) /\ Retained(t) /\ t.created \in Nat /\ now \in Nat
    BY DEF IInv, TicketInv, TypeOK, Ticket, Time
  <2>2. TicketKey(t)'
    BY <2>1 DEF TicketKey, Tick
  <2>3. Retained(t)'
    BY <2>1 DEF Retained, Tick
  <2> QED
    BY <2>2, <2>3
<1> QED
  BY <1>1, <1>2, <1>3 DEF IInv

\* A context that holds a store keeps it, so its tickets stay with it.
LEMMA AttachInv ==
    ASSUME IInv, NEW c \in Ctxs, NEW s \in Stores, AttachTo(c, s)
    PROVE  IInv'
<1>1. TypeOK'
  BY DEF IInv, TypeOK, AttachTo
<1>2. RingInv'
  BY DEF IInv, RingInv, Ordered, Past, Distinct, AttachTo
<1>3. TicketInv'
  <2> SUFFICES ASSUME NEW t \in tickets PROVE TicketKey(t)' /\ Retained(t)'
    BY DEF TicketInv, AttachTo
  <2>1. TicketKey(t) /\ Retained(t) /\ t.ctx \in Ctxs
    BY DEF IInv, TicketInv, TypeOK, Ticket
  <2>2. attached'[t.ctx] = attached[t.ctx]
    BY <2>1 DEF AttachTo, MayAttach, TicketKey, IInv, TypeOK
  <2>3. TicketKey(t)'
    BY <2>1, <2>2 DEF TicketKey, AttachTo
  <2>4. Retained(t)'
    BY <2>1, <2>2 DEF Retained, AttachTo
  <2> QED
    BY <2>3, <2>4
<1> QED
  BY <1>1, <1>2, <1>3 DEF IInv

\* handle with enc = 1 seals the ticket with the newest key of the store that
\* the context holds, and no other ring has a key of that name.
LEMMA EncryptInv ==
    ASSUME IInv, NEW c \in Ctxs, HandleEncrypt(c)
    PROVE  IInv'
<1>0. PICK s \in Stores : s = attached[c]
  BY DEF HandleEncrypt, IInv, TypeOK
<1>1. s \in Stores /\ now' = now /\ attached' = attached /\ TypeOK /\ RingInv
  BY <1>0 DEF HandleEncrypt, IInv
<1>2. /\ RingStep(s) \/ UNCHANGED <<keys, made>>
      /\ keys'[s] # <<>>
      /\ now - keys'[s][1].created < RotationInterval
  BY <1>0, <1>1, EncryptRing DEF HandleEncrypt
<1>4. RingInv' /\ keys' \in [Stores -> Seq(Key)] /\ made' \in 0..MaxKeys
  <2>1. CASE RingStep(s)
    <3>1. RingInv'
      BY <2>1, <1>1, RingStepInv
    <3> QED
      BY <2>1, <3>1, <1>1 DEF RingStep, TypeOK
  <2>2. CASE UNCHANGED <<keys, made>>
    <3>1. keys' = keys /\ made' = made /\ now' = now
      BY <2>2, <1>1
    <3>2. Ordered' /\ Past' /\ Distinct'
      BY <3>1, <1>1 DEF RingInv, Ordered, Past, Distinct
    <3> QED
      BY <3>1, <3>2, <1>1 DEF TypeOK, RingInv
  <2> QED
    BY <1>2, <2>1, <2>2
<1>5. /\ keys'[s] \in Seq(Key) /\ keys'[s][1] \in Key /\ 1 \in DOMAIN keys'[s]
      /\ Head(keys'[s]) = keys'[s][1]
  BY <1>1, <1>2, <1>4
<1>6. PICK new \in Ticket :
        /\ tickets' = tickets \/ tickets' = tickets \cup {new}
        /\ new.ctx = c /\ new.issued = now
        /\ new.name = keys'[s][1].name /\ new.created = keys'[s][1].created
  <2> DEFINE nt == [ctx |-> c, name |-> keys'[s][1].name,
                    created |-> keys'[s][1].created, issued |-> now]
  <2>1. nt \in Ticket
    BY <1>1, <1>5 DEF Ticket, Key, TypeOK
  <2>2. tickets' = tickets \/ tickets' = tickets \cup {nt}
    BY <1>0, <1>5 DEF HandleEncrypt
  <2> QED
    BY <2>1, <2>2
<1>7. TypeOK'
  BY <1>1, <1>4, <1>6 DEF TypeOK, HandleEncrypt
<1>8. \A t \in tickets : TicketKey(t)' /\ Retained(t)'
  <2>1. CASE RingStep(s)
    BY <2>1, <1>1, RingStepTicket
  <2>2. CASE UNCHANGED <<keys, made>>
    BY <2>2, <1>1 DEF IInv, TicketInv, TicketKey, Retained
  <2> QED
    BY <1>2, <2>1, <2>2
<1>9. TicketKey(new)'
  <2>1. attached'[new.ctx] = s
    BY <1>0, <1>1, <1>6
  <2>2. new.name <= made'
    BY <1>1, <1>4, <1>5, <1>6 DEF RingInv, Past
  <2>3. ASSUME NEW r \in Stores, NEW i \in DOMAIN keys'[r], keys'[r][i].name = new.name
        PROVE  r = s /\ keys'[r][i].created = new.created
    <3>1. r = s
      BY <2>3, <1>1, <1>4, <1>5, <1>6 DEF RingInv, Distinct
    <3>2. \A k \in Key : k.name \in Nat
      BY DEF Key, Names
    <3>3. ~(1 < i) /\ i \in Nat \ {0}
      BY <2>3, <3>1, <3>2, <1>1, <1>4, <1>5, <1>6 DEF RingInv, Ordered
    <3> QED
      BY <3>1, <3>3, <1>6
  <2> QED
    BY <1>1, <1>2, <1>6, <2>1, <2>2, <2>3 DEF TicketKey
<1>10. Retained(new)'
  BY <1>0, <1>1, <1>5, <1>6 DEF Retained
<1> QED
  BY <1>6, <1>4, <1>7, <1>8, <1>9, <1>10 DEF IInv, TicketInv

\* handle with enc = 0 makes at most a first key.
LEMMA DecryptInv ==
    ASSUME IInv, NEW c \in Ctxs, NEW t \in tickets, HandleDecrypt(c, t)
    PROVE  IInv'
<1>1. attached[c] \in Stores /\ UNCHANGED <<now, attached, tickets>> /\ TypeOK
  BY DEF HandleDecrypt, IInv, TypeOK
<1>2. reply' \in {-1, 0, 1, 2}
  BY DEF HandleDecrypt, Lookup
<1>3. CASE FirstKey(attached[c])
  BY <1>1, <1>2, <1>3, FirstKeyStep, RingOnlyInv
<1>4. CASE UNCHANGED <<keys, made>>
  BY <1>1, <1>2, <1>4 DEF IInv, TypeOK, RingInv, Ordered, Past, Distinct,
                          TicketInv, TicketKey, Retained
<1> QED
  BY <1>3, <1>4 DEF HandleDecrypt

\* Every step keeps the inductive invariant.
LEMMA NextInv == IInv /\ [Next]_vars => IInv'
<1> SUFFICES ASSUME IInv, [Next]_vars PROVE IInv'
  OBVIOUS
<1>0. TypeOK
  BY DEF IInv
<1>1. CASE Tick
  BY <1>1, TickInv
<1>2. ASSUME NEW s \in Stores, EnsureInitialized(s) \/ RotateNow(s) PROVE IInv'
  BY <1>0, <1>2, FirstKeyStep, RotateStep, RingOnlyInv DEF EnsureInitialized, RotateNow, TypeOK
<1>3. ASSUME NEW c \in Ctxs, NEW s \in Stores, AttachTo(c, s) PROVE IInv'
  BY <1>3, AttachInv
<1>4. ASSUME NEW c \in Ctxs, HandleEncrypt(c) PROVE IInv'
  BY <1>4, EncryptInv
<1>5. ASSUME NEW c \in Ctxs, NEW t \in tickets, HandleDecrypt(c, t) PROVE IInv'
  BY <1>5, DecryptInv
<1>6. CASE UNCHANGED vars
  BY <1>6 DEF vars, IInv, TypeOK, RingInv, Ordered, Past, Distinct,
              TicketInv, TicketKey, Retained
<1> QED
  BY <1>1, <1>2, <1>3, <1>4, <1>5, <1>6 DEF Next

\* The invariant holds in every behaviour.
THEOREM Invariance == Spec => []IInv
  BY InitInv, NextInv, PTL DEF Spec

\* Type correctness: the rings hold keys, contexts hold at most one store
\* and handle returns only the verdicts OpenSSL knows.
THEOREM TypeCorrect == Spec => []TypeOK
<1>1. IInv => TypeOK
  BY DEF IInv
<1> QED
  BY <1>1, Invariance, PTL

\* keys_ is sorted newest first in every reachable state.
THEOREM SortedRing == Spec => []NewestFirst
<1>1. IInv => NewestFirst
  BY DEF IInv, RingInv, Ordered, NewestFirst
<1> QED
  BY <1>1, Invariance, PTL

\* Tickets resume for the whole lifetime of their key, on every context of
\* the server, across any mix of rotations, attachments and failures.
THEOREM Resumption == Spec => []TicketsResume
<1>1. IInv => TicketsResume
  BY DEF IInv, TicketInv, Retained, TicketsResume, Lookup
<1> QED
  BY <1>1, Invariance, PTL

\* Servers do not accept each other's tickets.
THEOREM ServerIsolation == Spec => []Isolation
<1>1. IInv => Isolation
  <2> SUFFICES ASSUME IInv, NEW t \in tickets, NEW c \in Ctxs,
                      attached[c] \notin {NoStore, attached[t.ctx]}
               PROVE  Lookup(keys[attached[c]], t.name) = 0
    BY DEF Isolation
  <2>1. attached[c] \in Stores /\ TicketKey(t) /\ keys[attached[c]] \in Seq(Key)
    BY DEF IInv, TypeOK, TicketInv
  <2>2. \A i \in DOMAIN keys[attached[c]] : keys[attached[c]][i].name # t.name
    BY <2>1 DEF TicketKey
  <2> QED
    BY <2>1, <2>2 DEF Lookup
<1> QED
  BY <1>1, Invariance, PTL

\* No ticket is sealed by a key that has reached the rotation interval.
THEOREM FreshSealing == Spec => []SealedByFreshKey
<1>1. IInv => SealedByFreshKey
  BY DEF IInv, TicketInv, TicketKey, SealedByFreshKey
<1> QED
  BY <1>1, Invariance, PTL
-----------------------------------------------------------------------------
(* The size of a ring.  A scheduled rotation waits for the interval and    *)
(* every rotation purges, so the scheduled keys of a ring lie at least an  *)
(* interval apart within one lifetime.                                     *)

\* The rotation schedule made the key.
Scheduled(k) == k.auto

Spaced ==
    \A s \in Stores : \A i, j \in DOMAIN keys[s] :
        i < j /\ Scheduled(keys[s][i]) =>
            keys[s][i].created - keys[s][j].created >= RotationInterval

Spanned ==
    \A s \in Stores : \A i \in DOMAIN keys[s] :
        keys[s][1].created - keys[s][i].created <= KeyLifetime

SpaceInv == Spaced /\ Spanned

\* What else a step that makes a key does to the ring of s.
Spacing(s) ==
    /\ now - keys'[s][Len(keys'[s])].created <= KeyLifetime
    /\ Scheduled(keys'[s][1]) =>
          keys[s] = <<>> \/ now - keys[s][1].created >= RotationInterval

LEMMA FirstKeySpacing ==
    ASSUME TypeOK, NEW s \in Stores, FirstKey(s)
    PROVE  Spacing(s)
<1>1. RingStep(s) /\ keys[s] = <<>>
  BY FirstKeyStep DEF FirstKey
<1>2. Len(keys[s]) = 0
  BY <1>1
<1>3. Len(keys'[s]) = 1 /\ keys'[s][1].created = now
  <2>1. Len(keys'[s]) \in 1..(Len(keys[s]) + 1) /\ keys'[s][1].created = now
    BY <1>1 DEF RingStep
  <2> QED
    BY <1>2, <2>1
<1> QED
  BY <1>1, <1>3 DEF Spacing, TypeOK, Time

LEMMA RotateNowSpacing ==
    ASSUME TypeOK, NEW s \in Stores, Rotate(s, FALSE)
    PROVE  Spacing(s)
<1>1. ~Scheduled(NewKey(FALSE))
  BY DEF Scheduled, NewKey
<1>2. keys'[s][1] = NewKey(FALSE) /\ now - keys'[s][Len(keys'[s])].created <= KeyLifetime
  BY RotateStep
<1> QED
  BY <1>1, <1>2 DEF Spacing

LEMMA ScheduleSpacing ==
    ASSUME TypeOK, NEW s \in Stores, keys[s] # <<>>, RotationDue(keys[s]), Rotate(s, TRUE)
    PROVE  Spacing(s)
<1>1. now - keys'[s][Len(keys'[s])].created <= KeyLifetime
  BY RotateStep
<1>2. now - keys[s][1].created >= RotationInterval
  <2>1. keys[s] \in Seq(Key) /\ now \in Nat
    BY DEF TypeOK, Time
  <2>2. 1 \in 1..Len(keys[s]) /\ Head(keys[s]) = keys[s][1]
    BY <2>1
  <2>3. keys[s][1].created \in Nat
    BY <2>2, KeyFields
  <2> QED
    BY <2>1, <2>2, <2>3 DEF RotationDue
<1> QED
  BY <1>1, <1>2 DEF Spacing

LEMMA SpacingKeeps ==
    ASSUME IInv, IInv', SpaceInv, NEW s \in Stores, RingStep(s), Spacing(s)
    PROVE  SpaceInv'
<1> DEFINE ks == keys[s]
           ls == keys'[s]
<1>1. /\ ks \in Seq(Key) /\ ls \in Seq(Key) /\ now \in Nat
      /\ \A i \in DOMAIN ks : ks[i].created \in Nat
  BY KeyFields DEF IInv, RingStep
<1>2. \A i \in DOMAIN ls : ls[i].created \in Nat
  <2>1. \A k \in Key : k.created \in Nat
    BY DEF Key, Time
  <2> QED
    BY <1>1, <2>1
<1>3. /\ Len(ls) \in 1..(Len(ks) + 1) /\ ls[1].created = now
      /\ \A i \in 2..Len(ls) : ls[i] = ks[i - 1]
      /\ \A r \in Stores \ {s} : keys'[r] = keys[r]
  BY DEF RingStep
<1>4. \A i, j \in DOMAIN ls : i < j => ls[i].created >= ls[j].created
  BY DEF IInv, RingInv, Ordered
<1>5. \A i, j \in DOMAIN ks : i < j => ks[i].created >= ks[j].created
  BY DEF IInv, RingInv, Ordered
<1>6. /\ now - ls[Len(ls)].created <= KeyLifetime
      /\ Scheduled(ls[1]) => ks = <<>> \/ now - ks[1].created >= RotationInterval
  BY DEF Spacing
<1>7. /\ Len(ks) \in Nat /\ DOMAIN ks = 1..Len(ks) /\ Len(ls) \in Nat /\ DOMAIN ls = 1..Len(ls)
      /\ (ks = <<>> => Len(ks) = 0)
  BY <1>1
<1>8. \A i, j \in DOMAIN ks :
        i < j /\ Scheduled(ks[i]) => ks[i].created - ks[j].created >= RotationInterval
  BY DEF SpaceInv, Spaced
<1> HIDE DEF ks, ls
<1>9. ASSUME NEW i \in DOMAIN ls, NEW j \in DOMAIN ls, i < j, Scheduled(ls[i])
      PROVE  ls[i].created - ls[j].created >= RotationInterval
  <2>1. j \in 2..Len(ls) /\ j - 1 \in 1..Len(ks) /\ ls[j] = ks[j - 1]
    BY <1>3, <1>7, <1>9
  <2>2. CASE i = 1
    <3>1. ks # <<>> /\ now - ks[1].created >= RotationInterval
      BY <1>6, <1>7, <1>9, <2>1, <2>2
    <3>2. 1 \in 1..Len(ks) /\ (j - 1 = 1 \/ 1 < j - 1)
      BY <1>7, <2>1
    <3>3. ks[1].created >= ks[j - 1].created
      BY <1>1, <1>5, <1>7, <2>1, <3>2
    <3>4. ls[i].created = now /\ ls[j].created = ks[j - 1].created
      BY <1>3, <2>1, <2>2
    <3>5. now \in Nat /\ ks[1].created \in Nat /\ ks[j - 1].created \in Nat
      BY <1>1, <1>7, <2>1, <3>2
    <3> QED
      BY <3>1, <3>3, <3>4, <3>5
  <2>3. CASE i # 1
    <3>1. i \in 2..Len(ls) /\ i - 1 \in 1..Len(ks) /\ ls[i] = ks[i - 1] /\ i - 1 < j - 1
      BY <1>3, <1>7, <1>9, <2>3
    <3> QED
      BY <1>7, <1>8, <1>9, <2>1, <3>1
  <2> QED
    BY <2>2, <2>3
<1>10. ASSUME NEW i \in DOMAIN ls
       PROVE  ls[1].created - ls[i].created <= KeyLifetime
  <2>1. Len(ls) \in DOMAIN ls /\ (i = Len(ls) \/ i < Len(ls))
    BY <1>3, <1>7
  <2>2. ls[i].created >= ls[Len(ls)].created
    BY <1>2, <1>4, <2>1
  <2> QED
    BY <1>1, <1>2, <1>3, <1>6, <2>1, <2>2
<1>11. Spaced'
  BY <1>3, <1>9 DEF SpaceInv, Spaced, ls
<1>12. Spanned'
  BY <1>3, <1>10 DEF SpaceInv, Spanned, ls
<1> QED
  BY <1>11, <1>12 DEF SpaceInv

LEMMA SpaceStep == IInv /\ IInv' /\ SpaceInv /\ [Next]_vars => SpaceInv'
<1> SUFFICES ASSUME IInv, IInv', SpaceInv, [Next]_vars PROVE SpaceInv'
  OBVIOUS
<1>0. TypeOK /\ \A c \in Ctxs : attached[c] # NoStore => attached[c] \in Stores
  BY DEF IInv, TypeOK
<1>1. ASSUME keys' = keys PROVE SpaceInv'
  BY <1>1 DEF SpaceInv, Spaced, Spanned
<1>2. ASSUME NEW s \in Stores, FirstKey(s) PROVE SpaceInv'
  BY <1>0, <1>2, FirstKeyStep, FirstKeySpacing, SpacingKeeps
<1>3. ASSUME NEW s \in Stores, Rotate(s, FALSE) PROVE SpaceInv'
  BY <1>0, <1>3, RotateStep, RotateNowSpacing, SpacingKeeps
<1>4. ASSUME NEW s \in Stores, MaybeRotate(s) PROVE SpaceInv'
  BY <1>0, <1>1, <1>4, RotateStep, ScheduleSpacing, SpacingKeeps DEF MaybeRotate
<1>5. CASE Tick
  BY <1>1, <1>5 DEF Tick
<1>6. ASSUME NEW s \in Stores, EnsureInitialized(s) \/ RotateNow(s) PROVE SpaceInv'
  BY <1>2, <1>3, <1>6 DEF EnsureInitialized, RotateNow
<1>7. ASSUME NEW c \in Ctxs, NEW s \in Stores, AttachTo(c, s) PROVE SpaceInv'
  BY <1>1, <1>7 DEF AttachTo
<1>8. ASSUME NEW c \in Ctxs, HandleEncrypt(c) PROVE SpaceInv'
  BY <1>0, <1>2, <1>4, <1>8 DEF HandleEncrypt
<1>9. ASSUME NEW c \in Ctxs, NEW t \in tickets, HandleDecrypt(c, t) PROVE SpaceInv'
  BY <1>0, <1>1, <1>2, <1>9 DEF HandleDecrypt
<1>10. CASE UNCHANGED vars
  BY <1>1, <1>10 DEF vars
<1> QED
  BY <1>5, <1>6, <1>7, <1>8, <1>9, <1>10 DEF Next

\* Times an interval apart fall into different intervals.
LEMMA IntervalsApart ==
    ASSUME NEW a \in Nat, NEW b \in Nat, NEW d \in Nat \ {0}
    PROVE  /\ a \div d \in Nat
           /\ a >= b => a \div d >= b \div d
           /\ a >= b + d => a \div d # b \div d
<1>1. a \div d \in Nat /\ b \div d \in Nat
  OBVIOUS
<1>2. a >= b => a \div d >= b \div d
  OBVIOUS
<1>3. a >= b + d => a \div d >= b \div d + 1
  OBVIOUS
<1> QED
  BY <1>1, <1>2, <1>3

\* The number of scheduled keys of a ring is bounded by what one lifetime
\* holds: the intervals of their ages at the front key are all different.
THEOREM RingBounded == Spec => []BoundedRing
<1>1. Init => SpaceInv
  BY DEF Init, SpaceInv, Spaced, Spanned
<1>2. Spec => []SpaceInv
  BY <1>1, SpaceStep, Invariance, PTL DEF Spec
<1>3. IInv /\ SpaceInv => BoundedRing
  <2> SUFFICES ASSUME IInv, SpaceInv, NEW s \in Stores
               PROVE  Cardinality({i \in DOMAIN keys[s] : keys[s][i].auto})
                        <= KeyLifetime \div RotationInterval + 1
    BY DEF BoundedRing
  <2> DEFINE ks == keys[s]
             A == {i \in DOMAIN ks : ks[i].auto}
             age(i) == ks[1].created - ks[i].created
             N == KeyLifetime \div RotationInterval
             f == [i \in A |-> age(i) \div RotationInterval]
  <2>1. ks \in Seq(Key) /\ \A i \in DOMAIN ks : ks[i].created \in Nat
    BY KeyFields DEF IInv
  <2>2. Len(ks) \in Nat /\ DOMAIN ks = 1..Len(ks)
    BY <2>1
  <2>3. \A i, j \in DOMAIN ks : i < j => ks[i].created >= ks[j].created
    BY DEF IInv, RingInv, Ordered
  <2>4. \A i, j \in DOMAIN ks : i < j /\ i \in A =>
           ks[i].created - ks[j].created >= RotationInterval
    BY DEF SpaceInv, Spaced, Scheduled
  <2>5. \A i \in DOMAIN ks : ks[1].created - ks[i].created <= KeyLifetime
    BY DEF SpaceInv, Spanned
  <2>6. A \subseteq DOMAIN ks
    OBVIOUS
  <2> HIDE DEF ks, A
  <2>7. \A i \in DOMAIN ks : age(i) \in Nat /\ age(i) <= KeyLifetime
    <3> SUFFICES ASSUME NEW i \in DOMAIN ks
                 PROVE  age(i) \in Nat /\ age(i) <= KeyLifetime
      OBVIOUS
    <3>1. 1 \in DOMAIN ks /\ (i = 1 \/ 1 < i)
      BY <2>2
    <3>2. ks[1].created >= ks[i].created /\ ks[1].created \in Nat /\ ks[i].created \in Nat
      BY <2>1, <2>3, <3>1
    <3> QED
      BY <2>5, <3>2
  <2>8. \A i, j \in A : i < j => age(j) >= age(i) + RotationInterval
    <3> SUFFICES ASSUME NEW i \in A, NEW j \in A, i < j
                 PROVE  age(j) >= age(i) + RotationInterval
      OBVIOUS
    <3>1. /\ ks[1].created \in Nat /\ ks[i].created \in Nat /\ ks[j].created \in Nat
          /\ ks[i].created - ks[j].created >= RotationInterval
      <4>1. i \in DOMAIN ks /\ j \in DOMAIN ks /\ 1 \in DOMAIN ks
        BY <2>2, <2>6
      <4> QED
        BY <2>1, <2>4, <4>1
    <3> QED
      BY <3>1
  <2>9. N \in Nat /\ RotationInterval \in Nat \ {0} /\ KeyLifetime \in Nat
    BY IntervalsApart
  <2> HIDE DEF age
  <2>10. \A i \in A : age(i) \div RotationInterval \in 0..N
    <3> SUFFICES ASSUME NEW i \in A PROVE age(i) \div RotationInterval \in 0..N
      OBVIOUS
    <3>1. age(i) \in Nat /\ KeyLifetime >= age(i)
      BY <2>6, <2>7, <2>9
    <3>2. age(i) \div RotationInterval \in Nat
      BY <2>9, <3>1, IntervalsApart
    <3>3. KeyLifetime \div RotationInterval >= age(i) \div RotationInterval
      BY <2>9, <3>1, IntervalsApart
    <3> QED
      BY <2>9, <3>2, <3>3
  <2>11. \A i, j \in A : age(i) \div RotationInterval = age(j) \div RotationInterval => i = j
    <3> SUFFICES ASSUME NEW i \in A, NEW j \in A, i # j
                 PROVE  age(i) \div RotationInterval # age(j) \div RotationInterval
      OBVIOUS
    <3>1. age(i) \in Nat /\ age(j) \in Nat /\ (i < j \/ j < i)
      BY <2>2, <2>6, <2>7
    <3> QED
      BY <2>8, <2>9, <3>1, IntervalsApart
  <2>12. f \in [A -> 0..N] /\ \A i, j \in A : f[i] = f[j] => i = j
    BY <2>10, <2>11
  <2> HIDE DEF f, N
  <2>13. IsFiniteSet(0..N) /\ Cardinality(0..N) = N + 1
    <3>1. 0 \in Int /\ N \in Int /\ ~(0 > N) /\ N - 0 + 1 = N + 1
      BY <2>9
    <3> QED
      BY <3>1, FS_Interval
  <2>14. f \in Injection(A, 0..N)
    BY <2>12, Fun_IsInj
  <2>15. Cardinality(A) <= N + 1
    BY <2>13, <2>14, FS_Injection
  <2> QED
    BY <2>15 DEF A, N, ks
<1> QED
  BY <1>2, <1>3, Invariance, PTL
=============================================================================

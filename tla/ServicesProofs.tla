---------------------------- MODULE ServicesProofs ----------------------------
(***************************************************************************)
(* Proofs about the services, for every number of threads, tasks, jobs,    *)
(* keys and lines.  Each service has an inductive invariant of its own:    *)
(*   CacheInv   what the cache holds is what a get may return;             *)
(*   QueueInv   what entered the list is what was popped, then the list;   *)
(*   LogInv     one thread is inside, and the lines of both files are the  *)
(*              last ones written, without a gap;                          *)
(*   DropInv    the file is closed only while a thread rotates the logs;   *)
(*   DiskInv    an unspoilt file is whole, or has one writer, and nothing  *)
(*              has changed in what an unspoilt copy has read of;          *)
(*   TableInv   a handler sits on a route that matches its own path;       *)
(*   SettingsInv  after a save the file has what the settings' texts       *)
(*                parse to, under their keys.                              *)
(* The loops over the pieces of a path and over the settings are treated   *)
(* by induction, as a set of natural numbers.                              *)
(***************************************************************************)
EXTENDS Services, FiniteSets, SequenceTheorems, FiniteSetTheorems,
        WellFoundedInduction, TLAPS

-----------------------------------------------------------------------------
(* The composition.                                                        *)

LEMMA InitParts == Init => Log!Init /\ Clients!Init /\ Disk!Init /\ Tables!Init
BY DEF Init

\* A step of the composition is a step of each part, or leaves it alone.
LEMMA NextParts ==
    ASSUME [Next]_vars
    PROVE  /\ Log!Next \/ UNCHANGED logVars
           /\ Clients!Next \/ UNCHANGED clientVars
           /\ Disk!Next \/ UNCHANGED diskVars
           /\ Tables!Next \/ UNCHANGED tableVars
           /\ Settings!Next \/ UNCHANGED settingsVars
BY DEF Next, vars, Clients!Next

-----------------------------------------------------------------------------
(* The cache.                                                              *)

Contents == Values \cup {""}

\* A get may return what the cache holds, and nothing where an expiry is set.
CacheInv ==
    /\ store \in [CacheKeys -> Contents] /\ volatile \subseteq CacheKeys
    /\ maySee \in [CacheKeys -> SUBSET Contents]
    /\ \A k \in CacheKeys : store[k] \in maySee[k]
    /\ \A k \in volatile : "" \in maySee[k]

\* What a write does, if a get may return its value, and nothing as well if it
\* sets an expiry.
Wrote(k, o, value, sees) ==
    /\ o \in Clients!Outcomes
    /\ store' = IF Clients!Executed(o) THEN [store EXCEPT ![k] = value] ELSE store
    /\ IF Clients!Executed(o)
         THEN \/ volatile' = volatile \ {k}
              \/ volatile' = volatile \cup {k} /\ "" \in sees
         ELSE volatile' = volatile
    /\ maySee' = [maySee EXCEPT ![k] = IF o = "done" THEN sees ELSE @ \cup sees]
    /\ value \in sees /\ sees \subseteq Contents

LEMMA WriteKeeps ==
    ASSUME CacheInv, NEW k \in CacheKeys, NEW o, NEW value, NEW sees, Wrote(k, o, value, sees)
    PROVE  CacheInv'
<1>1. \/ o = "done" \/ o = "unanswered" \/ o = "refused" \/ o = "unsent"
  BY DEF Wrote, Clients!Outcomes
<1>2. CASE o = "done"
  BY <1>2 DEF Wrote, CacheInv, Clients!Executed
<1>3. CASE o = "unanswered"
  BY <1>3 DEF Wrote, CacheInv, Clients!Executed
<1>4. CASE o \in {"refused", "unsent"}
  BY <1>4 DEF Wrote, CacheInv, Clients!Executed
<1> QED BY <1>1, <1>2, <1>3, <1>4

LEMMA CacheStep ==
    ASSUME CacheInv, Clients!Next \/ UNCHANGED clientVars
    PROVE  CacheInv'
<1>1. CASE UNCHANGED <<store, volatile, maySee>>
  BY <1>1 DEF CacheInv
<1>2. ASSUME NEW k \in CacheKeys, NEW v \in Values, NEW ttl \in BOOLEAN, Clients!Set(k, v, ttl)
      PROVE  CacheInv'
  <2> DEFINE sees == {v} \cup (IF ttl THEN {""} ELSE {})
  <2>1. PICK o \in Clients!Outcomes : Clients!Write(k, o, v, ttl, sees)
    BY <1>2 DEF Clients!Set, Clients!WithExpiry
  <2>2. sees \subseteq Contents /\ v \in sees /\ (ttl => "" \in sees)
    BY DEF Contents
  <2> HIDE DEF sees
  <2>3. Wrote(k, o, v, sees)
    BY <2>1, <2>2 DEF Clients!Write, Wrote
  <2> QED BY <2>3, WriteKeeps
<1>3. ASSUME NEW k \in CacheKeys, Clients!Del(k)
      PROVE  CacheInv'
  <2>1. PICK o \in Clients!Outcomes : Clients!Write(k, o, "", FALSE, {""})
    BY <1>3 DEF Clients!Del
  <2>2. Wrote(k, o, "", {""})
    BY <2>1 DEF Clients!Write, Wrote, Contents
  <2> QED BY <2>2, WriteKeeps
<1>4. ASSUME NEW k \in CacheKeys, Clients!Expire(k)
      PROVE  CacheInv'
  <2> DEFINE sees == maySee[k] \cup {""}
  <2>1. PICK o \in Clients!Outcomes : Clients!Write(k, o, store[k], store[k] # "", sees)
    BY <1>4 DEF Clients!Expire
  <2>2. sees \subseteq Contents /\ store[k] \in sees /\ "" \in sees
    BY DEF CacheInv, Contents
  <2> HIDE DEF sees
  <2>3. Wrote(k, o, store[k], sees)
    BY <2>1, <2>2 DEF Clients!Write, Wrote
  <2> QED BY <2>3, WriteKeeps
<1>5. ASSUME NEW k \in CacheKeys, Clients!Due(k)
      PROVE  CacheInv'
  BY <1>5 DEF Clients!Due, CacheInv, Contents
<1>6. CASE Clients!Next
  BY <1>1, <1>2, <1>3, <1>4, <1>5, <1>6
  DEF Clients!Next, Clients!QueueNext, Clients!CacheNext, Clients!QueueConnect,
      Clients!QueueDisconnect, Clients!Pop, Clients!Length,
      Clients!Push, Clients!CacheConnect, Clients!CacheDisconnect, Clients!Get,
      Clients!cacheVars
<1> QED BY <1>1, <1>6 DEF clientVars

\* Cache: whatever calls were made, and whichever of them got no answer, the
\* server holds a value that those calls allow.
THEOREM CacheExplained == Spec => []CacheHoldsLastWrite
<1>1. Init => CacheInv
  BY InitParts DEF Clients!Init, CacheInv, Contents
<1>2. CacheInv /\ [Next]_vars => CacheInv'
  BY NextParts, CacheStep
<1>3. CacheInv => CacheHoldsLastWrite
  BY DEF CacheInv, CacheHoldsLastWrite, Clients!CacheHoldsLastWrite
<1> QED BY <1>1, <1>2, <1>3, PTL DEF Spec

-----------------------------------------------------------------------------
(* The queue.                                                              *)

LEMMA CopiesCounted ==
    \A s, j : Clients!Copies(s, j) = Cardinality({i \in DOMAIN s : s[i] = j})
BY Zenon DEF Clients!Copies, Clients!Cardinality, Cardinality

\* How the copies of a job grow with the sequence.
LEMMA CopiesOfAppend ==
    ASSUME NEW s \in Seq(Jobs), NEW x \in Jobs, NEW j
    PROVE  /\ Clients!Copies(s, j) \in Nat
           /\ Clients!Copies(Append(s, x), j) = Clients!Copies(s, j) + (IF x = j THEN 1 ELSE 0)
<1> DEFINE n == Len(s) + 1
           I == {i \in DOMAIN s : s[i] = j}
           J == {i \in DOMAIN Append(s, x) : Append(s, x)[i] = j}
<1>1. /\ Len(s) \in Nat /\ DOMAIN s = 1..Len(s) /\ DOMAIN Append(s, x) = 1..n
      /\ Append(s, x)[n] = x /\ \A i \in 1..Len(s) : Append(s, x)[i] = s[i]
  BY AppendProperties, LenProperties
<1>2. IsFiniteSet(I)
  <2>1. I \in SUBSET (1..Len(s)) /\ IsFiniteSet(1..Len(s))
    BY <1>1, FS_Interval
  <2> QED BY <2>1, FS_Subset
<1>3. n \notin I /\ J = IF x = j THEN I \cup {n} ELSE I
  <2>1. Len(s) \in Nat /\ n \notin 1..Len(s) /\ 1..n = (1..Len(s)) \cup {n}
    BY <1>1
  <2> HIDE DEF n
  <2> QED BY <1>1, <2>1
<1>4. /\ Cardinality(I) \in Nat
      /\ Cardinality(J) = IF x = j THEN Cardinality(I) + 1 ELSE Cardinality(I)
  <2>1. Cardinality(I \cup {n}) = Cardinality(I) + 1
    BY <1>2, <1>3, FS_AddElement
  <2>2. Cardinality(I) \in Nat
    BY <1>2, FS_CardinalityType
  <2> QED BY <1>3, <2>1, <2>2
<1>5. Clients!Copies(s, j) = Cardinality(I) /\ Clients!Copies(Append(s, x), j) = Cardinality(J)
  BY CopiesCounted
<1> HIDE DEF I, J
<1> QED BY <1>4, <1>5

\* The shape of the queue's state.
QueueTypes ==
    /\ list \in Seq(Jobs) /\ entered \in Seq(Jobs)
    /\ popped \in Seq([job : Jobs, returned : {TRUE, FALSE}])
    /\ tries \in [Jobs -> Nat] /\ acked \subseteq Jobs

\* What was popped, then what is in the list, is what entered.
SplitInOrder ==
    /\ Len(entered) = Len(popped) + Len(list)
    /\ \A i \in 1..Len(popped) : entered[i] = popped[i].job
    /\ \A i \in 1..Len(list) : entered[Len(popped) + i] = list[i]

CopiesBounded ==
    /\ \A j \in Jobs : Clients!Copies(entered, j) <= tries[j]
    /\ \A j \in acked \ refused : Clients!Copies(entered, j) > 0

QueueInv == QueueTypes /\ SplitInOrder /\ CopiesBounded

LEMMA PushInv ==
    ASSUME QueueInv, NEW j \in Jobs, Clients!Push(j)
    PROVE  QueueInv'
<1>1. PICK o \in Clients!Outcomes :
        /\ list' = IF Clients!Executed(o) THEN Append(list, j) ELSE list
        /\ entered' = IF Clients!Executed(o) THEN Append(entered, j) ELSE entered
        /\ acked' = IF Clients!Returns(o) THEN acked \cup {j} ELSE acked
        /\ refused' = IF o = "refused" THEN refused \cup {j} ELSE refused
  BY DEF Clients!Push, Clients!Pushed
<1>2. tries' = [tries EXCEPT ![j] = @ + 1] /\ popped' = popped
  BY DEF Clients!Push
<1>3. tries' \in [Jobs -> Nat] /\ acked' \subseteq Jobs
  BY <1>1, <1>2 DEF QueueInv, QueueTypes
<1>4. /\ \A i \in Jobs : tries[i] \in Nat
      /\ \A i \in Jobs : tries'[i] = tries[i] + (IF i = j THEN 1 ELSE 0)
  BY <1>2 DEF QueueInv, QueueTypes
<1>5. \A i : Clients!Copies(entered, i) \in Nat
  BY CopiesOfAppend DEF QueueInv, QueueTypes
<1>6. CASE Clients!Executed(o)
  <2>1. list' = Append(list, j) /\ entered' = Append(entered, j)
    BY <1>1, <1>6
  <2>2. /\ list' \in Seq(Jobs) /\ entered' \in Seq(Jobs) /\ Len(list') = Len(list) + 1
        /\ Len(entered') = Len(entered) + 1
        /\ \A i \in 1..Len(list) : list'[i] = list[i]
        /\ \A i \in 1..Len(entered) : entered'[i] = entered[i]
        /\ list'[Len(list) + 1] = j /\ entered'[Len(entered) + 1] = j
    BY <2>1, AppendProperties DEF QueueInv, QueueTypes
  <2>3. Len(list) \in Nat /\ Len(entered) \in Nat /\ Len(popped) \in Nat
    BY DEF QueueInv, QueueTypes
  <2>4. SplitInOrder'
    <3>1. Len(entered)' = Len(popped)' + Len(list)'
      BY <1>2, <2>2, <2>3 DEF QueueInv, SplitInOrder
    <3>2. \A i \in 1..Len(popped') : entered'[i] = popped'[i].job
      BY <1>2, <2>2, <2>3 DEF QueueInv, SplitInOrder
    <3>3. ASSUME NEW i \in 1..Len(list')
          PROVE  entered'[Len(popped') + i] = list'[i]
      <4>1. CASE i <= Len(list)
        <5>1. i \in 1..Len(list) /\ Len(popped) + i \in 1..Len(entered)
          BY <2>2, <2>3, <4>1 DEF QueueInv, SplitInOrder
        <5> QED BY <1>2, <2>2, <5>1 DEF QueueInv, SplitInOrder
      <4>2. CASE i = Len(list) + 1
        <5>1. Len(popped) + i = Len(entered) + 1
          BY <2>3, <4>2 DEF QueueInv, SplitInOrder
        <5> QED BY <1>2, <2>2, <4>2, <5>1
      <4> QED BY <2>2, <2>3, <4>1, <4>2
    <3> QED BY <3>1, <3>2, <3>3 DEF SplitInOrder
  <2>5. \A i : Clients!Copies(entered', i)
                 = Clients!Copies(entered, i) + (IF j = i THEN 1 ELSE 0)
    BY <2>1, CopiesOfAppend DEF QueueInv, QueueTypes
  <2>6. \A i \in Jobs : Clients!Copies(entered', i) <= tries'[i]
    BY <1>4, <1>5, <2>5 DEF QueueInv, CopiesBounded
  <2>7. \A i \in acked' \ refused' : Clients!Copies(entered', i) > 0
    <3>1. acked' \ refused' \subseteq (acked \ refused) \cup {j}
      BY <1>1
    <3>2. \A i \in acked \ refused : Clients!Copies(entered, i) > 0
      BY DEF QueueInv, CopiesBounded
    <3>3. ASSUME NEW i \in acked' \ refused'
          PROVE  Clients!Copies(entered', i) > 0
      <4>1. Clients!Copies(entered, i) \in Nat
        BY <1>5
      <4>2. Clients!Copies(entered', i)
              = Clients!Copies(entered, i) + (IF j = i THEN 1 ELSE 0)
        BY <2>5
      <4>3. i = j \/ Clients!Copies(entered, i) > 0
        BY <3>1, <3>2, <3>3
      <4> QED BY <4>1, <4>2, <4>3
    <3> QED BY <3>3
  <2>8. CopiesBounded'
    BY <2>6, <2>7 DEF CopiesBounded
  <2>9. QueueTypes'
    BY <1>2, <1>3, <2>2 DEF QueueInv, QueueTypes
  <2> QED BY <2>4, <2>8, <2>9 DEF QueueInv
<1>7. CASE ~Clients!Executed(o)
  <2>1. list' = list /\ entered' = entered
    BY <1>1, <1>7
  <2>2. QueueTypes' /\ SplitInOrder'
    BY <1>2, <1>3, <2>1 DEF QueueInv, QueueTypes, SplitInOrder
  <2>3. \A i \in Jobs : Clients!Copies(entered, i) <= tries'[i]
    BY <1>4, <1>5 DEF QueueInv, CopiesBounded
  <2>4. acked' \ refused' \subseteq acked \ refused
    BY <1>1, <1>7 DEF Clients!Outcomes, Clients!Executed, Clients!Returns, Clients!Replied
  <2>5. CopiesBounded'
    BY <2>1, <2>3, <2>4 DEF QueueInv, CopiesBounded
  <2> QED BY <2>2, <2>5 DEF QueueInv
<1> QED BY <1>6, <1>7

LEMMA PopInv ==
    ASSUME QueueInv, Clients!Pop
    PROVE  QueueInv'
<1>1. list # <<>> /\ UNCHANGED <<tries, acked, refused, entered>>
  BY DEF Clients!Pop
<1>2. CopiesBounded'
  BY <1>1 DEF QueueInv, CopiesBounded
<1>3. PICK o \in Clients!Outcomes :
        /\ list' = IF Clients!Executed(o) THEN Tail(list) ELSE list
        /\ popped' = IF Clients!Executed(o)
                       THEN Append(popped, [job |-> Head(list), returned |-> o = "done"])
                       ELSE popped
  BY DEF Clients!Pop
<1>4. CASE Clients!Executed(o)
  <2> DEFINE e == [job |-> Head(list), returned |-> o = "done"]
             E == [job : Jobs, returned : {TRUE, FALSE}]
  <2>1. /\ Head(list) \in Jobs /\ list' \in Seq(Jobs) /\ Len(list') = Len(list) - 1
        /\ \A i \in 1..Len(list') : list'[i] = list[i + 1]
        /\ Len(list) \in Nat \ {0} /\ Head(list) = list[1]
    <3>1. list \in Seq(Jobs) /\ list # <<>> /\ list' = Tail(list)
      BY <1>1, <1>3, <1>4 DEF QueueInv, QueueTypes
    <3>2. Len(list) \in Nat \ {0} /\ Head(list) = list[1]
      BY <3>1, EmptySeq
    <3> QED BY <3>1, <3>2, HeadTailProperties
  <2>2. e \in E /\ e.job = list[1]
    <3>1. (o = "done") \in {TRUE, FALSE}
      BY Zenon
    <3>2. e.job = list[1]
      BY <2>1
    <3> DEFINE b == (o = "done")
    <3> HIDE DEF b
    <3>3. b \in {TRUE, FALSE}
      BY <3>1 DEF b
    <3>4. [job |-> Head(list), returned |-> b] \in E
      BY <2>1, <3>3
    <3> QED BY <3>2, <3>4 DEF b
  <2>a. popped \in Seq(E)
    BY DEF QueueInv, QueueTypes
  <2>b. popped' = Append(popped, e)
    BY <1>3, <1>4
  <2>c. e \in E
    BY <2>2
  <2> HIDE DEF e, E
  <2>3. /\ popped' \in Seq(E) /\ Len(popped') = Len(popped) + 1 /\ Len(popped) \in Nat
        /\ \A i \in 1..Len(popped) : popped'[i] = popped[i]
        /\ popped'[Len(popped) + 1] = e
    BY <2>a, <2>b, <2>c, AppendProperties, LenProperties
  <2>4. SplitInOrder'
    <3>0. entered' = entered /\ Len(entered) = Len(popped) + Len(list)
      BY <1>1 DEF QueueInv, SplitInOrder
    <3>1. Len(entered') = Len(popped') + Len(list')
      BY <2>1, <2>3, <3>0
    <3>2. ASSUME NEW i \in 1..Len(popped')
          PROVE  entered'[i] = popped'[i].job
      <4>1. CASE i <= Len(popped)
        <5>1. i \in 1..Len(popped)
          BY <2>3, <4>1
        <5> QED BY <2>3, <3>0, <5>1 DEF QueueInv, SplitInOrder
      <4>2. CASE i = Len(popped) + 1
        <5>1. 1 \in 1..Len(list)
          BY <2>1
        <5>2. entered[Len(popped) + 1] = list[1]
          BY <5>1 DEF QueueInv, SplitInOrder
        <5> QED BY <2>2, <2>3, <3>0, <4>2, <5>2
      <4> QED BY <2>3, <4>1, <4>2
    <3>3. ASSUME NEW i \in 1..Len(list')
          PROVE  entered'[Len(popped') + i] = list'[i]
      <4>1. i + 1 \in 1..Len(list) /\ Len(popped') + i = Len(popped) + (i + 1)
        BY <2>1, <2>3
      <4>2. entered[Len(popped) + (i + 1)] = list[i + 1]
        BY <4>1 DEF QueueInv, SplitInOrder
      <4> QED BY <2>1, <3>0, <4>1, <4>2
    <3> QED BY <3>1, <3>2, <3>3 DEF SplitInOrder
  <2>5. QueueTypes'
    BY <1>1, <2>1, <2>3 DEF QueueInv, QueueTypes, E
  <2> QED BY <1>2, <2>4, <2>5 DEF QueueInv
<1>5. CASE ~Clients!Executed(o)
  <2>1. list' = list /\ popped' = popped
    BY <1>3, <1>5
  <2>2. QueueTypes' /\ SplitInOrder'
    BY <1>1, <2>1 DEF QueueInv, QueueTypes, SplitInOrder
  <2> QED BY <1>2, <2>2 DEF QueueInv
<1> QED BY <1>4, <1>5

LEMMA QueueStep ==
    ASSUME QueueInv, Clients!Next \/ UNCHANGED clientVars
    PROVE  QueueInv'
<1>1. ASSUME UNCHANGED <<list, tries, acked, refused, entered, popped>>
      PROVE  QueueInv'
  BY <1>1 DEF QueueInv, QueueTypes, SplitInOrder, CopiesBounded
<1>2. CASE Clients!QueueConnect \/ Clients!QueueDisconnect \/ Clients!Length
  BY <1>1, <1>2 DEF Clients!QueueConnect, Clients!QueueDisconnect, Clients!Length
<1>3. CASE \E j \in Jobs : Clients!Push(j)
  BY <1>3, PushInv
<1>4. CASE Clients!Pop
  BY <1>4, PopInv
<1>5. CASE Clients!CacheConnect \/ Clients!CacheDisconnect
  BY <1>1, <1>5 DEF Clients!CacheConnect, Clients!CacheDisconnect, Clients!queueVars
<1>6. ASSUME NEW k \in CacheKeys,
             \/ Clients!Del(k) \/ Clients!Expire(k) \/ Clients!Get(k) \/ Clients!Due(k)
             \/ \E v \in Values, ttl \in BOOLEAN : Clients!Set(k, v, ttl)
      PROVE  QueueInv'
  <2>1. UNCHANGED Clients!queueVars
    BY <1>6 DEF Clients!Del, Clients!Expire, Clients!Get, Clients!Due, Clients!Set,
                Clients!Write
  <2> QED BY <1>1, <2>1 DEF Clients!queueVars
<1>7. CASE UNCHANGED clientVars
  BY <1>1, <1>7 DEF clientVars
<1> QED BY <1>2, <1>3, <1>4, <1>5, <1>6, <1>7
    DEF Clients!Next, Clients!QueueNext, Clients!CacheNext

LEMMA QueueStarts ==
    ASSUME Clients!Init
    PROVE  QueueInv
<1>1. /\ list = <<>> /\ entered = <<>> /\ popped = <<>> /\ acked = {}
      /\ tries = [j \in Jobs |-> 0]
  BY DEF Clients!Init
<1>2. QueueTypes /\ SplitInOrder
  BY <1>1 DEF QueueTypes, SplitInOrder
<1>3. \A j \in Jobs : Clients!Copies(entered, j) = 0
  <2>1. ASSUME NEW j \in Jobs
        PROVE  {i \in DOMAIN entered : entered[i] = j} = {}
    BY <1>1
  <2> QED BY <2>1, CopiesCounted, FS_EmptySet
<1>4. CopiesBounded
  BY <1>1, <1>3 DEF CopiesBounded
<1> QED BY <1>2, <1>4 DEF QueueInv

\* Queue: jobs come out in the order the server took them, each at most once
\* for every push of it, and one whose push returned without an error reply is
\* among them, whichever connections break and however often callers retry.
THEOREM JobsInOrder == Spec => []InOrderNoExtraCopies
<1>1. Init => QueueInv
  BY InitParts, QueueStarts
<1>2. QueueInv /\ [Next]_vars => QueueInv'
  BY NextParts, QueueStep
<1>3. QueueInv => InOrderNoExtraCopies
  <2> SUFFICES ASSUME QueueInv
               PROVE  [i \in 1..Len(popped) |-> popped[i].job] \o list = entered
    BY DEF InOrderNoExtraCopies, Clients!InOrderNoExtraCopies, QueueInv, CopiesBounded
  <2> DEFINE f == [i \in 1..Len(popped) |-> popped[i].job]
             m == Len(popped)
  <2>1. /\ m \in Nat /\ Len(list) \in Nat /\ list \in Seq(Jobs) /\ entered \in Seq(Jobs)
        /\ \A i \in 1..m : popped[i].job \in Jobs
    <3> DEFINE E == [job : Jobs, returned : {TRUE, FALSE}]
    <3>1. popped \in Seq(E) /\ list \in Seq(Jobs) /\ entered \in Seq(Jobs)
      BY DEF QueueInv, QueueTypes
    <3>2. \A e \in E : e.job \in Jobs
      OBVIOUS
    <3> HIDE DEF E
    <3>3. \A i \in 1..m : popped[i] \in E
      BY <3>1, ElementOfSeq
    <3>4. m \in Nat /\ Len(list) \in Nat
      BY <3>1, LenProperties
    <3> QED BY <3>1, <3>2, <3>3, <3>4
  <2>2. f \in Seq(Jobs) /\ Len(f) = m /\ \A i \in 1..m : f[i] = popped[i].job
    BY <2>1
  <2> HIDE DEF f
  <2>3. /\ f \o list \in Seq(Jobs) /\ Len(f \o list) = m + Len(list)
        /\ \A i \in 1..(m + Len(list)) : (f \o list)[i] = IF i <= m THEN f[i] ELSE list[i - m]
    <3>1. f \in Seq(Jobs) /\ list \in Seq(Jobs) /\ Len(f) = m
      BY <2>1, <2>2
    <3> HIDE DEF m
    <3>2. /\ f \o list \in Seq(Jobs) /\ Len(f \o list) = Len(f) + Len(list)
          /\ \A i \in 1..(Len(f) + Len(list)) :
                (f \o list)[i] = IF i <= Len(f) THEN f[i] ELSE list[i - Len(f)]
      BY <3>1, ConcatProperties
    <3> QED BY <3>1, <3>2
  <2>4. Len(entered) = m + Len(list)
    BY DEF QueueInv, SplitInOrder
  <2>5. ASSUME NEW i \in 1..(m + Len(list))
        PROVE  (f \o list)[i] = entered[i]
    <3>1. CASE i <= m
      <4>1. i \in 1..m
        BY <2>1, <3>1
      <4> QED BY <2>2, <2>3, <3>1, <4>1 DEF QueueInv, SplitInOrder
    <3>2. CASE ~(i <= m)
      <4>1. i - m \in 1..Len(list) /\ m + (i - m) = i
        BY <2>1, <3>2
      <4>2. entered[m + (i - m)] = list[i - m]
        BY <4>1 DEF QueueInv, SplitInOrder
      <4> QED BY <2>3, <3>2, <4>1, <4>2
    <3> QED BY <3>1, <3>2
  <2>6. f \o list = entered
    BY <2>1, <2>3, <2>4, <2>5, SeqEqual
  <2> QED BY <2>6 DEF f
<1> QED BY <1>1, <1>2, <1>3, PTL DEF Spec

-----------------------------------------------------------------------------
(* The log.                                                                *)

LogSteps == {"idle", "print", "close", "remove", "rename", "open", "unlock", "undefined"}

\* The shape of the logger's state.
LogTypes ==
    /\ cur \in Seq(Int) /\ old \in Seq(Int) /\ written \in Nat /\ count \in Nat
    /\ logFile \in {"null", "open", "closed"} /\ pc \in [Threads -> LogSteps]
    /\ exiting \in Threads \cup {"none"}

\* Only the thread that holds logMutex is inside log().
OneInside == \A t \in Threads : pc[t] # "idle" => holder = t

\* Before a signal only a rotation closes the file, and it clears the pointer
\* before another thread can test it.
OpenUntilExit ==
    exiting = "none" =>
        /\ ~misused /\ shut = "no" /\ logFile # "closed"
        /\ \A t \in Threads : pc[t] = "print" => logFile = "open"

\* A rotation begins with a full log, and the counter is the number of lines
\* but while the new log is not opened yet.
FullInRotation ==
    /\ \A t \in Threads :
          /\ pc[t] \in {"close", "remove", "rename"} => Len(cur) >= MaxLines
          /\ pc[t] = "open" => cur = <<>>
    /\ (\A t \in Threads : pc[t] # "open") => count = Len(cur)

\* Both files end where they should, and together they are long enough.
LinesInv ==
    /\ \A i \in 1..Len(cur) : cur[i] = written - Len(cur) + i
    /\ \A i \in 1..Len(old) : old[i] = written - Len(cur) - Len(old) + i
    /\ Len(old) + Len(cur) >= written \/ Len(old) + Len(cur) >= MaxLines

LogInv == LogTypes /\ OneInside /\ OpenUntilExit /\ FullInRotation /\ LinesInv

LEMMA StartInv ==
    ASSUME LogInv, Log!Start
    PROVE  LogInv'
<1> USE DEF LogInv, Log!Start, Log!CountOf
<1>1. LogTypes'
  BY DEF LogTypes, LogSteps
<1>2. OneInside' /\ OpenUntilExit'
  BY DEF OneInside, OpenUntilExit
<1>3. FullInRotation'
  BY DEF FullInRotation
<1>4. LinesInv'
  BY DEF LinesInv
<1> QED BY <1>1, <1>2, <1>3, <1>4

LEMMA ShutdownInv ==
    ASSUME LogInv, Log!ShutdownTest \/ Log!ShutdownClose \/ Log!ShutdownNull
    PROVE  LogInv'
<1> USE DEF LogInv, Log!ShutdownTest, Log!ShutdownClose, Log!ShutdownNull, Log!files
<1>1. LogTypes'
  BY DEF LogTypes
<1>2. OneInside' /\ OpenUntilExit'
  BY DEF OneInside, OpenUntilExit
<1>3. FullInRotation' /\ LinesInv'
  BY DEF FullInRotation, LinesInv
<1> QED BY <1>1, <1>2, <1>3

\* A thread that leaves the files and the counter alone.
LEMMA InsideLog ==
    ASSUME LogInv, NEW t \in Threads,
           UNCHANGED <<cur, old, written, count>>,
           NEW s \in LogSteps, pc' = [pc EXCEPT ![t] = s],
           s \in {"close", "remove", "rename"} => Len(cur) >= MaxLines,
           s = "open" => pc[t] = "open", pc[t] = "open" => s = "open" \/ count = 0
    PROVE  FullInRotation' /\ LinesInv'
<1> USE DEF LogInv
<1>1. LinesInv'
  BY DEF LinesInv
<1>2. \A u \in Threads : pc'[u] = IF u = t THEN s ELSE pc[u]
  BY DEF LogTypes
<1>3. \A u \in Threads : /\ pc'[u] \in {"close", "remove", "rename"} => Len(cur) >= MaxLines
                         /\ pc'[u] = "open" => cur = <<>>
  BY <1>2 DEF FullInRotation
<1>4. (\A u \in Threads : pc'[u] # "open") => count = Len(cur)
  <2>1. CASE pc[t] = "open"
    BY <2>1, <1>2 DEF FullInRotation
  <2>2. CASE pc[t] # "open"
    BY <2>2, <1>2 DEF FullInRotation
  <2> QED BY <2>1, <2>2
<1> QED BY <1>1, <1>3, <1>4 DEF FullInRotation

\* The signal handler, and the use of a FILE that was closed.
LEMMA SignalInv ==
    ASSUME LogInv, NEW t \in Threads,
           Log!SignalHandler(t) \/ Log!PrintClosed(t) \/ Log!RotateClosed(t)
    PROVE  LogInv'
<1> USE DEF LogInv
<1>1. CASE Log!SignalHandler(t)
  <2> USE <1>1 DEF Log!SignalHandler, Log!files
  <2>1. LogTypes' /\ OneInside'
    BY DEF LogTypes, OneInside
  <2>2. OpenUntilExit'
    BY LogAssumption DEF OpenUntilExit
  <2>3. FullInRotation' /\ LinesInv'
    BY DEF FullInRotation, LinesInv
  <2> QED BY <2>1, <2>2, <2>3
<1>2. CASE Log!PrintClosed(t) \/ Log!RotateClosed(t)
  <2>1. /\ \/ pc[t] = "print" /\ logFile # "open"
           \/ pc[t] = "close" /\ logFile = "closed"
        /\ pc' = [pc EXCEPT ![t] = "undefined"] /\ misused' = TRUE
        /\ UNCHANGED <<cur, old, written, exiting, shut, logFile, count, holder>>
    BY <1>2 DEF Log!PrintClosed, Log!RotateClosed, Log!UseAfterClose, Log!files, Log!process
  <2>2. exiting # "none"
    BY <2>1 DEF OpenUntilExit
  <2>3. LogTypes' /\ OneInside' /\ OpenUntilExit'
    BY <2>1, <2>2 DEF LogTypes, LogSteps, OneInside, OpenUntilExit
  <2>4. FullInRotation' /\ LinesInv'
    BY <2>1, InsideLog DEF LogSteps
  <2> QED BY <2>3, <2>4
<1> QED BY <1>1, <1>2

\* The mutex is taken and given back.
LEMMA MutexInv ==
    ASSUME LogInv, NEW t \in Threads, Log!Lock(t) \/ Log!Unlock(t)
    PROVE  LogInv'
<1> USE DEF LogInv
<1>1. CASE Log!Lock(t)
  <2>1. PICK s \in {"unlock", "print"} :
           /\ s = IF logFile = "null" THEN "unlock" ELSE "print"
           /\ pc' = [pc EXCEPT ![t] = s]
    BY <1>1 DEF Log!Lock
  <2>2. /\ pc[t] = "idle" /\ holder = "none" /\ holder' = t
        /\ UNCHANGED <<cur, old, written, exiting, shut, logFile, count, misused>>
    BY <1>1 DEF Log!Lock, Log!files, Log!process
  <2>3. \A u \in Threads : pc[u] = "idle"
    BY <2>2, LogAssumption DEF OneInside
  <2>4. LogTypes' /\ OneInside'
    BY <2>1, <2>2, <2>3 DEF LogTypes, LogSteps, OneInside
  <2>5. OpenUntilExit'
    BY <2>1, <2>2, <2>3 DEF OpenUntilExit, LogTypes
  <2>6. FullInRotation' /\ LinesInv'
    BY <2>1, <2>2, InsideLog DEF LogSteps
  <2> QED BY <2>4, <2>5, <2>6
<1>2. CASE Log!Unlock(t)
  <2>1. /\ pc[t] = "unlock" /\ holder' = "none" /\ pc' = [pc EXCEPT ![t] = "idle"]
        /\ UNCHANGED <<cur, old, written, exiting, shut, logFile, count, misused>>
    BY <1>2 DEF Log!Unlock, Log!files, Log!process
  <2>2. LogTypes' /\ OneInside'
    BY <2>1 DEF LogTypes, LogSteps, OneInside
  <2>3. OpenUntilExit'
    BY <2>1 DEF OpenUntilExit, LogTypes
  <2>4. FullInRotation' /\ LinesInv'
    BY <2>1, InsideLog DEF LogSteps
  <2> QED BY <2>2, <2>3, <2>4
<1> QED BY <1>1, <1>2

\* A line goes to the end of the log, and fills it or not.
LEMMA PrintInv ==
    ASSUME LogInv, NEW t \in Threads, Log!PrintLine(t)
    PROVE  LogInv'
<1> USE DEF LogInv
<1>1. /\ pc[t] = "print" /\ cur' = Append(cur, written + 1) /\ written' = written + 1
      /\ count' = count + 1
      /\ UNCHANGED <<old, logFile, holder, exiting, shut, misused>>
  BY DEF Log!PrintLine, Log!process
<1>2. PICK s \in {"close", "unlock"} :
         /\ s = IF count + 1 >= MaxLines THEN "close" ELSE "unlock"
         /\ pc' = [pc EXCEPT ![t] = s]
  BY DEF Log!PrintLine, Log!Full
<1>3. \A u \in Threads : u # t => pc[u] = "idle"
  BY <1>1 DEF OneInside
<1>4. count = Len(cur)
  BY <1>1, <1>3 DEF FullInRotation
<1>5. /\ Len(cur) \in Nat /\ Len(old) \in Nat /\ written \in Nat /\ MaxLines \in Nat
      /\ Len(cur') = Len(cur) + 1 /\ cur' \in Seq(Int)
      /\ \A i \in 1..Len(cur) : cur'[i] = cur[i]
      /\ cur'[Len(cur) + 1] = written + 1
  BY <1>1, LogAssumption DEF LogTypes
<1>6. \A u \in Threads : pc'[u] = IF u = t THEN s ELSE "idle"
  BY <1>2, <1>3 DEF LogTypes
<1>7. LogTypes'
  BY <1>1, <1>2, <1>5 DEF LogTypes, LogSteps
<1>8. OneInside'
  BY <1>1, <1>6 DEF OneInside
<1>9. OpenUntilExit'
  BY <1>1, <1>2, <1>6 DEF OpenUntilExit
<1>10. FullInRotation'
  BY <1>1, <1>2, <1>4, <1>5, <1>6 DEF FullInRotation
<1>11. LinesInv'
  <2>1. \A i \in 1..Len(cur') : i \in 1..Len(cur) \/ i = Len(cur) + 1
    BY <1>5
  <2>2. \A i \in 1..Len(cur') : cur'[i] = written' - Len(cur') + i
    BY <1>1, <1>5, <2>1 DEF LinesInv
  <2>3. \A i \in 1..Len(old') : old'[i] = written' - Len(cur') - Len(old') + i
    BY <1>1, <1>5 DEF LinesInv
  <2>4. Len(old') + Len(cur') >= written' \/ Len(old') + Len(cur') >= MaxLines
    BY <1>1, <1>5 DEF LinesInv
  <2> QED BY <2>2, <2>3, <2>4 DEF LinesInv
<1> QED BY <1>7, <1>8, <1>9, <1>10, <1>11

\* The steps of a rotation: at every point the lines that matter are in one of
\* the files.
LEMMA RotateInv ==
    ASSUME LogInv, NEW t \in Threads,
           \/ Log!RotateClose(t) \/ Log!RotateRemove(t) \/ Log!RotateRename(t)
           \/ Log!RotateThrows(t) \/ Log!RotateOpen(t)
    PROVE  LogInv'
<1> USE DEF LogInv
<1>0. /\ Len(cur) \in Nat /\ Len(old) \in Nat /\ written \in Nat /\ MaxLines \in Nat
      /\ Len(<<>>) = 0 /\ <<>> \in Seq(Int)
  BY LogAssumption DEF LogTypes
<1>1. CASE Log!RotateClose(t)
  <2>1. /\ pc[t] = "close" /\ logFile' = "null" /\ pc' = [pc EXCEPT ![t] = "remove"]
        /\ UNCHANGED <<cur, old, written, exiting, shut, count, holder, misused>>
    BY <1>1 DEF Log!RotateClose, Log!Cleared, Log!files, Log!process
  <2>2. \A u \in Threads : u # t => pc[u] = "idle"
    BY <2>1 DEF OneInside
  <2>3. LogTypes' /\ OneInside' /\ OpenUntilExit'
    BY <2>1, <2>2 DEF LogTypes, LogSteps, OneInside, OpenUntilExit
  <2>4. Len(cur) >= MaxLines
    BY <2>1 DEF FullInRotation
  <2>5. FullInRotation' /\ LinesInv'
    BY <2>1, <2>4, InsideLog DEF LogSteps
  <2> QED BY <2>3, <2>5
<1>2. CASE Log!RotateRemove(t)
  <2>1. /\ pc[t] = "remove" /\ old' = <<>> /\ pc' = [pc EXCEPT ![t] = "rename"]
        /\ UNCHANGED <<cur, written, exiting, shut, logFile, count, holder, misused>>
    BY <1>2 DEF Log!RotateRemove, Log!process
  <2>2. LogTypes' /\ OneInside' /\ OpenUntilExit'
    BY <1>0, <2>1 DEF LogTypes, LogSteps, OneInside, OpenUntilExit
  <2>3. \A u \in Threads : pc'[u] = IF u = t THEN "rename" ELSE pc[u]
    BY <2>1 DEF LogTypes
  <2>4. FullInRotation'
    BY <2>1, <2>3 DEF FullInRotation
  <2>5. LinesInv'
    BY <1>0, <2>1 DEF LinesInv, FullInRotation
  <2> QED BY <2>2, <2>4, <2>5
<1>3. CASE Log!RotateRename(t)
  <2>1. /\ pc[t] = "rename" /\ old' = cur /\ cur' = <<>> /\ pc' = [pc EXCEPT ![t] = "open"]
        /\ UNCHANGED <<written, exiting, shut, logFile, count, holder, misused>>
    BY <1>3 DEF Log!RotateRename, Log!Renamed, Log!process
  <2>2. LogTypes' /\ OneInside' /\ OpenUntilExit'
    BY <1>0, <2>1 DEF LogTypes, LogSteps, OneInside, OpenUntilExit
  <2>3. \A u \in Threads : pc'[u] = IF u = t THEN "open" ELSE "idle"
    BY <2>1 DEF LogTypes, OneInside
  <2>4. FullInRotation'
    BY <2>1, <2>3 DEF FullInRotation
  <2>5. LinesInv'
    BY <1>0, <2>1 DEF LinesInv, FullInRotation
  <2> QED BY <2>2, <2>4, <2>5
<1>4. CASE Log!RotateThrows(t)
  <2>1. /\ pc[t] \in {"remove", "rename"} /\ pc' = [pc EXCEPT ![t] = "unlock"]
        /\ UNCHANGED <<cur, old, written, exiting, shut, logFile, count, holder, misused>>
    BY <1>4 DEF Log!RotateThrows, Log!files, Log!process
  <2>2. LogTypes' /\ OneInside' /\ OpenUntilExit'
    BY <2>1 DEF LogTypes, LogSteps, OneInside, OpenUntilExit
  <2>3. FullInRotation' /\ LinesInv'
    BY <2>1, InsideLog DEF LogSteps
  <2> QED BY <2>2, <2>3
<1>5. CASE Log!RotateOpen(t)
  <2>1. /\ pc[t] = "open" /\ logFile' \in {"open", "null"} /\ count' = 0
        /\ pc' = [pc EXCEPT ![t] = "unlock"]
        /\ UNCHANGED <<cur, old, written, exiting, shut, holder, misused>>
    BY <1>5 DEF Log!RotateOpen, Log!files, Log!process
  <2>2. \A u \in Threads : pc'[u] = IF u = t THEN "unlock" ELSE "idle"
    BY <2>1 DEF LogTypes, OneInside
  <2>3. LogTypes' /\ OneInside' /\ OpenUntilExit'
    BY <2>1, <2>2 DEF LogTypes, LogSteps, OneInside, OpenUntilExit
  <2>4. FullInRotation' /\ LinesInv'
    BY <1>0, <2>1, <2>2 DEF FullInRotation, LinesInv
  <2> QED BY <2>3, <2>4
<1> QED BY <1>1, <1>2, <1>3, <1>4, <1>5

\* Before a signal, and while no rotation failed, no line was dropped, and the
\* file is only closed while a thread is inside rotateLogs.
DropInv ==
    exiting = "none" /\ ~broken =>
        /\ ~dropped
        /\ starts > 0 /\ logFile # "open" =>
              \E u \in Threads : pc[u] \in {"remove", "rename", "open"}

\* A thread inside rotateLogs holds the mutex: a line finds the file open.
LEMMA DropLock ==
    ASSUME LogInv, DropInv, NEW t \in Threads, Log!Lock(t) \/ Log!Unlock(t)
    PROVE  DropInv'
<1>1. /\ UNCHANGED <<exiting, starts, broken, logFile>> /\ pc[t] \in {"idle", "unlock"}
      /\ \A u \in Threads : u # t => pc'[u] = pc[u]
  BY DEF Log!Lock, Log!Unlock, Log!files, Log!process, Log!fate, LogInv, LogTypes
<1>2. SUFFICES ASSUME exiting = "none", ~broken
               PROVE  DropInv'
  BY <1>1 DEF DropInv
<1>3. starts > 0 /\ logFile # "open" =>
         \E u \in Threads : pc[u] \in {"remove", "rename", "open"}
  BY <1>2 DEF DropInv
<1>4. starts > 0 /\ logFile # "open" =>
         \E u \in Threads : pc'[u] \in {"remove", "rename", "open"}
  BY <1>1, <1>3
<1>5. ~dropped'
  <2>1. CASE Log!Unlock(t)
    BY <1>2, <2>1 DEF Log!Unlock, Log!fate, DropInv
  <2>2. CASE Log!Lock(t)
    <3>1. holder = "none" /\ starts > 0 /\ dropped' = (dropped \/ logFile = "null")
      BY <2>2 DEF Log!Lock, Log!Runs, Log!Running
    <3>2. \A u \in Threads : pc[u] = "idle"
      BY <3>1, LogAssumption DEF LogInv, OneInside
    <3> QED BY <1>2, <1>3, <3>1, <3>2 DEF DropInv
  <2> QED BY <2>1, <2>2
<1> QED BY <1>1, <1>4, <1>5 DEF DropInv

LEMMA DropRotate ==
    ASSUME LogInv, DropInv, NEW t \in Threads,
           \/ Log!RotateClose(t) \/ Log!RotateRemove(t) \/ Log!RotateRename(t)
           \/ Log!RotateThrows(t) \/ Log!RotateOpen(t)
    PROVE  DropInv'
<1>1. UNCHANGED <<exiting, starts, dropped>>
  BY DEF Log!RotateClose, Log!RotateRemove, Log!RotateRename, Log!RotateThrows, Log!RotateOpen,
         Log!process, Log!fate
<1>2. \/ UNCHANGED broken /\ pc'[t] \in {"remove", "rename", "open"}
      \/ UNCHANGED broken /\ logFile' = "open"
      \/ broken'
  BY DEF Log!RotateClose, Log!RotateRemove, Log!RotateRename, Log!RotateThrows, Log!RotateOpen,
         Log!fate, LogInv, LogTypes
<1> QED BY <1>1, <1>2 DEF DropInv

LEMMA DropStep ==
    ASSUME LogInv, DropInv, Log!Next \/ UNCHANGED logVars
    PROVE  DropInv'
<1>1. CASE Log!Start
  BY <1>1 DEF Log!Start, DropInv
<1>2. CASE Log!ShutdownTest \/ Log!ShutdownClose \/ Log!ShutdownNull
  <2>1. exiting # "none" /\ UNCHANGED exiting
    BY <1>2 DEF Log!ShutdownTest, Log!ShutdownClose, Log!ShutdownNull, LogInv, OpenUntilExit
  <2> QED BY <2>1 DEF DropInv
<1>3. ASSUME NEW t \in Threads, Log!PrintLine(t)
      PROVE  DropInv'
  BY <1>3 DEF Log!PrintLine, Log!fate, Log!process, DropInv
<1>4. ASSUME NEW t \in Threads, Log!PrintClosed(t) \/ Log!RotateClosed(t)
      PROVE  DropInv'
  <2>1. exiting # "none" /\ UNCHANGED exiting
    BY <1>4 DEF Log!PrintClosed, Log!RotateClosed, Log!UseAfterClose, Log!process, LogInv,
                OpenUntilExit
  <2> QED BY <2>1 DEF DropInv
<1>5. ASSUME NEW t \in Threads, Log!SignalHandler(t)
      PROVE  DropInv'
  BY <1>5, LogAssumption DEF Log!SignalHandler, DropInv
<1>6. CASE UNCHANGED logVars
  BY <1>6 DEF logVars, DropInv
<1> QED BY <1>1, <1>2, <1>3, <1>4, <1>5, <1>6, DropLock, DropRotate DEF Log!Next

LEMMA LogStep ==
    ASSUME LogInv, Log!Next \/ UNCHANGED logVars
    PROVE  LogInv'
<1>1. CASE Log!Next
  BY <1>1, StartInv, ShutdownInv, SignalInv, MutexInv, PrintInv, RotateInv DEF Log!Next
<1>2. CASE UNCHANGED logVars
  BY <1>2 DEF logVars, LogInv, LogTypes, OneInside, OpenUntilExit, FullInRotation, LinesInv
<1> QED BY <1>1, <1>2

LEMMA LogStarts ==
    ASSUME Log!Init
    PROVE  LogInv
<1> USE DEF Log!Init
<1>1. LogTypes
  BY DEF LogTypes, LogSteps
<1>2. OneInside /\ OpenUntilExit
  BY DEF OneInside, OpenUntilExit
<1>3. FullInRotation /\ LinesInv
  BY LogAssumption DEF FullInRotation, LinesInv
<1> QED BY <1>1, <1>2, <1>3 DEF LogInv

LEMMA LogInduction == Spec => []LogInv
<1>1. Init => LogInv
  BY InitParts, LogStarts
<1>2. LogInv /\ [Next]_vars => LogInv'
  BY NextParts, LogStep
<1> QED BY <1>1, <1>2, PTL DEF Spec

LEMMA DropInduction == Spec => []DropInv
<1>1. Init => DropInv
  BY InitParts DEF Log!Init, DropInv
<1>2. LogInv /\ DropInv /\ [Next]_vars => DropInv'
  BY NextParts, DropStep
<1> QED BY <1>1, <1>2, LogInduction, PTL DEF Spec

\* Logger: before a signal handler has called exit no thread uses a FILE that
\* was closed, however many threads log and whatever fails in a rotation.
THEOREM NoUseAfterClose == Spec => []ClosedOnlyByExit
<1>1. LogInv => ClosedOnlyByExit
  BY DEF LogInv, OpenUntilExit, ClosedOnlyByExit, Log!ClosedOnlyByExit
<1> QED BY <1>1, LogInduction, PTL

\* Logger: the two files together hold the last of the lines that reached them,
\* without a gap and at least maxLines of them, at every point of a rotation
\* and after any crash; and no line is dropped before a rotation of the process
\* failed or a signal came.
THEOREM LinesKept == Spec => []RecentLinesKept
<1>1. LogInv /\ DropInv => RecentLinesKept
  <2> SUFFICES ASSUME LogInv, DropInv
               PROVE  LET kept == old \o cur
                      IN  /\ \A i \in 1..Len(kept) : kept[i] = written - Len(kept) + i
                          /\ Len(kept) >= IF written < MaxLines THEN written ELSE MaxLines
                          /\ dropped => broken \/ exiting # "none"
    BY DEF RecentLinesKept, Log!RecentLinesKept
  <2> DEFINE kept == old \o cur
  <2>1. /\ Len(cur) \in Nat /\ Len(old) \in Nat /\ written \in Nat /\ MaxLines \in Nat
        /\ Len(kept) = Len(old) + Len(cur)
        /\ \A i \in 1..Len(kept) :
              kept[i] = IF i <= Len(old) THEN old[i] ELSE cur[i - Len(old)]
    BY LogAssumption DEF LogInv, LogTypes
  <2> HIDE DEF kept
  <2>2. ASSUME NEW i \in 1..Len(kept)
        PROVE  kept[i] = written - Len(kept) + i
    <3>1. CASE i <= Len(old)
      BY <2>1, <3>1 DEF LogInv, LinesInv
    <3>2. CASE i > Len(old)
      <4>1. i - Len(old) \in 1..Len(cur) /\ kept[i] = cur[i - Len(old)]
        BY <2>1, <3>2
      <4>2. cur[i - Len(old)] = written - Len(cur) + (i - Len(old))
        BY <4>1 DEF LogInv, LinesInv
      <4> QED BY <2>1, <4>1, <4>2
    <3> QED BY <2>1, <3>1, <3>2
  <2>3. Len(kept) >= IF written < MaxLines THEN written ELSE MaxLines
    BY <2>1 DEF LogInv, LinesInv
  <2>4. dropped => broken \/ exiting # "none"
    BY DEF DropInv
  <2> QED BY <2>2, <2>3, <2>4 DEF kept
<1> QED BY <1>1, LogInduction, DropInduction, PTL

-----------------------------------------------------------------------------
(* The files.                                                              *)

\* Where a task has a file open for writing.
Writing == {"write", "head", "tail"}

\* A task's own part of the shape: what it has open or copies exists.
TaskShape(r, n) ==
    /\ DOMAIN r = {"op", "at", "src", "dst", "content", "file", "from"}
    /\ r.at \in {"start", "go"} => r.src \in FilePaths /\ r.dst \in FilePaths
    /\ r.op = "put" => r.content \in {"short", "long"}
    /\ r.at = "write" => r.op = "put" /\ r.file \in 1..n
    /\ r.at \in {"head", "tail"} => r.op = "copy" /\ r.file \in 1..n /\ r.from \in 1..n

\* The shape of the driver's state.
DiskTypes ==
    /\ created \in Nat /\ created <= FileBound
    /\ dir \in [FilePaths -> 0..created] /\ DOMAIN data = 1..FileBound
    /\ DOMAIN task = Tasks /\ \A t \in Tasks : TaskShape(task[t], created)

\* t writes to f.
WritesTo(t, f) == task[t].at \in Writing /\ task[t].file = f

Unwritten(f) == \A t \in Tasks : ~WritesTo(t, f)
SoleWriter(t, f) == WritesTo(t, f) /\ \A u \in Tasks : WritesTo(u, f) => u = t

\* A file is whole, or has one writer, and is empty unless that is a copy with
\* a part of it done.
FileOK(f) ==
    \/ data[f] \in {"short", "long"} /\ Unwritten(f)
    \/ \E t \in Tasks : SoleWriter(t, f) /\ (task[t].at # "tail" => data[f] = "")

\* So is every file that is not spoilt.
FilesInv == \A f \in 1..created : f \notin raced => FileOK(f)

\* Unless its file counts as spoilt, a copy that has taken the first part of
\* its source has that as it was then, with nobody writing to it.
Undisturbed(t) ==
    task[t].file \notin raced =>
        /\ task[t].from \notin raced /\ data[task[t].from] = task[t].content
        /\ Unwritten(task[t].from)

CopiesInv == \A t \in Tasks : task[t].at = "tail" => Undisturbed(t)

DiskInv == DiskTypes /\ FilesInv /\ CopiesInv

\* One task goes on to r, the others stay as they are.
TaskStep(t, r) == task' = [task EXCEPT ![t] = r]

LEMMA TaskStepFacts ==
    ASSUME DiskTypes, NEW t \in Tasks, NEW r, TaskStep(t, r)
    PROVE  /\ DOMAIN task' = Tasks /\ task'[t] = r
           /\ \A u \in Tasks \ {t} : task'[u] = task[u]
BY DEF DiskTypes, TaskStep

\* More files do not change the shape of a task.
LEMMA TasksKeep ==
    ASSUME DiskTypes, NEW t \in Tasks, NEW r, TaskStep(t, r), created' \in Nat,
           created' >= created, TaskShape(r, created')
    PROVE  DOMAIN task' = Tasks /\ \A u \in Tasks : TaskShape(task'[u], created')
<1>1. /\ DOMAIN task' = Tasks /\ task'[t] = r
      /\ \A u \in Tasks \ {t} : task'[u] = task[u]
  BY TaskStepFacts
<1>2. \A i \in 1..created : i \in 1..created'
  BY DEF DiskTypes
<1>3. \A u \in Tasks \ {t} : TaskShape(task[u], created')
  BY <1>2 DEF DiskTypes, TaskShape
<1> QED BY <1>1, <1>3

\* Idle is no writer.
LEMMA IdleFacts ==
    /\ \A n : TaskShape(Disk!Idle, n)
    /\ Disk!Idle.at \notin Writing
BY DEF TaskShape, Disk!Idle, Writing

\* A task that goes on without a file being opened, written or closed.
LEMMA QuietTask ==
    ASSUME DiskInv, NEW t \in Tasks, NEW r, TaskStep(t, r), TaskShape(r, created),
           task[t].at \notin Writing, r.at \notin Writing,
           UNCHANGED <<data, created, raced>>, dir' \in [FilePaths -> 0..created]
    PROVE  DiskInv'
<1>1. /\ DOMAIN task' = Tasks /\ task'[t] = r
      /\ \A u \in Tasks \ {t} : task'[u] = task[u]
  BY TaskStepFacts DEF DiskInv
<1>2. \A u \in Tasks : TaskShape(task'[u], created')
  <2>1. created' \in Nat /\ created' >= created /\ TaskShape(r, created')
    BY DEF DiskInv, DiskTypes
  <2> QED BY <2>1, TasksKeep DEF DiskInv
<1>3. DiskTypes'
  BY <1>1, <1>2 DEF DiskInv, DiskTypes
<1>4. \A u \in Tasks : \A f : WritesTo(u, f)' <=> WritesTo(u, f)
  BY <1>1 DEF WritesTo
<1>5. FilesInv'
  <2> SUFFICES ASSUME NEW x \in 1..created, x \notin raced
               PROVE  FileOK(x)'
    BY DEF FilesInv
  <2>1. \A v \in Tasks : WritesTo(v, x) => task'[v] = task[v]
    BY <1>1 DEF WritesTo
  <2>2. FileOK(x)
    BY DEF DiskInv, FilesInv
  <2> QED BY <1>4, <2>1, <2>2 DEF FileOK, SoleWriter, Unwritten
<1>6. CopiesInv'
  <2>1. \A u \in Tasks : task'[u].at = "tail" => task'[u] = task[u]
    BY <1>1 DEF Writing
  <2> QED BY <1>4, <2>1 DEF DiskInv, CopiesInv, Undisturbed, Unwritten
<1> QED BY <1>3, <1>5, <1>6 DEF DiskInv

\* The end of a task that did not write.
LEMMA QuietEnd ==
    ASSUME DiskInv, NEW t \in Tasks, Disk!Ends(t), task[t].at \notin Writing,
           UNCHANGED <<data, created, raced>>, dir' \in [FilePaths -> 0..created]
    PROVE  DiskInv'
<1>1. TaskStep(t, Disk!Idle)
  BY DEF Disk!Ends, TaskStep
<1> QED BY <1>1, IdleFacts, QuietTask

LEMMA BeginInv ==
    ASSUME DiskInv, NEW t \in Tasks, Disk!Begin(t)
    PROVE  DiskInv'
<1>1. PICK op \in {"put", "delete", "copy", "move"}, p \in FilePaths, q \in FilePaths,
           c \in {"short", "long"} : TaskStep(t, Disk!Called(op, p, q, c))
  BY DEF Disk!Begin, Disk!Contents, TaskStep
<1>2. /\ task[t].at \notin Writing /\ UNCHANGED <<data, created, raced>>
      /\ dir' \in [FilePaths -> 0..created]
  BY IdleFacts DEF Disk!Begin, DiskInv, DiskTypes
<1>3. TaskShape(Disk!Called(op, p, q, c), created) /\ Disk!Called(op, p, q, c).at \notin Writing
  BY DEF TaskShape, Disk!Called, Writing
<1> QED BY <1>1, <1>2, <1>3, QuietTask

LEMMA LookInv ==
    ASSUME DiskInv, NEW t \in Tasks, Disk!Look(t)
    PROVE  DiskInv'
<1>1. /\ task[t].at = "start" /\ UNCHANGED <<data, created, raced>> /\ task[t].op # "put"
      /\ dir' \in [FilePaths -> 0..created] /\ TaskShape(task[t], created)
  BY DEF Disk!Look, DiskInv, DiskTypes
<1>a. task[t].at \notin Writing
  BY <1>1 DEF Writing
<1>2. CASE Disk!Ends(t)
  BY <1>1, <1>a, <1>2, QuietEnd
<1>3. CASE task' = [task EXCEPT ![t].at = "go"]
  <2> DEFINE r == [task[t] EXCEPT !.at = "go"]
  <2>1. TaskStep(t, r)
    BY <1>3 DEF TaskStep
  <2>2. TaskShape(r, created) /\ r.at \notin Writing
    BY <1>1 DEF TaskShape, Writing
  <2> HIDE DEF r
  <2> QED BY <1>1, <1>a, <2>1, <2>2, QuietTask
<1> QED BY <1>2, <1>3 DEF Disk!Look

\* The calls that only change names, or nothing.
LEMMA NamesInv ==
    ASSUME DiskInv, NEW t \in Tasks,
           \/ Disk!OpenFails(t) \/ Disk!DeleteRemove(t) \/ Disk!MoveRename(t)
           \/ Disk!CopyThrows(t)
    PROVE  DiskInv'
<1>1. /\ task[t].at \in {"start", "go"} /\ UNCHANGED <<data, created, raced>> /\ Disk!Ends(t)
      /\ dir \in [FilePaths -> 0..created] /\ created \in Nat
      /\ task[t].src \in FilePaths /\ task[t].dst \in FilePaths
  BY DEF Disk!OpenFails, Disk!DeleteRemove, Disk!MoveRename, Disk!CopyThrows,
         DiskInv, DiskTypes, TaskShape
<1>2. dir' \in [FilePaths -> 0..created]
  BY <1>1 DEF Disk!OpenFails, Disk!DeleteRemove, Disk!MoveRename, Disk!CopyThrows, Disk!Renamed
<1>3. task[t].at \notin Writing
  BY <1>1 DEF Writing
<1> QED BY <1>1, <1>2, <1>3, QuietEnd

\* A name is given to a file, of which there may be more now.
LEMMA NameGiven ==
    ASSUME NEW n \in Nat, NEW m \in Nat, n <= m, NEW d \in [FilePaths -> 0..n],
           NEW p \in FilePaths, NEW f \in 0..m
    PROVE  [d EXCEPT ![p] = f] \in [FilePaths -> 0..m]
<1>1. \A i \in 0..n : i \in 0..m
  OBVIOUS
<1>2. \A x \in FilePaths : d[x] \in 0..m
  BY <1>1
<1> QED BY <1>2

\* Task t opens r.file, and empties or creates it.
Opens(t, r) ==
    /\ TaskStep(t, r) /\ TaskShape(r, created')
    /\ task[t].at \notin Writing /\ r.at \in {"write", "head"}
    /\ data' = [data EXCEPT ![r.file] = ""] /\ dir' \in [FilePaths -> 0..created']

\* A file is opened that has no writers, unless it counts as spoilt from now,
\* as do copies that have read a part of it.
LEMMA OpenKeeps ==
    ASSUME DiskInv, NEW t \in Tasks, NEW r, Opens(t, r),
           created' \in {created, created + 1}, created' <= FileBound,
           r.file \in 1..created', r.file = created + 1 \/ created' = created,
           raced \ {r.file} \subseteq raced',
           r.file \notin raced' => \A u \in Tasks : ~WritesTo(u, r.file),
           \A u \in Tasks : task[u].at = "tail" /\ task[u].from = r.file => task[u].file \in raced',
           \A x \in raced' : x \in raced \/ x = r.file \/ \E u \in Tasks : WritesTo(u, x)
    PROVE  DiskInv'
<1> DEFINE f == r.file
<1>0. created \in Nat /\ FileBound \in Nat /\ created' \in Nat /\ created' >= created
  <2>1. created \in Nat
    BY DEF DiskInv, DiskTypes
  <2> QED BY <2>1, DiskAssumption
<1>1. /\ DOMAIN task' = Tasks /\ task'[t] = r
      /\ \A u \in Tasks \ {t} : task'[u] = task[u]
  BY TaskStepFacts DEF DiskInv, Opens
<1>2. \A u \in Tasks : TaskShape(task'[u], created')
  BY <1>0, TasksKeep DEF DiskInv, Opens
<1>3. DOMAIN data' = 1..FileBound
  BY DEF DiskInv, DiskTypes, Opens
<1>4. DiskTypes'
  BY <1>0, <1>1, <1>2, <1>3 DEF DiskTypes, Opens
<1>5. \A u \in Tasks : \A x : WritesTo(u, x)' <=> IF u = t THEN x = f ELSE WritesTo(u, x)
  <2>1. r.at \in Writing /\ \A x : ~WritesTo(t, x)
    BY DEF WritesTo, Opens, Writing
  <2> QED BY <1>1, <2>1 DEF WritesTo
<1>6. FilesInv'
  <2> SUFFICES ASSUME NEW x \in 1..created', x \notin raced'
               PROVE  FileOK(x)'
    BY DEF FilesInv
  <2>1. CASE x = f
    <3>1. x \in 1..FileBound
      BY <1>0, <2>1
    <3>2. data'[x] = ""
      BY <2>1, <3>1 DEF DiskInv, DiskTypes, Opens
    <3>3. WritesTo(t, x)' /\ \A u \in Tasks : WritesTo(u, x)' => u = t
      BY <1>5, <2>1
    <3> QED BY <3>2, <3>3 DEF FileOK, SoleWriter
  <2>2. CASE x # f
    <3>1. x \in 1..created /\ x \notin raced /\ x \in 1..FileBound
      BY <1>0, <2>2
    <3>2. data'[x] = data[x]
      BY <2>2, <3>1 DEF DiskInv, DiskTypes, Opens
    <3>3. \A u \in Tasks : WritesTo(u, x)' <=> WritesTo(u, x)
      <4>1. ~WritesTo(t, x)
        BY DEF WritesTo, Opens
      <4> QED BY <1>5, <2>2, <4>1
    <3>4. \A u \in Tasks : WritesTo(u, x) => task'[u] = task[u]
      <4>1. ~WritesTo(t, x)
        BY DEF WritesTo, Opens
      <4> QED BY <1>1, <4>1
    <3>5. FileOK(x)
      BY <3>1 DEF DiskInv, FilesInv
    <3> QED BY <3>2, <3>3, <3>4, <3>5 DEF FileOK, SoleWriter, Unwritten
  <2> QED BY <2>1, <2>2
<1>7. CopiesInv'
  <2> SUFFICES ASSUME NEW u \in Tasks, task'[u].at = "tail", task'[u].file \notin raced'
               PROVE  /\ task'[u].from \notin raced' /\ data'[task'[u].from] = task'[u].content
                      /\ Unwritten(task[u].from)'
    BY DEF CopiesInv, Undisturbed
  <2>1. task'[u] = task[u] /\ u # t
    <3>1. r.at # "tail"
      BY DEF Opens
    <3> QED BY <1>1, <3>1
  <2>2. WritesTo(u, task[u].file)
    BY <2>1 DEF WritesTo, Writing
  <2>3. PICK g : task[u].from = g
    OBVIOUS
  <2>4. task[u].file \notin raced /\ g # f
    BY <2>1, <2>2, <2>3
  <2>5. g \notin raced /\ data[g] = task[u].content /\ \A v \in Tasks : ~WritesTo(v, g)
    BY <2>1, <2>3, <2>4 DEF DiskInv, CopiesInv, Undisturbed, Unwritten
  <2>6. g \in 1..FileBound
    <3>1. g \in 1..created /\ created \in Nat /\ created <= FileBound
      BY <2>1, <2>3 DEF DiskInv, DiskTypes, TaskShape
    <3> QED BY <1>0, <3>1
  <2>7. data'[g] = data[g]
    BY <2>4, <2>6 DEF DiskInv, DiskTypes, Opens
  <2>8. \A v \in Tasks : ~WritesTo(v, g)'
    BY <1>5, <2>4, <2>5
  <2>9. g \notin raced'
    BY <2>4, <2>5
  <2> QED BY <2>1, <2>3, <2>5, <2>7, <2>8, <2>9 DEF Unwritten
<1> QED BY <1>4, <1>6, <1>7 DEF DiskInv

LEMMA PutOpenInv ==
    ASSUME DiskInv, NEW t \in Tasks, Disk!PutOpen(t)
    PROVE  DiskInv'
<1> DEFINE p == task[t].src
           f == IF dir[p] = 0 THEN created + 1 ELSE dir[p]
           r == [task[t] EXCEPT !.at = "write", !.file = f]
<1>1. /\ task[t].op = "put" /\ task[t].at = "start" /\ f \in 1..FileBound
      /\ dir' = [dir EXCEPT ![p] = f]
      /\ created' = IF dir[p] = 0 THEN created + 1 ELSE created
      /\ data' = [data EXCEPT ![f] = ""]
      /\ raced' = (IF Disk!Writers(f) # {} THEN raced \cup {f} ELSE raced \ {f})
                     \cup {task[u].file : u \in Disk!Readers(f)}
      /\ task' = [task EXCEPT ![t].at = "write", ![t].file = f]
  BY DEF Disk!PutOpen, Disk!Files, Disk!Truncated
<1>2. /\ created \in Nat /\ FileBound \in Nat /\ p \in FilePaths /\ dir[p] \in 0..created
      /\ created <= FileBound /\ TaskShape(task[t], created)
      /\ dir \in [FilePaths -> 0..created] /\ DOMAIN task = Tasks
  BY <1>1, DiskAssumption DEF DiskInv, DiskTypes, TaskShape
<1>a. created' = IF dir[p] = 0 THEN created + 1 ELSE created
  BY <1>1
<1>b. f \in 1..FileBound
  BY <1>1
<1>3. /\ created' \in {created, created + 1} /\ created' <= FileBound
      /\ f \in 1..created' /\ (f = created + 1 \/ created' = created)
  <2>1. created \in Nat /\ FileBound \in Nat /\ dir[p] \in 0..created /\ created <= FileBound
    BY <1>2
  <2> QED BY <1>a, <1>b, <2>1
<1>4. dir' \in [FilePaths -> 0..created']
  <2>1. created \in Nat /\ created' \in Nat /\ created <= created' /\ f \in 0..created'
    <3>1. created \in Nat
      BY <1>2
    <3> QED BY <1>3, <3>1
  <2>2. [dir EXCEPT ![p] = f] \in [FilePaths -> 0..created']
    <3>1. p \in FilePaths /\ dir \in [FilePaths -> 0..created]
      BY <1>2
    <3> HIDE DEF p, f
    <3> QED BY <2>1, <3>1, NameGiven
  <2> QED BY <1>1, <2>2
<1>5. TaskStep(t, r)
  BY <1>1, <1>2 DEF TaskStep
<1>6. r.at = "write" /\ r.file = f /\ TaskShape(r, created')
  BY <1>1, <1>2, <1>3 DEF TaskShape
<1>7. Disk!Writers(f) = {} => \A u \in Tasks : ~WritesTo(u, f)
  BY DEF Disk!Writers, WritesTo, Writing
<1>a1. \A u \in Disk!Readers(f) : u \in Tasks /\ WritesTo(u, task[u].file)
  BY DEF Disk!Readers, WritesTo, Writing
<1>a2. \A u \in Tasks : task[u].at = "tail" /\ task[u].from = f => u \in Disk!Readers(f)
  BY DEF Disk!Readers
<1>c. raced' = (IF Disk!Writers(f) # {} THEN raced \cup {f} ELSE raced \ {f})
                 \cup {task[u].file : u \in Disk!Readers(f)}
  BY <1>1
<1>9. Opens(t, r)
  BY <1>1, <1>4, <1>5, <1>6 DEF Opens, Writing
<1> HIDE DEF f, r
<1>8. raced \ {f} \subseteq raced' /\ (f \notin raced' => \A u \in Tasks : ~WritesTo(u, f))
  BY <1>c, <1>7
<1>d. /\ \A u \in Tasks : task[u].at = "tail" /\ task[u].from = f => task[u].file \in raced'
      /\ \A x \in raced' : x \in raced \/ x = f \/ \E u \in Tasks : WritesTo(u, x)
  BY <1>c, <1>a1, <1>a2
<1> QED BY <1>3, <1>6, <1>8, <1>9, <1>d, OpenKeeps

LEMMA CopyOpenInv ==
    ASSUME DiskInv, NEW t \in Tasks, Disk!CopyOpen(t)
    PROVE  DiskInv'
<1> DEFINE q == task[t].dst
           g == dir[task[t].src]
           f == created + 1
           r == [task[t] EXCEPT !.at = "head", !.file = f, !.from = g]
<1>1. /\ task[t].op = "copy" /\ task[t].at = "go" /\ g # 0 /\ f \in 1..FileBound
      /\ dir' = [dir EXCEPT ![q] = f] /\ created' = created + 1
      /\ data' = [data EXCEPT ![f] = ""] /\ raced' = raced
      /\ task' = [task EXCEPT ![t].at = "head", ![t].file = f, ![t].from = g]
  BY DEF Disk!CopyOpen, Disk!Files, Disk!MayCopyTo
<1>2. /\ created \in Nat /\ FileBound \in Nat /\ q \in FilePaths /\ g \in 0..created
      /\ created <= FileBound /\ TaskShape(task[t], created)
      /\ dir \in [FilePaths -> 0..created] /\ DOMAIN task = Tasks
  BY <1>1, DiskAssumption DEF DiskInv, DiskTypes, TaskShape
<1>3. created' <= FileBound /\ f \in 1..created' /\ g \in 1..created'
  <2>1. created' = created + 1 /\ g # 0 /\ f \in 1..FileBound
    BY <1>1
  <2>2. created \in Nat /\ FileBound \in Nat /\ g \in 0..created
    BY <1>2
  <2> QED BY <2>1, <2>2
<1>4. dir' \in [FilePaths -> 0..created']
  <2>1. created \in Nat /\ created' \in Nat /\ created <= created' /\ f \in 0..created'
    <3>1. created \in Nat /\ created' = created + 1
      BY <1>1, <1>2
    <3> QED BY <3>1
  <2>2. [dir EXCEPT ![q] = f] \in [FilePaths -> 0..created']
    <3>1. q \in FilePaths /\ dir \in [FilePaths -> 0..created]
      BY <1>2
    <3> HIDE DEF q, f
    <3> QED BY <2>1, <3>1, NameGiven
  <2> QED BY <1>1, <2>2
<1>5. TaskStep(t, r)
  BY <1>1, <1>2 DEF TaskStep
<1>6. r.at = "head" /\ r.file = f /\ TaskShape(r, created')
  BY <1>1, <1>2, <1>3 DEF TaskShape
<1>7. \A u \in Tasks : ~WritesTo(u, f) /\ ~(task[u].at = "tail" /\ task[u].from = f)
  BY <1>2 DEF DiskInv, DiskTypes, TaskShape, WritesTo, Writing
<1>8. Opens(t, r)
  BY <1>1, <1>4, <1>5, <1>6 DEF Opens, Writing
<1>9. created' = created + 1 /\ raced' = raced
  BY <1>1
<1> HIDE DEF r
<1> QED BY <1>3, <1>6, <1>7, <1>8, <1>9, OpenKeeps

\* Task t has written to its file.
Writes(t) ==
    /\ Disk!Ends(t) /\ task[t].at \in Writing /\ UNCHANGED <<dir, created>>
    /\ raced \subseteq raced' /\ raced' \subseteq raced \cup {task[t].file}
    /\ DOMAIN data' = DOMAIN data
    /\ \A x \in (1..FileBound) \ {task[t].file} : data'[x] = data[x]

\* Unless the file is spoilt it is whole now, if it was as FilesInv has it.
Fills(t) ==
    task[t].file \notin raced' /\ (task[t].at # "tail" => data[task[t].file] = "")
        => data'[task[t].file] \in {"short", "long"}

\* A writer has written: a file that is not spoilt was empty, and its own.
LEMMA WriteEnds ==
    ASSUME DiskInv, NEW t \in Tasks, Writes(t), Fills(t)
    PROVE  DiskInv'
<1> DEFINE f == task[t].file
<1>0. created' = created /\ created \in Nat /\ created <= FileBound /\ FileBound \in Nat
  BY DiskAssumption DEF Writes, DiskInv, DiskTypes
<1>1. TaskStep(t, Disk!Idle)
  BY DEF Writes, Disk!Ends, TaskStep
<1>2. /\ DOMAIN task' = Tasks /\ task'[t] = Disk!Idle
      /\ \A u \in Tasks \ {t} : task'[u] = task[u]
  BY <1>1, TaskStepFacts DEF DiskInv
<1>3. DiskTypes'
  <2>0. created' \in Nat /\ created' >= created
    BY <1>0
  <2>1. TaskShape(Disk!Idle, created')
    BY IdleFacts
  <2>2. \A u \in Tasks : TaskShape(task'[u], created')
    BY <1>1, <2>0, <2>1, TasksKeep DEF DiskInv
  <2> QED BY <1>2, <2>2 DEF Writes, DiskInv, DiskTypes
<1>4. \A u \in Tasks : \A x : WritesTo(u, x)' <=> (u # t /\ WritesTo(u, x))
  BY <1>2, IdleFacts DEF WritesTo
<1>5. WritesTo(t, f)
  BY DEF WritesTo, Writes
<1>6. FilesInv'
  <2> SUFFICES ASSUME NEW x \in 1..created, x \notin raced'
               PROVE  FileOK(x)'
    BY <1>0 DEF FilesInv
  <2>0. x \notin raced
    BY DEF Writes
  <2>a. FileOK(x)
    BY <2>0 DEF DiskInv, FilesInv
  <2>1. CASE x = f
    <3>1. (task[t].at # "tail" => data[f] = "") /\ \A u \in Tasks : WritesTo(u, f) => u = t
      BY <1>5, <2>a, <2>1 DEF FileOK, SoleWriter, Unwritten
    <3>2. data'[x] \in {"short", "long"}
      BY <2>1, <3>1 DEF Fills
    <3>3. \A u \in Tasks : ~WritesTo(u, x)'
      BY <1>4, <2>1, <3>1
    <3> QED BY <3>2, <3>3 DEF FileOK, Unwritten
  <2>2. CASE x # f
    <3>1. x \in 1..FileBound
      BY <1>0
    <3>2. data'[x] = data[x]
      BY <2>2, <3>1 DEF Writes
    <3>3. ~WritesTo(t, x)
      BY <2>2 DEF WritesTo
    <3>4. \A u \in Tasks : WritesTo(u, x)' <=> WritesTo(u, x)
      BY <1>4, <3>3
    <3>5. \A u \in Tasks : WritesTo(u, x) => task'[u] = task[u]
      BY <1>2, <3>3
    <3> QED BY <2>a, <3>2, <3>4, <3>5 DEF FileOK, SoleWriter, Unwritten
  <2> QED BY <2>1, <2>2
<1>7. CopiesInv'
  <2> SUFFICES ASSUME NEW u \in Tasks, task'[u].at = "tail", task'[u].file \notin raced'
               PROVE  /\ task'[u].from \notin raced' /\ data'[task'[u].from] = task'[u].content
                      /\ Unwritten(task[u].from)'
    BY DEF CopiesInv, Undisturbed
  <2>1. task'[u] = task[u] /\ u # t
    BY <1>2, IdleFacts DEF Writing
  <2>2. PICK g : task[u].from = g
    OBVIOUS
  <2>3. g \notin raced /\ data[g] = task[u].content /\ \A v \in Tasks : ~WritesTo(v, g)
    BY <2>1, <2>2 DEF DiskInv, CopiesInv, Undisturbed, Unwritten, Writes
  <2>4. g # f
    BY <1>5, <2>3
  <2>5. g \in 1..FileBound
    <3>1. g \in 1..created
      BY <2>1, <2>2 DEF DiskInv, DiskTypes, TaskShape
    <3> QED BY <1>0, <3>1
  <2>6. g \notin raced' /\ data'[g] = data[g]
    BY <2>3, <2>4, <2>5 DEF Writes
  <2>7. \A v \in Tasks : ~WritesTo(v, g)'
    BY <1>4, <2>3
  <2> QED BY <2>1, <2>2, <2>3, <2>6, <2>7 DEF Unwritten
<1> QED BY <1>3, <1>6, <1>7 DEF DiskInv

LEMMA PutWriteInv ==
    ASSUME DiskInv, NEW t \in Tasks, Disk!PutWrite(t)
    PROVE  DiskInv'
<1> DEFINE f == task[t].file
<1>1. /\ task[t].op = "put" /\ task[t].at = "write" /\ TaskShape(task[t], created)
      /\ created \in Nat /\ created <= FileBound /\ DOMAIN data = 1..FileBound
      /\ data' = [data EXCEPT ![f] = Disk!Overwrite(data[f], task[t].content)]
  BY DEF Disk!PutWrite, DiskInv, DiskTypes
<1>2. Writes(t)
  BY <1>1 DEF Writes, Writing, Disk!PutWrite
<1>3. f \in DOMAIN data /\ task[t].content \in {"short", "long"}
  <2>1. f \in 1..created /\ task[t].content \in {"short", "long"}
    BY <1>1 DEF TaskShape
  <2>2. created \in Nat /\ created <= FileBound /\ DOMAIN data = 1..FileBound
    BY <1>1
  <2> QED BY <2>1, <2>2, DiskAssumption
<1>4. data[f] = "" => data'[f] \in {"short", "long"}
  BY <1>1, <1>3 DEF Disk!Overwrite
<1>5. Fills(t)
  BY <1>1, <1>4 DEF Fills
<1> QED BY <1>2, <1>5, WriteEnds

LEMMA WriteFailsInv ==
    ASSUME DiskInv, NEW t \in Tasks, Disk!WriteFails(t) \/ Disk!CopyFails(t)
    PROVE  DiskInv'
<1>1. Writes(t) /\ task[t].file \in raced'
  BY DEF Writes, Writing, Disk!WriteFails, Disk!CopyFails
<1> QED BY <1>1, WriteEnds DEF Fills

\* A copy takes the first part of its source, and knows what that holds.
LEMMA CopyHeadInv ==
    ASSUME DiskInv, NEW t \in Tasks, Disk!CopyHead(t)
    PROVE  DiskInv'
<1> DEFINE f == task[t].file
           g == task[t].from
           r == [task[t] EXCEPT !.at = "tail", !.content = data[g]]
<1>1. /\ task[t].at = "head" /\ TaskShape(task[t], created)
      /\ created \in Nat /\ created <= FileBound /\ FileBound \in Nat
      /\ DOMAIN data = 1..FileBound /\ DOMAIN task = Tasks
      /\ data' = [data EXCEPT ![f] = "mixed"] /\ UNCHANGED <<dir, created>>
      /\ raced' = (IF g \in raced \/ Disk!Writers(g) # {} THEN raced \cup {f} ELSE raced)
      /\ task' = [task EXCEPT ![t].at = "tail", ![t].content = data[g]]
  BY DiskAssumption DEF Disk!CopyHead, Disk!Spoilt, DiskInv, DiskTypes
<1>2. f \in 1..created /\ g \in 1..created /\ f \in 1..FileBound /\ g \in 1..FileBound
  <2>1. f \in 1..created /\ g \in 1..created
    BY <1>1 DEF TaskShape
  <2>2. created \in Nat /\ created <= FileBound /\ FileBound \in Nat
    BY <1>1
  <2> QED BY <2>1, <2>2
<1>3. TaskStep(t, r) /\ r.at = "tail" /\ r.file = f /\ r.from = g /\ r.content = data[g]
  BY <1>1 DEF TaskStep, TaskShape
<1>4. TaskShape(r, created)
  BY <1>1, <1>2 DEF TaskShape
<1> HIDE DEF r
<1>5. /\ DOMAIN task' = Tasks /\ task'[t] = r
      /\ \A u \in Tasks \ {t} : task'[u] = task[u]
  BY <1>3, TaskStepFacts DEF DiskInv
<1>6. DiskTypes'
  <2>1. created' \in Nat /\ created' >= created /\ TaskShape(r, created')
    BY <1>1, <1>4
  <2>2. \A u \in Tasks : TaskShape(task'[u], created')
    BY <1>3, <2>1, TasksKeep DEF DiskInv
  <2> QED BY <1>1, <1>5, <2>2 DEF DiskInv, DiskTypes
<1>7. \A u \in Tasks : \A x : WritesTo(u, x)' <=> WritesTo(u, x)
  BY <1>1, <1>3, <1>5 DEF WritesTo, Writing
<1>8. WritesTo(t, f)
  BY <1>1 DEF WritesTo, Writing
<1>9. /\ raced \subseteq raced' /\ raced' \subseteq raced \cup {f}
      /\ \A x \in 1..FileBound : x # f => data'[x] = data[x]
  BY <1>1
<1> HIDE DEF f
<1>10. FilesInv'
  <2> SUFFICES ASSUME NEW x \in 1..created, x \notin raced'
               PROVE  FileOK(x)'
    BY <1>1 DEF FilesInv
  <2>0. FileOK(x)
    BY <1>9 DEF DiskInv, FilesInv
  <2>1. CASE x = f
    <3>1. SoleWriter(t, f)
      BY <1>8, <2>0, <2>1 DEF FileOK, SoleWriter, Unwritten
    <3>2. SoleWriter(t, x)' /\ task'[t].at = "tail"
      BY <1>3, <1>5, <1>7, <2>1, <3>1 DEF SoleWriter
    <3> QED BY <3>2 DEF FileOK
  <2>2. CASE x # f
    <3>1. x \in 1..FileBound
      BY <1>1
    <3>2. data'[x] = data[x]
      BY <1>9, <2>2, <3>1
    <3>3. ~WritesTo(t, x)
      BY <2>2 DEF WritesTo, f
    <3>4. \A u \in Tasks : WritesTo(u, x) => task'[u] = task[u]
      BY <1>5, <3>3
    <3> QED BY <1>7, <2>0, <3>2, <3>4 DEF FileOK, SoleWriter, Unwritten
  <2> QED BY <2>1, <2>2
<1>11. CopiesInv'
  <2> SUFFICES ASSUME NEW u \in Tasks, task'[u].at = "tail", task'[u].file \notin raced'
               PROVE  /\ task'[u].from \notin raced' /\ data'[task'[u].from] = task'[u].content
                      /\ Unwritten(task[u].from)'
    BY DEF CopiesInv, Undisturbed
  <2>1. CASE u = t
    <3>1. g \notin raced /\ raced' = raced /\ Disk!Writers(g) = {}
      BY <1>1, <1>3, <1>5, <2>1 DEF f
    <3>2. \A v \in Tasks : ~WritesTo(v, g)
      BY <3>1 DEF Disk!Writers, WritesTo, Writing
    <3>3. data'[g] = data[g]
      BY <1>2, <1>8, <1>9, <3>2
    <3>4. PICK h : h = g
      OBVIOUS
    <3>5. \A v \in Tasks : ~WritesTo(v, h)'
      BY <1>7, <3>2, <3>4
    <3> QED BY <1>3, <1>5, <2>1, <3>1, <3>3, <3>4, <3>5 DEF Unwritten
  <2>2. CASE u # t
    <3>1. task'[u] = task[u]
      BY <1>5, <2>2
    <3>2. PICK h : task[u].from = h
      OBVIOUS
    <3>3. h \notin raced /\ data[h] = task[u].content /\ \A v \in Tasks : ~WritesTo(v, h)
      BY <1>9, <3>1, <3>2 DEF DiskInv, CopiesInv, Undisturbed, Unwritten
    <3>4. h # f /\ h \in 1..FileBound
      <4>1. h \in 1..created
        BY <3>1, <3>2 DEF DiskInv, DiskTypes, TaskShape
      <4> QED BY <1>1, <1>8, <3>3, <4>1
    <3>5. \A v \in Tasks : ~WritesTo(v, h)'
      BY <1>7, <3>3
    <3> QED BY <1>9, <3>1, <3>2, <3>3, <3>4, <3>5 DEF Unwritten
  <2> QED BY <2>1, <2>2
<1> QED BY <1>6, <1>10, <1>11 DEF DiskInv

\* A copy is whole when nothing spoilt its source, which nobody wrote to since
\* the copy took the first part of it.
LEMMA CopyTailInv ==
    ASSUME DiskInv, NEW t \in Tasks, Disk!CopyTail(t)
    PROVE  DiskInv'
<1> DEFINE f == task[t].file
           g == task[t].from
<1>1. /\ task[t].at = "tail" /\ TaskShape(task[t], created)
      /\ created \in Nat /\ created <= FileBound /\ DOMAIN data = 1..FileBound
      /\ data' = [data EXCEPT ![f] = IF data[g] = task[t].content THEN data[g] ELSE "mixed"]
      /\ raced' = (IF g \in raced \/ Disk!Writers(g) # {} THEN raced \cup {f} ELSE raced)
  BY DEF Disk!CopyTail, Disk!Spoilt, DiskInv, DiskTypes
<1>2. Writes(t)
  BY <1>1 DEF Writes, Writing, Disk!CopyTail
<1>3. f \in DOMAIN data /\ g \in 1..created
  <2>1. f \in 1..created /\ g \in 1..created
    BY <1>1 DEF TaskShape
  <2>2. created \in Nat /\ created <= FileBound /\ DOMAIN data = 1..FileBound
    BY <1>1
  <2> QED BY <2>1, <2>2, DiskAssumption
<1>4. ASSUME f \notin raced'
      PROVE  data'[f] \in {"short", "long"}
  <2>1. f \notin raced
    BY <1>1, <1>4
  <2>2. g \notin raced /\ data[g] = task[t].content /\ \A u \in Tasks : ~WritesTo(u, g)
    BY <1>1, <2>1 DEF DiskInv, CopiesInv, Undisturbed, Unwritten
  <2>3. FileOK(g)
    BY <1>3, <2>2 DEF DiskInv, FilesInv
  <2>4. data[g] \in {"short", "long"}
    BY <2>2, <2>3 DEF FileOK, SoleWriter
  <2> QED BY <1>1, <1>3, <2>2, <2>4
<1>5. Fills(t)
  BY <1>4 DEF Fills
<1> QED BY <1>2, <1>5, WriteEnds

LEMMA DiskStep ==
    ASSUME DiskInv, Disk!Next \/ UNCHANGED diskVars
    PROVE  DiskInv'
<1>1. CASE UNCHANGED diskVars
  <2>1. DiskTypes' /\ \A t \in Tasks : \A f : WritesTo(t, f)' <=> WritesTo(t, f)
    BY <1>1 DEF diskVars, DiskInv, DiskTypes, WritesTo
  <2> QED BY <1>1, <2>1 DEF diskVars, DiskInv, FilesInv, FileOK, SoleWriter, CopiesInv,
                            Undisturbed, Unwritten
<1>2. CASE Disk!Next
  <2>1. PICK t \in Tasks :
            \/ Disk!Begin(t) \/ Disk!Look(t) \/ Disk!PutOpen(t) \/ Disk!OpenFails(t)
            \/ Disk!PutWrite(t) \/ Disk!WriteFails(t) \/ Disk!DeleteRemove(t)
            \/ Disk!MoveRename(t) \/ Disk!CopyThrows(t) \/ Disk!CopyOpen(t)
            \/ Disk!CopyHead(t) \/ Disk!CopyTail(t) \/ Disk!CopyFails(t)
    BY <1>2 DEF Disk!Next
  <2> QED BY <2>1, BeginInv, LookInv, NamesInv, PutOpenInv, PutWriteInv, WriteFailsInv,
             CopyOpenInv, CopyHeadInv, CopyTailInv
<1> QED BY <1>1, <1>2

LEMMA DiskStarts ==
    ASSUME Disk!Init
    PROVE  DiskInv
<1>1. created = 0 /\ DOMAIN data = 1..FileBound /\ DOMAIN task = Tasks
  BY DEF Disk!Init, Disk!Files
<1>2. \A t \in Tasks : TaskShape(task[t], created)
  BY IdleFacts DEF Disk!Init
<1>3. 0 \in Nat /\ 0 <= FileBound /\ (1..0) = {} /\ 0 \in 0..0
  BY DiskAssumption
<1>4. dir \in [FilePaths -> 0..created]
  BY <1>1, <1>3 DEF Disk!Init
<1>5. CopiesInv
  BY IdleFacts DEF Disk!Init, CopiesInv, Writing
<1> QED BY <1>1, <1>2, <1>3, <1>4, <1>5 DEF DiskInv, DiskTypes, FilesInv

\* File driver: a file that a path names and nobody writes to holds the whole
\* content of one put, unless two streams had it open at once, a write to it
\* failed, or it is a copy whose source was such a file or was written to while
\* it was copied, part after part, however many calls overlap.
THEOREM FilesWhole == Spec => []WholeUnlessRaced
<1>1. Init => DiskInv
  BY InitParts, DiskStarts
<1>2. DiskInv /\ [Next]_vars => DiskInv'
  BY NextParts, DiskStep
<1>3. DiskInv => WholeUnlessRaced
  <2> SUFFICES ASSUME DiskInv, NEW p \in FilePaths, dir[p] # 0, Disk!Writers(dir[p]) = {},
                      dir[p] \notin raced
               PROVE  data[dir[p]] \in {"short", "long"}
    BY DEF WholeUnlessRaced, Disk!WholeUnlessRaced, Disk!Contents
  <2>1. dir[p] \in 0..created /\ created \in Nat
    BY DEF DiskInv, DiskTypes
  <2>2. dir[p] \in 1..created
    BY <2>1
  <2>3. \A t \in Tasks : ~WritesTo(t, dir[p])
    BY DEF Disk!Writers, WritesTo, Writing
  <2>4. FileOK(dir[p])
    BY <2>2 DEF DiskInv, FilesInv
  <2> QED BY <2>3, <2>4 DEF FileOK, SoleWriter
<1> QED BY <1>1, <1>2, <1>3, PTL DEF Spec

-----------------------------------------------------------------------------
(* Induction.  The theorems on induction have an operator as a parameter;  *)
(* that every set of natural numbers has a least element has none.         *)

\* A set of natural numbers has a least element.
LEMMA Least ==
    ASSUME NEW T, T \subseteq Nat, T # {}
    PROVE  \E x \in T : \A y \in T : x <= y
<1> DEFINE R == OpToRel(<, Nat)
<1>1. IsWellFoundedOn(R, Nat)
  BY NatLessThanWellFounded
<1> HIDE DEF R
<1>2. PICK x \in T : \A y \in T : ~ (<<y, x>> \in R)
  BY <1>1, WFMin
<1>3. \A y \in T : <<y, x>> \in R <=> y < x
  BY DEF R, OpToRel
<1>4. \A y \in T : y \in Nat /\ x \in Nat /\ ~(y < x)
  BY <1>2, <1>3
<1>5. \A y \in T : x <= y
  BY <1>4
<1> QED BY <1>5

\* Induction over the natural numbers, for a set.
LEMMA SetInduction ==
    ASSUME NEW S, 0 \in S, \A n \in Nat : n \in S => n + 1 \in S
    PROVE  Nat \subseteq S
<1> DEFINE Bad == Nat \ S
<1> SUFFICES ASSUME Bad # {} PROVE FALSE
  OBVIOUS
<1>1. PICK n \in Bad : \A k \in Bad : n <= k
  BY Least
<1>2. n \in Nat /\ n # 0 /\ n - 1 \in Nat /\ n - 1 \notin Bad /\ (n - 1) + 1 = n
  BY <1>1
<1> QED BY <1>2

-----------------------------------------------------------------------------
(* The routing tables.                                                     *)

\* One step of the loop over the pieces of a path.
More(p, f, i) == IF i = 0 THEN <<>> ELSE IF p[i] = "" THEN f[i - 1] ELSE Append(f[i - 1], p[i])

\* The recursive definition of the loop has a solution.
LEMMA LoopExists ==
    ASSUME NEW p
    PROVE  \A m \in Nat : \E f : f = [i \in 0..m |-> More(p, f, i)]
<1> DEFINE Good(n) == \E f : f = [i \in 0..n |-> More(p, f, i)]
           S == {n \in Nat : Good(n)}
<1>1. Good(0)
  <2> DEFINE f == [i \in 0..0 |-> <<>>]
  <2>1. f = [i \in 0..0 |-> More(p, f, i)]
    BY DEF More
  <2> QED BY <2>1
<1>2. ASSUME NEW n \in Nat, Good(n)
      PROVE  Good(n + 1)
  <2>1. PICK f : f = [i \in 0..n |-> More(p, f, i)]
    BY <1>2
  <2> DEFINE g == [i \in 0..(n + 1) |-> IF i = n + 1 THEN More(p, f, i) ELSE f[i]]
  <2>2. ASSUME NEW i \in 0..(n + 1)
        PROVE  g[i] = More(p, g, i)
    <3>1. i # 0 => i - 1 \in 0..n /\ i - 1 \in 0..(n + 1) /\ i - 1 # n + 1
      OBVIOUS
    <3>2. i # 0 => g[i - 1] = f[i - 1]
      BY <3>1
    <3>3. g[i] = More(p, f, i)
      BY <2>1
    <3> HIDE DEF g
    <3>4. More(p, g, i) = More(p, f, i)
      BY <3>2 DEF More
    <3> QED BY <3>3, <3>4
  <2>3. g = [i \in 0..(n + 1) |-> More(p, g, i)]
    BY <2>2
  <2> QED BY <2>3
<1> HIDE DEF Good
<1>3. 0 \in S /\ \A n \in Nat : n \in S => n + 1 \in S
  BY <1>1, <1>2
<1>4. Nat \subseteq S
  <2> HIDE DEF S
  <2> QED BY <1>3, SetInduction
<1>5. \A n \in Nat : Good(n)
  BY <1>4
<1> QED BY <1>5 DEF Good

LEMMA LoopEquation ==
    ASSUME NEW p, Len(p) \in Nat
    PROVE  Tables!TokensUpTo(p) = [i \in 0..Len(p) |-> More(p, Tables!TokensUpTo(p), i)]
<1>1. Tables!TokensUpTo(p) = CHOOSE f : f = [i \in 0..Len(p) |-> More(p, f, i)]
  BY DEF Tables!TokensUpTo, More
<1>2. \E f : f = [i \in 0..Len(p) |-> More(p, f, i)]
  BY LoopExists
<1> QED BY <1>1, <1>2

\* The loop skips the pieces that are e, whatever they are.
Skips(F, p, e) ==
    /\ F[0] = <<>>
    /\ \A i \in 1..Len(p) : F[i] = IF p[i] = e THEN F[i - 1] ELSE Append(F[i - 1], p[i])

Whole(p, e, n) == \A i \in 1..n : p[i] # e
NoneOf(p, e, n) == \A i \in 1..n : p[i] = e

\* What the loop has after n pieces.
Looped(P, s, p, e, n) ==
    /\ s \in Seq(P)
    /\ \A i \in 1..Len(s) : s[i] # e
    /\ Whole(p, e, n) => Len(s) = n /\ \A i \in 1..n : s[i] = p[i]
    /\ NoneOf(p, e, n) => s = <<>>

LEMMA LoopStarts ==
    ASSUME NEW P, NEW p, NEW e
    PROVE  Looped(P, <<>>, p, e, 0)
BY DEF Looped

LEMMA LoopSteps ==
    ASSUME NEW P, NEW p \in Seq(P), NEW e, NEW n \in Nat, n + 1 <= Len(p),
           NEW s, Looped(P, s, p, e, n)
    PROVE  Looped(P, IF p[n + 1] = e THEN s ELSE Append(s, p[n + 1]), p, e, n + 1)
<1>1. n + 1 \in 1..Len(p) /\ n \in 0..Len(p) /\ n + 1 \in 1..(n + 1)
  BY LenProperties
<1>2. \A i \in 1..n : i \in 1..(n + 1)
  OBVIOUS
<1>3. /\ Whole(p, e, n + 1) => Whole(p, e, n) /\ p[n + 1] # e
      /\ NoneOf(p, e, n + 1) => NoneOf(p, e, n) /\ p[n + 1] = e
  BY <1>1, <1>2 DEF Whole, NoneOf
<1>4. CASE p[n + 1] = e
  BY <1>3, <1>4 DEF Looped
<1>5. CASE p[n + 1] # e
  <2> DEFINE x == p[n + 1]
             r == Append(s, x)
  <2>1. x \in P
    BY <1>1, ElementOfSeq
  <2>2. s \in Seq(P) /\ \A i \in 1..Len(s) : s[i] # e
    BY DEF Looped
  <2>3. x # e
    BY <1>5
  <2> HIDE DEF x
  <2>4. /\ r \in Seq(P) /\ Len(r) = Len(s) + 1 /\ Len(s) \in Nat
        /\ \A i \in 1..Len(s) : r[i] = s[i]
        /\ r[Len(s) + 1] = x
    BY <2>1, <2>2, AppendProperties, LenProperties
  <2> HIDE DEF r
  <2>5. \A i \in 1..Len(r) : r[i] # e
    BY <2>2, <2>3, <2>4
  <2>6. ASSUME Whole(p, e, n + 1)
        PROVE  Len(r) = n + 1 /\ \A i \in 1..(n + 1) : r[i] = p[i]
    <3>1. Len(s) = n /\ \A i \in 1..n : s[i] = p[i]
      BY <1>3, <2>6 DEF Looped
    <3>2. Len(r) = n + 1 /\ r[n + 1] = p[n + 1] /\ \A i \in 1..n : r[i] = p[i]
      BY <2>4, <3>1 DEF x
    <3> QED BY <3>2
  <2>7. ~NoneOf(p, e, n + 1)
    BY <1>3, <1>5
  <2>8. Looped(P, r, p, e, n + 1)
    BY <2>4, <2>5, <2>6, <2>7 DEF Looped
  <2> QED BY <1>5, <2>8 DEF r, x
<1> QED BY <1>4, <1>5

LEMMA LoopEnds ==
    ASSUME NEW P, NEW p \in Seq(P), NEW e, NEW F, Skips(F, p, e)
    PROVE  Looped(P, F[Len(p)], p, e, Len(p))
<1> DEFINE S == {n \in Nat : n <= Len(p) => Looped(P, F[n], p, e, n)}
<1>1. Len(p) \in Nat
  BY LenProperties
<1>2. 0 \in S
  BY LoopStarts DEF Skips
<1>3. ASSUME NEW n \in Nat, n \in S
      PROVE  n + 1 \in S
  <2> SUFFICES ASSUME n + 1 <= Len(p)
               PROVE  Looped(P, F[n + 1], p, e, n + 1)
    OBVIOUS
  <2>1. n <= Len(p) /\ n + 1 \in 1..Len(p) /\ (n + 1) - 1 = n
    BY <1>1
  <2>2. Looped(P, F[n], p, e, n)
    BY <1>3, <2>1
  <2>3. F[n + 1] = IF p[n + 1] = e THEN F[n] ELSE Append(F[n], p[n + 1])
    BY <2>1 DEF Skips
  <2> QED BY <2>2, <2>3, LoopSteps
<1>4. Nat \subseteq S
  <2> HIDE DEF S
  <2> QED BY <1>2, <1>3, SetInduction
<1> QED BY <1>1, <1>4

LEMMA TokensSkip ==
    ASSUME NEW p, Len(p) \in Nat
    PROVE  Skips(Tables!TokensUpTo(p), p, "")
<1> DEFINE F == Tables!TokensUpTo(p)
           N == Len(p)
<1>1. F = [i \in 0..N |-> More(p, F, i)]
  BY LoopEquation
<1>2. \A i \in 0..N : F[i] = More(p, F, i)
  <2> HIDE DEF F
  <2> QED BY <1>1
<1>3. 0 \in 0..N /\ \A i \in 1..N : i \in 0..N /\ i # 0
  OBVIOUS
<1> HIDE DEF F
<1>4. F[0] = <<>>
  BY <1>2, <1>3 DEF More
<1>5. \A i \in 1..N : F[i] = IF p[i] = "" THEN F[i - 1] ELSE Append(F[i - 1], p[i])
  BY <1>2, <1>3 DEF More
<1> QED BY <1>4, <1>5 DEF Skips, F

\* No token is empty; a path without empty pieces has its pieces as tokens,
\* and one of empty pieces has none.
LEMMA TokenFacts ==
    ASSUME NEW p \in Seq(STRING)
    PROVE  /\ Tables!Tokens(p) \in Seq(STRING)
           /\ \A i \in 1..Len(Tables!Tokens(p)) : Tables!Tokens(p)[i] # ""
           /\ (\A i \in 1..Len(p) : p[i] # "") => Tables!Tokens(p) = p
           /\ (\A i \in 1..Len(p) : p[i] = "") => Tables!Tokens(p) = <<>>
<1>1. Len(p) \in Nat
  BY LenProperties
<1>2. Looped(STRING, Tables!Tokens(p), p, "", Len(p))
  BY <1>1, TokensSkip, LoopEnds DEF Tables!Tokens
<1>3. ASSUME Whole(p, "", Len(p))
      PROVE  Tables!Tokens(p) = p
  <2>1. /\ Tables!Tokens(p) \in Seq(STRING) /\ Len(Tables!Tokens(p)) = Len(p)
        /\ \A i \in 1..Len(Tables!Tokens(p)) : Tables!Tokens(p)[i] = p[i]
    BY <1>2, <1>3 DEF Looped
  <2> QED BY <2>1, SeqEqual
<1> QED BY <1>2, <1>3 DEF Looped, Whole, NoneOf

\* The first of a set of indices is its least.
LEMMA FirstFacts ==
    ASSUME NEW I, I \subseteq Nat, I # {}
    PROVE  Tables!First(I) \in I /\ \A j \in I : Tables!First(I) <= j
<1>1. \E i \in I : \A j \in I : i <= j
  BY Least
<1> QED BY <1>1 DEF Tables!First

LEMMA OnlyPiece ==
    ASSUME NEW e
    PROVE  /\ \A i \in 1..Len(<<e>>) : <<e>>[i] = e
           /\ \A i \in 1..Len(<<>>) : <<>>[i] = e
OBVIOUS

\* A path that matches the text of another matches every target of that.
LEMMA MatchThrough ==
    ASSUME NEW q \in Seq(STRING), NEW p \in Seq(STRING), NEW t \in Seq(STRING),
           Tables!Match(q, p), Tables!Match(p, t)
    PROVE  Tables!Match(q, t)
<1>1. CASE Tables!Tokens(q) = <<>>
  <2>1. p = <<>> \/ p = <<"">>
    BY <1>1 DEF Tables!Match
  <2>2. \A i \in 1..Len(p) : p[i] = ""
    BY <2>1, OnlyPiece
  <2>3. Tables!Tokens(p) = <<>>
    BY <2>2, TokenFacts
  <2> QED BY <1>1, <2>3 DEF Tables!Match
<1>2. CASE Tables!Tokens(q) # <<>>
  <2> DEFINE a == Tables!Tokens(q)
  <2>1. a \in Seq(STRING) /\ \A i \in 1..Len(a) : a[i] # ""
    BY TokenFacts
  <2>2. /\ Len(a) = Len(p)
        /\ \A i \in 1..Len(a) : a[i] = p[i] \/ (a[i] \in Parameters /\ p[i] # "")
    BY <1>2 DEF Tables!Match, Tables!RegexMatch
  <2>3. \A i \in 1..Len(p) : p[i] # ""
    <3> HIDE DEF a
    <3> QED BY <2>1, <2>2
  <2>4. Tables!Tokens(p) = p
    BY <2>3, TokenFacts
  <2>5. p # <<>>
    <3>1. Len(a) # 0
      BY <1>2, <2>1, EmptySeq
    <3> QED BY <2>2, <3>1, EmptySeq
  <2>6. /\ Len(p) = Len(t)
        /\ \A i \in 1..Len(p) : p[i] = t[i] \/ (p[i] \in Parameters /\ t[i] # "")
    BY <2>4, <2>5 DEF Tables!Match, Tables!RegexMatch
  <2>7. \A i \in 1..Len(a) : a[i] = t[i] \/ (a[i] \in Parameters /\ t[i] # "")
    <3> HIDE DEF a
    <3> QED BY <2>2, <2>3, <2>6
  <2> QED BY <1>2, <2>2, <2>6, <2>7 DEF Tables!Match, Tables!RegexMatch
<1> QED BY <1>1, <1>2

\* A route at the end does not change what the table answers already.
LEMMA AppendKeeps ==
    ASSUME NEW table \in Seq(RoutePaths), NEW r \in RoutePaths
    PROVE  Tables!Keeps(table, Append(table, r))
<1> DEFINE later == Append(table, r)
<1>1. /\ Len(table) \in Nat /\ Len(later) = Len(table) + 1
      /\ \A i \in 1..Len(table) : later[i] = table[i]
  BY AppendProperties, LenProperties
<1> HIDE DEF later
<1>2. ASSUME NEW t \in RouteTargets, Tables!Answer(table, t) # <<>>
      PROVE  Tables!Answer(later, t) = Tables!Answer(table, t)
  <2> DEFINE M == Tables!Matching(table, t)
             L == Tables!Matching(later, t)
             m == Tables!First(M)
             l == Tables!First(L)
  <2>1. M # {}
    BY <1>2 DEF Tables!Answer
  <2>2. M \subseteq 1..Len(table) /\ L \subseteq 1..Len(later)
    BY DEF Tables!Matching
  <2>3. 1..Len(table) \subseteq 1..Len(later) /\ 1..Len(later) \subseteq Nat
    BY <1>1
  <2>4. \A i \in 1..Len(table) : i \in M <=> i \in L
    BY <1>1, <2>3 DEF Tables!Matching
  <2> HIDE DEF M, L
  <2>5. M \subseteq L /\ M \subseteq Nat /\ L \subseteq Nat /\ L # {}
    BY <2>1, <2>2, <2>3, <2>4
  <2>6. /\ m \in M /\ \A j \in M : m <= j
        /\ l \in L /\ \A j \in L : l <= j
    BY <2>1, <2>5, FirstFacts
  <2> HIDE DEF m, l
  <2>7. l <= m /\ m \in 1..Len(table) /\ l \in Nat /\ l # 0
    BY <2>2, <2>3, <2>5, <2>6
  <2>8. l \in 1..Len(table)
    BY <1>1, <2>7
  <2>9. l = m
    <3>1. l \in M
      BY <2>4, <2>6, <2>8
    <3>2. m <= l /\ l <= m
      BY <2>6, <2>7, <3>1
    <3> QED BY <2>7, <3>2
  <2>10. later[l] = table[m]
    BY <1>1, <2>7, <2>9
  <2>11. /\ Tables!Answer(table, t) = <<table[m], Tables!ParamsOf(table[m], t)>>
         /\ Tables!Answer(later, t) = <<later[l], Tables!ParamsOf(later[l], t)>>
    BY <2>1, <2>5 DEF Tables!Answer, m, l, M, L
  <2> QED BY <2>10, <2>11
<1> QED BY <1>2 DEF Tables!Keeps, later

\* The records of the table of WebSocket routes: a handler that was given with
\* a path sits on a route that matches the text of the path.
WsRoutes ==
    {r \in [path : RoutePaths, handler : [Kinds -> RoutePaths \cup {Tables!NoHandler}]] :
        \A k \in Kinds : r.handler[k] # Tables!NoHandler =>
            r.handler[k] \in RoutePaths /\ Tables!Match(r.path, r.handler[k])}

TableInv ==
    /\ DOMAIN routes = Methods /\ \A m \in Methods : routes[m] \in Seq(RoutePaths)
    /\ wsRoutes \in Seq(WsRoutes)

\* The paths of the WebSocket routes.
LEMMA WsPathsFacts ==
    ASSUME NEW ws \in Seq(WsRoutes)
    PROVE  /\ [i \in 1..Len(ws) |-> ws[i].path] \in Seq(RoutePaths)
           /\ Len([i \in 1..Len(ws) |-> ws[i].path]) = Len(ws)
           /\ \A j \in 1..Len(ws) : [i \in 1..Len(ws) |-> ws[i].path][j] = ws[j].path
<1>1. Len(ws) \in Nat /\ \A i \in 1..Len(ws) : ws[i] \in WsRoutes
  BY LenProperties, ElementOfSeq
<1>2. \A i \in 1..Len(ws) : ws[i].path \in RoutePaths
  BY <1>1 DEF WsRoutes
<1> QED BY <1>1, <1>2

LEMMA WsPathsKept ==
    ASSUME NEW ws \in Seq(WsRoutes), NEW wt \in Seq(WsRoutes), Len(ws) = Len(wt),
           \A i \in 1..Len(ws) : ws[i].path = wt[i].path
    PROVE  [i \in 1..Len(ws) |-> ws[i].path] = [i \in 1..Len(wt) |-> wt[i].path]
OBVIOUS

\* A step of the tables: the invariant is kept, and what they answer already.
TableStepFacts == TableInv' /\ Tables!AnswerIsKept

LEMMA SameTables ==
    /\ \A table : Tables!Keeps(table, table)
    /\ wsRoutes' = wsRoutes => Tables!WsPaths' = Tables!WsPaths
BY DEF Tables!Keeps, Tables!WsPaths

LEMMA AddInv ==
    ASSUME TableInv, NEW m \in Methods, NEW p \in RoutePaths, Tables!Add(m, p)
    PROVE  TableStepFacts
<1>1. /\ routes' = [routes EXCEPT ![m] = Append(routes[m], p)] /\ wsRoutes' = wsRoutes
      /\ DOMAIN routes = Methods /\ \A n \in Methods : routes[n] \in Seq(RoutePaths)
  BY DEF Tables!Add, Tables!Registered, TableInv
<1>2. /\ DOMAIN routes' = Methods
      /\ \A n \in Methods : routes'[n] = IF n = m THEN Append(routes[n], p) ELSE routes[n]
  BY <1>1
<1>3. \A n \in Methods : routes'[n] \in Seq(RoutePaths)
  BY <1>1, <1>2, AppendProperties
<1>4. TableInv'
  BY <1>1, <1>2, <1>3 DEF TableInv
<1>5. \A n \in Methods : Tables!Keeps(routes[n], routes'[n])
  BY <1>1, <1>2, AppendKeeps, SameTables
<1> QED BY <1>1, <1>4, <1>5, SameTables DEF TableStepFacts, Tables!AnswerIsKept

LEMMA AddRouteInv ==
    ASSUME TableInv, NEW p \in RoutePaths, Tables!AddRoute(p)
    PROVE  TableStepFacts
<1> DEFINE r == [path |-> p, handler |-> [k \in Kinds |-> Tables!NoHandler]]
           before == Tables!WsPaths
<1>1. wsRoutes' = Append(wsRoutes, r) /\ routes' = routes /\ wsRoutes \in Seq(WsRoutes)
  BY DEF Tables!AddRoute, Tables!Registered, TableInv
<1>2. r \in WsRoutes /\ r.path = p
  BY DEF WsRoutes
<1> HIDE DEF r
<1>3. /\ wsRoutes' \in Seq(WsRoutes) /\ Len(wsRoutes') = Len(wsRoutes) + 1
      /\ \A i \in 1..Len(wsRoutes) : wsRoutes'[i] = wsRoutes[i]
      /\ wsRoutes'[Len(wsRoutes) + 1] = r /\ Len(wsRoutes) \in Nat
  BY <1>1, <1>2, AppendProperties, LenProperties
<1>4. TableInv'
  BY <1>1, <1>3 DEF TableInv
<1>5. /\ before \in Seq(RoutePaths) /\ Len(before) = Len(wsRoutes)
      /\ \A i \in 1..Len(wsRoutes) : before[i] = wsRoutes[i].path
  BY <1>1, WsPathsFacts DEF Tables!WsPaths
<1>6. /\ before' \in Seq(RoutePaths) /\ Len(before') = Len(wsRoutes')
      /\ \A i \in 1..Len(wsRoutes') : before'[i] = wsRoutes'[i].path
  BY <1>3, WsPathsFacts DEF Tables!WsPaths
<1>7. /\ Append(before, p) \in Seq(RoutePaths)
      /\ Len(Append(before, p)) = Len(before) + 1
      /\ \A i \in 1..Len(before) : Append(before, p)[i] = before[i]
      /\ Append(before, p)[Len(before) + 1] = p
  BY <1>5, AppendProperties
<1> HIDE DEF before
<1>8. ASSUME NEW i \in 1..Len(before')
      PROVE  before'[i] = Append(before, p)[i]
  <2>1. i \in 1..Len(wsRoutes') /\ (i \in 1..Len(wsRoutes) \/ i = Len(wsRoutes) + 1)
    BY <1>3, <1>6
  <2> QED BY <1>2, <1>3, <1>5, <1>6, <1>7, <2>1
<1>9. before' = Append(before, p)
  <2>1. Len(before') = Len(Append(before, p))
    BY <1>3, <1>5, <1>6, <1>7
  <2> QED BY <1>6, <1>7, <1>8, <2>1, SeqEqual
<1>10. Tables!Keeps(before, before')
  BY <1>5, <1>9, AppendKeeps
<1>11. Tables!AnswerIsKept
  BY <1>1, <1>10, SameTables DEF before, Tables!AnswerIsKept
<1> QED BY <1>4, <1>11 DEF TableStepFacts

LEMMA SetHandlerInv ==
    ASSUME TableInv, NEW k \in Kinds, NEW p \in RoutePaths, Tables!SetHandler(k, p)
    PROVE  TableStepFacts
<1> DEFINE I == Tables!FoundByText(p)
           i == Tables!First(I)
           r == wsRoutes[i]
           e == [path |-> r.path, handler |-> [r.handler EXCEPT ![k] = p]]
<1>1. /\ I # {} /\ wsRoutes' = [wsRoutes EXCEPT ![i].handler[k] = p] /\ routes' = routes
      /\ wsRoutes \in Seq(WsRoutes)
  BY DEF Tables!SetHandler, TableInv
<1>2. /\ Tables!WsPaths \in Seq(RoutePaths) /\ Len(Tables!WsPaths) = Len(wsRoutes)
      /\ \A j \in 1..Len(wsRoutes) : Tables!WsPaths[j] = wsRoutes[j].path
      /\ Len(wsRoutes) \in Nat
  BY <1>1, WsPathsFacts, LenProperties DEF Tables!WsPaths
<1>3. \A j \in I : j \in 1..Len(wsRoutes) /\ Tables!Match(wsRoutes[j].path, p)
  BY <1>2 DEF Tables!FoundByText, Tables!Matching
<1>4. i \in 1..Len(wsRoutes) /\ Tables!Match(wsRoutes[i].path, p)
  <2>1. I \subseteq Nat
    BY <1>2, <1>3
  <2> HIDE DEF I
  <2>2. i \in I
    BY <1>1, <2>1, FirstFacts
  <2> QED BY <1>3, <2>2
<1>5. r \in WsRoutes
  BY <1>1, <1>4, ElementOfSeq
<1> HIDE DEF i
<1>6. [r EXCEPT !.handler[k] = p] = e
  BY <1>5 DEF WsRoutes
<1>7. e \in WsRoutes
  <2>1. /\ r.path \in RoutePaths /\ r.handler \in [Kinds -> RoutePaths \cup {Tables!NoHandler}]
        /\ \A n \in Kinds : r.handler[n] # Tables!NoHandler =>
              r.handler[n] \in RoutePaths /\ Tables!Match(r.path, r.handler[n])
    BY <1>5 DEF WsRoutes
  <2>2. Tables!Match(r.path, p)
    BY <1>4
  <2> DEFINE h == [r.handler EXCEPT ![k] = p]
  <2>3. /\ h \in [Kinds -> RoutePaths \cup {Tables!NoHandler}]
        /\ \A n \in Kinds : h[n] = IF n = k THEN p ELSE r.handler[n]
    BY <2>1
  <2> HIDE DEF h
  <2>4. [path |-> r.path, handler |-> h] \in WsRoutes
    BY <2>1, <2>2, <2>3 DEF WsRoutes
  <2> QED BY <2>4 DEF h
<1>8. wsRoutes' = [wsRoutes EXCEPT ![i] = e]
  BY <1>1, <1>6
<1>9. e.path = r.path
  OBVIOUS
<1> HIDE DEF e
<1>10. /\ wsRoutes' \in Seq(WsRoutes) /\ Len(wsRoutes') = Len(wsRoutes)
       /\ \A j \in 1..Len(wsRoutes) : wsRoutes'[j] = IF j = i THEN e ELSE wsRoutes[j]
  <2>1. wsRoutes \in Seq(WsRoutes) /\ i \in 1..Len(wsRoutes) /\ e \in WsRoutes
    BY <1>1, <1>4, <1>7
  <2> DEFINE t == [wsRoutes EXCEPT ![i] = e]
  <2>2. /\ t \in Seq(WsRoutes) /\ Len(t) = Len(wsRoutes)
        /\ \A j \in 1..Len(wsRoutes) : t[j] = IF j = i THEN e ELSE wsRoutes[j]
    BY <2>1, ExceptSeq
  <2> QED BY <1>8, <2>2
<1>11. \A j \in 1..Len(wsRoutes) : wsRoutes[j].path = wsRoutes'[j].path
  BY <1>9, <1>10
<1>12. Tables!WsPaths' = Tables!WsPaths
  BY <1>1, <1>10, <1>11, WsPathsKept DEF Tables!WsPaths
<1>13. TableInv'
  BY <1>1, <1>10 DEF TableInv
<1>14. Tables!AnswerIsKept
  BY <1>1, <1>12, SameTables DEF Tables!AnswerIsKept
<1> QED BY <1>13, <1>14 DEF TableStepFacts

LEMMA TableStep ==
    ASSUME TableInv, Tables!Next \/ UNCHANGED tableVars
    PROVE  TableStepFacts
<1>1. CASE UNCHANGED tableVars
  <2>1. routes' = routes /\ wsRoutes' = wsRoutes
    BY <1>1 DEF tableVars
  <2>2. TableInv'
    BY <2>1 DEF TableInv
  <2>3. Tables!AnswerIsKept
    BY <2>1, SameTables DEF Tables!AnswerIsKept
  <2> QED BY <2>2, <2>3 DEF TableStepFacts
<1>2. CASE Tables!Next
  BY <1>2, AddInv, AddRouteInv, SetHandlerInv DEF Tables!Next
<1> QED BY <1>1, <1>2

\* A handler is reached by the targets of its path that no earlier route takes.
LEMMA HandlersReached == TableInv => Tables!HandlerMeetsTargets
<1> SUFFICES ASSUME TableInv, NEW i \in 1..Len(wsRoutes), NEW k \in Kinds,
                    NEW t \in RouteTargets, wsRoutes[i].handler[k] # Tables!NoHandler,
                    Tables!Match(wsRoutes[i].handler[k], t)
             PROVE  /\ Tables!Match(wsRoutes[i].path, t)
                    /\ Tables!First(Tables!Matching(Tables!WsPaths, t)) <= i
  BY DEF Tables!HandlerMeetsTargets
<1> DEFINE p == wsRoutes[i].handler[k]
           q == wsRoutes[i].path
           I == Tables!Matching(Tables!WsPaths, t)
<1>1. wsRoutes \in Seq(WsRoutes) /\ wsRoutes[i] \in WsRoutes
  BY ElementOfSeq DEF TableInv
<1>2. q \in RoutePaths /\ p \in RoutePaths /\ Tables!Match(q, p)
  BY <1>1 DEF WsRoutes
<1>3. Tables!Match(q, t)
  <2>1. q \in Seq(STRING) /\ p \in Seq(STRING) /\ t \in Seq(STRING)
    BY <1>2, RouteAssumption
  <2> HIDE DEF p, q
  <2>2. Tables!Match(p, t)
    BY DEF p
  <2> QED BY <1>2, <2>1, <2>2, MatchThrough
<1>4. /\ Len(Tables!WsPaths) = Len(wsRoutes) /\ Len(wsRoutes) \in Nat
      /\ \A j \in 1..Len(wsRoutes) : Tables!WsPaths[j] = wsRoutes[j].path
  BY <1>1, WsPathsFacts, LenProperties DEF Tables!WsPaths
<1>5. i \in I /\ I \subseteq 1..Len(wsRoutes)
  BY <1>3, <1>4 DEF Tables!Matching
<1>6. I \subseteq Nat
  BY <1>4, <1>5
<1> HIDE DEF I
<1>7. Tables!First(I) <= i
  BY <1>5, <1>6, FirstFacts
<1> QED BY <1>3, <1>7 DEF I

\* Routing: whatever is registered and in whatever order, a target keeps the
\* answer it has, parameters included, and a handler that WS_MSG, WS_BIN,
\* WS_CLOSE or WS_ERR gave with a path, and that is still in place, sits on a route which takes every target
\* of that path that no earlier route takes, until a later one replaces it.
THEOREM RoutesKept == Spec => FirstRouteWins
<1>1. Init => TableInv
  <2> SUFFICES ASSUME Tables!Init PROVE TableInv
    BY InitParts
  <2>1. routes = [m \in Methods |-> <<>>] /\ wsRoutes = <<>>
    BY DEF Tables!Init
  <2>2. <<>> \in Seq(RoutePaths) /\ <<>> \in Seq(WsRoutes)
    BY EmptySeq
  <2> QED BY <2>1, <2>2 DEF TableInv
<1>2. TableInv /\ [Next]_vars => TableInv' /\ Tables!AnswerIsKept
  BY NextParts, TableStep DEF TableStepFacts
<1>3. Spec => []TableInv
  BY <1>1, <1>2, PTL DEF Spec
<1>4. Spec => [][Tables!AnswerIsKept]_(Tables!vars)
  <2>1. TableInv /\ [Next]_vars => [Tables!AnswerIsKept]_(Tables!vars)
    BY <1>2
  <2> QED BY <1>3, <2>1, PTL DEF Spec
<1>5. Spec => []Tables!HandlerMeetsTargets
  BY <1>3, HandlersReached, PTL
<1> QED BY <1>4, <1>5 DEF FirstRouteWins, Tables!FirstRouteWins
-----------------------------------------------------------------------------
(* The settings.                                                           *)

\* The parts of keys; "b" is the one of the object {"b": 5}.
Parts == STRING \cup {"b"}

LEMMA KeysHaveParts ==
    ASSUME NEW k \in Seq(STRING)
    PROVE  k \in Seq(Parts)
<1>1. Len(k) \in Nat /\ k \in [1..Len(k) -> STRING]
  BY LenProperties
<1>2. k \in [1..Len(k) -> Parts]
  BY <1>1 DEF Parts
<1> HIDE DEF Parts
<1> QED BY <1>1, <1>2, SeqDef

\* A map whose keys are finitely many sequences of parts: settings, or a
\* document.
Settled(c) ==
    c = [k \in DOMAIN c |-> c[k]] /\ DOMAIN c \subseteq Seq(Parts) /\ IsFiniteSet(DOMAIN c)

LEMMA SettledIs ==
    ASSUME NEW c, c = [k \in DOMAIN c |-> c[k]], DOMAIN c \subseteq Seq(Parts),
           IsFiniteSet(DOMAIN c)
    PROVE  Settled(c)
BY DEF Settled

\* The parts of a prefix are those of the sequence.
LEMMA PrefixIs ==
    ASSUME NEW s \in Seq(Parts), NEW t \in Seq(Parts)
    PROVE  /\ Len(s) \in Nat /\ Len(t) \in Nat
           /\ Settings!IsPrefix(s, t)
                 <=> Len(s) <= Len(t) /\ \A i \in 1..Len(s) : s[i] = t[i]
<1>1. Len(s) \in Nat /\ Len(t) \in Nat
  BY LenProperties
<1>2. SubSeq(s, 1, Len(s)) = s
  BY SubSeqFull
<1>3. Settings!IsPrefix(s, t) <=> Len(s) <= Len(t) /\ s = SubSeq(t, 1, Len(s))
  BY <1>2 DEF Settings!IsPrefix
<1>4. ASSUME Len(s) <= Len(t)
      PROVE  s = SubSeq(t, 1, Len(s)) <=> \A i \in 1..Len(s) : s[i] = t[i]
  <2> DEFINE u == SubSeq(t, 1, Len(s))
  <2>1. u \in Seq(Parts) /\ Len(u) = Len(s) /\ \A i \in 1..Len(s) : u[i] = t[i]
    BY <1>1, <1>4
  <2> HIDE DEF u
  <2>2. s = u <=> \A i \in 1..Len(s) : s[i] = u[i]
    BY <2>1, SeqEqual
  <2> QED BY <2>1, <2>2 DEF u
<1> QED BY <1>1, <1>3, <1>4

LEMMA PrefixOrder ==
    ASSUME NEW s \in Seq(Parts), NEW t \in Seq(Parts), NEW u \in Seq(Parts)
    PROVE  /\ Settings!IsPrefix(s, s) /\ Settings!IsPrefix(<<>>, s)
           /\ Settings!IsPrefix(s, t) /\ Settings!IsPrefix(t, u) => Settings!IsPrefix(s, u)
           /\ Settings!IsPrefix(s, u) /\ Settings!IsPrefix(t, u)
                => Settings!IsPrefix(s, t) \/ Settings!IsPrefix(t, s)
<1>1. Settings!IsPrefix(s, s)
  BY PrefixIs
<1>2. Settings!IsPrefix(<<>>, s)
  <2>1. PICK e \in Seq(Parts) : e = <<>> /\ Len(e) = 0
    BY EmptySeq
  <2>2. Settings!IsPrefix(e, s)
    <3>1. Len(e) <= Len(s) /\ \A i \in 1..Len(e) : e[i] = s[i]
      BY <2>1, LenProperties
    <3> QED BY <3>1, PrefixIs
  <2> QED BY <2>1, <2>2
<1>3. ASSUME Settings!IsPrefix(s, t), Settings!IsPrefix(t, u)
      PROVE  Settings!IsPrefix(s, u)
  <2>1. /\ Len(s) \in Nat /\ Len(t) \in Nat /\ Len(u) \in Nat
        /\ Len(s) <= Len(t) /\ \A i \in 1..Len(s) : s[i] = t[i]
        /\ Len(t) <= Len(u) /\ \A i \in 1..Len(t) : t[i] = u[i]
    BY <1>3, PrefixIs
  <2>2. Len(s) <= Len(u) /\ \A i \in 1..Len(s) : s[i] = u[i]
    BY <2>1
  <2> QED BY <2>2, PrefixIs
<1>4. ASSUME Settings!IsPrefix(s, u), Settings!IsPrefix(t, u)
      PROVE  Settings!IsPrefix(s, t) \/ Settings!IsPrefix(t, s)
  <2>1. /\ Len(s) \in Nat /\ Len(t) \in Nat
        /\ \A i \in 1..Len(s) : s[i] = u[i]
        /\ \A i \in 1..Len(t) : t[i] = u[i]
    BY <1>4, PrefixIs
  <2>2. CASE Len(s) <= Len(t)
    <3>1. \A i \in 1..Len(s) : s[i] = t[i]
      BY <2>1, <2>2
    <3> QED BY <2>2, <3>1, PrefixIs
  <2>3. CASE Len(t) <= Len(s)
    <3>1. \A i \in 1..Len(t) : t[i] = s[i]
      BY <2>1, <2>3
    <3> QED BY <2>3, <3>1, PrefixIs
  <2> QED BY <2>1, <2>2, <2>3
<1> QED BY <1>1, <1>2, <1>3, <1>4

\* A path and what is behind it.
LEMMA TailOf ==
    ASSUME NEW k \in Seq(Parts), NEW q \in Seq(Parts)
    PROVE  /\ k \o q \in Seq(Parts) /\ Settings!IsPrefix(k, k \o q)
           /\ SubSeq(k \o q, Len(k) + 1, Len(k \o q)) = q
<1> DEFINE s == SubSeq(k \o q, Len(k) + 1, Len(k \o q))
           m == Len(k)
           n == Len(q)
<1>1. /\ m \in Nat /\ n \in Nat /\ k \o q \in Seq(Parts) /\ Len(k \o q) = m + n
      /\ \A i \in 1..(m + n) : (k \o q)[i] = IF i <= m THEN k[i] ELSE q[i - m]
  BY LenProperties, ConcatProperties
<1>2. s \in Seq(Parts) /\ Len(s) = n /\ \A i \in 1..n : s[i] = q[i]
  BY <1>1
<1>3. s = q
  BY <1>2, SeqEqual
<1>4. Settings!IsPrefix(k, k \o q)
  <2>1. Len(k) <= Len(k \o q) /\ \A i \in 1..Len(k) : k[i] = (k \o q)[i]
    BY <1>1
  <2> QED BY <1>1, <2>1, PrefixIs
<1> QED BY <1>1, <1>3, <1>4

\* A document under a path: all its leaves lie there.
LEMMA UnderIs ==
    ASSUME NEW path \in Seq(Parts), NEW doc, Settled(doc)
    PROVE  /\ Settled(Settings!Under(path, doc))
           /\ \A p \in DOMAIN Settings!Under(path, doc) :
                 p \in Seq(Parts) /\ Settings!IsPrefix(path, p)
<1> DEFINE D == DOMAIN doc
           K == {path \o q : q \in D}
           u == Settings!Under(path, doc)
<1>1. DOMAIN u = K /\ u = [p \in DOMAIN u |-> u[p]]
  BY DEF Settings!Under
<1>2. \A q \in D : q \in Seq(Parts)
  BY DEF Settled
<1>3. \A p \in K : p \in Seq(Parts) /\ Settings!IsPrefix(path, p)
  BY <1>2, TailOf
<1>4. IsFiniteSet(K)
  <2>1. IsFiniteSet(D)
    BY DEF Settled
  <2> DEFINE f == [q \in D |-> path \o q]
  <2>2. f \in Surjection(D, K)
    BY DEF Surjection
  <2> HIDE DEF f, D, K
  <2> QED BY <2>1, <2>2, FS_Surjection
<1> HIDE DEF u, K
<1>5. Settled(u)
  BY <1>1, <1>3, <1>4, SettledIs
<1> QED BY <1>1, <1>3, <1>5 DEF u

LEMMA UnderNothing ==
    ASSUME NEW doc, Settled(doc)
    PROVE  Settings!Under(<<>>, doc) = doc
<1> DEFINE D == DOMAIN doc
<1>1. \A q \in D : q \in Seq(Parts)
  BY DEF Settled
<1>2. \A q \in D : <<>> \o q = q /\ SubSeq(q, Len(<<>>) + 1, Len(q)) = q
  <2> SUFFICES ASSUME NEW q \in Seq(Parts)
               PROVE  <<>> \o q = q /\ SubSeq(q, 0 + 1, Len(q)) = q
    BY <1>1
  <2>1. <<>> \o q = q
    BY ConcatEmptySeq
  <2>2. SubSeq(q, 1, Len(q)) = q
    BY SubSeqFull
  <2> QED BY <2>1, <2>2
<1>3. {<<>> \o q : q \in D} = D
  BY <1>2
<1>4. Settings!Under(<<>>, doc)
      = [p \in {<<>> \o q : q \in D} |-> doc[SubSeq(p, Len(<<>>) + 1, Len(p))]]
  BY Zenon DEF Settings!Under
<1>5. Settings!Under(<<>>, doc) = [p \in D |-> doc[p]]
  BY <1>2, <1>3, <1>4
<1> QED BY <1>5 DEF Settled

\* flattenJson: the leaves but for the empty objects, as texts.
FlatOf(all) ==
    [k \in {p \in DOMAIN all : all[p] # "obj"} |-> Settings!TextOf(all[k])]

LEMMA FlattenIs ==
    ASSUME NEW path, NEW doc
    PROVE  Settings!Flatten(path, doc) = FlatOf(Settings!Under(path, doc))
BY Zenon DEF Settings!Flatten, FlatOf

LEMMA FlattenSettled ==
    ASSUME NEW path \in Seq(Parts), NEW doc, Settled(doc)
    PROVE  Settled(Settings!Flatten(path, doc))
<1> DEFINE all == Settings!Under(path, doc)
           c == Settings!Flatten(path, doc)
<1>1. Settled(all)
  BY UnderIs
<1>2. c = FlatOf(all)
  BY FlattenIs
<1> HIDE DEF all, c
<1>3. c = [k \in DOMAIN c |-> c[k]] /\ DOMAIN c \subseteq DOMAIN all
  BY <1>2 DEF FlatOf
<1>4. IsFiniteSet(DOMAIN c) /\ DOMAIN c \subseteq Seq(Parts)
  BY <1>1, <1>3, FS_Subset DEF Settled
<1>5. Settled(c)
  BY <1>3, <1>4, SettledIs
<1> QED BY <1>5 DEF c

\* A map over another, a map without some keys, a map of one text.
LEMMA SettledOver ==
    ASSUME NEW f, Settled(f), NEW g, Settled(g)
    PROVE  Settled(Settings!Over(f, g))
<1> DEFINE c == Settings!Over(f, g)
<1>1. /\ DOMAIN c = DOMAIN f \cup DOMAIN g /\ c = [k \in DOMAIN c |-> c[k]]
  BY DEF Settings!Over
<1>2. IsFiniteSet(DOMAIN f \cup DOMAIN g)
  BY FS_Union DEF Settled
<1> HIDE DEF c
<1>3. DOMAIN c \subseteq Seq(Parts)
  BY <1>1 DEF Settled
<1> QED BY <1>1, <1>2, <1>3, SettledIs DEF c

LEMMA SettledPart ==
    ASSUME NEW c, Settled(c), NEW ks, ks \subseteq DOMAIN c
    PROVE  Settled([k \in ks |-> c[k]])
<1> DEFINE d == [k \in ks |-> c[k]]
<1>1. DOMAIN d = ks /\ d = [k \in DOMAIN d |-> d[k]]
  OBVIOUS
<1>2. IsFiniteSet(ks) /\ ks \subseteq Seq(Parts)
  BY FS_Subset DEF Settled
<1> HIDE DEF d
<1> QED BY <1>1, <1>2, SettledIs DEF d

LEMMA SettledWithout ==
    ASSUME NEW c, Settled(c), NEW ks
    PROVE  Settled(Settings!Without(c, ks))
<1>1. DOMAIN c \ ks \subseteq DOMAIN c
  OBVIOUS
<1> QED BY <1>1, SettledPart DEF Settings!Without

LEMMA SettledOne ==
    ASSUME NEW k \in Seq(Parts), NEW t
    PROVE  Settled([p \in {k} |-> t])
<1> DEFINE c == [p \in {k} |-> t]
<1>1. /\ DOMAIN c = {k} /\ c = [p \in DOMAIN c |-> c[p]]
  OBVIOUS
<1>2. IsFiniteSet({k})
  BY FS_Singleton
<1> HIDE DEF c
<1> QED BY <1>1, <1>2, SettledIs DEF c

LEMMA SettledNone == Settled(Settings!None) /\ Settled(Settings!Null)
<1>1. Settled(Settings!None)
  <2> DEFINE c == Settings!None
  <2>1. DOMAIN c = {} /\ c = [p \in DOMAIN c |-> c[p]]
    BY DEF Settings!None
  <2>2. IsFiniteSet({})
    BY FS_EmptySet
  <2> HIDE DEF c
  <2> QED BY <2>1, <2>2, SettledIs DEF c
<1>2. Settled(Settings!Null)
  BY EmptySeq, SettledOne DEF Settings!Null
<1> QED BY <1>1, <1>2

LEMMA ParsedSettled ==
    ASSUME NEW t
    PROVE  Settled(Settings!Parsed(t))
<1>1. <<"b">> \in Seq(Parts) /\ <<>> \in Seq(Parts)
  <2>1. Append(<<>>, "b") = <<"b">>
    OBVIOUS
  <2>2. <<>> \in Seq(Parts)
    BY EmptySeq
  <2>3. "b" \in Parts
    BY DEF Parts
  <2>4. Append(<<>>, "b") \in Seq(Parts)
    BY <2>2, <2>3, AppendProperties
  <2> QED BY <2>1, <2>2, <2>4
<1>2. \/ Settings!Parsed(t) = [p \in {<<>>} |-> "word"]
      \/ Settings!Parsed(t) = [p \in {<<"b">>} |-> "num"]
      \/ Settings!Parsed(t) = [p \in {<<>>} |-> t]
  BY DEF Settings!Parsed
<1>3. CASE Settings!Parsed(t) = [p \in {<<>>} |-> "word"]
  BY <1>1, <1>3, SettledOne
<1>4. CASE Settings!Parsed(t) = [p \in {<<"b">>} |-> "num"]
  BY <1>1, <1>4, SettledOne
<1>5. CASE Settings!Parsed(t) = [p \in {<<>>} |-> t]
  BY <1>1, <1>5, SettledOne
<1> QED BY <1>2, <1>3, <1>4, <1>5

\* The orders of a map are those of its keys, each once.
LEMMA OrdersAre ==
    ASSUME NEW c, IsFiniteSet(DOMAIN c), NEW s \in Settings!Orders(c)
    PROVE  /\ s \in Seq(DOMAIN c)
           /\ \A i, j \in 1..Len(s) : i # j => s[i] # s[j]
           /\ \A k \in DOMAIN c : \E i \in 1..Len(s) : s[i] = k
<1> DEFINE K == DOMAIN c
           n == Cardinality(K)
<1>1. n \in Nat
  BY FS_CardinalityType
<1>2. s \in [1..n -> K] /\ \A i, j \in 1..n : i # j => s[i] # s[j]
  <2>1. Settings!Cardinality(K) = Cardinality(K)
    BY Zenon DEF Settings!Cardinality, Cardinality
  <2>2. s \in {f \in [1..Settings!Cardinality(K) -> K] :
                \A i, j \in 1..Settings!Cardinality(K) : i # j => f[i] # f[j]}
    BY Zenon DEF Settings!Orders, Settings!SetToSeqs
  <2> QED BY <2>1, <2>2
<1>3. s \in Seq(K) /\ Len(s) = n
  BY <1>1, <1>2
<1>4. s \in Injection(1..n, K)
  BY <1>2 DEF Injection, IsInjective
<1>5. IsFiniteSet(1..n) /\ Cardinality(1..n) = n
  BY <1>1, FS_Interval
<1>6. s \in Surjection(1..n, K)
  <2> HIDE DEF n, K
  <2> QED BY <1>4, <1>5, FS_Injection DEF n, K
<1>7. \A k \in K : \E i \in 1..n : s[i] = k
  BY <1>6 DEF Surjection
<1> QED BY <1>2, <1>3, <1>7

\* One round of unflattenMap's loop, and the recursive definition's solution.
Round(c, s, f, i) ==
    IF i = 0 THEN [end |-> "ok", doc |-> Settings!Null] ELSE Settings!Insert(c, f[i - 1], s[i])

LEMMA RoundsExist ==
    ASSUME NEW c, NEW s
    PROVE  \A m \in Nat : \E f : f = [i \in 0..m |-> Round(c, s, f, i)]
<1> DEFINE Good(n) == \E f : f = [i \in 0..n |-> Round(c, s, f, i)]
           S == {n \in Nat : Good(n)}
<1>1. Good(0)
  <2> DEFINE f == [i \in 0..0 |-> [end |-> "ok", doc |-> Settings!Null]]
  <2>1. f = [i \in 0..0 |-> Round(c, s, f, i)]
    BY DEF Round
  <2> QED BY <2>1
<1>2. ASSUME NEW n \in Nat, Good(n)
      PROVE  Good(n + 1)
  <2>1. PICK f : f = [i \in 0..n |-> Round(c, s, f, i)]
    BY <1>2
  <2> DEFINE g == [i \in 0..(n + 1) |-> IF i = n + 1 THEN Round(c, s, f, i) ELSE f[i]]
  <2>2. ASSUME NEW i \in 0..(n + 1)
        PROVE  g[i] = Round(c, s, g, i)
    <3>1. i # 0 => i - 1 \in 0..n /\ i - 1 \in 0..(n + 1) /\ i - 1 # n + 1
      OBVIOUS
    <3>2. i # 0 => g[i - 1] = f[i - 1]
      BY <3>1
    <3>3. g[i] = Round(c, s, f, i)
      BY <2>1
    <3> HIDE DEF g
    <3>4. Round(c, s, g, i) = Round(c, s, f, i)
      BY <3>2 DEF Round
    <3> QED BY <3>3, <3>4
  <2>3. g = [i \in 0..(n + 1) |-> Round(c, s, g, i)]
    BY <2>2
  <2> QED BY <2>3
<1> HIDE DEF Good
<1>3. 0 \in S /\ \A n \in Nat : n \in S => n + 1 \in S
  BY <1>1, <1>2
<1>4. Nat \subseteq S
  <2> HIDE DEF S
  <2> QED BY <1>3, SetInduction
<1>5. \A n \in Nat : Good(n)
  BY <1>4
<1> QED BY <1>5 DEF Good

LEMMA RoundsAre ==
    ASSUME NEW c, NEW s, Len(s) \in Nat
    PROVE  /\ Settings!UnflattenUpTo(c, s)[0] = [end |-> "ok", doc |-> Settings!Null]
           /\ \A i \in 1..Len(s) :
                 Settings!UnflattenUpTo(c, s)[i]
                    = Settings!Insert(c, Settings!UnflattenUpTo(c, s)[i - 1], s[i])
<1> DEFINE F == Settings!UnflattenUpTo(c, s)
           N == Len(s)
<1>1. F = [i \in 0..N |-> Round(c, s, F, i)]
  <2>1. F = CHOOSE f : f = [i \in 0..N |-> Round(c, s, f, i)]
    BY DEF Settings!UnflattenUpTo, Round
  <2>2. \E f : f = [i \in 0..N |-> Round(c, s, f, i)]
    BY RoundsExist
  <2> HIDE DEF F
  <2> QED BY <2>1, <2>2
<1> HIDE DEF F
<1>2. \A i \in 0..N : F[i] = Round(c, s, F, i)
  BY <1>1
<1>3. 0 \in 0..N /\ \A i \in 1..N : i \in 0..N /\ i # 0
  OBVIOUS
<1>4. F[0] = [end |-> "ok", doc |-> Settings!Null]
  BY <1>2, <1>3 DEF Round
<1>5. \A i \in 1..N : F[i] = Settings!Insert(c, F[i - 1], s[i])
  BY <1>2, <1>3 DEF Round
<1> QED BY <1>4, <1>5 DEF F

\* The document d is doc with sub put under k.
PutUnder(d, doc, k, sub) ==
    d = Settings!Over([p \in Settings!Kept(doc, k) |-> doc[p]], Settings!Under(k, sub))

\* v follows u: a round that ends well had a key that is not empty, and puts
\* what its text parses to under that key.
Puts(c, u, k, v) ==
    v.end = "ok" =>
        /\ u.end = "ok" /\ k # <<>>
        /\ PutUnder(v.doc, u.doc, k, Settings!Parsed(c[k]))

LEMMA InsertPuts ==
    ASSUME NEW c, NEW k, NEW u
    PROVE  Puts(c, u, k, Settings!Insert(c, u, k))
<1> DEFINE v == Settings!Insert(c, u, k)
           put == Settings!Over([p \in Settings!Kept(u.doc, k) |-> u.doc[p]],
                                Settings!Under(k, Settings!Parsed(c[k])))
<1>1. v = IF u.end # "ok" THEN u
          ELSE IF k = <<>> THEN [end |-> "undefined", doc |-> Settings!Null]
          ELSE IF Settings!Blocked(u.doc, k) THEN [end |-> "threw", doc |-> Settings!Null]
          ELSE [end |-> "ok", doc |-> put]
  BY Zenon DEF Settings!Insert
<1> HIDE DEF v, put
<1>2. v.end = "ok" => u.end = "ok" /\ k # <<>> /\ v.doc = put
  BY <1>1
<1> QED BY <1>2 DEF Puts, PutUnder, v, put

\* The part of a document at a key and below.
PartAt(doc, k) == [p \in Settings!AtOrBelow(doc, k) |-> doc[p]]

\* The document has under key k what its text parses to.
Has(c, doc, k) == PartAt(doc, k) = Settings!Under(k, Settings!Parsed(c[k]))

\* After i rounds that ended well the document has what came from those of the
\* i keys that stand alone, and nothing but what is under one of the i.
Placed(c, s, i, u) ==
    u.end = "ok" =>
        /\ Settled(u.doc) /\ (i = 0 => u.doc = Settings!Null)
        /\ i # 0 => \A p \in DOMAIN u.doc : \E j \in 1..i : Settings!IsPrefix(s[j], p)
        /\ \A j \in 1..i : Settings!Alone(c, s[j]) => Has(c, u.doc, s[j])

\* Then it has that under k, and elsewhere what it had.
Replaced(d, doc, k, sub) ==
    /\ Settled(d) /\ PartAt(d, k) = Settings!Under(k, sub)
    /\ \A p \in DOMAIN d : \/ Settings!IsPrefix(k, p)
                           \/ p \in DOMAIN doc /\ ~Settings!IsPrefix(p, k)
    /\ \A h \in Seq(Parts) :
          ~Settings!IsPrefix(h, k) /\ ~Settings!IsPrefix(k, h) => PartAt(d, h) = PartAt(doc, h)

LEMMA PutReplaces ==
    ASSUME NEW doc, Settled(doc), NEW k \in Seq(Parts), NEW sub, Settled(sub), NEW d,
           PutUnder(d, doc, k, sub)
    PROVE  Replaced(d, doc, k, sub)
<1> DEFINE under == Settings!Under(k, sub)
           K == Settings!Kept(doc, k)
           rest == [p \in K |-> doc[p]]
<1>1. /\ Settled(under)
      /\ \A p \in DOMAIN under : p \in Seq(Parts) /\ Settings!IsPrefix(k, p)
  BY UnderIs
<1>2. /\ K \subseteq DOMAIN doc
      /\ \A p \in DOMAIN doc :
            p \in K <=> ~Settings!IsPrefix(p, k) /\ ~Settings!IsPrefix(k, p)
  BY DEF Settings!Kept
<1> HIDE DEF under, K
<1>3. Settled(rest) /\ DOMAIN rest = K /\ \A p \in K : rest[p] = doc[p]
  BY <1>2, SettledPart
<1>4. d = Settings!Over(rest, under)
  BY DEF PutUnder, under, K
<1> HIDE DEF rest
<1>5. Settled(d)
  BY <1>1, <1>3, <1>4, SettledOver
<1>6. /\ DOMAIN d = K \cup DOMAIN under
      /\ \A p \in K : d[p] = doc[p]
      /\ \A p \in DOMAIN under : p \notin K => d[p] = under[p]
  BY <1>3, <1>4 DEF Settings!Over
<1>7. PartAt(d, k) = under
  <2>1. Settings!AtOrBelow(d, k) = DOMAIN under
    BY <1>1, <1>2, <1>6 DEF Settings!AtOrBelow
  <2>2. \A p \in DOMAIN under : d[p] = under[p]
    BY <1>1, <1>2, <1>6
  <2>3. under = [p \in DOMAIN under |-> under[p]]
    BY <1>1 DEF Settled
  <2> QED BY <2>1, <2>2, <2>3 DEF PartAt
<1>8. \A p \in DOMAIN d : \/ Settings!IsPrefix(k, p)
                          \/ p \in DOMAIN doc /\ ~Settings!IsPrefix(p, k)
  BY <1>1, <1>2, <1>6
<1>9. ASSUME NEW h \in Seq(Parts), ~Settings!IsPrefix(h, k), ~Settings!IsPrefix(k, h)
      PROVE  PartAt(d, h) = PartAt(doc, h)
  <2>1. ASSUME NEW p \in DOMAIN doc, Settings!IsPrefix(h, p)
        PROVE  p \in K
    <3>1. p \in Seq(Parts)
      BY DEF Settled
    <3>2. ~Settings!IsPrefix(p, k)
      BY <1>9, <2>1, <3>1, PrefixOrder
    <3>3. ~Settings!IsPrefix(k, p)
      BY <1>9, <2>1, <3>1, PrefixOrder
    <3> QED BY <1>2, <3>2, <3>3
  <2>2. \A p \in DOMAIN under : ~Settings!IsPrefix(h, p)
    BY <1>1, <1>9, PrefixOrder
  <2>3. Settings!AtOrBelow(d, h) = Settings!AtOrBelow(doc, h)
    BY <1>2, <1>6, <2>1, <2>2 DEF Settings!AtOrBelow
  <2>4. \A p \in Settings!AtOrBelow(doc, h) : d[p] = doc[p]
    BY <1>6, <2>1 DEF Settings!AtOrBelow
  <2> QED BY <2>3, <2>4 DEF PartAt
<1> QED BY <1>5, <1>7, <1>8, <1>9 DEF Replaced, under

LEMMA RoundPlaces ==
    ASSUME NEW c, Settled(c), NEW s \in Seq(DOMAIN c),
           \A i, j \in 1..Len(s) : i # j => s[i] # s[j],
           NEW i \in 1..Len(s), NEW u, Placed(c, s, i - 1, u)
    PROVE  Placed(c, s, i, Settings!Insert(c, u, s[i]))
<1> DEFINE k == s[i]
           v == Settings!Insert(c, u, k)
           sub == Settings!Parsed(c[k])
<1>1. i \in Nat /\ \A j \in 1..Len(s) : s[j] \in DOMAIN c
  <2> DEFINE D == DOMAIN c
  <2>1. s \in Seq(D)
    OBVIOUS
  <2> HIDE DEF D
  <2>2. \A j \in 1..Len(s) : s[j] \in D
    BY <2>1, ElementOfSeq
  <2>3. i \in Nat
    BY <2>1, LenProperties
  <2> QED BY <2>2, <2>3 DEF D
<1>2. \A j \in 1..Len(s) : s[j] \in Seq(Parts)
  BY <1>1 DEF Settled
<1>3. Puts(c, u, k, v) /\ Settled(sub) /\ k \in Seq(Parts)
  BY <1>2, InsertPuts, ParsedSettled
<1> SUFFICES ASSUME v.end = "ok"
             PROVE  /\ Settled(v.doc)
                    /\ \A p \in DOMAIN v.doc : \E j \in 1..i : Settings!IsPrefix(s[j], p)
                    /\ \A j \in 1..i : Settings!Alone(c, s[j]) => Has(c, v.doc, s[j])
  BY <1>1 DEF Placed
<1> HIDE DEF v
<1>4. /\ u.end = "ok"
      /\ PutUnder(v.doc, u.doc, k, sub)
  BY <1>3 DEF Puts
<1>5. /\ Settled(u.doc) /\ (i - 1 = 0 => u.doc = Settings!Null)
      /\ i - 1 # 0 => \A p \in DOMAIN u.doc : \E j \in 1..(i - 1) : Settings!IsPrefix(s[j], p)
      /\ \A j \in 1..(i - 1) : Settings!Alone(c, s[j]) => Has(c, u.doc, s[j])
  BY <1>4 DEF Placed
<1>6. \A j \in 1..i : j \in 1..(i - 1) \/ j = i
  BY <1>1
<1>a. \A j \in 1..(i - 1) : j \in 1..i /\ j \in 1..Len(s) /\ j # i
  <2>1. Len(s) \in Nat
    BY <1>2, LenProperties
  <2> QED BY <1>1, <2>1
<1>b. i \in 1..i
  BY <1>1
<1>7. /\ Settled(v.doc) /\ PartAt(v.doc, k) = Settings!Under(k, sub)
      /\ \A p \in DOMAIN v.doc : \/ Settings!IsPrefix(k, p)
                                 \/ p \in DOMAIN u.doc /\ ~Settings!IsPrefix(p, k)
      /\ \A h \in Seq(Parts) :
            ~Settings!IsPrefix(h, k) /\ ~Settings!IsPrefix(k, h)
               => PartAt(v.doc, h) = PartAt(u.doc, h)
  <2>1. Settled(u.doc) /\ k \in Seq(Parts) /\ Settled(sub)
    BY <1>3, <1>5
  <2> HIDE DEF k, sub
  <2>2. Replaced(v.doc, u.doc, k, sub)
    BY <1>4, <2>1, PutReplaces
  <2> QED BY <2>2 DEF Replaced
<1>8. ASSUME NEW p \in DOMAIN v.doc
      PROVE  \E j \in 1..i : Settings!IsPrefix(s[j], p)
  <2>1. CASE Settings!IsPrefix(k, p)
    BY <1>b, <2>1
  <2>2. CASE p \in DOMAIN u.doc /\ ~Settings!IsPrefix(p, k)
    <3>1. i - 1 # 0
      <4> SUFFICES ASSUME i - 1 = 0 PROVE FALSE
        OBVIOUS
      <4>1. p = <<>>
        BY <1>5, <2>2 DEF Settings!Null
      <4> QED BY <1>3, <2>2, <4>1, PrefixOrder
    <3> QED BY <1>5, <1>a, <2>2, <3>1
  <2> QED BY <1>7, <2>1, <2>2
<1>9. ASSUME NEW j \in 1..i, Settings!Alone(c, s[j])
      PROVE  Has(c, v.doc, s[j])
  <2>1. CASE j = i
    BY <1>7, <2>1 DEF Has
  <2>2. CASE j \in 1..(i - 1)
    <3>1. s[j] # k /\ k \in DOMAIN c /\ s[j] \in Seq(Parts)
      BY <1>1, <1>2, <1>a, <2>2
    <3>2. ~Settings!IsPrefix(s[j], k) /\ ~Settings!IsPrefix(k, s[j])
      BY <1>9, <3>1 DEF Settings!Alone
    <3>3. PartAt(v.doc, s[j]) = PartAt(u.doc, s[j])
      BY <1>7, <3>1, <3>2
    <3> QED BY <1>5, <1>9, <2>2, <3>3 DEF Has
  <2> QED BY <1>6, <2>1, <2>2
<1> QED BY <1>7, <1>8, <1>9

\* What unflattenMap makes of the settings c, if it ends well.
Holds(c, doc) ==
    /\ Settled(doc)
    /\ \A k \in DOMAIN c : Settings!Alone(c, k) => Has(c, doc, k)
    /\ c # Settings!None => \A p \in DOMAIN doc : \E k \in DOMAIN c : Settings!IsPrefix(k, p)

LEMMA UnflattenHolds ==
    ASSUME NEW c, Settled(c), NEW s \in Settings!Orders(c),
           Settings!Unflatten(c, s).end = "ok"
    PROVE  Holds(c, Settings!Unflatten(c, s).doc)
<1> DEFINE F == Settings!UnflattenUpTo(c, s)
           N == Len(s)
           S == {i \in Nat : i <= N => Placed(c, s, i, F[i])}
<1>1. /\ s \in Seq(DOMAIN c) /\ \A i, j \in 1..N : i # j => s[i] # s[j]
      /\ \A k \in DOMAIN c : \E i \in 1..N : s[i] = k
  BY OrdersAre DEF Settled
<1>2. N \in Nat
  BY <1>1, LenProperties
<1>3. /\ F[0] = [end |-> "ok", doc |-> Settings!Null]
      /\ \A i \in 1..N : F[i] = Settings!Insert(c, F[i - 1], s[i])
  BY <1>2, RoundsAre
<1>4. Settings!Unflatten(c, s) = F[N]
  BY DEF Settings!Unflatten
<1> HIDE DEF F
<1>5. 0 \in S
  BY <1>3, SettledNone DEF Placed
<1>6. \A n \in Nat : n \in S => n + 1 \in S
  <2> SUFFICES ASSUME NEW n \in Nat, n \in S, n + 1 <= N PROVE Placed(c, s, n + 1, F[n + 1])
    OBVIOUS
  <2> DEFINE i == n + 1
             u == F[i - 1]
  <2>1. i \in 1..N /\ i - 1 = n /\ n <= N
    BY <1>2
  <2>2. Placed(c, s, i - 1, u)
    BY <2>1
  <2>3. F[i] = Settings!Insert(c, u, s[i])
    BY <1>3, <2>1
  <2> HIDE DEF i, u
  <2>4. Placed(c, s, i, Settings!Insert(c, u, s[i]))
    BY <1>1, <2>1, <2>2, RoundPlaces
  <2>5. Placed(c, s, i, F[i])
    BY <2>3, <2>4
  <2> QED BY <2>5 DEF i
<1>7. Nat \subseteq S
  <2> HIDE DEF S
  <2> QED BY <1>5, <1>6, SetInduction
<1>8. Placed(c, s, N, F[N])
  BY <1>2, <1>7
<1>9. /\ Settled(F[N].doc)
      /\ N # 0 => \A p \in DOMAIN F[N].doc : \E j \in 1..N : Settings!IsPrefix(s[j], p)
      /\ \A j \in 1..N : Settings!Alone(c, s[j]) => Has(c, F[N].doc, s[j])
  BY <1>4, <1>8 DEF Placed
<1>10. \A k \in DOMAIN c : Settings!Alone(c, k) => Has(c, F[N].doc, k)
  BY <1>1, <1>9
<1>11. N = 0 => c = Settings!None
  <2> SUFFICES ASSUME N = 0 PROVE c = Settings!None
    OBVIOUS
  <2>1. DOMAIN c = {}
    BY <1>1
  <2> QED BY <2>1 DEF Settled, Settings!None
<1>12. \A j \in 1..N : s[j] \in DOMAIN c
  <2> DEFINE D == DOMAIN c
  <2>1. s \in Seq(D)
    BY <1>1
  <2> HIDE DEF D
  <2>2. \A j \in 1..N : s[j] \in D
    BY <2>1, ElementOfSeq
  <2> QED BY <2>2 DEF D
<1>13. c # Settings!None =>
          \A p \in DOMAIN F[N].doc : \E k \in DOMAIN c : Settings!IsPrefix(k, p)
  BY <1>9, <1>11, <1>12
<1> QED BY <1>4, <1>9, <1>10, <1>13 DEF Holds

\* After a save the file holds the settings, unless it is cut short.
SettingsInv ==
    /\ Settled(config)
    /\ file.kind \in {"absent", "torn", "json"}
    /\ file.kind = "json" => Settled(file.doc)
    /\ saved /\ file.kind # "torn" => file.kind = "json" /\ Holds(config, file.doc)

\* save() of the settings c, with the settings c afterwards.
LEMMA SettingsSaved ==
    ASSUME SettingsInv, NEW c, Settled(c), config' = c, Settings!SaveOf(c)
    PROVE  SettingsInv'
<1>1. PICK order \in Settings!Orders(c) :
        LET u == Settings!Unflatten(c, order)
        IN  \/ u.end = "ok" /\ file' = [kind |-> "json", doc |-> u.doc]
            \/ file' = [kind |-> "torn", doc |-> Settings!None]
            \/ saved' = FALSE /\ UNCHANGED file
  BY Zenon DEF Settings!SaveOf
<1> DEFINE u == Settings!Unflatten(c, order)
<1>2. CASE u.end = "ok" /\ file' = [kind |-> "json", doc |-> u.doc]
  <2>1. Holds(c, u.doc)
    BY <1>2, UnflattenHolds
  <2> HIDE DEF u
  <2>2. file'.kind = "json" /\ file'.doc = u.doc
    BY <1>2
  <2>3. Settled(config') /\ Settled(file'.doc) /\ Holds(config', file'.doc)
    BY <2>1, <2>2 DEF Holds
  <2> QED BY <2>2, <2>3 DEF SettingsInv, Settled, Holds, Has, PartAt
<1>3. CASE file' = [kind |-> "torn", doc |-> Settings!None]
  <2>1. file'.kind = "torn"
    BY <1>3
  <2> QED BY <2>1 DEF SettingsInv, Settled
<1>4. CASE saved' = FALSE /\ UNCHANGED file
  BY <1>4 DEF SettingsInv, Settled
<1> QED BY <1>1, <1>2, <1>3, <1>4

\* The end of an operation that changes the settings to c.
LEMMA SettingsChanged ==
    ASSUME SettingsInv, NEW c, Settled(c), Settings!Changed(c)
    PROVE  SettingsInv'
<1>1. config' = c
  BY DEF Settings!Changed
<1>3. CASE autoSave
  <2>1. Settings!SaveOf(c)
    BY <1>3 DEF Settings!Changed
  <2> QED BY <1>1, <2>1, SettingsSaved
<1>4. CASE ~autoSave
  <2>1. saved' = FALSE /\ UNCHANGED file
    BY <1>4 DEF Settings!Changed
  <2> QED BY <1>1, <2>1 DEF SettingsInv, Settled
<1> QED BY <1>3, <1>4

\* load() and initGlobal(): what the settings are counts as saved only if they
\* did not change.
LEMMA SettingsLoaded ==
    ASSUME SettingsInv, NEW c, Settled(c), Settings!LoadInto(c)
    PROVE  SettingsInv'
<1>1. /\ config' = CASE file.kind = "absent" -> Settings!None
                     [] file.kind = "torn" -> c
                     [] file.kind = "json" -> Settings!Flatten(<<>>, file.doc)
      /\ saved' = (saved /\ config' = config) /\ file' = file
  BY DEF Settings!LoadInto
<1>2. file.kind = "json" => Settled(Settings!Flatten(<<>>, file.doc))
  BY EmptySeq, FlattenSettled DEF SettingsInv
<1>3. Settled(config')
  BY <1>1, <1>2, SettledNone DEF SettingsInv
<1>4. file' = file /\ (saved' => saved /\ config' = config)
  BY <1>1
<1>5. CASE saved'
  <2>1. config' = config /\ file' = file /\ saved' = saved
    BY <1>1, <1>4, <1>5
  <2> QED BY <2>1 DEF SettingsInv, Settled, Holds, Has, PartAt
<1>6. CASE ~saved'
  BY <1>3, <1>4, <1>6 DEF SettingsInv, Settled
<1> QED BY <1>5, <1>6

LEMMA SettingsStep ==
    ASSUME SettingsInv, Settings!Next \/ UNCHANGED settingsVars
    PROVE  SettingsInv'
<1>1. Settled(config)
  BY DEF SettingsInv
<1>2. CASE \/ Settings!NoChange
           \/ \E b \in BOOLEAN : Settings!SetAutoSave(b)
           \/ UNCHANGED settingsVars
  <2>1. config' = config /\ file' = file /\ saved' = saved
    BY <1>2 DEF Settings!NoChange, Settings!SetAutoSave, settingsVars
  <2> QED BY <2>1 DEF SettingsInv, Settled, Holds, Has, PartAt
<1>3. ASSUME NEW ks, Settings!Changed(Settings!Without(config, ks)) PROVE SettingsInv'
  BY <1>1, <1>3, SettledWithout, SettingsChanged
<1>4. ASSUME NEW k \in SettingKeys, Settings!RemoveKey(k) PROVE SettingsInv'
  BY <1>2, <1>3, <1>4 DEF Settings!RemoveKey
<1>5. ASSUME NEW path, Settings!RemoveNested(path) PROVE SettingsInv'
  BY <1>2, <1>3, <1>5 DEF Settings!RemoveNested
<1>6. ASSUME NEW k \in SettingKeys, NEW t \in Inputs, Settings!Set(k, t) PROVE SettingsInv'
  <2> DEFINE one == [p \in {k} |-> Settings!Stored(t)]
  <2>1. Settings!Changed(Settings!Over(one, config))
    BY <1>6 DEF Settings!Set
  <2>2. k \in Seq(Parts)
    BY SettingsAssumption, KeysHaveParts
  <2>3. Settled(one)
    BY <2>2, SettledOne
  <2> HIDE DEF one
  <2>4. Settled(Settings!Over(one, config))
    BY <1>1, <2>3, SettledOver
  <2> QED BY <2>1, <2>4, SettingsChanged
<1>a. ASSUME NEW doc, doc \in Docs \cup {n[2] : n \in Nested}
      PROVE  Settled(doc)
  <2>1. /\ doc = [p \in DOMAIN doc |-> doc[p]]
        /\ IsFiniteSet(DOMAIN doc) /\ DOMAIN doc \subseteq Seq(STRING)
    BY <1>a, SettingsAssumption
  <2>2. DOMAIN doc \subseteq Seq(Parts)
    BY <2>1, KeysHaveParts
  <2> QED BY <2>1, <2>2, SettledIs
<1>7. ASSUME NEW n \in Nested, Settings!SetNested(n[1], n[2]) PROVE SettingsInv'
  <2> DEFINE new == Settings!Flatten(n[1], n[2])
             rest == Settings!Without(config, Settings!AtOrBelow(config, n[1]))
  <2>1. Settings!Changed(Settings!Over(new, rest))
    BY <1>7 DEF Settings!SetNested
  <2>2. Settled(new)
    <3>1. n[1] \in Seq(Parts)
      BY SettingsAssumption, KeysHaveParts
    <3>2. n[2] \in Docs \cup {m[2] : m \in Nested}
      OBVIOUS
    <3> QED BY <1>a, <3>1, <3>2, FlattenSettled
  <2>3. Settled(rest)
    BY <1>1, SettledWithout
  <2> HIDE DEF new, rest
  <2>4. Settled(Settings!Over(new, rest))
    BY <2>2, <2>3, SettledOver
  <2> QED BY <2>1, <2>4, SettingsChanged
<1>8. ASSUME NEW d \in Docs, Settings!LoadFromJson(d) PROVE SettingsInv'
  <2>1. Settings!Changed(Settings!Flatten(<<>>, d))
    BY <1>8 DEF Settings!LoadFromJson
  <2>2. Settled(Settings!Flatten(<<>>, d))
    BY <1>a, EmptySeq, FlattenSettled
  <2> QED BY <2>1, <2>2, SettingsChanged
<1>9. ASSUME Settings!Clear PROVE SettingsInv'
  BY <1>9, SettledNone, SettingsChanged DEF Settings!Clear
<1>10. ASSUME Settings!Save PROVE SettingsInv'
  <2>1. config' = config /\ Settings!SaveOf(config)
    BY <1>10 DEF Settings!Save
  <2> QED BY <1>1, <2>1, SettingsSaved
<1>11. ASSUME Settings!Load PROVE SettingsInv'
  BY <1>1, <1>11, SettingsLoaded DEF Settings!Load
<1>12. ASSUME Settings!InitGlobal PROVE SettingsInv'
  BY <1>12, SettledNone, SettingsLoaded DEF Settings!InitGlobal
<1> QED BY <1>2, <1>4, <1>5, <1>6, <1>7, <1>8, <1>9, <1>10, <1>11, <1>12 DEF Settings!Next

\* Under the empty path a document stays where it is, and what flattenJson
\* makes of the part of it at a key is the part of what it makes of it all.
LEMMA FlattenPart ==
    ASSUME NEW doc, Settled(doc), NEW k, NEW sub,
           PartAt(doc, k) = Settings!Under(k, sub)
    PROVE  PartAt(Settings!Flatten(<<>>, doc), k) = Settings!Flatten(k, sub)
<1> DEFINE found == Settings!Flatten(<<>>, doc)
           part == PartAt(doc, k)
           A == Settings!AtOrBelow(doc, k)
           B == {p \in A : doc[p] # "obj"}
<1>1. found = FlatOf(doc)
  BY FlattenIs, UnderNothing
<1>2. Settings!Flatten(k, sub) = FlatOf(part)
  BY FlattenIs
<1>3. DOMAIN part = A /\ \A p \in A : part[p] = doc[p]
  BY DEF PartAt
<1> HIDE DEF found, part
<1>4. Settings!AtOrBelow(found, k) = B
  BY <1>1 DEF FlatOf, Settings!AtOrBelow
<1>5. \A p \in B : found[p] = Settings!TextOf(doc[p])
  BY <1>1 DEF FlatOf, Settings!AtOrBelow
<1>6. {p \in DOMAIN part : part[p] # "obj"} = B
  BY <1>3
<1> HIDE DEF A, B
<1>7. PartAt(found, k) = [p \in B |-> Settings!TextOf(doc[p])]
  BY <1>4, <1>5 DEF PartAt
<1>8. FlatOf(part) = [p \in B |-> Settings!TextOf(part[p])]
  BY <1>6 DEF FlatOf
<1>9. \A p \in B : part[p] = doc[p]
  BY <1>3 DEF B
<1> QED BY <1>2, <1>7, <1>8, <1>9 DEF found

\* Settings: after a save() that returned the file gives back under every key
\* that lies neither above nor below another what its text parses to, and
\* nothing that lies under no key, whatever keys, values and documents are
\* used, in whatever order save() walks the map, after every sequence of sets,
\* removals, loads, failed writes and restarts, unless the file was cut short
\* or there was nothing to save.
THEOREM SettingsReload == Spec => []SavedIsReloadable
<1>1. Init => SettingsInv
  <2> SUFFICES ASSUME Init PROVE SettingsInv
    OBVIOUS
  <2>1. config = Settings!None /\ file.kind = "absent" /\ saved = FALSE
    BY DEF Init, Settings!Init
  <2> QED BY <2>1, SettledNone DEF SettingsInv
<1>2. SettingsInv /\ [Next]_vars => SettingsInv'
  BY NextParts, SettingsStep
<1>3. SettingsInv => SavedIsReloadable
  <2> SUFFICES ASSUME SettingsInv, saved, file.kind # "torn"
               PROVE  LET found == Settings!Flatten(<<>>, file.doc)
                      IN  /\ file.kind = "json"
                          /\ \A k \in DOMAIN config : Settings!Alone(config, k) =>
                                [p \in Settings!AtOrBelow(found, k) |-> found[p]]
                                   = Settings!Flatten(k, Settings!Parsed(config[k]))
                          /\ config # Settings!None =>
                                \A p \in DOMAIN found : \E k \in DOMAIN config : Settings!IsPrefix(k, p)
    BY Zenon DEF SavedIsReloadable, Settings!SavedIsReloadable
  <2> DEFINE found == Settings!Flatten(<<>>, file.doc)
  <2>1. file.kind = "json" /\ Settled(file.doc) /\ Holds(config, file.doc)
    BY DEF SettingsInv
  <2>2. ASSUME NEW k \in DOMAIN config, Settings!Alone(config, k)
        PROVE  [p \in Settings!AtOrBelow(found, k) |-> found[p]]
                  = Settings!Flatten(k, Settings!Parsed(config[k]))
    <3>1. PartAt(file.doc, k) = Settings!Under(k, Settings!Parsed(config[k]))
      BY <2>1, <2>2 DEF Holds, Has
    <3>2. PartAt(found, k) = Settings!Flatten(k, Settings!Parsed(config[k]))
      BY <2>1, <3>1, FlattenPart
    <3> QED BY <3>2 DEF PartAt
  <2>3. DOMAIN found \subseteq DOMAIN file.doc
    <3>1. found = FlatOf(file.doc)
      BY <2>1, FlattenIs, UnderNothing
    <3> QED BY <3>1 DEF FlatOf
  <2>4. config # Settings!None =>
           \A p \in DOMAIN found : \E k \in DOMAIN config : Settings!IsPrefix(k, p)
    BY <2>1, <2>3 DEF Holds
  <2> QED BY <2>1, <2>2, <2>4
<1> QED BY <1>1, <1>2, <1>3, PTL DEF Spec
===============================================================================

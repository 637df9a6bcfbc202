----------------------------- MODULE ModelProofs -----------------------------
(***************************************************************************)
(* Proofs about the objects of a Model and the table they are written to,  *)
(* for every number of objects, fields and keys, batches of every length   *)
(* and any sequence of calls.  The inductive invariant has two parts:      *)
(*   RecordTyped  the table and the work of the transaction have only keys *)
(*                that the sequence has handed out;                        *)
(*   KeysKept     a key that save() inserted is still its object's key,    *)
(*                unless an answer was lost.                               *)
(* Its steps are sorted by what they do (Kinds).  Loops over statements    *)
(* and batches are treated by induction, as a set of natural numbers.      *)
(***************************************************************************)
EXTENDS PersistenceProofs, NaturalsInduction, WellFoundedInduction

-----------------------------------------------------------------------------
(* Induction, for a set of numbers.                                        *)

\* A set of natural numbers has a least element.
LEMMA LeastNumber ==
    ASSUME NEW T, T \subseteq Nat, T # {}
    PROVE  \E x \in T : \A y \in T : x <= y
<1> DEFINE R == OpToRel(<, Nat)
<1>1. IsWellFoundedOn(R, Nat)
  BY NatLessThanWellFounded
<1> HIDE DEF R
<1>2. PICK x \in T : \A y \in T : ~ (<<y, x>> \in R)
  BY <1>1, WFMin
<1>3. \A y \in T : <<y, x>> \in R <=> y < x
  BY DEF R, OpToRel
<1>4. \A y \in T : y \in Nat /\ x \in Nat /\ ~(y < x)
  BY <1>2, <1>3
<1>5. \A y \in T : x <= y
  BY <1>4
<1> QED BY <1>5

LEMMA NumberInduction ==
    ASSUME NEW S, 0 \in S, \A n \in Nat : n \in S => n + 1 \in S
    PROVE  Nat \subseteq S
<1> DEFINE Bad == Nat \ S
<1> SUFFICES ASSUME Bad # {} PROVE FALSE
  OBVIOUS
<1>1. PICK n \in Bad : \A k \in Bad : n <= k
  BY LeastNumber
<1>2. n \in Nat /\ n # 0 /\ n - 1 \in Nat /\ n - 1 \notin Bad /\ (n - 1) + 1 = n
  BY <1>1
<1> QED BY <1>2

\* The same up to a bound.
LEMMA LoopInduction ==
    ASSUME NEW m \in Nat, NEW S, 0 \in S, \A n \in 1..m : n - 1 \in S => n \in S
    PROVE  m \in S
<1> DEFINE T == {n \in Nat : n <= m => n \in S}
<1>1. 0 \in T
  OBVIOUS
<1>2. \A n \in Nat : n \in T => n + 1 \in T
  <2> SUFFICES ASSUME NEW n \in Nat, n \in T, n + 1 <= m PROVE n + 1 \in S
    OBVIOUS
  <2>1. n + 1 \in 1..m /\ (n + 1) - 1 = n /\ n \in S
    OBVIOUS
  <2> QED BY <2>1
<1>3. Nat \subseteq T
  <2> HIDE DEF T
  <2> QED BY <1>1, <1>2, NumberInduction
<1> QED BY <1>3

\* A bounded set of natural numbers has a greatest element.
LEMMA GreatestNumber ==
    ASSUME NEW m \in Nat, NEW T, T \subseteq 1..m, T # {}
    PROVE  Record!Max(T) \in T
<1> DEFINE B == {m - x : x \in T}
<1>1. B \subseteq Nat /\ B # {}
  OBVIOUS
<1>2. PICK y \in B : \A z \in B : y <= z
  <2> HIDE DEF B
  <2> QED BY <1>1, LeastNumber
<1>3. PICK x \in T : y = m - x
  BY <1>2
<1>4. \A z \in T : x >= z
  <2> TAKE z \in T
  <2>1. m - x <= m - z
    BY <1>2, <1>3
  <2> QED BY <2>1
<1>5. \E g \in T : \A z \in T : g >= z
  BY <1>4
<1> QED BY <1>5 DEF Record!Max
-----------------------------------------------------------------------------
(* Partial functions.                                                      *)

\* The functions from some elements of D to R.
Partials(D, R) == UNION {[K -> R] : K \in SUBSET D}

LEMMA PartialIs ==
    ASSUME NEW D, NEW R, NEW f
    PROVE  f \in Partials(D, R) <=> DOMAIN f \subseteq D /\ f \in [DOMAIN f -> R]
<1>1. ASSUME f \in Partials(D, R) PROVE DOMAIN f \subseteq D /\ f \in [DOMAIN f -> R]
  <2>1. PICK K \in SUBSET D : f \in [K -> R]
    BY <1>1 DEF Partials
  <2> QED BY <2>1
<1>2. ASSUME DOMAIN f \subseteq D, f \in [DOMAIN f -> R] PROVE f \in Partials(D, R)
  BY <1>2 DEF Partials
<1> QED BY <1>1, <1>2

LEMMA EmptyPartial ==
    ASSUME NEW D, NEW R
    PROVE  Record!None \in Partials(D, R) /\ DOMAIN Record!None = {}
<1>1. DOMAIN Record!None = {} /\ Record!None \in [{} -> R]
  BY DEF Record!None
<1> QED BY <1>1, PartialIs

\* A function on no element is the empty one.
LEMMA NoneOnly ==
    ASSUME NEW D, NEW R, NEW f \in Partials(D, R)
    PROVE  f = Record!None <=> DOMAIN f = {}
<1>1. f \in [DOMAIN f -> R]
  BY PartialIs
<1> QED BY <1>1 DEF Record!None

LEMMA OverDoes ==
    ASSUME NEW f, NEW g
    PROVE  /\ DOMAIN Record!Over(f, g) = DOMAIN f \cup DOMAIN g
           /\ \A x \in DOMAIN f : Record!Over(f, g)[x] = f[x]
           /\ \A x \in DOMAIN g \ DOMAIN f : Record!Over(f, g)[x] = g[x]
BY DEF Record!Over

LEMMA OverTyped ==
    ASSUME NEW D, NEW R, NEW f \in Partials(D, R), NEW g \in Partials(D, R)
    PROVE  Record!Over(f, g) \in Partials(D, R)
<1> DEFINE h == Record!Over(f, g)
<1>1. /\ DOMAIN f \subseteq D /\ \A x \in DOMAIN f : f[x] \in R
      /\ DOMAIN g \subseteq D /\ \A x \in DOMAIN g : g[x] \in R
  BY PartialIs
<1>2. DOMAIN h \subseteq D /\ \A x \in DOMAIN h : h[x] \in R
  <2>1. /\ DOMAIN h = DOMAIN f \cup DOMAIN g
        /\ \A x \in DOMAIN f : h[x] = f[x]
        /\ \A x \in DOMAIN g \ DOMAIN f : h[x] = g[x]
    BY OverDoes
  <2> HIDE DEF h
  <2> QED BY <1>1, <2>1
<1>3. h = [x \in DOMAIN h |-> h[x]]
  BY DEF Record!Over
<1>4. h \in [DOMAIN h -> R]
  <2> HIDE DEF h
  <2> QED BY <1>2, <1>3
<1> QED BY <1>2, <1>4, PartialIs

\* A larger range of keys.
LEMMA MorePartials ==
    ASSUME NEW D, NEW E, D \subseteq E, NEW R
    PROVE  Partials(D, R) \subseteq Partials(E, R)
BY DEF Partials
-----------------------------------------------------------------------------
(* Statements and tables.                                                  *)

\* What a column may hold; a row, and the columns given by a statement.
Contents == Texts \cup {"", Record!Null}
FullRows == [Fields -> Contents]
SomeColumns == Partials(Fields, Contents)

\* The tables with keys below n, and the statements that keep a table one.
TablesBelow(n) == Partials(1..(n - 1), FullRows)
StatementsBelow(n) ==
    [ins : TablesBelow(n), puts : Partials(Nat, SomeColumns), dels : SUBSET Nat]

LEMMA MoreKeys ==
    ASSUME NEW n \in Nat, NEW m \in Nat, n <= m
    PROVE  TablesBelow(n) \subseteq TablesBelow(m) /\ StatementsBelow(n) \subseteq StatementsBelow(m)
<1>1. 1..(n - 1) \subseteq 1..(m - 1)
  OBVIOUS
<1>2. TablesBelow(n) \subseteq TablesBelow(m)
  BY <1>1, MorePartials DEF TablesBelow
<1> QED BY <1>2 DEF StatementsBelow

\* A full row overwritten by some columns is a full row.
LEMMA PutTyped ==
    ASSUME NEW p \in SomeColumns, NEW r \in FullRows
    PROVE  /\ Record!Over(p, r) \in FullRows
           /\ \A f \in DOMAIN p : Record!Over(p, r)[f] = p[f]
           /\ \A f \in Fields \ DOMAIN p : Record!Over(p, r)[f] = r[f]
<1> DEFINE h == Record!Over(p, r)
<1>1. DOMAIN p \subseteq Fields /\ p \in [DOMAIN p -> Contents]
  BY PartialIs DEF SomeColumns
<1>2. DOMAIN r = Fields /\ \A f \in Fields : r[f] \in Contents
  BY DEF FullRows
<1>3. /\ DOMAIN h = DOMAIN p \cup DOMAIN r
      /\ \A x \in DOMAIN p : h[x] = p[x]
      /\ \A x \in DOMAIN r \ DOMAIN p : h[x] = r[x]
  BY OverDoes
<1>4. h = [x \in DOMAIN p \cup DOMAIN r |-> h[x]]
  BY DEF Record!Over
<1> HIDE DEF h
<1>5. DOMAIN h = Fields /\ \A f \in Fields : h[f] \in Contents
  BY <1>1, <1>2, <1>3
<1>6. h \in FullRows
  BY <1>3, <1>4, <1>5 DEF FullRows
<1> QED BY <1>1, <1>2, <1>3, <1>6 DEF h

\* What a statement does to a table.
LEMMA EffectDoes ==
    ASSUME NEW n \in Nat, NEW t \in TablesBelow(n), NEW w \in StatementsBelow(n)
    PROVE  /\ Record!Effect(t, w) \in TablesBelow(n)
           /\ DOMAIN Record!Effect(t, w) = DOMAIN w.ins \cup (DOMAIN t \ w.dels)
           /\ \A k \in DOMAIN w.ins : Record!Effect(t, w)[k] = w.ins[k]
           /\ \A k \in (DOMAIN t \ w.dels) \ DOMAIN w.ins :
                 Record!Effect(t, w)[k] =
                    IF k \in DOMAIN w.puts THEN Record!Over(w.puts[k], t[k]) ELSE t[k]
<1> DEFINE g == [k \in DOMAIN t \ w.dels |->
                   IF k \in DOMAIN w.puts THEN Record!Over(w.puts[k], t[k]) ELSE t[k]]
           e == Record!Effect(t, w)
<1>1. /\ w.ins \in TablesBelow(n) /\ w.puts \in Partials(Nat, SomeColumns)
  BY DEF StatementsBelow
<1>2. DOMAIN t \subseteq 1..(n - 1) /\ \A k \in DOMAIN t : t[k] \in FullRows
  BY PartialIs DEF TablesBelow
<1>3. \A k \in DOMAIN w.puts : w.puts[k] \in SomeColumns
  BY <1>1, PartialIs
<1>4. \A k \in DOMAIN g : g[k] \in FullRows
  <2> SUFFICES ASSUME NEW k \in DOMAIN t \ w.dels PROVE g[k] \in FullRows
    OBVIOUS
  <2>1. CASE k \in DOMAIN w.puts
    <3>1. g[k] = Record!Over(w.puts[k], t[k])
      BY <2>1
    <3> QED BY <1>2, <1>3, <2>1, <3>1, PutTyped
  <2>2. CASE k \notin DOMAIN w.puts
    BY <1>2, <2>2
  <2> QED BY <2>1, <2>2
<1>5. DOMAIN g \subseteq 1..(n - 1) /\ g = [k \in DOMAIN g |-> g[k]]
  BY <1>2
<1>6. e = Record!Over(w.ins, g)
  BY DEF Record!Effect
<1>7. \A k \in DOMAIN t \ w.dels :
         g[k] = IF k \in DOMAIN w.puts THEN Record!Over(w.puts[k], t[k]) ELSE t[k]
  OBVIOUS
<1>8. DOMAIN g = DOMAIN t \ w.dels
  OBVIOUS
<1> HIDE DEF g, e
<1>9. g \in TablesBelow(n)
  <2>1. g \in [DOMAIN g -> FullRows]
    BY <1>4, <1>5
  <2> QED BY <1>5, <2>1, PartialIs DEF TablesBelow
<1>10. e \in TablesBelow(n)
  BY <1>1, <1>6, <1>9, OverTyped DEF TablesBelow
<1>11. /\ DOMAIN e = DOMAIN w.ins \cup DOMAIN g
       /\ \A k \in DOMAIN w.ins : e[k] = w.ins[k]
       /\ \A k \in DOMAIN g \ DOMAIN w.ins : e[k] = g[k]
  <2> DEFINE a == w.ins
             h == Record!Over(a, g)
  <2>1. /\ DOMAIN h = DOMAIN a \cup DOMAIN g
        /\ \A k \in DOMAIN a : h[k] = a[k]
        /\ \A k \in DOMAIN g \ DOMAIN a : h[k] = g[k]
    <3> HIDE DEF a
    <3> QED BY OverDoes
  <2>2. e = h
    BY <1>6
  <2> QED BY <2>1, <2>2
<1>12. \A k \in (DOMAIN t \ w.dels) \ DOMAIN w.ins :
          e[k] = IF k \in DOMAIN w.puts THEN Record!Over(w.puts[k], t[k]) ELSE t[k]
  BY <1>7, <1>8, <1>11
<1> QED BY <1>8, <1>10, <1>11, <1>12 DEF e
-----------------------------------------------------------------------------
(* Several statements.                                                     *)

\* One round of the loop over them.
NextTable(t, work, f, i) == IF i = 0 THEN t ELSE Record!Effect(f[i - 1], work[i])

LEMMA TablesExist ==
    ASSUME NEW t, NEW work
    PROVE  \A m \in Nat : \E f : f = [i \in 0..m |-> NextTable(t, work, f, i)]
<1> DEFINE Good(n) == \E f : f = [i \in 0..n |-> NextTable(t, work, f, i)]
           S == {n \in Nat : Good(n)}
<1>1. Good(0)
  <2> DEFINE f == [i \in 0..0 |-> t]
  <2>1. f = [i \in 0..0 |-> NextTable(t, work, f, i)]
    BY DEF NextTable
  <2> QED BY <2>1
<1>2. ASSUME NEW n \in Nat, Good(n)
      PROVE  Good(n + 1)
  <2>1. PICK f : f = [i \in 0..n |-> NextTable(t, work, f, i)]
    BY <1>2
  <2> DEFINE g == [i \in 0..(n + 1) |-> IF i = n + 1 THEN NextTable(t, work, f, i) ELSE f[i]]
  <2>2. ASSUME NEW i \in 0..(n + 1)
        PROVE  g[i] = NextTable(t, work, g, i)
    <3>1. i # 0 => i - 1 \in 0..n /\ i - 1 \in 0..(n + 1) /\ i - 1 # n + 1
      OBVIOUS
    <3>2. i # 0 => g[i - 1] = f[i - 1]
      BY <3>1
    <3>3. g[i] = NextTable(t, work, f, i)
      BY <2>1
    <3> HIDE DEF g
    <3>4. NextTable(t, work, g, i) = NextTable(t, work, f, i)
      BY <3>2 DEF NextTable
    <3> QED BY <3>3, <3>4
  <2>3. g = [i \in 0..(n + 1) |-> NextTable(t, work, g, i)]
    BY <2>2
  <2> QED BY <2>3
<1> HIDE DEF Good
<1>3. 0 \in S /\ \A n \in Nat : n \in S => n + 1 \in S
  BY <1>1, <1>2
<1>4. Nat \subseteq S
  <2> HIDE DEF S
  <2> QED BY <1>3, NumberInduction
<1>5. \A n \in Nat : Good(n)
  BY <1>4
<1> QED BY <1>5 DEF Good

LEMMA TablesAre ==
    ASSUME NEW t, NEW work, Len(work) \in Nat
    PROVE  /\ Record!AfterEach(t, work)[0] = t
           /\ \A i \in 1..Len(work) :
                 Record!AfterEach(t, work)[i] =
                    Record!Effect(Record!AfterEach(t, work)[i - 1], work[i])
<1> DEFINE F == Record!AfterEach(t, work)
           N == Len(work)
<1>1. F = CHOOSE f : f = [i \in 0..N |-> NextTable(t, work, f, i)]
  BY DEF Record!AfterEach, NextTable
<1>2. \E f : f = [i \in 0..N |-> NextTable(t, work, f, i)]
  BY TablesExist
<1>3. F = [i \in 0..N |-> NextTable(t, work, F, i)]
  <2> HIDE DEF F
  <2> QED BY <1>1, <1>2
<1>4. \A i \in 0..N : F[i] = NextTable(t, work, F, i)
  <2> HIDE DEF F
  <2> QED BY <1>3
<1>5. 0 \in 0..N /\ \A i \in 1..N : i \in 0..N /\ i # 0
  OBVIOUS
<1> HIDE DEF F
<1>6. F[0] = t /\ \A i \in 1..N : F[i] = Record!Effect(F[i - 1], work[i])
  BY <1>4, <1>5 DEF NextTable
<1> QED BY <1>6 DEF F

\* No statement leaves the table, one more has its effect on what the others
\* leave.
LEMMA AfterDoes ==
    ASSUME NEW t, NEW W, NEW s \in Seq(W), NEW w \in W
    PROVE  /\ Record!After(t, <<>>) = t
           /\ Record!After(t, Append(s, w)) = Record!Effect(Record!After(t, s), w)
<1>1. Record!After(t, <<>>) = t
  <2>1. Len(<<>>) = 0
    OBVIOUS
  <2>2. Record!AfterEach(t, <<>>)[0] = t
    BY <2>1, TablesAre
  <2> QED BY <2>1, <2>2 DEF Record!After
<1> DEFINE r == Append(s, w)
           N == Len(s)
           F == Record!AfterEach(t, s)
           G == Record!AfterEach(t, r)
           S == {i \in Nat : F[i] = G[i]}
<1>2. /\ N \in Nat /\ r \in Seq(W) /\ Len(r) = N + 1 /\ r[N + 1] = w
      /\ \A i \in 1..N : r[i] = s[i]
  BY AppendProperties, LenProperties
<1>3. /\ F[0] = t /\ \A i \in 1..N : F[i] = Record!Effect(F[i - 1], s[i])
  <2> HIDE DEF r
  <2> QED BY <1>2, TablesAre
<1>4. /\ G[0] = t /\ \A i \in 1..(N + 1) : G[i] = Record!Effect(G[i - 1], r[i])
  <2> HIDE DEF r
  <2> QED BY <1>2, TablesAre
<1> HIDE DEF F, G, r, N
<1>5. 0 \in S /\ \A i \in 1..N : i - 1 \in S => i \in S
  <2>1. 0 \in S
    BY <1>3, <1>4
  <2>2. ASSUME NEW i \in 1..N, i - 1 \in S PROVE i \in S
    <3>1. i \in Nat /\ i \in 1..(N + 1)
      BY <1>2
    <3>2. F[i] = Record!Effect(F[i - 1], s[i]) /\ G[i] = Record!Effect(G[i - 1], r[i])
      BY <1>3, <1>4, <3>1
    <3> QED BY <1>2, <2>2, <3>1, <3>2
  <2> QED BY <2>1, <2>2
<1>6. N \in S
  <2> HIDE DEF S
  <2> QED BY <1>2, <1>5, LoopInduction
<1>7. G[N + 1] = Record!Effect(F[N], w)
  <2>1. N + 1 \in 1..(N + 1) /\ (N + 1) - 1 = N
    BY <1>2
  <2> QED BY <1>2, <1>4, <1>6, <2>1
<1>8. Record!After(t, r) = G[N + 1] /\ Record!After(t, s) = F[N]
  BY <1>2 DEF Record!After, F, G, N
<1> QED BY <1>1, <1>7, <1>8 DEF r

LEMMA AfterOne ==
    ASSUME NEW t, NEW w
    PROVE  Record!After(t, <<w>>) = Record!Effect(t, w)
<1> DEFINE none == <<>>
           W == {w}
<1>1. none \in Seq(W) /\ w \in W /\ Append(none, w) = <<w>>
  OBVIOUS
<1> HIDE DEF none, W
<1>2. Record!After(t, Append(none, w)) = Record!Effect(Record!After(t, none), w)
  <2>1. \A x, V : \A r \in Seq(V) : \A y \in V :
           Record!After(x, Append(r, y)) = Record!Effect(Record!After(x, r), y)
    BY AfterDoes
  <2>2. \A r \in Seq(W) : \A y \in W :
           Record!After(t, Append(r, y)) = Record!Effect(Record!After(t, r), y)
    BY <2>1
  <2> QED BY <1>1, <2>2
<1>3. Record!After(t, none) = t
  BY <1>1, AfterDoes DEF none
<1> QED BY <1>1, <1>2, <1>3

\* Any statements keep a table a table.
LEMMA AfterTyped ==
    ASSUME NEW n \in Nat, NEW t \in TablesBelow(n), NEW s \in Seq(StatementsBelow(n))
    PROVE  Record!After(t, s) \in TablesBelow(n)
<1> DEFINE N == Len(s)
           F == Record!AfterEach(t, s)
           S == {i \in Nat : F[i] \in TablesBelow(n)}
<1>1. N \in Nat
  BY LenProperties
<1>2. F[0] = t /\ \A i \in 1..N : F[i] = Record!Effect(F[i - 1], s[i])
  BY <1>1, TablesAre
<1> HIDE DEF F
<1>3. \A i \in 1..N : i - 1 \in S => i \in S
  <2> SUFFICES ASSUME NEW i \in 1..N, F[i - 1] \in TablesBelow(n) PROVE F[i] \in TablesBelow(n)
    OBVIOUS
  <2>1. s[i] \in StatementsBelow(n)
    BY ElementOfSeq
  <2> DEFINE u == F[i - 1]
             w == s[i]
  <2>2. F[i] = Record!Effect(u, w) /\ u \in TablesBelow(n) /\ w \in StatementsBelow(n)
    BY <1>2, <2>1
  <2> HIDE DEF u, w
  <2>3. Record!Effect(u, w) \in TablesBelow(n)
    BY <2>2, EffectDoes
  <2> QED BY <2>2, <2>3
<1>4. N \in S
  <2>1. 0 \in S
    BY <1>2
  <2> HIDE DEF S
  <2> QED BY <1>1, <1>3, <2>1, LoopInduction
<1> QED BY <1>4 DEF Record!After, F
-----------------------------------------------------------------------------
(* The shared connection.                                                  *)

LEMMA SameForRecord ==
    ASSUME NEW c
    PROVE  /\ Record!NewConnection = NewConnection
           /\ Record!Transaction(c) = Transaction(c) /\ Record!Rollback(c) = Rollback(c)
           /\ Record!Commit(c) = Commit(c)
           /\ \A d : Record!Returns(c, d) = Returns(c, d) /\ Record!Throws(c, d) = Throws(c, d)
           /\ \A w : Record!Execute(c, w) = Execute(c, w)
           /\ \A w : Record!QueryMap(c, w) = SqlStatement(c, w) \cup {Throws(c, <<>>)}
<1> USE DEF Record!NoMark, NoMark, Record!Returns, Returns, Record!Throws, Throws,
            Record!Ended, Ended, Record!Aborted, Aborted, Record!Lost, Lost,
            Record!PQexec, PQexec
<1>1. Record!NewConnection = NewConnection
  BY DEF Record!NewConnection, NewConnection
<1>2. Record!Transaction(c) = Transaction(c)
  BY DEF Record!Transaction, Transaction, Record!SqlBegin, SqlBegin
<1>3. Record!Rollback(c) = Rollback(c)
  BY DEF Record!Rollback, Rollback, Record!SqlRollback, SqlRollback
<1>4. Record!Commit(c) = Commit(c)
  <2>1. Record!SqlCommit(c) = SqlCommit(c)
    BY DEF Record!SqlCommit, SqlCommit
  <2> QED BY <2>1 DEF Record!Commit, Commit
<1>5. \A w : Record!SqlStatement(c, w) = SqlStatement(c, w)
  BY DEF Record!SqlStatement, SqlStatement
<1>6. ASSUME NEW w PROVE Record!Execute(c, w) = Execute(c, w)
  <2>1. \A d : Record!AfterFailure(d) = AfterFailure(d)
    BY DEF Record!AfterFailure, AfterFailure, Record!SqlRollback, SqlRollback
  <2> QED BY <1>5, <2>1 DEF Record!Execute, Execute
<1>7. \A w : Record!QueryMap(c, w) = SqlStatement(c, w) \cup {Throws(c, <<>>)}
  BY <1>5 DEF Record!QueryMap
<1> QED BY <1>1, <1>2, <1>3, <1>4, <1>6, <1>7

\* A connection whose work is among more statements.
LEMMA MoreStatements ==
    ASSUME NEW W, NEW V, W \subseteq V, NEW c, Clean(W, c)
    PROVE  Clean(V, c)
<1>1. c.work \in Seq(V)
  BY DEF Clean
<1> QED BY <1>1 DEF Clean

\* An outcome r of statement w on connection c: the statement is in the work
\* or permanent if the call returned; if it threw, the work is as it was or
\* gone, unless the connection was lost with the answer.
Answered(c, w, r) ==
    /\ r = [ok |-> r.ok, conn |-> r.conn, done |-> r.done] /\ r.ok \in BOOLEAN
    /\ r.ok => \/ r.done = <<>> /\ r.conn.work = Append(c.work, w)
               \/ c.work = <<>> /\ r.done = <<w>> /\ r.conn.work = <<>>
    /\ ~r.ok => \/ r.done = <<>> /\ r.conn.work \in {<<>>, c.work}
                \/ /\ r.conn.srv = "lost" /\ c.work = <<>>
                   /\ r.done = <<w>> /\ r.conn.work = <<>>

\* The three shapes of an outcome.
LEMMA Shapes ==
    ASSUME NEW W, NEW c, Clean(W, c), NEW w \in W
    PROVE  /\ \A b : Clean(W, b) /\ b.work \in {<<>>, c.work} => Answered(c, w, Throws(b, <<>>))
           /\ \A b : /\ Clean(W, b) /\ b.srv = "lost" /\ c.work = <<>>
                    => Answered(c, w, Throws(b, <<w>>))
           /\ c.srv = "active" => Answered(c, w, Returns([c EXCEPT !.work = Append(@, w)], <<>>))
           /\ c.srv = "idle" => Answered(c, w, Returns(c, <<w>>))
<1>1. ASSUME NEW b, Clean(W, b), b.work \in {<<>>, c.work}
      PROVE  Answered(c, w, Throws(b, <<>>))
  BY <1>1 DEF Answered, Throws
<1>2. ASSUME NEW b, Clean(W, b), b.srv = "lost", c.work = <<>>
      PROVE  Answered(c, w, Throws(b, <<w>>))
  BY <1>2 DEF Answered, Throws, Clean
<1>3. c.srv = "active" => Answered(c, w, Returns([c EXCEPT !.work = Append(@, w)], <<>>))
  <2>1. [c EXCEPT !.work = Append(@, w)].work = Append(c.work, w)
    BY DEF Clean
  <2> QED BY <2>1 DEF Answered, Returns
<1>4. c.srv = "idle" => Answered(c, w, Returns(c, <<w>>))
  BY DEF Answered, Returns, Clean
<1> QED BY <1>1, <1>2, <1>3, <1>4

\* The command itself.
LEMMA StatementAnswers ==
    ASSUME NEW W, NEW c, Clean(W, c), NEW w \in W, NEW q \in SqlStatement(c, w)
    PROVE  Clean(W, q.conn) /\ Answered(c, w, q)
<1>1. \/ q = Throws(c, <<>>)
      \/ q = Throws(Lost(c), <<>>)
      \/ c.srv = "active" /\ q = Returns([c EXCEPT !.work = Append(@, w)], <<>>)
      \/ c.srv = "active" /\ q = Throws(Aborted(c), <<>>)
      \/ c.srv = "idle" /\ q = Returns(c, <<w>>)
      \/ c.srv = "idle" /\ q = Throws(Lost(c), <<w>>)
  BY DEF SqlStatement, PQexec, Clean
<1>2. /\ Clean(W, Lost(c)) /\ Lost(c).work = <<>> /\ Lost(c).srv = "lost"
      /\ Clean(W, Aborted(c)) /\ Aborted(c).work = c.work
  BY Endings
<1>3. CASE q = Throws(c, <<>>)
  BY <1>3, Parts, Shapes
<1>4. CASE q = Throws(Lost(c), <<>>)
  BY <1>2, <1>4, Parts, Shapes
<1>5. CASE c.srv = "active" /\ q = Returns([c EXCEPT !.work = Append(@, w)], <<>>)
  <2> DEFINE b == [c EXCEPT !.work = Append(@, w)]
  <2>1. Append(c.work, w) \in Seq(W) /\ Len(Append(c.work, w)) = Len(c.work) + 1
        /\ Len(c.work) \in Nat
    BY DEF Clean
  <2>2. Clean(W, b)
    BY <1>5, <2>1 DEF Clean
  <2>3. Answered(c, w, Returns(b, <<>>))
    BY <1>5, Shapes
  <2>4. q = Returns(b, <<>>)
    BY <1>5
  <2> HIDE DEF b
  <2>5. q.conn = b
    BY <2>4, Parts
  <2> QED BY <2>2, <2>3, <2>4, <2>5
<1>6. CASE c.srv = "active" /\ q = Throws(Aborted(c), <<>>)
  <2> DEFINE b == Aborted(c)
  <2>1. Clean(W, b) /\ b.work \in {<<>>, c.work} /\ q = Throws(b, <<>>)
    BY <1>2, <1>6
  <2> HIDE DEF b
  <2> QED BY <2>1, Parts, Shapes
<1>7. CASE c.srv = "idle" /\ q = Returns(c, <<w>>)
  BY <1>7, Parts, Shapes
<1>8. CASE c.srv = "idle" /\ q = Throws(Lost(c), <<w>>)
  <2>1. c.work = <<>>
    BY <1>8 DEF Clean
  <2> QED BY <1>2, <1>8, <2>1, Parts, Shapes
<1> QED BY <1>1, <1>3, <1>4, <1>5, <1>6, <1>7, <1>8

\* queryMap
LEMMA QueryMapAnswers ==
    ASSUME NEW W, NEW c, Clean(W, c), NEW w \in W, NEW r \in Record!QueryMap(c, w)
    PROVE  Clean(W, r.conn) /\ Answered(c, w, r)
<1>1. r \in SqlStatement(c, w) \/ r = Throws(c, <<>>)
  BY SameForRecord
<1>2. CASE r = Throws(c, <<>>)
  BY <1>2, Parts, Shapes
<1> QED BY <1>1, <1>2, StatementAnswers

\* execute
LEMMA ExecuteAnswers ==
    ASSUME NEW W, NEW c, Clean(W, c), NEW w \in W, NEW r \in Record!Execute(c, w)
    PROVE  Clean(W, r.conn) /\ Answered(c, w, r)
<1>1. PICK q \in SqlStatement(c, w) :
         r \in IF q.ok THEN {q} ELSE {Throws(d, q.done) : d \in AfterFailure(q.conn)}
  <2>1. r \in Execute(c, w)
    BY SameForRecord
  <2> QED BY <2>1 DEF Execute
<1>2. Clean(W, q.conn) /\ Answered(c, w, q)
  BY StatementAnswers
<1>3. CASE q.ok
  BY <1>1, <1>2, <1>3
<1>4. CASE ~q.ok
  <2>1. PICK d \in AfterFailure(q.conn) : r = Throws(d, q.done)
    BY <1>1, <1>4
  <2>2. Clean(W, d) /\ d.work \in {<<>>, q.conn.work}
    BY <1>2, AfterFailureDoes
  <2>3. r.conn = d
    BY <2>1, Parts
  <2>4. CASE q.done = <<>> /\ q.conn.work \in {<<>>, c.work}
    <3>1. d.work \in {<<>>, c.work}
      BY <2>2, <2>4
    <3> QED BY <2>1, <2>2, <2>3, <2>4, <3>1, Shapes
  <2>5. CASE q.conn.srv = "lost" /\ c.work = <<>> /\ q.done = <<w>> /\ q.conn.work = <<>>
    <3>1. d.srv = "lost"
      <4>1. CASE q.conn.flag
        <5> DEFINE e == [q.conn EXCEPT !.flag = FALSE]
        <5>1. PICK p \in SqlRollback(e) : d = p.conn
          BY <4>1 DEF AfterFailure
        <5>2. Clean(W, e) /\ e.srv = "lost"
          BY <1>2, <2>5, Flags
        <5> HIDE DEF e
        <5> QED BY <5>1, <5>2, SqlRollbackDoes
      <4>2. CASE ~q.conn.flag
        BY <2>5, <4>2 DEF AfterFailure
      <4> QED BY <4>1, <4>2
    <3> QED BY <2>1, <2>2, <2>3, <2>5, <3>1, Shapes
  <2> QED BY <1>2, <1>4, <2>4, <2>5 DEF Answered
<1> QED BY <1>3, <1>4

\* The table as the connection sees it after an outcome.
ViewAfter(t, r) == Record!After(Record!After(t, r.done), r.conn.work)

\* A statement that succeeded has had its effect on what the connection saw;
\* one that failed has had none, or everything open is gone with it, unless
\* the connection was lost.
LEMMA AnswerView ==
    ASSUME NEW W, NEW c, Clean(W, c), NEW w \in W, NEW r, Clean(W, r.conn), Answered(c, w, r),
           NEW t
    PROVE  /\ r.done \in Seq(W)
           /\ r.ok => ViewAfter(t, r) = Record!Effect(Record!After(t, c.work), w)
           /\ ~r.ok => \/ ViewAfter(t, r) \in {Record!After(t, c.work), t}
                       \/ r.conn.srv = "lost"
<1> DEFINE s == c.work
<1>1. s \in Seq(W)
  BY DEF Clean
<1> HIDE DEF s
<1>2. Record!After(t, Append(s, w)) = Record!Effect(Record!After(t, s), w)
  BY <1>1, AfterDoes
<1>3. \A u : Record!After(u, <<>>) = u
  BY <1>1, AfterDoes
<1>4. Record!After(t, <<w>>) = Record!Effect(t, w)
  BY AfterOne
<1>5. <<>> \in Seq(W) /\ <<w>> \in Seq(W)
  OBVIOUS
<1>6. CASE r.ok
  BY <1>2, <1>3, <1>4, <1>5, <1>6 DEF Answered, ViewAfter, s
<1>7. CASE ~r.ok
  BY <1>3, <1>5, <1>7 DEF Answered, ViewAfter, s
<1> QED BY <1>6, <1>7 DEF Answered
-----------------------------------------------------------------------------
(* The helpers of the operations.                                          *)

\* Some of the columns of an object.
LEMMA RestrictedDoes ==
    ASSUME NEW v \in SomeColumns, NEW F
    PROVE  /\ Record!Restricted(v, F) \in SomeColumns
           /\ DOMAIN Record!Restricted(v, F) = DOMAIN v \cap F
           /\ \A f \in DOMAIN v \cap F : Record!Restricted(v, F)[f] = v[f]
<1> DEFINE r == Record!Restricted(v, F)
<1>1. DOMAIN v \subseteq Fields /\ \A f \in DOMAIN v : v[f] \in Contents
  BY PartialIs DEF SomeColumns
<1>2. DOMAIN r = DOMAIN v \cap F /\ \A f \in DOMAIN v \cap F : r[f] = v[f]
  BY DEF Record!Restricted
<1>3. r = [f \in DOMAIN r |-> r[f]]
  BY DEF Record!Restricted
<1> HIDE DEF r
<1>4. DOMAIN r \subseteq Fields /\ r \in [DOMAIN r -> Contents]
  BY <1>1, <1>2, <1>3
<1>5. r \in SomeColumns
  BY <1>4, PartialIs DEF SomeColumns
<1> QED BY <1>2, <1>5 DEF r

\* The columns of an object that are not empty.
LEMMA NonEmptyDoes ==
    ASSUME NEW v \in SomeColumns
    PROVE  /\ Record!NonEmpty(v) \in SomeColumns
           /\ DOMAIN Record!NonEmpty(v) = {f \in DOMAIN v : v[f] # ""}
           /\ \A f \in DOMAIN Record!NonEmpty(v) : Record!NonEmpty(v)[f] = v[f]
<1> DEFINE F == {f \in DOMAIN v : v[f] # ""}
<1>1. Record!NonEmpty(v) = Record!Restricted(v, F)
  BY DEF Record!NonEmpty
<1>2. DOMAIN v \cap F = F
  OBVIOUS
<1> HIDE DEF F
<1>3. /\ Record!Restricted(v, F) \in SomeColumns
      /\ DOMAIN Record!Restricted(v, F) = DOMAIN v \cap F
      /\ \A f \in DOMAIN v \cap F : Record!Restricted(v, F)[f] = v[f]
  BY RestrictedDoes
<1> QED BY <1>1, <1>2, <1>3 DEF F

\* A new row.
LEMMA RowDoes ==
    ASSUME NEW v \in SomeColumns
    PROVE  /\ Record!Row(v) \in FullRows /\ \A f \in DOMAIN v : Record!Row(v)[f] = v[f]
           /\ \A f \in Fields : Record!Row(v)[f] = IF f \in DOMAIN v THEN v[f] ELSE Record!Null
<1>1. DOMAIN v \subseteq Fields /\ \A f \in DOMAIN v : v[f] \in Contents
  BY PartialIs DEF SomeColumns
<1>2. Record!Null \in Contents
  BY DEF Contents
<1>3. Record!Row(v) = [f \in Fields |-> IF f \in DOMAIN v THEN v[f] ELSE Record!Null]
  BY DEF Record!Row
<1> QED BY <1>1, <1>2, <1>3 DEF FullRows

\* What the application passes, a loaded row and assigned values.
LEMMA ColumnsTyped ==
    /\ Inputs \subseteq SomeColumns
    /\ Record!None \in SomeColumns
    /\ \A row \in FullRows : Record!Loaded(row) \in SomeColumns
    /\ \A v, d \in SomeColumns : Record!Assigned(v, d) \in SomeColumns
    /\ \A v \in SomeColumns, f \in Fields, x \in Texts :
          Record!Over([g \in {f} |-> x], v) \in SomeColumns
<1>1. Inputs \subseteq SomeColumns
  <2>1. Texts \subseteq Contents
    BY DEF Contents
  <2>2. \A F \in SUBSET Fields : [F -> Texts] \subseteq [F -> Contents]
    BY <2>1
  <2> QED BY <2>2, InputAssumption DEF SomeColumns, Partials
<1>2. Record!None \in SomeColumns
  BY EmptyPartial DEF SomeColumns
<1>3. ASSUME NEW row \in FullRows PROVE Record!Loaded(row) \in SomeColumns
  <2>1. "" \in Contents /\ \A f \in Fields : row[f] \in Contents
    BY DEF Contents, FullRows
  <2>2. Record!Loaded(row) \in [Fields -> Contents]
    BY <2>1 DEF Record!Loaded
  <2> QED BY <2>2 DEF SomeColumns, Partials
<1>4. ASSUME NEW v \in SomeColumns, NEW d \in SomeColumns
      PROVE  Record!Assigned(v, d) \in SomeColumns
  <2>1. Record!Restricted(d, Fillable) \in SomeColumns
    BY RestrictedDoes
  <2> QED BY <2>1, OverTyped DEF Record!Assigned, SomeColumns
<1>5. ASSUME NEW v \in SomeColumns, NEW f \in Fields, NEW x \in Texts
      PROVE  Record!Over([g \in {f} |-> x], v) \in SomeColumns
  <2> DEFINE one == [g \in {f} |-> x]
  <2>1. one \in [{f} -> Contents]
    BY DEF Contents
  <2>2. one \in SomeColumns
    BY <2>1 DEF SomeColumns, Partials
  <2> HIDE DEF one
  <2>3. Record!Over(one, v) \in SomeColumns
    BY <2>2, OverTyped DEF SomeColumns
  <2> QED BY <2>3 DEF one
<1> QED BY <1>1, <1>2, <1>3, <1>4, <1>5

\* The parts of the three kinds of statements, and when they are statements.
LEMMA StatementParts ==
    ASSUME NEW n \in Nat, NEW x
    PROVE  /\ Record!InsertOf(x).ins = x /\ Record!InsertOf(x).dels = {}
           /\ DOMAIN Record!InsertOf(x).puts = {}
           /\ DOMAIN Record!UpdateOf(x).ins = {} /\ Record!UpdateOf(x).dels = {}
           /\ Record!UpdateOf(x).puts = x
           /\ DOMAIN Record!DeleteOf(x).ins = {} /\ DOMAIN Record!DeleteOf(x).puts = {}
           /\ Record!DeleteOf(x).dels = x
           /\ x \in TablesBelow(n) => Record!InsertOf(x) \in StatementsBelow(n)
           /\ x \in Partials(Nat, SomeColumns) => Record!UpdateOf(x) \in StatementsBelow(n)
           /\ x \in SUBSET Nat => Record!DeleteOf(x) \in StatementsBelow(n)
<1>1. /\ Record!None \in Partials(Nat, SomeColumns) /\ Record!None \in TablesBelow(n)
      /\ DOMAIN Record!None = {}
  BY EmptyPartial DEF TablesBelow
<1> QED BY <1>1 DEF Record!InsertOf, Record!UpdateOf, Record!DeleteOf, StatementsBelow

\* What an INSERT and an UPDATE do to a table.
LEMMA InsertDoes ==
    ASSUME NEW n \in Nat, NEW t \in TablesBelow(n), NEW x \in TablesBelow(n)
    PROVE  /\ DOMAIN Record!Effect(t, Record!InsertOf(x)) = DOMAIN x \cup DOMAIN t
           /\ \A k \in DOMAIN x : Record!Effect(t, Record!InsertOf(x))[k] = x[k]
           /\ \A k \in DOMAIN t \ DOMAIN x : Record!Effect(t, Record!InsertOf(x))[k] = t[k]
<1> DEFINE w == Record!InsertOf(x)
           e == Record!Effect(t, w)
<1>1. /\ w \in StatementsBelow(n) /\ w.ins = x /\ w.dels = {} /\ DOMAIN w.puts = {}
      /\ e = Record!Effect(t, w)
  BY StatementParts
<1> HIDE DEF e, w
<1>2. /\ DOMAIN e = DOMAIN w.ins \cup (DOMAIN t \ w.dels)
      /\ \A k \in DOMAIN w.ins : e[k] = w.ins[k]
      /\ \A k \in (DOMAIN t \ w.dels) \ DOMAIN w.ins :
            e[k] = IF k \in DOMAIN w.puts THEN Record!Over(w.puts[k], t[k]) ELSE t[k]
  BY <1>1, EffectDoes
<1> QED BY <1>1, <1>2 DEF e, w

LEMMA UpdateDoes ==
    ASSUME NEW n \in Nat, NEW t \in TablesBelow(n), NEW x \in Partials(Nat, SomeColumns)
    PROVE  /\ DOMAIN Record!Effect(t, Record!UpdateOf(x)) = DOMAIN t
           /\ \A k \in DOMAIN t, f \in Fields :
                 Record!Effect(t, Record!UpdateOf(x))[k][f] =
                    IF k \in DOMAIN x /\ f \in DOMAIN x[k] THEN x[k][f] ELSE t[k][f]
<1> DEFINE w == Record!UpdateOf(x)
           e == Record!Effect(t, w)
<1>1. /\ w \in StatementsBelow(n) /\ w.puts = x /\ w.dels = {} /\ DOMAIN w.ins = {}
      /\ e = Record!Effect(t, w)
  BY StatementParts
<1> HIDE DEF e, w
<1>2. /\ DOMAIN e = DOMAIN w.ins \cup (DOMAIN t \ w.dels)
      /\ \A k \in DOMAIN w.ins : e[k] = w.ins[k]
      /\ \A k \in (DOMAIN t \ w.dels) \ DOMAIN w.ins :
            e[k] = IF k \in DOMAIN w.puts THEN Record!Over(w.puts[k], t[k]) ELSE t[k]
  BY <1>1, EffectDoes
<1>3. DOMAIN e = DOMAIN t
  BY <1>1, <1>2
<1>4. ASSUME NEW k \in DOMAIN t, NEW f \in Fields
      PROVE  e[k][f] = IF k \in DOMAIN x /\ f \in DOMAIN x[k] THEN x[k][f] ELSE t[k][f]
  <2>1. e[k] = IF k \in DOMAIN x THEN Record!Over(x[k], t[k]) ELSE t[k]
    BY <1>1, <1>2
  <2>2. CASE k \notin DOMAIN x
    BY <2>1, <2>2
  <2>3. CASE k \in DOMAIN x
    <3> DEFINE a == x[k]
               r == t[k]
    <3>1. a \in SomeColumns /\ r \in FullRows
      BY <2>3, PartialIs DEF TablesBelow
    <3> HIDE DEF a, r
    <3>2. /\ \A g \in DOMAIN a : Record!Over(a, r)[g] = a[g]
          /\ \A g \in Fields \ DOMAIN a : Record!Over(a, r)[g] = r[g]
      BY <3>1, PutTyped
    <3>3. e[k] = Record!Over(a, r)
      BY <2>1, <2>3 DEF a, r
    <3> QED BY <2>3, <3>2, <3>3 DEF a, r
  <2> QED BY <2>2, <2>3
<1> QED BY <1>3, <1>4 DEF e, w
-----------------------------------------------------------------------------
(* The shape of a Model's state, and what keeps it.                        *)

Things == [id : Nat, vals : SomeColumns]

\* The table and the work of the transaction have only keys that the sequence
\* has handed out, and an object has columns of the table.
RecordTyped ==
    /\ seq \in Nat \ {0}
    /\ rows \in TablesBelow(seq)
    /\ Clean(StatementsBelow(seq), shared)
    /\ objs \in Partials(Objs, Things)

\* An outcome with statements about keys below n.
Sound(n, r) == Clean(StatementsBelow(n), r.conn) /\ r.done \in Seq(StatementsBelow(n))

LEMMA OutcomeTyped ==
    ASSUME RecordTyped, seq' \in Nat, seq <= seq', NEW r, Sound(seq', r), Record!Outcome(r),
           objs' \in Partials(Objs, Things)
    PROVE  RecordTyped'
<1>1. seq \in Nat /\ rows \in TablesBelow(seq) /\ seq' \in Nat \ {0}
  BY DEF RecordTyped
<1>2. rows \in TablesBelow(seq')
  BY <1>1, MoreKeys
<1>3. rows' \in TablesBelow(seq')
  <2>1. Record!After(rows, r.done) \in TablesBelow(seq')
    BY <1>2, AfterTyped DEF Sound
  <2> QED BY <2>1 DEF Record!Outcome
<1>4. Clean(StatementsBelow(seq'), shared')
  BY DEF Record!Outcome, Sound
<1>5. TablesBelow(seq)' = TablesBelow(seq') /\ StatementsBelow(seq)' = StatementsBelow(seq')
  BY DEF TablesBelow, StatementsBelow, Partials, FullRows, SomeColumns, Contents
<1> QED BY <1>1, <1>3, <1>4, <1>5 DEF RecordTyped, Clean, Partials

\* An object that is there.
LEMMA ThingThere ==
    ASSUME RecordTyped, NEW o \in DOMAIN objs
    PROVE  /\ o \in Objs /\ objs[o] \in Things /\ objs[o].id \in Nat
           /\ objs[o].vals \in SomeColumns
<1>1. DOMAIN objs \subseteq Objs /\ objs \in [DOMAIN objs -> Things]
  BY PartialIs DEF RecordTyped
<1> QED BY <1>1 DEF Things

\* A new object, and an object that changes.
SameIds == \A p \in DOMAIN objs : p \in DOMAIN objs' /\ objs'[p].id = objs[p].id

LEMMA MakeTyped ==
    ASSUME RecordTyped, NEW o \in Objs, NEW m \in Things, Record!Make(o, m)
    PROVE  objs' \in Partials(Objs, Things) /\ SameIds
<1> DEFINE one == [p \in {o} |-> m]
<1>1. one \in Partials(Objs, Things) /\ DOMAIN one = {o}
  <2>1. one \in [{o} -> Things] /\ {o} \in SUBSET Objs
    OBVIOUS
  <2> QED BY <2>1 DEF Partials
<1>2. objs' = Record!Over(one, objs) /\ o \notin DOMAIN objs
  BY DEF Record!Make, Record!Present
<1> HIDE DEF one
<1>3. Record!Over(one, objs) \in Partials(Objs, Things)
  BY <1>1, OverTyped DEF RecordTyped
<1>4. /\ DOMAIN Record!Over(one, objs) = DOMAIN one \cup DOMAIN objs
      /\ \A x \in DOMAIN objs \ DOMAIN one : Record!Over(one, objs)[x] = objs[x]
  BY OverDoes
<1> QED BY <1>1, <1>2, <1>3, <1>4 DEF SameIds

LEMMA ChangeTyped ==
    ASSUME RecordTyped, NEW o \in DOMAIN objs, NEW v \in SomeColumns,
           objs' = [objs EXCEPT ![o].vals = v]
    PROVE  objs' \in Partials(Objs, Things) /\ SameIds
<1>1. DOMAIN objs \subseteq Objs /\ objs \in [DOMAIN objs -> Things]
  BY PartialIs DEF RecordTyped
<1>2. [objs[o] EXCEPT !.vals = v] \in Things /\ [objs[o] EXCEPT !.vals = v].id = objs[o].id
  BY <1>1 DEF Things
<1>3. /\ objs' \in [DOMAIN objs -> Things] /\ objs'[o] = [objs[o] EXCEPT !.vals = v]
      /\ \A p \in DOMAIN objs \ {o} : objs'[p] = objs[p]
  BY <1>1, <1>2
<1>4. DOMAIN objs' = DOMAIN objs
  BY <1>3
<1>5. objs' \in Partials(Objs, Things)
  <2>1. DOMAIN objs \in SUBSET Objs /\ objs' \in [DOMAIN objs -> Things]
    BY <1>1, <1>3
  <2> QED BY <2>1 DEF Partials
<1>6. \A p \in DOMAIN objs : objs'[p].id = objs[p].id
  BY <1>2, <1>3
<1> QED BY <1>4, <1>5, <1>6 DEF SameIds

\* A call that only concerns objects in memory.
InMemory ==
    /\ UNCHANGED <<shared, rows, seq, maker, unsure>>
    /\ SameIds
    /\ answer'.op \notin {"save", "saveMany"}

LEMMA MemoryTyped ==
    ASSUME RecordTyped, InMemory, objs' \in Partials(Objs, Things)
    PROVE  RecordTyped'
<1>1. UNCHANGED <<shared, rows, seq>>
  BY DEF InMemory
<1> QED BY <1>1 DEF RecordTyped, TablesBelow, StatementsBelow, Partials, FullRows, SomeColumns,
                    Contents, Clean

LEMMA MemoryCalls ==
    ASSUME RecordTyped, NEW o \in Objs,
           \/ \E data \in Inputs, all \in BOOLEAN : Record!Create(o, data, all)
           \/ \E data \in Inputs : Record!Fill(o, data)
           \/ \E f \in Fields, v \in Texts : Record!SetAttribute(o, f, v)
           \/ \E id \in 1..MaxId : Record!Find(o, id)
    PROVE  RecordTyped' /\ InMemory
<1> SUFFICES objs' \in Partials(Objs, Things) /\ SameIds /\ InMemory
  BY MemoryTyped
<1>1. \A op, b : Record!Called(op, TRUE, b) \/ Record!Called(op, FALSE, b) => answer'.op = op
  BY DEF Record!Called
<1>2. ASSUME NEW data \in Inputs, NEW all \in BOOLEAN, Record!Create(o, data, all)
      PROVE  objs' \in Partials(Objs, Things) /\ SameIds /\ InMemory
  <2> DEFINE v == IF all THEN data ELSE Record!Assigned(Record!None, data)
  <2>1. v \in SomeColumns
    BY ColumnsTyped
  <2>2. Record!Make(o, [id |-> 0, vals |-> v])
    BY <1>2 DEF Record!Create
  <2> HIDE DEF v
  <2>3. [id |-> 0, vals |-> v] \in Things
    BY <2>1 DEF Things
  <2>4. objs' \in Partials(Objs, Things) /\ SameIds
    BY <2>2, <2>3, MakeTyped
  <2> QED BY <1>1, <1>2, <2>4 DEF Record!Create, Record!Tables, InMemory
<1>3. ASSUME NEW data \in Inputs, Record!Fill(o, data)
      PROVE  objs' \in Partials(Objs, Things) /\ SameIds /\ InMemory
  <2>1. /\ o \in DOMAIN objs
        /\ objs' = [objs EXCEPT ![o].vals = Record!Assigned(objs[o].vals, data)]
    BY <1>3 DEF Record!Fill, Record!Present
  <2>2. Record!Assigned(objs[o].vals, data) \in SomeColumns
    BY <2>1, ThingThere, ColumnsTyped
  <2>3. objs' \in Partials(Objs, Things) /\ SameIds
    BY <2>1, <2>2, ChangeTyped
  <2> QED BY <1>1, <1>3, <2>3 DEF Record!Fill, Record!Tables, InMemory
<1>4. ASSUME NEW f \in Fields, NEW x \in Texts, Record!SetAttribute(o, f, x)
      PROVE  objs' \in Partials(Objs, Things) /\ SameIds /\ InMemory
  <2> DEFINE v == Record!Over([g \in {f} |-> x], objs[o].vals)
  <2>1. o \in DOMAIN objs /\ objs' = [objs EXCEPT ![o].vals = v]
    BY <1>4 DEF Record!SetAttribute, Record!Present
  <2>2. v \in SomeColumns
    BY <2>1, ThingThere, ColumnsTyped
  <2> HIDE DEF v
  <2>3. objs' \in Partials(Objs, Things) /\ SameIds
    BY <2>1, <2>2, ChangeTyped
  <2> QED BY <1>1, <1>4, <2>3 DEF Record!SetAttribute, Record!Tables, InMemory
<1>5. ASSUME NEW id \in 1..MaxId, Record!Find(o, id)
      PROVE  objs' \in Partials(Objs, Things) /\ SameIds /\ InMemory
  <2>1. CASE UNCHANGED objs
    <3>1. objs' \in Partials(Objs, Things) /\ SameIds
      BY <2>1 DEF SameIds, RecordTyped
    <3> QED BY <1>1, <1>5, <3>1 DEF Record!Find, Record!Tables, InMemory
  <2>2. CASE /\ id \in DOMAIN rows
             /\ Record!Make(o, [id |-> id, vals |-> Record!Loaded(rows[id])])
    <3>1. DOMAIN rows \subseteq 1..(seq - 1) /\ rows[id] \in FullRows /\ id \in Nat
      <4>1. DOMAIN rows \subseteq 1..(seq - 1) /\ rows \in [DOMAIN rows -> FullRows]
        BY PartialIs DEF RecordTyped, TablesBelow
      <4> QED BY <2>2, <4>1
    <3>2. [id |-> id, vals |-> Record!Loaded(rows[id])] \in Things
      BY <3>1, ColumnsTyped DEF Things
    <3>3. objs' \in Partials(Objs, Things) /\ SameIds
      BY <2>2, <3>2, MakeTyped
    <3> QED BY <1>1, <1>5, <3>3 DEF Record!Find, Record!Tables, InMemory
  <2> QED BY <1>5, <2>1, <2>2 DEF Record!Find, Record!Committed
<1> QED BY <1>2, <1>3, <1>4, <1>5
-----------------------------------------------------------------------------
(* delete_ of a whole collection: a loop over its objects.                 *)

\* One round of it.
NextOutcomes(b, f, i) ==
    IF i = 0 THEN {Record!Returns(shared, <<>>)}
    ELSE UNION {{[s EXCEPT !.done = r.done \o @] : s \in Record!Deletes(r.conn, b[i])}
                  : r \in f[i - 1]}

LEMMA OutcomesExist ==
    ASSUME NEW b
    PROVE  \A m \in Nat : \E f : f = [i \in 0..m |-> NextOutcomes(b, f, i)]
<1> DEFINE Good(n) == \E f : f = [i \in 0..n |-> NextOutcomes(b, f, i)]
           S == {n \in Nat : Good(n)}
<1>1. Good(0)
  <2> DEFINE f == [i \in 0..0 |-> {Record!Returns(shared, <<>>)}]
  <2>1. f = [i \in 0..0 |-> NextOutcomes(b, f, i)]
    BY DEF NextOutcomes
  <2> QED BY <2>1
<1>2. ASSUME NEW n \in Nat, Good(n)
      PROVE  Good(n + 1)
  <2>1. PICK f : f = [i \in 0..n |-> NextOutcomes(b, f, i)]
    BY <1>2
  <2> DEFINE g == [i \in 0..(n + 1) |-> IF i = n + 1 THEN NextOutcomes(b, f, i) ELSE f[i]]
  <2>2. ASSUME NEW i \in 0..(n + 1)
        PROVE  g[i] = NextOutcomes(b, g, i)
    <3>1. i # 0 => i - 1 \in 0..n /\ i - 1 \in 0..(n + 1) /\ i - 1 # n + 1
      OBVIOUS
    <3>2. i # 0 => g[i - 1] = f[i - 1]
      BY <3>1
    <3>3. g[i] = NextOutcomes(b, f, i)
      BY <2>1
    <3> HIDE DEF g
    <3>4. NextOutcomes(b, g, i) = NextOutcomes(b, f, i)
      BY <3>2 DEF NextOutcomes
    <3> QED BY <3>3, <3>4
  <2>3. g = [i \in 0..(n + 1) |-> NextOutcomes(b, g, i)]
    BY <2>2
  <2> QED BY <2>3
<1> HIDE DEF Good
<1>3. 0 \in S /\ \A n \in Nat : n \in S => n + 1 \in S
  BY <1>1, <1>2
<1>4. Nat \subseteq S
  <2> HIDE DEF S
  <2> QED BY <1>3, NumberInduction
<1>5. \A n \in Nat : Good(n)
  BY <1>4
<1> QED BY <1>5 DEF Good

\* A single delete_.
LEMMA DeleteSound ==
    ASSUME RecordTyped, NEW o \in DOMAIN objs, NEW c, Clean(StatementsBelow(seq), c),
           NEW r \in Record!Deletes(c, o)
    PROVE  Sound(seq, r) /\ r = [ok |-> r.ok, conn |-> r.conn, done |-> r.done]
<1>1. CASE r = Record!Returns(c, <<>>)
  <2>1. r = Returns(c, <<>>)
    BY <1>1, SameForRecord
  <2>2. r = [ok |-> TRUE, conn |-> c, done |-> <<>>]
    BY <2>1 DEF Returns
  <2>3. <<>> \in Seq(StatementsBelow(seq))
    BY EmptySeq
  <2> QED BY <2>2, <2>3 DEF Sound
<1>2. CASE r \in Record!Execute(c, Record!DeleteOf({objs[o].id}))
  <2> DEFINE w == Record!DeleteOf({objs[o].id})
             W == StatementsBelow(seq)
  <2>1. w \in W
    <3>1. {objs[o].id} \in SUBSET Nat
      BY ThingThere
    <3> QED BY <3>1, StatementParts DEF RecordTyped
  <2>2. r \in Record!Execute(c, w) /\ Clean(W, c)
    BY <1>2
  <2>3. W = StatementsBelow(seq)
    OBVIOUS
  <2> HIDE DEF w, W
  <2>4. Clean(W, r.conn) /\ Answered(c, w, r)
    BY <2>1, <2>2, ExecuteAnswers
  <2>5. r.done \in Seq(W)
    BY <2>1, <2>2, <2>4, AnswerView
  <2> QED BY <2>3, <2>4, <2>5 DEF Sound, Answered
<1> QED BY <1>1, <1>2 DEF Record!Deletes

\* After any number of rounds the work and what is permanent are statements.
LEMMA DeletesAllSound ==
    ASSUME RecordTyped, NEW b \in Seq(DOMAIN objs), NEW r \in Record!DeletesAll(b)
    PROVE  Sound(seq, r)
<1> DEFINE F == Record!DeletesUpTo(b)
           N == Len(b)
           S == {i \in Nat : \A q \in F[i] : Sound(seq, q)}
<1>1. N \in Nat
  BY LenProperties
<1>2. F = [i \in 0..N |-> NextOutcomes(b, F, i)]
  <2>1. F = CHOOSE f : f = [i \in 0..N |-> NextOutcomes(b, f, i)]
    BY DEF Record!DeletesUpTo, NextOutcomes
  <2>2. \E f : f = [i \in 0..N |-> NextOutcomes(b, f, i)]
    BY <1>1, OutcomesExist
  <2> HIDE DEF F
  <2> QED BY <2>1, <2>2
<1>3. r \in F[N]
  BY DEF Record!DeletesAll
<1> HIDE DEF F
<1>4. \A i \in 0..N : F[i] = NextOutcomes(b, F, i)
  BY <1>2
<1>5. 0 \in S
  <2>1. F[0] = {Record!Returns(shared, <<>>)}
    <3>1. 0 \in 0..N
      BY <1>1
    <3>2. NextOutcomes(b, F, 0) = {Record!Returns(shared, <<>>)}
      BY Zenon DEF NextOutcomes
    <3> QED BY <1>4, <3>1, <3>2
  <2>2. Record!Returns(shared, <<>>) = Returns(shared, <<>>)
    BY SameForRecord
  <2>3. Returns(shared, <<>>).conn = shared /\ Returns(shared, <<>>).done = <<>>
    BY Parts
  <2>4. <<>> \in Seq(StatementsBelow(seq))
    BY EmptySeq
  <2>5. Sound(seq, Returns(shared, <<>>))
    BY <2>3, <2>4 DEF Sound, RecordTyped
  <2> QED BY <2>1, <2>2, <2>5
<1>6. ASSUME NEW i \in 1..N, i - 1 \in S PROVE i \in S
  <2> SUFFICES ASSUME NEW q \in F[i] PROVE Sound(seq, q)
    OBVIOUS
  <2>0. PICK p \in F[i - 1] : q \in {[s EXCEPT !.done = p.done \o @] : s \in Record!Deletes(p.conn, b[i])}
    <3>1. i \in 0..N /\ i # 0
      OBVIOUS
    <3>2. F[i] = UNION {{[s EXCEPT !.done = p.done \o @] : s \in Record!Deletes(p.conn, b[i])}
                          : p \in F[i - 1]}
      BY <1>4, <3>1 DEF NextOutcomes
    <3> QED BY <3>2
  <2>1. PICK e \in Record!Deletes(p.conn, b[i]) : q = [e EXCEPT !.done = p.done \o @]
    BY <2>0
  <2>2. Sound(seq, p)
    BY <1>6, <2>0
  <2>3. b[i] \in DOMAIN objs
    BY ElementOfSeq
  <2>4. Sound(seq, e) /\ e = [ok |-> e.ok, conn |-> e.conn, done |-> e.done]
    BY <2>1, <2>2, <2>3, DeleteSound DEF Sound
  <2>5. q.conn = e.conn /\ q.done = p.done \o e.done
    BY <2>1, <2>4
  <2>6. p.done \o e.done \in Seq(StatementsBelow(seq))
    BY <2>2, <2>4, ConcatProperties DEF Sound
  <2> QED BY <2>4, <2>5, <2>6 DEF Sound
<1>7. N \in S
  <2> HIDE DEF S
  <2> QED BY <1>1, <1>5, <1>6, LoopInduction
<1> QED BY <1>3, <1>7

\* A batch is a sequence of objects.
LEMMA BatchIs ==
    ASSUME NEW b \in Record!Batches
    PROVE  b \in Seq(DOMAIN objs) /\ Len(b) \in Nat /\ Len(b) > 0 /\ DOMAIN b = 1..Len(b)
<1>1. PICK n \in 1..MaxBatch : b \in [1..n -> DOMAIN objs]
  BY DEF Record!Batches, Record!Present
<1>2. n \in Nat /\ n > 0
  BY InputAssumption
<1>3. b \in Seq(DOMAIN objs)
  BY <1>1, <1>2, SeqDef
<1>4. DOMAIN b = 1..n
  BY <1>1
<1>5. Len(b) \in Nat /\ DOMAIN b = 1..Len(b)
  BY <1>3, LenProperties
<1>6. Len(b) > 0
  BY <1>2, <1>4, <1>5
<1> QED BY <1>3, <1>5, <1>6
-----------------------------------------------------------------------------
(* The writes that change no object.                                       *)

\* Such a call with outcome r.
OtherWrite(r) ==
    /\ Sound(seq, r) /\ Record!Outcome(r)
    /\ UNCHANGED <<seq, objs, maker, unsure>>
    /\ answer'.op \notin {"save", "saveMany"}

LEMMA OtherTyped ==
    ASSUME RecordTyped, NEW r, OtherWrite(r)
    PROVE  RecordTyped'
<1>1. seq' \in Nat /\ seq <= seq' /\ objs' \in Partials(Objs, Things)
  BY DEF OtherWrite, RecordTyped
<1>2. Sound(seq', r) /\ Record!Outcome(r)
  BY DEF OtherWrite
<1> QED BY <1>1, <1>2, OutcomeTyped

\* The outcomes of a statement on the shared connection.
LEMMA SharedSound ==
    ASSUME RecordTyped, NEW w \in StatementsBelow(seq), NEW r \in Record!Execute(shared, w)
    PROVE  Sound(seq, r)
<1> DEFINE W == StatementsBelow(seq)
<1>1. w \in W /\ Clean(W, shared) /\ W = StatementsBelow(seq)
  BY DEF RecordTyped
<1> HIDE DEF W
<1>2. Clean(W, r.conn) /\ Answered(shared, w, r)
  BY <1>1, ExecuteAnswers
<1>3. r.done \in Seq(W)
  BY <1>1, <1>2, AnswerView
<1> QED BY <1>1, <1>2, <1>3 DEF Sound

LEMMA DeletionCalls ==
    ASSUME RecordTyped,
           \/ \E o \in Objs : Record!Delete(o)
           \/ \E b \in Record!Batches : Record!DeleteAll(b)
           \/ \E id \in 1..MaxId : Record!DeleteById(id)
           \/ \E f \in Fields, v \in Texts : Record!DeleteWhere(f, v)
    PROVE  \E r : OtherWrite(r)
<1> USE DEF Record!Write, Record!Memory, Record!Called
<1>1. seq \in Nat /\ Clean(StatementsBelow(seq), shared)
  BY DEF RecordTyped
<1>2. ASSUME NEW o \in Objs, Record!Delete(o) PROVE \E r : OtherWrite(r)
  <2>1. o \in DOMAIN objs
    BY <1>2 DEF Record!Delete, Record!Present
  <2>2. PICK r \in Record!Deletes(shared, o) :
           /\ Record!Outcome(r) /\ UNCHANGED <<seq, objs, maker, unsure>>
           /\ answer'.op = "delete"
    BY <1>2 DEF Record!Delete
  <2>3. Sound(seq, r)
    BY <1>1, <2>1, DeleteSound
  <2> QED BY <2>2, <2>3 DEF OtherWrite
<1>3. ASSUME NEW b \in Record!Batches, Record!DeleteAll(b) PROVE \E r : OtherWrite(r)
  <2>1. PICK r \in Record!DeletesAll(b) :
           /\ Record!Outcome(r) /\ UNCHANGED <<seq, objs, maker, unsure>>
           /\ answer'.op = "deleteAll"
    BY <1>3 DEF Record!DeleteAll
  <2>2. Sound(seq, r)
    BY BatchIs, DeletesAllSound
  <2> QED BY <2>1, <2>2 DEF OtherWrite
<1>4. ASSUME NEW id \in 1..MaxId, Record!DeleteById(id) PROVE \E r : OtherWrite(r)
  <2>1. PICK r \in Record!Execute(shared, Record!DeleteOf({id})) :
           /\ Record!Outcome(r) /\ UNCHANGED <<seq, objs, maker, unsure>>
           /\ answer'.op = "deleteById"
    BY <1>4 DEF Record!DeleteById
  <2>2. Record!DeleteOf({id}) \in StatementsBelow(seq)
    <3>1. {id} \in SUBSET Nat
      OBVIOUS
    <3> QED BY <1>1, <3>1, StatementParts
  <2>3. Sound(seq, r)
    BY <2>2, SharedSound
  <2> QED BY <2>1, <2>3 DEF OtherWrite
<1>5. ASSUME NEW f \in Fields, NEW v \in Texts, Record!DeleteWhere(f, v)
      PROVE  \E r : OtherWrite(r)
  <2> DEFINE t == Record!View(rows, shared)
             ids == {k \in DOMAIN t : t[k][f] = v}
  <2>1. PICK r \in Record!Execute(shared, Record!DeleteOf(ids)) :
           /\ Record!Outcome(r) /\ UNCHANGED <<seq, objs, maker, unsure>>
           /\ answer'.op = "deleteWhere"
    <3> DEFINE outs == Record!Execute(shared, Record!DeleteOf(ids))
    <3>1. Record!Write("deleteWhere", <<>>, outs, Record!Told)
      BY <1>5, Zenon DEF Record!DeleteWhere
    <3> HIDE DEF outs
    <3>2. \E r \in outs :
             /\ Record!Outcome(r) /\ UNCHANGED <<seq, objs, maker, unsure>>
             /\ answer'.op = "deleteWhere"
      BY <3>1
    <3> QED BY <3>2 DEF outs
  <2>2. ids \in SUBSET Nat
    <3>1. t \in TablesBelow(seq)
      <4>1. rows \in TablesBelow(seq) /\ shared.work \in Seq(StatementsBelow(seq))
        BY DEF RecordTyped, Clean
      <4> QED BY <1>1, <4>1, AfterTyped DEF Record!View
    <3> HIDE DEF t
    <3>2. DOMAIN t \subseteq 1..(seq - 1)
      BY <3>1, PartialIs DEF TablesBelow
    <3> QED BY <3>2
  <2> HIDE DEF ids
  <2>3. Record!DeleteOf(ids) \in StatementsBelow(seq)
    BY <1>1, <2>2, StatementParts
  <2>4. Sound(seq, r)
    BY <2>1, <2>3, SharedSound
  <2> QED BY <2>1, <2>4 DEF OtherWrite
<1> QED BY <1>2, <1>3, <1>4, <1>5

LEMMA OtherCalls ==
    ASSUME RecordTyped,
           \/ \E id \in 1..MaxId, data \in Inputs : Record!Update(id, data)
           \/ Record!Begin \/ Record!End \/ Record!Undo \/ Record!SetDatabase
    PROVE  \E r : OtherWrite(r)
<1> USE DEF Record!Write, Record!Memory, Record!Called
<1>1. seq \in Nat /\ Clean(StatementsBelow(seq), shared)
      /\ shared.work \in Seq(StatementsBelow(seq)) /\ <<>> \in Seq(StatementsBelow(seq))
  BY EmptySeq DEF RecordTyped, Clean
<1>2. ASSUME NEW id \in 1..MaxId, NEW data \in Inputs, Record!Update(id, data)
      PROVE  \E r : OtherWrite(r)
  <2> DEFINE puts == [k \in {id} |-> data]
  <2>1. PICK r \in Record!Execute(shared, Record!UpdateOf(puts)) :
           /\ Record!Outcome(r) /\ UNCHANGED <<seq, objs, maker, unsure>>
           /\ answer'.op = "update"
    BY <1>2 DEF Record!Update
  <2>2. puts \in Partials(Nat, SomeColumns)
    <3>1. data \in SomeColumns /\ {id} \in SUBSET Nat
      BY ColumnsTyped
    <3>2. puts \in [{id} -> SomeColumns]
      BY <3>1
    <3> QED BY <3>1, <3>2 DEF Partials
  <2> HIDE DEF puts
  <2>3. Record!UpdateOf(puts) \in StatementsBelow(seq)
    BY <1>1, <2>2, StatementParts
  <2>4. Sound(seq, r)
    BY <2>1, <2>3, SharedSound
  <2> QED BY <2>1, <2>4 DEF OtherWrite
<1>3. CASE Record!Begin
  <2>1. PICK r \in Transaction(shared) :
           /\ Record!Outcome(r) /\ UNCHANGED <<seq, objs, maker, unsure>>
           /\ answer'.op = "transaction"
    BY <1>3, SameForRecord DEF Record!Begin
  <2>2. Sound(seq, r)
    BY <1>1, TransactionDoes DEF Sound, Kept
  <2> QED BY <2>1, <2>2 DEF OtherWrite
<1>4. CASE Record!End
  <2>1. PICK r \in Commit(shared) :
           /\ Record!Outcome(r) /\ UNCHANGED <<seq, objs, maker, unsure>>
           /\ answer'.op = "commit"
    BY <1>4, SameForRecord DEF Record!End
  <2>2. Sound(seq, r)
    BY <1>1, CommitDoes DEF Sound
  <2> QED BY <2>1, <2>2 DEF OtherWrite
<1>5. CASE Record!Undo
  <2>1. PICK r \in Rollback(shared) :
           /\ Record!Outcome(r) /\ UNCHANGED <<seq, objs, maker, unsure>>
           /\ answer'.op = "rollback"
    BY <1>5, SameForRecord DEF Record!Undo
  <2>2. Sound(seq, r)
    BY <1>1, RollbackDoes DEF Sound, Kept
  <2> QED BY <2>1, <2>2 DEF OtherWrite
<1>6. CASE Record!SetDatabase
  <2> DEFINE r == Returns(NewConnection, <<>>)
  <2>1. /\ Record!Outcome(r) /\ UNCHANGED <<seq, objs, maker, unsure>>
        /\ answer'.op = "setDatabase"
    <3>1. Record!NewConnection = NewConnection /\ Record!Returns(NewConnection, <<>>) = r
      BY SameForRecord
    <3> QED BY <1>6, <3>1 DEF Record!SetDatabase
  <2>2. r.conn = NewConnection /\ r.done = <<>>
    BY Parts
  <2>3. Clean(StatementsBelow(seq), NewConnection)
    BY <1>1 DEF Clean, NewConnection, NoMark
  <2>4. Sound(seq, r)
    BY <1>1, <2>2, <2>3 DEF Sound
  <2> QED BY <2>1, <2>4 DEF OtherWrite
<1> QED BY <1>2, <1>3, <1>4, <1>5, <1>6
-----------------------------------------------------------------------------
(* save()                                                                  *)

\* save() of object o that updates its row, or inserts one, with outcome r.
Saved(o, r) ==
    /\ o \in DOMAIN objs /\ Record!Outcome(r)
    /\ answer' = [op |-> "save", ok |-> r.ok, batch |-> <<o>>]
    /\ unsure' = IF r.ok THEN unsure ELSE unsure \cup {o}

Updated(o, r) ==
    /\ Saved(o, r) /\ UNCHANGED <<seq, objs, maker>> /\ objs[o].id # 0
    /\ Clean(StatementsBelow(seq), r.conn)
    /\ Record!Sets(objs[o]) \in Partials(Nat, SomeColumns)
    /\ Answered(shared, Record!UpdateOf(Record!Sets(objs[o])), r)

NewRow(o) == [k \in {seq} |-> Record!Row(objs[o].vals)]
Inserted(o, r) ==
    /\ Saved(o, r) /\ seq' = seq + 1 /\ objs[o].id = 0
    /\ objs' = IF r.ok THEN [objs EXCEPT ![o] = Record!WithKey(@, seq)] ELSE objs
    /\ maker' = Record!Over([k \in {seq} |-> o], maker)
    /\ Clean(StatementsBelow(seq + 1), r.conn)
    /\ NewRow(o) \in TablesBelow(seq + 1)
    /\ Answered(shared, Record!InsertOf(NewRow(o)), r)

LEMMA UpdatedIs ==
    ASSUME RecordTyped, NEW o, Record!SaveUpdate(o)
    PROVE  \E r : Updated(o, r)
<1> DEFINE w == Record!UpdateOf(Record!Sets(objs[o]))
           W == StatementsBelow(seq)
<1>1. PICK r \in Record!Execute(shared, w) :
         Saved(o, r) /\ UNCHANGED <<seq, objs, maker>> /\ objs[o].id # 0
  BY DEF Record!SaveUpdate, Record!Present, Record!Called, Saved
<1>2. Record!Sets(objs[o]) \in Partials(Nat, SomeColumns)
  <2>1. objs[o].id \in Nat /\ objs[o].vals \in SomeColumns
    BY <1>1, ThingThere DEF Saved
  <2>2. Record!Sets(objs[o]) \in [{objs[o].id} -> SomeColumns] /\ {objs[o].id} \in SUBSET Nat
    BY <2>1 DEF Record!Sets
  <2> QED BY <2>2 DEF Partials
<1>3. w \in W /\ Clean(W, shared)
  <2>1. seq \in Nat
    BY DEF RecordTyped
  <2> QED BY <1>2, <2>1, StatementParts DEF RecordTyped
<1> HIDE DEF w, W
<1>4. Clean(W, r.conn) /\ Answered(shared, w, r)
  BY <1>3, ExecuteAnswers
<1> QED BY <1>1, <1>2, <1>4 DEF Updated, w, W

LEMMA InsertedIs ==
    ASSUME RecordTyped, NEW o, Record!SaveInsert(o)
    PROVE  \E r : Inserted(o, r)
<1> DEFINE w == Record!InsertOf(NewRow(o))
           V == StatementsBelow(seq)
           W == StatementsBelow(seq + 1)
<1>1. PICK r \in Record!QueryMap(shared, w) :
         /\ Saved(o, r) /\ seq' = seq + 1 /\ objs[o].id = 0
         /\ objs' = IF r.ok THEN [objs EXCEPT ![o] = Record!WithKey(@, seq)] ELSE objs
         /\ maker' = Record!Over([k \in {seq} |-> o], maker)
  BY DEF Record!SaveInsert, Record!Present, Record!Called, Saved, NewRow
<1>2. seq \in Nat \ {0} /\ seq + 1 \in Nat
  BY DEF RecordTyped
<1>3. NewRow(o) \in TablesBelow(seq + 1)
  <2>1. Record!Row(objs[o].vals) \in FullRows
    BY <1>1, ThingThere, RowDoes DEF Saved
  <2>2. {seq} \in SUBSET (1..((seq + 1) - 1))
    BY <1>2
  <2>3. NewRow(o) \in [{seq} -> FullRows]
    BY <2>1 DEF NewRow
  <2> QED BY <2>2, <2>3 DEF TablesBelow, Partials
<1>4. w \in W /\ Clean(W, shared)
  <2>1. V \subseteq W
    BY <1>2, MoreKeys
  <2>2. Clean(V, shared)
    BY DEF RecordTyped
  <2>3. Clean(W, shared)
    <3> HIDE DEF V, W
    <3> QED BY <2>1, <2>2, MoreStatements
  <2> QED BY <1>2, <1>3, <2>3, StatementParts
<1> HIDE DEF w, V, W
<1>5. Clean(W, r.conn) /\ Answered(shared, w, r)
  BY <1>4, QueryMapAnswers
<1> QED BY <1>1, <1>3, <1>5 DEF Inserted, w, W

LEMMA SavedTyped ==
    ASSUME RecordTyped, NEW o, NEW r, Updated(o, r) \/ Inserted(o, r)
    PROVE  RecordTyped'
<1>1. seq \in Nat \ {0} /\ objs \in Partials(Objs, Things)
  BY DEF RecordTyped
<1>2. CASE Updated(o, r)
  <2> DEFINE w == Record!UpdateOf(Record!Sets(objs[o]))
             W == StatementsBelow(seq)
  <2>1. w \in W /\ Clean(W, shared) /\ Clean(W, r.conn) /\ Answered(shared, w, r)
    BY <1>1, <1>2, StatementParts DEF Updated, RecordTyped
  <2>2. W = StatementsBelow(seq') /\ seq' = seq /\ objs' = objs /\ Record!Outcome(r)
    BY <1>2 DEF Updated, Saved
  <2> HIDE DEF w, W
  <2>3. r.done \in Seq(W)
    BY <2>1, AnswerView
  <2>4. Sound(seq', r)
    BY <2>1, <2>2, <2>3 DEF Sound
  <2> QED BY <1>1, <2>2, <2>4, OutcomeTyped
<1>3. CASE Inserted(o, r)
  <2> DEFINE w == Record!InsertOf(NewRow(o))
             W == StatementsBelow(seq + 1)
  <2>1. w \in W /\ Clean(W, r.conn) /\ Answered(shared, w, r)
    BY <1>1, <1>3, StatementParts DEF Inserted
  <2>2. Clean(W, shared)
    <3> DEFINE V == StatementsBelow(seq)
    <3>1. V \subseteq W /\ Clean(V, shared)
      BY <1>1, MoreKeys DEF RecordTyped
    <3> HIDE DEF V, W
    <3> QED BY <3>1, MoreStatements
  <2>3. W = StatementsBelow(seq') /\ seq' = seq + 1 /\ Record!Outcome(r)
    BY <1>3 DEF Inserted, Saved
  <2> HIDE DEF w, W
  <2>4. r.done \in Seq(W)
    BY <2>1, <2>2, AnswerView
  <2>5. Sound(seq', r)
    BY <2>1, <2>3, <2>4 DEF Sound
  <2>6. objs' \in Partials(Objs, Things)
    <3>1. DOMAIN objs \subseteq Objs /\ objs \in [DOMAIN objs -> Things] /\ o \in DOMAIN objs
      BY <1>1, <1>3, PartialIs DEF Inserted, Saved
    <3>2. Record!WithKey(objs[o], seq) \in Things
      BY <1>1, <3>1 DEF Record!WithKey, Things
    <3>3. objs' \in [DOMAIN objs -> Things]
      BY <1>3, <3>1, <3>2 DEF Inserted
    <3> QED BY <3>1, <3>3 DEF Partials
  <2> QED BY <1>1, <2>3, <2>5, <2>6, OutcomeTyped
<1> QED BY <1>2, <1>3
-----------------------------------------------------------------------------
(* The objects of a batch that are in a set: a loop with push_back.        *)

\* One round of it.
NextChosen(b, S, f, i) ==
    IF i = 0 THEN <<>> ELSE IF b[i] \in S THEN Append(f[i - 1], b[i]) ELSE f[i - 1]

LEMMA ChosenExist ==
    ASSUME NEW b, NEW S
    PROVE  \A m \in Nat : \E f : f = [i \in 0..m |-> NextChosen(b, S, f, i)]
<1> DEFINE Good(n) == \E f : f = [i \in 0..n |-> NextChosen(b, S, f, i)]
           G == {n \in Nat : Good(n)}
<1>1. Good(0)
  <2> DEFINE f == [i \in 0..0 |-> <<>>]
  <2>1. f = [i \in 0..0 |-> NextChosen(b, S, f, i)]
    BY DEF NextChosen
  <2> QED BY <2>1
<1>2. ASSUME NEW n \in Nat, Good(n)
      PROVE  Good(n + 1)
  <2>1. PICK f : f = [i \in 0..n |-> NextChosen(b, S, f, i)]
    BY <1>2
  <2> DEFINE g == [i \in 0..(n + 1) |-> IF i = n + 1 THEN NextChosen(b, S, f, i) ELSE f[i]]
  <2>2. ASSUME NEW i \in 0..(n + 1)
        PROVE  g[i] = NextChosen(b, S, g, i)
    <3>1. i # 0 => i - 1 \in 0..n /\ i - 1 \in 0..(n + 1) /\ i - 1 # n + 1
      OBVIOUS
    <3>2. i # 0 => g[i - 1] = f[i - 1]
      BY <3>1
    <3>3. g[i] = NextChosen(b, S, f, i)
      BY <2>1
    <3> HIDE DEF g
    <3>4. NextChosen(b, S, g, i) = NextChosen(b, S, f, i)
      BY <3>2 DEF NextChosen
    <3> QED BY <3>3, <3>4
  <2>3. g = [i \in 0..(n + 1) |-> NextChosen(b, S, g, i)]
    BY <2>2
  <2> QED BY <2>3
<1> HIDE DEF Good
<1>3. 0 \in G /\ \A n \in Nat : n \in G => n + 1 \in G
  BY <1>1, <1>2
<1>4. Nat \subseteq G
  <2> HIDE DEF G
  <2> QED BY <1>3, NumberInduction
<1>5. \A n \in Nat : Good(n)
  BY <1>4
<1> QED BY <1>5 DEF Good

\* The objects of b at the places M are those of s, each at a place of its own.
Matches(at, M, s, b) ==
    /\ at \in [M -> 1..Len(s)]
    /\ \A m, k \in M : at[m] = at[k] => m = k
    /\ \A j \in 1..Len(s) : \E m \in M : at[m] = j
    /\ \A m \in M : s[at[m]] = b[m]

\* What is chosen from the first i objects of b: those in S, each once for
\* every place it has.
Filtered(P, s, b, S, i) ==
    /\ s \in Seq(P)
    /\ \A j \in 1..Len(s) : s[j] \in S /\ \E m \in 1..i : s[j] = b[m]
    /\ \A m \in 1..i : b[m] \in S => \E j \in 1..Len(s) : s[j] = b[m]
    /\ \E at : Matches(at, {m \in 1..i : b[m] \in S}, s, b)

LEMMA FilterStep ==
    ASSUME NEW P, NEW b \in Seq(P), NEW S, NEW i \in 1..Len(b), NEW s, Filtered(P, s, b, S, i - 1)
    PROVE  Filtered(P, IF b[i] \in S THEN Append(s, b[i]) ELSE s, b, S, i)
<1> DEFINE before == {m \in 1..(i - 1) : b[m] \in S}
           now == {m \in 1..i : b[m] \in S}
<1>0. i \in Nat /\ i \in 1..i /\ \A m \in 1..(i - 1) : m \in 1..i /\ m # i
  OBVIOUS
<1>1. s \in Seq(P) /\ Len(s) \in Nat /\ \E at : Matches(at, before, s, b)
  BY LenProperties DEF Filtered
<1>2. /\ \A j \in 1..Len(s) : s[j] \in S /\ \E m \in 1..i : s[j] = b[m]
      /\ \A m \in 1..(i - 1) : b[m] \in S => \E j \in 1..Len(s) : s[j] = b[m]
  BY <1>0 DEF Filtered
<1>3. CASE b[i] \notin S
  <2>1. now = before
    BY <1>3
  <2>2. \A m \in 1..i : b[m] \in S => m \in 1..(i - 1)
    BY <1>3
  <2>3. \E at : Matches(at, now, s, b)
    BY <1>1, <2>1
  <2>4. Filtered(P, s, b, S, i)
    BY <1>1, <1>2, <2>2, <2>3 DEF Filtered
  <2> QED BY <1>3, <2>4
<1>4. CASE b[i] \in S
  <2> DEFINE x == b[i]
             r == Append(s, x)
  <2>1. x \in P /\ x \in S
    BY <1>4, ElementOfSeq
  <2> HIDE DEF x
  <2>2. /\ r \in Seq(P) /\ Len(r) = Len(s) + 1 /\ r[Len(s) + 1] = x
        /\ \A j \in 1..Len(s) : r[j] = s[j]
    BY <1>1, <2>1, AppendProperties
  <2> HIDE DEF r
  <2>3. now = before \cup {i} /\ i \notin before
    BY <1>0, <1>4
  <2>4. \E at : Matches(at, now, r, b)
    <3>1. PICK at : Matches(at, before, s, b)
      BY <1>1
    <3>2. b[i] = x
      BY DEF x
    <3> DEFINE to == [m \in now |-> IF m = i THEN Len(s) + 1 ELSE at[m]]
    <3> HIDE DEF now, before
    <3>3. /\ to[i] = Len(s) + 1 /\ i \in now /\ Len(s) + 1 \in 1..Len(r)
          /\ \A m \in before : to[m] = at[m] /\ m \in now
          /\ \A m \in before : at[m] \in 1..Len(s)
          /\ \A j \in 1..Len(s) : j \in 1..Len(r) /\ j # Len(s) + 1
      BY <1>1, <2>2, <2>3, <3>1 DEF Matches
    <3>4. to \in [now -> 1..Len(r)]
      BY <2>3, <3>3
    <3> HIDE DEF to
    <3>5. \A m, k \in now : to[m] = to[k] => m = k
      BY <2>3, <3>1, <3>3 DEF Matches
    <3>6. \A j \in 1..Len(r) : \E m \in now : to[m] = j
      <4> TAKE j \in 1..Len(r)
      <4>1. j = Len(s) + 1 \/ j \in 1..Len(s)
        BY <1>1, <2>2
      <4>2. CASE j = Len(s) + 1
        BY <3>3, <4>2
      <4>3. CASE j \in 1..Len(s)
        <5>1. PICK m \in before : at[m] = j
          BY <3>1, <4>3 DEF Matches
        <5> QED BY <3>3, <5>1
      <4> QED BY <4>1, <4>2, <4>3
    <3>7. ASSUME NEW m \in now PROVE r[to[m]] = b[m]
      <4>1. CASE m = i
        BY <2>2, <3>2, <3>3, <4>1
      <4>2. CASE m \in before
        <5>1. s[at[m]] = b[m] /\ at[m] \in 1..Len(s) /\ to[m] = at[m]
          BY <3>1, <3>3, <4>2 DEF Matches
        <5> QED BY <2>2, <5>1
      <4> QED BY <2>3, <4>1, <4>2
    <3> QED BY <3>4, <3>5, <3>6, <3>7 DEF Matches
  <2>5. \A j \in 1..Len(r) : r[j] \in S /\ \E m \in 1..i : r[j] = b[m]
    <3> SUFFICES ASSUME NEW j \in 1..Len(r) PROVE r[j] \in S /\ \E m \in 1..i : r[j] = b[m]
      OBVIOUS
    <3>1. CASE j \in 1..Len(s)
      BY <1>2, <2>2, <3>1
    <3>2. CASE j = Len(s) + 1
      BY <1>0, <2>1, <2>2, <3>2 DEF x
    <3> QED BY <1>1, <2>2, <3>1, <3>2
  <2>6. \A m \in 1..i : b[m] \in S => \E j \in 1..Len(r) : r[j] = b[m]
    <3> SUFFICES ASSUME NEW m \in 1..i, b[m] \in S PROVE \E j \in 1..Len(r) : r[j] = b[m]
      OBVIOUS
    <3>1. \A j \in 1..Len(s) : j \in 1..Len(r)
      BY <1>1, <2>2
    <3>2. CASE m = i
      <4>1. Len(s) + 1 \in 1..Len(r)
        BY <1>1, <2>2
      <4> QED BY <2>2, <3>2, <4>1 DEF x
    <3>3. CASE m # i
      <4>1. m \in 1..(i - 1)
        BY <3>3
      <4> QED BY <1>2, <2>2, <3>1, <4>1
    <3> QED BY <3>2, <3>3
  <2>7. Filtered(P, r, b, S, i)
    BY <2>2, <2>4, <2>5, <2>6 DEF Filtered
  <2> QED BY <1>4, <2>7 DEF r, x
<1> QED BY <1>3, <1>4

LEMMA ChosenDoes ==
    ASSUME NEW P, NEW b \in Seq(P), NEW S
    PROVE  Filtered(P, Record!Chosen(b, S), b, S, Len(b))
<1> DEFINE F == Record!ChosenUpTo(b, S)
           N == Len(b)
           G == {i \in Nat : Filtered(P, F[i], b, S, i)}
<1>1. N \in Nat
  BY LenProperties
<1>2. F = [i \in 0..N |-> NextChosen(b, S, F, i)]
  <2>1. F = CHOOSE f : f = [i \in 0..N |-> NextChosen(b, S, f, i)]
    BY DEF Record!ChosenUpTo, NextChosen
  <2>2. \E f : f = [i \in 0..N |-> NextChosen(b, S, f, i)]
    BY <1>1, ChosenExist
  <2> HIDE DEF F
  <2> QED BY <2>1, <2>2
<1> HIDE DEF F
<1>3. /\ F[0] = <<>>
      /\ \A i \in 1..N : F[i] = IF b[i] \in S THEN Append(F[i - 1], b[i]) ELSE F[i - 1]
  <2>1. \A i \in 0..N : F[i] = NextChosen(b, S, F, i)
    BY <1>2
  <2>2. 0 \in 0..N /\ \A i \in 1..N : i \in 0..N /\ i # 0
    BY <1>1
  <2> QED BY <2>1, <2>2 DEF NextChosen
<1>4. 0 \in G
  <2>1. {m \in 1..0 : b[m] \in S} = {}
    OBVIOUS
  <2>2. <<>> \in Seq(P) /\ Len(<<>>) = 0
    BY EmptySeq
  <2>3. \E at : Matches(at, {}, <<>>, b)
    <3>1. Matches([m \in {} |-> 0], {}, <<>>, b)
      BY <2>2 DEF Matches
    <3> QED BY <3>1
  <2>4. Filtered(P, <<>>, b, S, 0)
    BY <2>1, <2>2, <2>3 DEF Filtered
  <2> QED BY <1>3, <2>4
<1>5. \A i \in 1..N : i - 1 \in G => i \in G
  BY <1>3, FilterStep
<1>6. N \in G
  <2> HIDE DEF G
  <2> QED BY <1>1, <1>4, <1>5, LoopInduction
<1> QED BY <1>6 DEF Record!Chosen, F
-----------------------------------------------------------------------------
(* saveMany()                                                              *)

\* The objects of a batch that are updated, and those that are inserted.
Keyless(b) == {i \in DOMAIN b : objs[b[i]].id = 0}

LEMMA ToInsertDoes ==
    ASSUME NEW b \in Seq(DOMAIN objs)
    PROVE  /\ Record!ToInsert(b) \in Seq(DOMAIN objs)
           /\ Len(Record!ToInsert(b)) \in Nat
           /\ \E at : Matches(at, Keyless(b), Record!ToInsert(b), b)
           /\ \A i \in Keyless(b) :
                 \E j \in 1..Len(Record!ToInsert(b)) : Record!ToInsert(b)[j] = b[i]
<1> DEFINE S == {o \in DOMAIN objs : objs[o].id = 0}
           c == Record!Chosen(b, S)
<1>1. Filtered(DOMAIN objs, c, b, S, Len(b))
  <2> HIDE DEF S
  <2> QED BY ChosenDoes
<1>2. Record!ToInsert(b) = c
  BY DEF Record!ToInsert, Record!Present
<1>3. DOMAIN b = 1..Len(b) /\ \A i \in 1..Len(b) : b[i] \in DOMAIN objs
  BY LenProperties, ElementOfSeq
<1>4. {m \in 1..Len(b) : b[m] \in S} = Keyless(b)
  BY <1>3 DEF Keyless
<1>5. \A i \in Keyless(b) : i \in 1..Len(b) /\ b[i] \in S
  BY <1>4
<1> HIDE DEF c, S
<1>6. c \in Seq(DOMAIN objs) /\ \E at : Matches(at, Keyless(b), c, b)
  BY <1>1, <1>4 DEF Filtered
<1>7. \A i \in Keyless(b) : \E j \in 1..Len(c) : c[j] = b[i]
  BY <1>1, <1>5 DEF Filtered
<1>8. Len(c) \in Nat
  BY <1>6, LenProperties
<1> QED BY <1>2, <1>6, <1>7, <1>8

\* The objects with an UPDATE of their own.
ToSend(b) ==
    Record!Chosen(Record!ToUpdate(b), {o \in DOMAIN objs : Record!NonEmpty(objs[o].vals) # Record!None})

LEMMA ToSendDoes ==
    ASSUME NEW b \in Seq(DOMAIN objs)
    PROVE  /\ ToSend(b) \in Seq(DOMAIN objs)
           /\ \A j \in 1..Len(ToSend(b)) : \E m \in 1..Len(b) : ToSend(b)[j] = b[m]
           /\ \A m \in 1..Len(b) :
                 objs[b[m]].id # 0 /\ Record!NonEmpty(objs[b[m]].vals) # Record!None
                 => \E j \in 1..Len(ToSend(b)) : ToSend(b)[j] = b[m]
<1> DEFINE S == {o \in DOMAIN objs : objs[o].id # 0}
           T == {o \in DOMAIN objs : Record!NonEmpty(objs[o].vals) # Record!None}
           c == Record!Chosen(b, S)
           d == Record!Chosen(c, T)
<1>1. \A i \in 1..Len(b) : b[i] \in DOMAIN objs
  BY ElementOfSeq
<1>2. /\ \A o \in DOMAIN objs : o \in S <=> objs[o].id # 0
      /\ \A o \in DOMAIN objs : o \in T <=> Record!NonEmpty(objs[o].vals) # Record!None
  OBVIOUS
<1>3. Record!ToUpdate(b) = c /\ ToSend(b) = d
  BY DEF Record!ToUpdate, Record!Present, ToSend
<1> HIDE DEF S, T
<1>4. Filtered(DOMAIN objs, c, b, S, Len(b))
  BY ChosenDoes
<1>5. c \in Seq(DOMAIN objs)
  BY <1>4 DEF Filtered
<1>6. Filtered(DOMAIN objs, d, c, T, Len(c))
  <2> HIDE DEF c
  <2> QED BY <1>5, ChosenDoes
<1> HIDE DEF c, d
<1>7. d \in Seq(DOMAIN objs)
  BY <1>6 DEF Filtered
<1>8. \A j \in 1..Len(d) : \E m \in 1..Len(b) : d[j] = b[m]
  <2> TAKE j \in 1..Len(d)
  <2>1. PICK i \in 1..Len(c) : d[j] = c[i]
    BY <1>6 DEF Filtered
  <2> QED BY <1>4, <2>1 DEF Filtered
<1>9. ASSUME NEW m \in 1..Len(b), objs[b[m]].id # 0,
             Record!NonEmpty(objs[b[m]].vals) # Record!None
      PROVE  \E j \in 1..Len(d) : d[j] = b[m]
  <2>1. b[m] \in S /\ b[m] \in T
    BY <1>1, <1>2, <1>9
  <2>2. PICK i \in 1..Len(c) : c[i] = b[m]
    BY <1>4, <2>1 DEF Filtered
  <2> QED BY <1>6, <2>1, <2>2 DEF Filtered
<1> QED BY <1>3, <1>7, <1>8, <1>9

\* The values a batch has for column f of the row with key k.
Given(b, k, f) ==
    {Record!NonEmpty(objs[o].vals)[f] :
       o \in {p \in Record!ToSet(b) : objs[p].id = k /\ f \in DOMAIN Record!NonEmpty(objs[p].vals)}}

\* The objects of s that set column f of row k, by their places.
Setting(s, k, f) ==
    {i \in DOMAIN s : objs[s[i]].id = k /\ f \in DOMAIN Record!NonEmpty(objs[s[i]].vals)}

LEMMA SettingDoes ==
    ASSUME RecordTyped, NEW s \in Seq(DOMAIN objs), NEW k, NEW f, Setting(s, k, f) # {}
    PROVE  /\ Record!Max(Setting(s, k, f)) \in 1..Len(s)
           /\ Record!Max(Setting(s, k, f)) \in Setting(s, k, f)
<1> DEFINE T == Setting(s, k, f)
<1>1. DOMAIN s = 1..Len(s) /\ Len(s) \in Nat
  BY LenProperties
<1>2. T \subseteq 1..Len(s) /\ T # {}
  BY <1>1 DEF Setting
<1> HIDE DEF T
<1>3. Record!Max(T) \in T
  BY <1>1, <1>2, GreatestNumber
<1> QED BY <1>2, <1>3 DEF T

\* The UPDATEs of a batch set exactly the columns it has values for, each to
\* one of these values.
LEMMA PutsDo ==
    ASSUME RecordTyped, NEW b \in Seq(DOMAIN objs)
    PROVE  /\ Record!BatchPuts(ToSend(b)) \in Partials(Nat, SomeColumns)
           /\ \A k \in Nat \ {0}, f \in Fields :
                 IF k \in DOMAIN Record!BatchPuts(ToSend(b)) /\ f \in DOMAIN Record!BatchPuts(ToSend(b))[k]
                   THEN Record!BatchPuts(ToSend(b))[k][f] \in Given(b, k, f)
                   ELSE Given(b, k, f) = {}
<1> DEFINE s == ToSend(b)
           puts == Record!BatchPuts(s)
           Ids == {objs[o].id : o \in Record!ToSet(s)}
<1>1. /\ s \in Seq(DOMAIN objs)
      /\ \A j \in 1..Len(s) : \E m \in 1..Len(b) : s[j] = b[m]
      /\ \A m \in 1..Len(b) :
            objs[b[m]].id # 0 /\ Record!NonEmpty(objs[b[m]].vals) # Record!None
            => \E j \in 1..Len(s) : s[j] = b[m]
  BY ToSendDoes
<1> HIDE DEF s
<1>2. /\ DOMAIN s = 1..Len(s) /\ DOMAIN b = 1..Len(b)
      /\ \A j \in 1..Len(s) : s[j] \in DOMAIN objs
      /\ \A j \in 1..Len(b) : b[j] \in DOMAIN objs
  BY <1>1, LenProperties, ElementOfSeq
<1>3. /\ DOMAIN puts = Ids
      /\ \A k \in Ids : puts[k] = [f \in {g \in Fields : Setting(s, k, g) # {}} |->
                                     objs[s[Record!Max(Setting(s, k, f))]].vals[f]]
  BY DEF Record!BatchPuts, Setting
<1>4. puts = [k \in Ids |-> puts[k]]
  BY DEF Record!BatchPuts
<1> HIDE DEF puts
<1>5. \A o \in DOMAIN objs : objs[o].id \in Nat /\ objs[o].vals \in SomeColumns
  BY ThingThere
<1>6. \A k, f : f \in Fields /\ Setting(s, k, f) # {} =>
         \E o \in DOMAIN objs : /\ o = s[Record!Max(Setting(s, k, f))] /\ objs[o].id = k
                                /\ o \in Record!ToSet(b)
                                /\ f \in DOMAIN Record!NonEmpty(objs[o].vals)
  <2> TAKE k, f
  <2> HAVE f \in Fields /\ Setting(s, k, f) # {}
  <2> DEFINE i == Record!Max(Setting(s, k, f))
  <2>1. i \in 1..Len(s) /\ i \in Setting(s, k, f)
    BY <1>1, SettingDoes
  <2> HIDE DEF i
  <2>2. objs[s[i]].id = k /\ f \in DOMAIN Record!NonEmpty(objs[s[i]].vals)
    BY <2>1 DEF Setting
  <2>3. s[i] \in DOMAIN objs /\ s[i] \in Record!ToSet(b)
    BY <1>1, <1>2, <2>1 DEF Record!ToSet
  <2> QED BY <2>2, <2>3 DEF i
<1>7. ASSUME NEW k \in Ids, NEW f \in Fields, Setting(s, k, f) # {}
      PROVE  puts[k][f] \in Given(b, k, f) /\ puts[k][f] \in Contents
  <2>1. puts[k][f] = objs[s[Record!Max(Setting(s, k, f))]].vals[f]
    BY <1>3, <1>7
  <2>2. PICK o \in DOMAIN objs : /\ o = s[Record!Max(Setting(s, k, f))] /\ objs[o].id = k
                                 /\ o \in Record!ToSet(b)
                                 /\ f \in DOMAIN Record!NonEmpty(objs[o].vals)
    BY <1>6, <1>7
  <2>3. objs[o].vals \in SomeColumns
    BY <1>5
  <2>4. Record!NonEmpty(objs[o].vals)[f] = objs[o].vals[f] /\ f \in DOMAIN objs[o].vals
    BY <2>2, <2>3, NonEmptyDoes
  <2>5. objs[o].vals[f] \in Contents
    BY <2>3, <2>4, PartialIs DEF SomeColumns
  <2>6. puts[k][f] = objs[o].vals[f]
    BY <2>1, <2>2
  <2> QED BY <2>2, <2>4, <2>5, <2>6 DEF Given
<1>8. \A k \in Ids : puts[k] \in SomeColumns /\ DOMAIN puts[k] = {g \in Fields : Setting(s, k, g) # {}}
  <2> TAKE k \in Ids
  <2>1. DOMAIN puts[k] = {g \in Fields : Setting(s, k, g) # {}}
    BY <1>3
  <2>2. \A f \in DOMAIN puts[k] : puts[k][f] \in Contents
    BY <1>7, <2>1
  <2>3. puts[k] = [f \in DOMAIN puts[k] |-> puts[k][f]]
    BY <1>3
  <2>4. puts[k] \in [DOMAIN puts[k] -> Contents] /\ DOMAIN puts[k] \subseteq Fields
    BY <2>1, <2>2, <2>3
  <2> QED BY <2>1, <2>4, PartialIs DEF SomeColumns
<1>9. puts \in Partials(Nat, SomeColumns)
  <2>1. Ids \subseteq Nat
    BY <1>2, <1>5 DEF Record!ToSet
  <2> HIDE DEF Ids
  <2>2. puts \in [Ids -> SomeColumns]
    BY <1>4, <1>8
  <2> QED BY <2>1, <2>2 DEF Partials
<1>10. ASSUME NEW k \in Nat \ {0}, NEW f \in Fields
       PROVE  IF k \in DOMAIN puts /\ f \in DOMAIN puts[k]
                THEN puts[k][f] \in Given(b, k, f) ELSE Given(b, k, f) = {}
  <2>1. CASE k \in DOMAIN puts /\ f \in DOMAIN puts[k]
    <3>1. k \in Ids /\ Setting(s, k, f) # {}
      BY <1>3, <1>8, <2>1
    <3> QED BY <1>7, <2>1, <3>1
  <2>2. ASSUME Given(b, k, f) # {}
        PROVE  k \in DOMAIN puts /\ f \in DOMAIN puts[k]
    <3>1. PICK o \in Record!ToSet(b) : objs[o].id = k /\ f \in DOMAIN Record!NonEmpty(objs[o].vals)
      BY <2>2 DEF Given
    <3>2. PICK m \in 1..Len(b) : o = b[m]
      BY <1>2 DEF Record!ToSet
    <3>3. Record!NonEmpty(objs[o].vals) # Record!None
      <4>1. DOMAIN Record!None = {}
        BY EmptyPartial
      <4> QED BY <3>1, <4>1
    <3>4. PICK j \in 1..Len(s) : s[j] = o
      BY <1>1, <3>1, <3>2, <3>3
    <3>5. o \in Record!ToSet(s) /\ j \in Setting(s, k, f)
      BY <1>2, <3>1, <3>4 DEF Record!ToSet, Setting
    <3>6. k \in Ids
      BY <3>1, <3>5
    <3> QED BY <1>3, <1>8, <3>5, <3>6
  <2> QED BY <2>1, <2>2
<1> QED BY <1>9, <1>10 DEF puts, s
-----------------------------------------------------------------------------
(* The two commands of saveMany, one after the other.                      *)

\* Table u is table t with the updates of batch b.
UpdatedTo(b, t, u) ==
    /\ DOMAIN u = DOMAIN t
    /\ \A k \in DOMAIN t, f \in Fields :
          u[k][f] \in IF Given(b, k, f) = {} THEN {t[k][f]} ELSE Given(b, k, f)

\* The outcome of the UPDATEs.  What is permanent then, and what is open, are
\* not both there.
Sent(b, v) ==
    /\ Sound(seq, v) /\ v = [ok |-> v.ok, conn |-> v.conn, done |-> v.done] /\ v.ok \in BOOLEAN
    /\ v.done = <<>> \/ v.conn.work = <<>>
    /\ v.ok => UpdatedTo(b, Record!View(rows, shared), ViewAfter(rows, v))
    /\ ~v.ok => \/ ViewAfter(rows, v) \in {Record!View(rows, shared), rows}
                \/ v.conn.srv = "lost"

LEMMA ViewTyped ==
    ASSUME RecordTyped
    PROVE  /\ seq \in Nat \ {0} /\ shared.work \in Seq(StatementsBelow(seq))
           /\ Record!View(rows, shared) = Record!After(rows, shared.work)
           /\ Record!View(rows, shared) \in TablesBelow(seq)
           /\ DOMAIN Record!View(rows, shared) \subseteq 1..(seq - 1)
<1>1. /\ seq \in Nat \ {0} /\ rows \in TablesBelow(seq)
      /\ shared.work \in Seq(StatementsBelow(seq))
  BY DEF RecordTyped, Clean
<1>2. Record!View(rows, shared) = Record!After(rows, shared.work)
  BY DEF Record!View
<1>3. Record!After(rows, shared.work) \in TablesBelow(seq)
  BY <1>1, AfterTyped
<1> QED BY <1>1, <1>2, <1>3, PartialIs DEF TablesBelow

LEMMA SentIs ==
    ASSUME RecordTyped, NEW b \in Seq(DOMAIN objs), NEW v \in Record!BatchUpdates(b)
    PROVE  Sent(b, v)
<1> DEFINE t == Record!View(rows, shared)
           puts == Record!BatchPuts(ToSend(b))
           w == Record!UpdateOf(puts)
           W == StatementsBelow(seq)
<1>1. /\ seq \in Nat \ {0} /\ shared.work \in Seq(W)
      /\ t = Record!After(rows, shared.work) /\ t \in TablesBelow(seq)
      /\ DOMAIN t \subseteq Nat \ {0}
      /\ Clean(W, shared)
  <2>1. DOMAIN t \subseteq 1..(seq - 1) /\ seq \in Nat
    BY ViewTyped
  <2>2. 1..(seq - 1) \subseteq Nat \ {0}
    BY <2>1
  <2> QED BY <2>1, <2>2, ViewTyped DEF RecordTyped
<1>2. /\ puts \in Partials(Nat, SomeColumns)
      /\ \A k \in Nat \ {0}, f \in Fields :
            IF k \in DOMAIN puts /\ f \in DOMAIN puts[k]
              THEN puts[k][f] \in Given(b, k, f) ELSE Given(b, k, f) = {}
  BY PutsDo
<1>3. CASE ToSend(b) = <<>> /\ v = Record!Returns(shared, <<>>)
  <2>1. v = Returns(shared, <<>>)
    BY <1>3, SameForRecord
  <2>2. v = [ok |-> TRUE, conn |-> shared, done |-> <<>>]
    BY <2>1 DEF Returns
  <2>3. \A k \in Nat \ {0}, f \in Fields : Given(b, k, f) = {}
    <3> SUFFICES ASSUME NEW k \in Nat \ {0}, NEW f \in Fields PROVE k \notin DOMAIN puts
      BY <1>2
    <3>1. DOMAIN puts = {objs[o].id : o \in Record!ToSet(ToSend(b))}
      BY DEF Record!BatchPuts
    <3>2. Record!ToSet(<<>>) = {}
      BY DEF Record!ToSet
    <3> QED BY <1>3, <3>1, <3>2
  <2>4. Record!After(rows, <<>>) = rows
    BY <1>1, EmptySeq, AfterDoes
  <2>5. ViewAfter(rows, v) = t
    BY <1>1, <2>2, <2>4 DEF ViewAfter
  <2>6. UpdatedTo(b, t, t)
    BY <1>1, <2>3 DEF UpdatedTo
  <2>7. Sound(seq, v)
    BY <1>1, <2>2, EmptySeq DEF Sound
  <2> HIDE DEF t
  <2> QED BY <2>2, <2>5, <2>6, <2>7 DEF Sent, t
<1>4. CASE v \in Record!Execute(shared, w)
  <2>1. w \in W
    BY <1>1, <1>2, StatementParts
  <2>2. W = StatementsBelow(seq) /\ w = Record!UpdateOf(puts)
    OBVIOUS
  <2> HIDE DEF w, W
  <2>3. Clean(W, v.conn) /\ Answered(shared, w, v)
    BY <1>1, <1>4, <2>1, ExecuteAnswers
  <2>4. /\ v.done \in Seq(W)
        /\ v.ok => ViewAfter(rows, v) = Record!Effect(Record!After(rows, shared.work), w)
        /\ ~v.ok => \/ ViewAfter(rows, v) \in {Record!After(rows, shared.work), rows}
                    \/ v.conn.srv = "lost"
    BY <1>1, <2>1, <2>3, AnswerView
  <2>5. v.ok => UpdatedTo(b, t, ViewAfter(rows, v))
    <3> SUFFICES ASSUME v.ok PROVE UpdatedTo(b, t, ViewAfter(rows, v))
      OBVIOUS
    <3>1. ViewAfter(rows, v) = Record!Effect(t, Record!UpdateOf(puts))
      BY <1>1, <2>2, <2>4
    <3> HIDE DEF t, puts
    <3>2. /\ DOMAIN Record!Effect(t, Record!UpdateOf(puts)) = DOMAIN t
          /\ \A k \in DOMAIN t, f \in Fields :
                Record!Effect(t, Record!UpdateOf(puts))[k][f] =
                   IF k \in DOMAIN puts /\ f \in DOMAIN puts[k] THEN puts[k][f] ELSE t[k][f]
      BY <1>1, <1>2, UpdateDoes
    <3>3. ASSUME NEW k \in DOMAIN t, NEW f \in Fields
          PROVE  ViewAfter(rows, v)[k][f] \in
                    IF Given(b, k, f) = {} THEN {t[k][f]} ELSE Given(b, k, f)
      <4>1. k \in Nat \ {0}
        BY <1>1
      <4>2. CASE k \in DOMAIN puts /\ f \in DOMAIN puts[k]
        <5>1. puts[k][f] \in Given(b, k, f)
          BY <1>2, <4>1, <4>2
        <5>2. ViewAfter(rows, v)[k][f] = puts[k][f]
          BY <3>1, <3>2, <4>2
        <5> QED BY <5>1, <5>2
      <4>3. CASE ~(k \in DOMAIN puts /\ f \in DOMAIN puts[k])
        <5>1. Given(b, k, f) = {}
          BY <1>2, <4>1, <4>3
        <5>2. ViewAfter(rows, v)[k][f] = t[k][f]
          BY <3>1, <3>2, <4>3
        <5> QED BY <5>1, <5>2
      <4> QED BY <4>2, <4>3
    <3> QED BY <3>1, <3>2, <3>3 DEF UpdatedTo
  <2>6. Sound(seq, v)
    BY <2>2, <2>3, <2>4 DEF Sound
  <2>7. /\ v = [ok |-> v.ok, conn |-> v.conn, done |-> v.done] /\ v.ok \in BOOLEAN
        /\ v.done = <<>> \/ v.conn.work = <<>>
    BY <2>3 DEF Answered
  <2>8. ~v.ok => ViewAfter(rows, v) \in {t, rows} \/ v.conn.srv = "lost"
    BY <1>1, <2>4
  <2> HIDE DEF t
  <2> QED BY <2>5, <2>6, <2>7, <2>8 DEF Sent, t
<1>5. \/ ToSend(b) = <<>> /\ v = Record!Returns(shared, <<>>)
      \/ v \in Record!Execute(shared, w)
  BY DEF Record!BatchUpdates, ToSend, Record!Present
<1> QED BY <1>3, <1>4, <1>5

\* Table u has a row of its own for each place of a keyless object in batch b,
\* with the columns of the first object.
New(b) == seq..(seq + Len(Record!ToInsert(b)) - 1)
Placed(b, row, N) ==
    /\ row \in [Keyless(b) -> N]
    /\ \A i, j \in Keyless(b) : row[i] = row[j] => i = j
    /\ \A k \in N : \E i \in Keyless(b) : row[i] = k
Content(b, i, f) ==
    IF f \in DOMAIN Record!NonEmpty(objs[b[1]].vals) THEN objs[b[i]].vals[f] ELSE Record!Null
Added(b, u) ==
    \E row : /\ Placed(b, row, New(b))
             /\ \A i \in Keyless(b), f \in Fields : u[row[i]][f] = Content(b, i, f)

\* So has the INSERT.
LEMMA BatchRowsDo ==
    ASSUME RecordTyped, NEW b \in Seq(DOMAIN objs), Len(b) > 0, ~Record!MissesColumn(b),
           NEW n \in Nat, n = Len(Record!ToInsert(b))
    PROVE  /\ Record!BatchRows(b) \in TablesBelow(seq + n)
           /\ DOMAIN Record!BatchRows(b) = seq..(seq + n - 1)
           /\ Added(b, Record!BatchRows(b))
<1> DEFINE R == Record!BatchRows(b)
           ins == Record!ToInsert(b)
           C == Record!Columns(b)
           row(k) == Record!Row(Record!Restricted(objs[ins[k - seq + 1]].vals, C))
<1>1. /\ ins \in Seq(DOMAIN objs) /\ n = Len(ins)
      /\ \E at : Matches(at, Keyless(b), ins, b)
  BY ToInsertDoes
<1>2. R = [k \in seq..(seq + n - 1) |-> row(k)]
  BY DEF Record!BatchRows
<1>3. C = DOMAIN Record!NonEmpty(objs[b[1]].vals)
  BY DEF Record!Columns
<1>4. \A o \in Record!ToSet(ins) : C \subseteq DOMAIN objs[o].vals
  BY DEF Record!MissesColumn
<1>5. seq \in Nat \ {0}
  BY DEF RecordTyped
<1> HIDE DEF ins, C
<1>6. /\ \A j \in 1..Len(ins) : ins[j] \in DOMAIN objs /\ ins[j] \in Record!ToSet(ins)
  <2>1. DOMAIN ins = 1..Len(ins)
    BY <1>1, LenProperties
  <2> QED BY <1>1, <2>1, ElementOfSeq DEF Record!ToSet
<1>7. ASSUME NEW k \in seq..(seq + n - 1)
      PROVE  /\ R[k] \in FullRows
             /\ \A f \in Fields : R[k][f] = IF f \in C THEN objs[ins[k - seq + 1]].vals[f]
                                                  ELSE Record!Null
  <2> DEFINE o == ins[k - seq + 1]
             v == objs[o].vals
             x == Record!Restricted(v, C)
  <2>1. k - seq + 1 \in 1..Len(ins)
    BY <1>1, <1>5
  <2>2. o \in DOMAIN objs /\ C \subseteq DOMAIN v
    BY <1>4, <1>6, <2>1
  <2>3. v \in SomeColumns
    BY <2>2, ThingThere
  <2>4. R[k] = Record!Row(x)
    BY <1>2
  <2> HIDE DEF v, o
  <2>5. x \in SomeColumns /\ DOMAIN x = DOMAIN v \cap C /\ \A f \in DOMAIN v \cap C : x[f] = v[f]
    BY <2>3, RestrictedDoes
  <2> HIDE DEF x
  <2>6. /\ Record!Row(x) \in FullRows
        /\ \A f \in Fields : Record!Row(x)[f] = IF f \in DOMAIN x THEN x[f] ELSE Record!Null
    BY <2>5, RowDoes
  <2>7. \A f \in Fields : R[k][f] = IF f \in C THEN v[f] ELSE Record!Null
    BY <2>2, <2>4, <2>5, <2>6
  <2> QED BY <2>4, <2>6, <2>7 DEF v, o
<1>8. R = [k \in seq..(seq + n - 1) |-> R[k]] /\ DOMAIN R = seq..(seq + n - 1)
  BY <1>2
<1> HIDE DEF R
<1>9. R \in TablesBelow(seq + n)
  <2>1. seq..(seq + n - 1) \in SUBSET (1..((seq + n) - 1))
    BY <1>5
  <2>2. R \in [seq..(seq + n - 1) -> FullRows]
    BY <1>7, <1>8
  <2> QED BY <2>1, <2>2 DEF TablesBelow, Partials
<1>10. Added(b, R)
  <2>1. PICK at : Matches(at, Keyless(b), ins, b)
    BY <1>1
  <2> DEFINE place == [i \in Keyless(b) |-> seq + at[i] - 1]
             M == Keyless(b)
             K == New(b)
  <2>2. K = seq..(seq + n - 1)
    BY <1>1 DEF New, ins
  <2>3. \A i \in M : place[i] = seq + at[i] - 1 /\ place \in [M -> {seq + at[j] - 1 : j \in M}]
    OBVIOUS
  <2>4. /\ \A i \in M : at[i] \in 1..n /\ ins[at[i]] = b[i]
        /\ \A i, j \in M : at[i] = at[j] => i = j
        /\ \A j \in 1..n : \E i \in M : at[i] = j
    BY <1>1, <2>1 DEF Matches
  <2> HIDE DEF M, K
  <2>5. \A i \in M : /\ at[i] \in Nat /\ seq + at[i] - 1 \in seq..(seq + n - 1)
                    /\ (seq + at[i] - 1) - seq + 1 = at[i]
    BY <1>5, <2>4
  <2>6. place \in [M -> K]
    <3>1. place = [i \in M |-> seq + at[i] - 1]
      BY DEF M
    <3> QED BY <2>2, <2>5, <3>1
  <2> HIDE DEF place
  <2>7. \A i, j \in M : place[i] = place[j] => i = j
    BY <2>3, <2>4, <2>5
  <2>8. ASSUME NEW k \in K PROVE \E i \in M : place[i] = k
    <3>1. k \in Int /\ k - seq + 1 \in 1..n
      BY <1>5, <2>2
    <3>2. PICK i \in M : at[i] = k - seq + 1
      BY <2>4, <3>1
    <3> QED BY <1>5, <2>3, <3>1, <3>2
  <2>9. \A i \in M, f \in Fields : R[place[i]][f] = Content(b, i, f)
    <3> TAKE i \in M, f \in Fields
    <3>1. R[place[i]][f] = IF f \in C THEN objs[ins[place[i] - seq + 1]].vals[f] ELSE Record!Null
      BY <1>7, <2>2, <2>6
    <3>2. ins[place[i] - seq + 1] = b[i]
      BY <2>3, <2>4, <2>5
    <3> QED BY <1>3, <3>1, <3>2 DEF Content
  <2>10. Placed(b, place, New(b))
    BY <2>6, <2>7, <2>8 DEF Placed, M, K
  <2> QED BY <2>9, <2>10 DEF Added, M
<1> QED BY <1>8, <1>9, <1>10 DEF R

\* The statements of two commands, one after the other.
LEMMA AfterBoth ==
    ASSUME NEW t, NEW W, NEW d \in Seq(W), NEW e, e = <<>> \/ \E w \in W : e = <<w>>
    PROVE  /\ Record!After(t, d \o e) = Record!After(Record!After(t, d), e)
           /\ d \o e \in Seq(W)
<1>1. CASE e = <<>>
  <2>1. d \o e = d
    BY <1>1, ConcatEmptySeq
  <2> DEFINE u == Record!After(t, d)
  <2>2. u = Record!After(t, d)
    OBVIOUS
  <2> HIDE DEF u
  <2>3. Record!After(u, <<>>) = u
    <3> DEFINE V == {u}
    <3>1. <<>> \in Seq(V) /\ u \in V
      BY EmptySeq
    <3> HIDE DEF V
    <3> QED BY <3>1, AfterDoes
  <2> QED BY <1>1, <2>1, <2>2, <2>3
<1>2. ASSUME NEW w \in W, e = <<w>>
      PROVE  /\ Record!After(t, d \o e) = Record!After(Record!After(t, d), e)
             /\ d \o e \in Seq(W)
  <2>1. d \o e = Append(d, w) /\ Append(d, w) \in Seq(W)
    BY <1>2, AppendIsConcat, AppendProperties
  <2>2. Record!After(t, Append(d, w)) = Record!Effect(Record!After(t, d), w)
    BY AfterDoes
  <2> DEFINE u == Record!After(t, d)
  <2>3. u = Record!After(t, d)
    OBVIOUS
  <2> HIDE DEF u
  <2>4. Record!After(u, <<w>>) = Record!Effect(u, w)
    BY AfterOne
  <2> QED BY <1>2, <2>1, <2>2, <2>3, <2>4
<1> QED BY <1>1, <1>2

\* The outcome e of the INSERT after that of the UPDATEs, v: all rows, or
\* nothing more than v, or the transaction is gone.
Finished(b, v, e) ==
    /\ Clean(StatementsBelow(seq + Len(Record!ToInsert(b))), e.conn)
    /\ e = [ok |-> e.ok, conn |-> e.conn, done |-> e.done] /\ e.ok \in BOOLEAN
    /\ e.done = <<>>
       \/ \E w \in StatementsBelow(seq + Len(Record!ToInsert(b))) : e.done = <<w>>
    /\ e.ok => /\ DOMAIN ViewAfter(Record!After(rows, v.done), e) = New(b) \cup DOMAIN ViewAfter(rows, v)
               /\ \A k \in DOMAIN ViewAfter(rows, v) :
                     ViewAfter(Record!After(rows, v.done), e)[k] = ViewAfter(rows, v)[k]
               /\ Added(b, ViewAfter(Record!After(rows, v.done), e))
    /\ ~e.ok => \/ ViewAfter(Record!After(rows, v.done), e) \in {ViewAfter(rows, v), rows}
                \/ e.conn.srv = "lost"

\* The table after the UPDATEs.
LEMMA SentView ==
    ASSUME RecordTyped, NEW b, NEW v, Sent(b, v), v.ok
    PROVE  /\ Record!After(rows, v.done) \in TablesBelow(seq)
           /\ ViewAfter(rows, v) \in TablesBelow(seq)
           /\ Record!After(rows, v.done) \in {ViewAfter(rows, v), rows}
<1> DEFINE m == Record!After(rows, v.done)
<1>1. /\ seq \in Nat /\ rows \in TablesBelow(seq) /\ v.done \in Seq(StatementsBelow(seq))
      /\ v.conn.work \in Seq(StatementsBelow(seq))
  BY DEF RecordTyped, Sent, Sound, Clean
<1>2. m \in TablesBelow(seq)
  BY <1>1, AfterTyped
<1>3. ViewAfter(rows, v) = Record!After(m, v.conn.work)
  BY DEF ViewAfter
<1>4. v.done = <<>> => m = rows
  <2>1. Record!After(rows, <<>>) = rows
    <3> DEFINE V == {rows}
    <3>1. <<>> \in Seq(V) /\ rows \in V
      BY EmptySeq
    <3> HIDE DEF V
    <3> QED BY <3>1, AfterDoes
  <2> QED BY <2>1
<1> HIDE DEF m
<1>5. Record!After(m, v.conn.work) \in TablesBelow(seq)
  BY <1>1, <1>2, AfterTyped
<1>6. v.conn.work = <<>> => Record!After(m, v.conn.work) = m
  <2>1. Record!After(m, <<>>) = m
    <3> DEFINE V == {m}
    <3>1. <<>> \in Seq(V) /\ m \in V
      BY EmptySeq
    <3> HIDE DEF V
    <3> QED BY <3>1, AfterDoes
  <2> QED BY <2>1
<1> QED BY <1>2, <1>3, <1>4, <1>5, <1>6 DEF m, Sent

LEMMA FinishedIs ==
    ASSUME RecordTyped, NEW b \in Seq(DOMAIN objs), Len(b) > 0, NEW v, Sent(b, v), v.ok,
           NEW e \in Record!BatchInserts(b, v.conn)
    PROVE  Finished(b, v, e)
<1> DEFINE n == Len(Record!ToInsert(b))
           W == StatementsBelow(seq + n)
           m == Record!After(rows, v.done)
           t == ViewAfter(rows, v)
           u == ViewAfter(m, e)
           c == v.conn
           R == Record!BatchRows(b)
           w == Record!InsertOf(R)
<1>1. /\ seq \in Nat \ {0} /\ n \in Nat /\ seq + n \in Nat /\ seq <= seq + n
      /\ \A i \in Keyless(b) : \E j \in 1..n : TRUE
  BY ToInsertDoes DEF RecordTyped
<1>2. m \in TablesBelow(seq) /\ t \in TablesBelow(seq) /\ m \in {t, rows}
  BY SentView
<1>3. Clean(W, c)
  <2> DEFINE V == StatementsBelow(seq)
  <2>1. V \subseteq W
    BY <1>1, MoreKeys
  <2>2. Clean(V, c)
    BY DEF Sent, Sound
  <2> HIDE DEF V, W, c
  <2> QED BY <2>1, <2>2, MoreStatements
<1>4. t = Record!After(m, c.work)
  BY DEF ViewAfter
<1>5. <<>> \in Seq(W) /\ c.work \in Seq(W)
  BY <1>3, EmptySeq DEF Clean
<1>6. u = Record!After(Record!After(m, e.done), e.conn.work)
  BY DEF ViewAfter
<1>7. /\ Finished(b, v, e)
         <=> /\ Clean(W, e.conn)
             /\ e = [ok |-> e.ok, conn |-> e.conn, done |-> e.done] /\ e.ok \in BOOLEAN
             /\ e.done = <<>> \/ \E x \in W : e.done = <<x>>
             /\ e.ok => /\ DOMAIN u = New(b) \cup DOMAIN t
                        /\ \A k \in DOMAIN t : u[k] = t[k]
                        /\ Added(b, u)
             /\ ~e.ok => u \in {t, rows} \/ e.conn.srv = "lost"
      /\ New(b) = seq..(seq + n - 1)
  BY DEF Finished, New
<1>8. ASSUME e.conn = c, e.done = <<>> PROVE u = t
  <2> HIDE DEF m, c
  <2>1. Record!After(m, <<>>) = m
    <3> DEFINE V == {m}
    <3>1. <<>> \in Seq(V) /\ m \in V
      BY EmptySeq
    <3> HIDE DEF V
    <3> QED BY <3>1, AfterDoes
  <2> QED BY <1>4, <1>6, <1>8, <2>1
<1>9. CASE Record!ToInsert(b) = <<>> /\ e = Record!Returns(c, <<>>)
  <2>1. e = [ok |-> TRUE, conn |-> c, done |-> <<>>]
    BY <1>9 DEF Record!Returns
  <2>2. u = t
    BY <1>8, <2>1
  <2>3. New(b) = {} /\ Keyless(b) = {}
    <3>1. n = 0 /\ seq..(seq + n - 1) = {}
      BY <1>1, <1>9
    <3>2. Keyless(b) = {}
      BY <1>1, <3>1
    <3> QED BY <1>7, <3>1, <3>2
  <2>4. Added(b, u)
    <3> DEFINE none == [i \in Keyless(b) |-> seq]
    <3>1. Placed(b, none, New(b))
      BY <2>3 DEF Placed
    <3> HIDE DEF none, u
    <3> QED BY <2>3, <3>1 DEF Added
  <2> HIDE DEF t, u, c, W, n
  <2> QED BY <1>3, <1>7, <2>1, <2>2, <2>3, <2>4
<1>10. CASE e = Record!Throws(c, <<>>)
  <2>1. e = [ok |-> FALSE, conn |-> c, done |-> <<>>]
    BY <1>10 DEF Record!Throws
  <2>2. u = t
    BY <1>8, <2>1
  <2> HIDE DEF t, u, c, W, n
  <2> QED BY <1>3, <1>7, <2>1, <2>2
<1>11. CASE ~Record!MissesColumn(b) /\ e \in Record!Execute(c, w)
  <2>1. /\ R \in TablesBelow(seq + n) /\ DOMAIN R = New(b) /\ Added(b, R)
    <3>1. n = Len(Record!ToInsert(b)) /\ ~Record!MissesColumn(b)
      BY <1>11
    <3> HIDE DEF n, R
    <3>2. /\ Record!BatchRows(b) \in TablesBelow(seq + n)
          /\ DOMAIN Record!BatchRows(b) = seq..(seq + n - 1)
          /\ Added(b, Record!BatchRows(b))
      BY <1>1, <3>1, BatchRowsDo
    <3> QED BY <1>7, <3>2 DEF R
  <2>2. w \in W /\ w = Record!InsertOf(R)
    BY <1>1, <2>1, StatementParts
  <2>3. m \in TablesBelow(seq + n) /\ t \in TablesBelow(seq + n) /\ DOMAIN t \subseteq 1..(seq - 1)
    BY <1>1, <1>2, MoreKeys, PartialIs DEF TablesBelow
  <2> HIDE DEF w, W, c, n, m, t, R
  <2>4. Clean(W, e.conn) /\ Answered(c, w, e)
    BY <1>3, <1>11, <2>2, ExecuteAnswers
  <2>5. /\ e.ok => u = Record!Effect(t, w)
        /\ ~e.ok => u \in {t, m} \/ e.conn.srv = "lost"
    <3> HIDE DEF u
    <3> QED BY <1>3, <1>4, <2>2, <2>4, AnswerView DEF u
  <2>6. e.ok => /\ DOMAIN u = New(b) \cup DOMAIN t
                /\ \A k \in DOMAIN t : u[k] = t[k]
                /\ Added(b, u)
    <3> HIDE DEF u
    <3> SUFFICES ASSUME e.ok PROVE /\ DOMAIN u = New(b) \cup DOMAIN t
                                   /\ \A k \in DOMAIN t : u[k] = t[k]
                                   /\ Added(b, u)
      OBVIOUS
    <3> DEFINE N == seq + n
    <3>1. N \in Nat /\ R \in TablesBelow(N) /\ t \in TablesBelow(N)
      BY <1>1, <2>1, <2>3
    <3> HIDE DEF N
    <3>2. /\ DOMAIN Record!Effect(t, Record!InsertOf(R)) = DOMAIN R \cup DOMAIN t
          /\ \A k \in DOMAIN R : Record!Effect(t, Record!InsertOf(R))[k] = R[k]
          /\ \A k \in DOMAIN t \ DOMAIN R : Record!Effect(t, Record!InsertOf(R))[k] = t[k]
          /\ u = Record!Effect(t, Record!InsertOf(R))
      BY <2>2, <2>5, <3>1, InsertDoes
    <3>3. DOMAIN t \cap New(b) = {}
      BY <1>1, <1>7, <2>3
    <3>4. \A k \in New(b) : u[k] = R[k]
      BY <2>1, <3>2
    <3>5. Added(b, u)
      BY <2>1, <3>4 DEF Added, Placed
    <3> QED BY <2>1, <3>2, <3>3, <3>5
  <2>7. /\ e = [ok |-> e.ok, conn |-> e.conn, done |-> e.done] /\ e.ok \in BOOLEAN
        /\ e.done = <<>> \/ e.done = <<w>>
    BY <2>4 DEF Answered
  <2> HIDE DEF u
  <2> QED BY <1>2, <1>7, <2>2, <2>4, <2>5, <2>6, <2>7
<1>12. \/ Record!ToInsert(b) = <<>> /\ e = Record!Returns(c, <<>>)
       \/ e = Record!Throws(c, <<>>)
       \/ ~Record!MissesColumn(b) /\ e \in Record!Execute(c, w)
  BY DEF Record!BatchInserts
<1> QED BY <1>9, <1>10, <1>11, <1>12

\* saveMany with an outcome v of the UPDATEs that failed, or with v and then an
\* outcome e of the INSERT.
BatchEnds(b, v, e) ==
    /\ Sent(b, v) /\ seq' = seq + Len(Record!ToInsert(b))
    /\ answer'.op = "saveMany" /\ answer'.batch = b
    /\ UNCHANGED <<objs, maker>> /\ unsure \subseteq unsure'
    /\ \/ ~v.ok /\ Record!Outcome(v) /\ answer'.ok = FALSE
       \/ /\ v.ok /\ Finished(b, v, e) /\ answer'.ok = e.ok
          /\ Record!Outcome([ok |-> e.ok, conn |-> e.conn, done |-> v.done \o e.done])

LEMMA BatchEndsIs ==
    ASSUME RecordTyped, NEW b \in Record!Batches, Record!SaveMany(b)
    PROVE  \E v, e : BatchEnds(b, v, e)
<1> USE DEF Record!Called
<1>1. b \in Seq(DOMAIN objs) /\ Len(b) > 0
  BY BatchIs
<1>2. PICK v \in Record!BatchUpdates(b) :
         \E r \in IF v.ok THEN Record!BatchInserts(b, v.conn) ELSE {v} :
            /\ Record!Outcome([r EXCEPT !.done = IF v.ok THEN v.done \o @ ELSE @])
            /\ Record!Called("saveMany", r.ok, b)
  BY DEF Record!SaveMany
<1>3. Sent(b, v)
  BY <1>1, SentIs
<1>4. /\ seq' = seq + Len(Record!ToInsert(b)) /\ UNCHANGED <<objs, maker>>
      /\ unsure \subseteq unsure'
  BY DEF Record!SaveMany
<1>5. CASE ~v.ok
  <2>1. v = [ok |-> v.ok, conn |-> v.conn, done |-> v.done] /\ v.ok \in BOOLEAN
    BY <1>3 DEF Sent
  <2>2. [v EXCEPT !.done = v.done] = v
    BY <2>1
  <2>3. Record!Outcome(v) /\ Record!Called("saveMany", v.ok, b)
    BY <1>2, <1>5, <2>2
  <2> QED BY <1>3, <1>4, <1>5, <2>1, <2>3 DEF BatchEnds
<1>6. CASE v.ok
  <2>1. PICK e \in Record!BatchInserts(b, v.conn) :
           /\ Record!Outcome([e EXCEPT !.done = v.done \o @])
           /\ Record!Called("saveMany", e.ok, b)
    BY <1>2, <1>6
  <2>2. Finished(b, v, e)
    BY <1>1, <1>3, <1>6, FinishedIs
  <2> DEFINE d == v.done \o e.done
  <2>3. [e EXCEPT !.done = d] = [ok |-> e.ok, conn |-> e.conn, done |-> d]
    <3>1. e = [ok |-> e.ok, conn |-> e.conn, done |-> e.done]
      BY <2>2 DEF Finished
    <3> HIDE DEF d
    <3> QED BY <3>1
  <2>4. Record!Outcome([ok |-> e.ok, conn |-> e.conn, done |-> v.done \o e.done])
    BY <2>1, <2>3
  <2>5. BatchEnds(b, v, e)
    BY <1>3, <1>4, <1>6, <2>1, <2>2, <2>4 DEF BatchEnds
  <2> QED BY <2>5
<1> QED BY <1>5, <1>6

LEMMA BatchTyped ==
    ASSUME RecordTyped, NEW b \in Seq(DOMAIN objs), NEW v, NEW e, BatchEnds(b, v, e)
    PROVE  RecordTyped'
<1> DEFINE n == Len(Record!ToInsert(b))
           V == StatementsBelow(seq)
           W == StatementsBelow(seq')
<1>1. /\ seq \in Nat /\ seq' \in Nat /\ seq <= seq' /\ objs' \in Partials(Objs, Things)
      /\ seq' = seq + n
  BY ToInsertDoes DEF RecordTyped, BatchEnds
<1>2. V \subseteq W /\ Clean(V, v.conn) /\ v.done \in Seq(V)
  BY <1>1, MoreKeys DEF BatchEnds, Sent, Sound
<1>3. Clean(W, v.conn) /\ v.done \in Seq(W)
  <2> HIDE DEF V, W
  <2> QED BY <1>2, MoreStatements
<1>4. CASE ~v.ok /\ Record!Outcome(v)
  <2>1. Sound(seq', v)
    BY <1>3 DEF Sound
  <2> QED BY <1>1, <1>4, <2>1, OutcomeTyped
<1>5. CASE /\ Finished(b, v, e)
           /\ Record!Outcome([ok |-> e.ok, conn |-> e.conn, done |-> v.done \o e.done])
  <2> DEFINE r == [ok |-> e.ok, conn |-> e.conn, done |-> v.done \o e.done]
  <2>1. /\ Clean(W, e.conn)
        /\ e.done = <<>> \/ \E w \in W : e.done = <<w>>
    BY <1>1, <1>5 DEF Finished
  <2>2. v.done \o e.done \in Seq(W)
    <3> HIDE DEF W
    <3> QED BY <1>3, <2>1, AfterBoth
  <2>3. Sound(seq', r)
    BY <2>1, <2>2 DEF Sound
  <2>4. Record!Outcome(r)
    BY <1>5
  <2> HIDE DEF r
  <2> QED BY <1>1, <2>3, <2>4, OutcomeTyped
<1> QED BY <1>4, <1>5 DEF BatchEnds

\* Model counts with an instance of FiniteSets of its own.
LEMMA SameCount ==
    ASSUME NEW S
    PROVE  Record!Cardinality(S) = Cardinality(S)
BY Zenon DEF Record!Cardinality, Cardinality

\* The table after saveMany, as the connection sees it.
LEMMA BatchView ==
    ASSUME RecordTyped, NEW b, NEW v, NEW e, BatchEnds(b, v, e)
    PROVE  /\ ~v.ok => /\ Record!View(rows', shared') = ViewAfter(rows, v)
                       /\ shared' = v.conn
           /\ v.ok => /\ Record!View(rows', shared') = ViewAfter(Record!After(rows, v.done), e)
                      /\ shared' = e.conn
<1>1. CASE ~v.ok
  BY <1>1 DEF BatchEnds, Record!Outcome, Record!View, ViewAfter
<1>2. CASE v.ok
  <2> DEFINE n == Len(Record!ToInsert(b))
             V == StatementsBelow(seq)
             W == StatementsBelow(seq + n)
             d == v.done \o e.done
  <2>1. /\ shared' = e.conn /\ rows' = Record!After(rows, d) /\ v.done \in Seq(V)
        /\ e.done = <<>> \/ \E w \in W : e.done = <<w>>
    BY <1>2 DEF BatchEnds, Record!Outcome, Finished, Sent, Sound
  <2>2. Record!After(rows, d) = Record!After(Record!After(rows, v.done), e.done)
    <3> DEFINE X == V \cup W
               x == v.done
               y == e.done
    <3>1. x \in Seq(X) /\ (y = <<>> \/ \E w \in X : y = <<w>>) /\ d = x \o y
      BY <2>1
    <3> HIDE DEF X, x, y, d
    <3>2. Record!After(rows, x \o y) = Record!After(Record!After(rows, x), y)
      BY <3>1, AfterBoth
    <3> QED BY <3>1, <3>2 DEF x, y
  <2> HIDE DEF d
  <2> QED BY <1>2, <2>1, <2>2 DEF Record!View, ViewAfter
<1> QED BY <1>1, <1>2

LEMMA BatchStepHolds ==
    ASSUME RecordTyped, NEW b \in Seq(DOMAIN objs), NEW v, NEW e, BatchEnds(b, v, e)
    PROVE  Record!BatchStep(b, answer'.ok)
<1> DEFINE t == Record!View(rows, shared)
           u == Record!View(rows', shared')
           n == Len(Record!ToInsert(b))
           new == DOMAIN u \ DOMAIN t
           updated == /\ DOMAIN t \subseteq DOMAIN u
                      /\ \A k \in DOMAIN t, f \in Fields :
                           u[k][f] \in IF Given(b, k, f) = {} THEN {t[k][f]} ELSE Given(b, k, f)
           inserted == \E row \in [Keyless(b) -> new] :
                         /\ \A i, j \in Keyless(b) : row[i] = row[j] => i = j
                         /\ \A k \in new : \E i \in Keyless(b) : row[i] = k
                         /\ \A i \in Keyless(b) : \A f \in Fields : u[row[i]][f] = Content(b, i, f)
<1>1. Record!BatchStep(b, answer'.ok) <=>
        IF answer'.ok THEN updated /\ inserted
                      ELSE u \in {t, rows} \/ (new = {} /\ updated) \/ shared'.srv = "lost"
  BY Zenon DEF Record!BatchStep, Given, Keyless, Content
<1>2. /\ seq \in Nat \ {0} /\ n \in Nat /\ DOMAIN t \subseteq 1..(seq - 1)
      /\ New(b) = seq..(seq + n - 1)
  BY ToInsertDoes, ViewTyped DEF New
<1>3. Sent(b, v)
  BY DEF BatchEnds
<1>4. CASE ~v.ok
  <2>1. u \in {t, rows} \/ shared'.srv = "lost"
    BY <1>3, <1>4, BatchView DEF Sent
  <2>2. ~answer'.ok
    BY <1>4 DEF BatchEnds
  <2> HIDE DEF t, u, new, updated, inserted
  <2> QED BY <1>1, <2>1, <2>2
<1>5. CASE v.ok
  <2> DEFINE m == ViewAfter(rows, v)
  <2>1. UpdatedTo(b, t, m)
    BY <1>3, <1>5 DEF Sent
  <2>2. u = ViewAfter(Record!After(rows, v.done), e) /\ shared' = e.conn
    BY <1>5, BatchView
  <2>3. answer'.ok = e.ok /\ Finished(b, v, e)
    BY <1>5 DEF BatchEnds
  <2>4. /\ e.ok => /\ DOMAIN u = New(b) \cup DOMAIN m
                   /\ \A k \in DOMAIN m : u[k] = m[k]
                   /\ Added(b, u)
        /\ ~e.ok => u \in {m, rows} \/ shared'.srv = "lost"
    BY <2>2, <2>3 DEF Finished
  <2> HIDE DEF t, u, m, n
  <2>5. CASE e.ok
    <3>1. new = New(b)
      BY <1>2, <2>1, <2>4, <2>5 DEF UpdatedTo
    <3>2. updated
      BY <2>1, <2>4, <2>5 DEF UpdatedTo
    <3>3. inserted
      <4> HIDE DEF new
      <4>1. PICK row : /\ Placed(b, row, New(b))
                       /\ \A i \in Keyless(b), f \in Fields : u[row[i]][f] = Content(b, i, f)
        BY <2>4, <2>5 DEF Added
      <4>2. row \in [Keyless(b) -> new]
        BY <3>1, <4>1 DEF Placed
      <4> QED BY <3>1, <4>1, <4>2 DEF Placed
    <3> HIDE DEF new, updated, inserted
    <3> QED BY <1>1, <2>3, <2>5, <3>2, <3>3
  <2>6. CASE ~e.ok
    <3>1. u = m => new = {} /\ updated
      BY <2>1 DEF UpdatedTo
    <3> HIDE DEF new, updated, inserted
    <3> QED BY <1>1, <2>3, <2>4, <2>6, <3>1
  <2> QED BY <2>5, <2>6
<1> QED BY <1>4, <1>5
-----------------------------------------------------------------------------
(* The steps of a Model.                                                   *)

\* save() that does not get as far as a statement.
Refused ==
    /\ UNCHANGED <<shared, rows, seq, objs, maker, unsure>>
    /\ answer'.op = "save" /\ answer'.ok = FALSE

\* What a step does.
Kinds ==
    \/ UNCHANGED Record!vars
    \/ InMemory
    \/ Refused
    \/ \E r : OtherWrite(r)
    \/ \E o, r : Updated(o, r) \/ Inserted(o, r)
    \/ \E b \in Seq(DOMAIN objs) : \E v, e : BatchEnds(b, v, e)

LEMMA StepKinds ==
    ASSUME RecordTyped, [Record!Next]_(Record!vars)
    PROVE  Kinds /\ RecordTyped'
<1> DEFINE same == UNCHANGED <<shared, rows, seq, objs>>
<1>1. ASSUME same PROVE RecordTyped'
  BY <1>1, Zenon DEF RecordTyped, TablesBelow, StatementsBelow, Partials, FullRows, SomeColumns,
                     Contents, Clean
<1>2. CASE UNCHANGED Record!vars
  BY <1>1, <1>2 DEF Kinds, Record!vars
<1>3. ASSUME NEW o \in Objs,
             \/ \E data \in Inputs, all \in BOOLEAN : Record!Create(o, data, all)
             \/ \E data \in Inputs : Record!Fill(o, data)
             \/ \E f \in Fields, v \in Texts : Record!SetAttribute(o, f, v)
             \/ \E id \in 1..MaxId : Record!Find(o, id)
      PROVE  Kinds /\ RecordTyped'
  BY <1>3, MemoryCalls DEF Kinds
<1>4. ASSUME NEW o \in Objs, Record!SaveRefused(o)
      PROVE  Kinds /\ RecordTyped'
  <2>1. Refused
    BY <1>4 DEF Record!SaveRefused, Record!Memory, Record!Called, Refused
  <2> QED BY <1>1, <2>1 DEF Kinds, Refused
<1>5. ASSUME NEW o \in Objs, Record!SaveUpdate(o) \/ Record!SaveInsert(o)
      PROVE  Kinds /\ RecordTyped'
  <2>1. PICK r : Updated(o, r) \/ Inserted(o, r)
    BY <1>5, UpdatedIs, InsertedIs
  <2> QED BY <2>1, SavedTyped DEF Kinds
<1>6. ASSUME NEW b \in Record!Batches, Record!SaveMany(b)
      PROVE  Kinds /\ RecordTyped'
  <2>1. PICK v, e : BatchEnds(b, v, e)
    BY <1>6, BatchEndsIs
  <2>2. b \in Seq(DOMAIN objs)
    BY BatchIs
  <2> QED BY <2>1, <2>2, BatchTyped DEF Kinds
<1>7. ASSUME \/ \E o \in Objs : Record!Delete(o)
             \/ \E b \in Record!Batches : Record!DeleteAll(b)
             \/ \E id \in 1..MaxId : Record!DeleteById(id)
             \/ \E f \in Fields, v \in Texts : Record!DeleteWhere(f, v)
             \/ \E id \in 1..MaxId, data \in Inputs : Record!Update(id, data)
             \/ Record!Begin \/ Record!End \/ Record!Undo \/ Record!SetDatabase
      PROVE  Kinds /\ RecordTyped'
  <2>1. PICK r : OtherWrite(r)
    BY <1>7, DeletionCalls, OtherCalls
  <2> QED BY <2>1, OtherTyped DEF Kinds
<1>8. CASE Record!Next
  BY <1>3, <1>4, <1>5, <1>6, <1>7, <1>8 DEF Record!Next
<1> QED BY <1>2, <1>8

\* An object that save() has inserted is where it says: an inserted key is the
\* key of its object, unless an answer was lost on the way.
KeysKept ==
    \A k \in DOMAIN maker :
        /\ k \in Nat \ {0} /\ maker[k] \in DOMAIN objs
        /\ maker[k] \in unsure \/ objs[maker[k]].id = k

LEMMA KeysStayKept ==
    ASSUME RecordTyped, KeysKept, Kinds
    PROVE  KeysKept'
<1>1. CASE /\ UNCHANGED maker /\ unsure \subseteq unsure' /\ SameIds
  BY <1>1 DEF KeysKept, SameIds
<1>2. UNCHANGED objs => SameIds
  BY DEF SameIds
<1>3. CASE UNCHANGED Record!vars \/ InMemory \/ Refused \/ \E r : OtherWrite(r)
  BY <1>1, <1>2, <1>3 DEF Record!vars, InMemory, Refused, OtherWrite
<1>4. ASSUME NEW o, NEW r, Updated(o, r)
      PROVE  KeysKept'
  <2>1. UNCHANGED <<maker, objs>> /\ unsure \subseteq unsure'
    BY <1>4 DEF Updated, Saved
  <2> QED BY <1>1, <1>2, <2>1
<1>5. ASSUME NEW o, NEW r, Inserted(o, r)
      PROVE  KeysKept'
  <2> DEFINE one == [k \in {seq} |-> o]
  <2>1. /\ o \in DOMAIN objs /\ objs[o].id = 0 /\ seq \in Nat \ {0}
        /\ objs' = IF r.ok THEN [objs EXCEPT ![o] = Record!WithKey(@, seq)] ELSE objs
        /\ unsure' = IF r.ok THEN unsure ELSE unsure \cup {o}
        /\ maker' = Record!Over(one, maker)
        /\ DOMAIN one = {seq} /\ one[seq] = o
    BY <1>5 DEF Inserted, Saved, RecordTyped
  <2>2. /\ DOMAIN maker' = {seq} \cup DOMAIN maker /\ maker'[seq] = o
        /\ \A k \in DOMAIN maker \ {seq} : maker'[k] = maker[k]
    <3> HIDE DEF one
    <3>1. /\ DOMAIN Record!Over(one, maker) = DOMAIN one \cup DOMAIN maker
          /\ \A x \in DOMAIN one : Record!Over(one, maker)[x] = one[x]
          /\ \A x \in DOMAIN maker \ DOMAIN one : Record!Over(one, maker)[x] = maker[x]
      BY OverDoes
    <3> QED BY <2>1, <3>1
  <2>3. /\ DOMAIN objs' = DOMAIN objs
        /\ \A p \in DOMAIN objs \ {o} : objs'[p] = objs[p]
        /\ r.ok => objs'[o].id = seq
    <3>1. objs[o] \in Things
      BY <2>1, ThingThere
    <3>2. Record!WithKey(objs[o], seq).id = seq
      BY <3>1 DEF Record!WithKey, Things
    <3> QED BY <2>1, <3>2
  <2>4. ASSUME NEW k \in DOMAIN maker'
        PROVE  /\ k \in Nat \ {0} /\ maker'[k] \in DOMAIN objs'
               /\ maker'[k] \in unsure' \/ objs'[maker'[k]].id = k
    <3>1. CASE k = seq
      BY <2>1, <2>2, <2>3, <3>1
    <3>2. CASE k # seq
      <4>1. k \in DOMAIN maker /\ maker'[k] = maker[k]
        BY <2>2, <3>2
      <4>2. /\ k \in Nat \ {0} /\ maker[k] \in DOMAIN objs
            /\ maker[k] \in unsure \/ objs[maker[k]].id = k
        BY <4>1 DEF KeysKept
      <4>3. maker[k] \in unsure \/ maker[k] # o
        BY <2>1, <4>2
      <4> QED BY <2>1, <2>3, <4>1, <4>2, <4>3
    <3> QED BY <3>1, <3>2
  <2> QED BY <2>4 DEF KeysKept
<1>6. ASSUME NEW b \in Seq(DOMAIN objs), NEW v, NEW e, BatchEnds(b, v, e)
      PROVE  KeysKept'
  <2>1. UNCHANGED <<maker, objs>> /\ unsure \subseteq unsure'
    BY <1>6 DEF BatchEnds
  <2> QED BY <1>1, <1>2, <2>1
<1> QED BY <1>3, <1>4, <1>5, <1>6 DEF Kinds

\* Then only the key that the object has can lead to it.
LEMMA KeptOneRow ==
    ASSUME KeysKept
    PROVE  Record!OneRowPerObject
<1> DEFINE t == Record!View(rows, shared)
<1>1. ASSUME NEW o \in Objs \ unsure
      PROVE  Record!Cardinality({k \in DOMAIN t \cap DOMAIN maker : maker[k] = o}) <= 1
  <2> DEFINE S == {k \in DOMAIN t \cap DOMAIN maker : maker[k] = o}
             x == objs[o].id
  <2>1. S \subseteq {x}
    BY DEF KeysKept
  <2> HIDE DEF S, x
  <2>2. IsFiniteSet({x}) /\ Cardinality({x}) = 1
    BY FS_Singleton
  <2>3. Cardinality(S) <= 1
    BY <2>1, <2>2, FS_Subset
  <2>4. Record!Cardinality(S) = Cardinality(S)
    BY SameCount
  <2> QED BY <2>3, <2>4 DEF S
<1> QED BY <1>1, Zenon DEF Record!OneRowPerObject
-----------------------------------------------------------------------------
(* save() writes its own row.                                              *)

\* The answer of a single statement on the shared connection.
LEMMA SavedView ==
    ASSUME RecordTyped, NEW n \in Nat, seq <= n, NEW w \in StatementsBelow(n), NEW r,
           Clean(StatementsBelow(n), r.conn), Answered(shared, w, r), Record!Outcome(r), r.ok
    PROVE  Record!View(rows', shared') = Record!Effect(Record!View(rows, shared), w)
<1> DEFINE V == StatementsBelow(seq)
           W == StatementsBelow(n)
           t == Record!View(rows, shared)
<1>1. V \subseteq W /\ Clean(V, shared)
  BY MoreKeys DEF RecordTyped
<1>2. w \in W /\ Clean(W, r.conn)
  OBVIOUS
<1>3. t = Record!After(rows, shared.work)
  BY DEF Record!View
<1>4. Record!View(rows', shared') = ViewAfter(rows, r)
  BY DEF Record!View, Record!Outcome, ViewAfter
<1> HIDE DEF V, W, t
<1>5. Clean(W, shared)
  BY <1>1, MoreStatements
<1>6. ViewAfter(rows, r) = Record!Effect(Record!After(rows, shared.work), w)
  BY <1>2, <1>5, AnswerView
<1> QED BY <1>3, <1>4, <1>6 DEF t

\* What save() did to the row of its object, and to the table.
SaveOf(o, t, u) ==
    /\ IF objs[o].id = 0 THEN objs'[o].id \notin DOMAIN t /\ DOMAIN u = DOMAIN t \cup {objs'[o].id}
                         ELSE DOMAIN u = DOMAIN t
    /\ \A k \in DOMAIN u, f \in Fields :
          u[k][f] = IF k = objs'[o].id /\ f \in DOMAIN objs[o].vals THEN objs[o].vals[f]
                    ELSE IF k \in DOMAIN t THEN t[k][f] ELSE Record!Null

LEMMA SaveOfIs ==
    ASSUME NEW o
    PROVE  SaveOf(o, Record!View(rows, shared), Record!View(rows', shared')) <=> Record!SaveStep(o)
BY Zenon DEF SaveOf, Record!SaveStep

LEMMA UpdatesOwnRow ==
    ASSUME RecordTyped, NEW o, NEW r, Updated(o, r), r.ok
    PROVE  Record!SaveStep(o)
<1> DEFINE t == Record!View(rows, shared)
           u == Record!View(rows', shared')
           x == Record!Sets(objs[o])
           w == Record!UpdateOf(x)
<1>1. /\ seq \in Nat /\ seq <= seq /\ t \in TablesBelow(seq)
  BY ViewTyped
<1>2. /\ x \in Partials(Nat, SomeColumns) /\ Clean(StatementsBelow(seq), r.conn)
      /\ Answered(shared, w, r) /\ Record!Outcome(r) /\ objs' = objs /\ objs[o].id # 0
  BY DEF Updated, Saved
<1>3. w \in StatementsBelow(seq) /\ w = Record!UpdateOf(x)
  BY <1>1, <1>2, StatementParts
<1>4. x = [k \in {objs[o].id} |-> objs[o].vals]
  BY DEF Record!Sets
<1> HIDE DEF w, x
<1>5. u = Record!Effect(t, w)
  BY <1>1, <1>2, <1>3, SavedView
<1> HIDE DEF t
<1>6. /\ DOMAIN Record!Effect(t, Record!UpdateOf(x)) = DOMAIN t
      /\ \A k \in DOMAIN t, f \in Fields :
            Record!Effect(t, Record!UpdateOf(x))[k][f] =
               IF k \in DOMAIN x /\ f \in DOMAIN x[k] THEN x[k][f] ELSE t[k][f]
  BY <1>1, <1>2, UpdateDoes
<1> HIDE DEF u
<1>7. /\ objs[o].id # 0 /\ objs'[o].id = objs[o].id /\ DOMAIN u = DOMAIN t
      /\ \A k \in DOMAIN u, f \in Fields :
            u[k][f] = IF k = objs[o].id /\ f \in DOMAIN objs[o].vals THEN objs[o].vals[f]
                      ELSE IF k \in DOMAIN t THEN t[k][f] ELSE Record!Null
  BY <1>2, <1>3, <1>4, <1>5, <1>6
<1>8. SaveOf(o, t, u)
  BY <1>7 DEF SaveOf
<1> QED BY <1>8, SaveOfIs DEF t, u

LEMMA InsertsOwnRow ==
    ASSUME RecordTyped, NEW o, NEW r, Inserted(o, r), r.ok
    PROVE  Record!SaveStep(o)
<1> DEFINE t == Record!View(rows, shared)
           u == Record!View(rows', shared')
           x == NewRow(o)
           w == Record!InsertOf(x)
           n == seq + 1
<1>1. /\ seq \in Nat /\ n \in Nat /\ seq <= n /\ n = seq + 1
      /\ t \in TablesBelow(seq) /\ DOMAIN t \subseteq 1..(seq - 1)
  BY ViewTyped
<1>2. /\ x \in TablesBelow(n) /\ Clean(StatementsBelow(n), r.conn)
      /\ Answered(shared, w, r) /\ Record!Outcome(r)
  BY DEF Inserted, Saved
<1>3. w \in StatementsBelow(n) /\ w = Record!InsertOf(x) /\ t \in TablesBelow(n)
  BY <1>1, <1>2, StatementParts, MoreKeys
<1>4. /\ DOMAIN x = {seq} /\ objs[o].id = 0 /\ objs'[o].id = seq
      /\ \A f \in Fields : x[seq][f] = IF f \in DOMAIN objs[o].vals THEN objs[o].vals[f]
                                     ELSE Record!Null
  <2>1. objs[o] \in Things /\ o \in DOMAIN objs
    BY ThingThere DEF Inserted, Saved
  <2>2. Record!WithKey(objs[o], seq).id = seq /\ objs[o].vals \in SomeColumns
    BY <2>1, ThingThere DEF Record!WithKey, Things
  <2>3. x[seq] = Record!Row(objs[o].vals)
    BY DEF NewRow
  <2>4. \A f \in Fields : Record!Row(objs[o].vals)[f] =
           IF f \in DOMAIN objs[o].vals THEN objs[o].vals[f] ELSE Record!Null
    BY <2>2, RowDoes
  <2> QED BY <2>1, <2>2, <2>3, <2>4 DEF NewRow, Inserted
<1> HIDE DEF w, x, n
<1>5. u = Record!Effect(t, w)
  BY <1>1, <1>2, <1>3, SavedView
<1> HIDE DEF t
<1>6. /\ DOMAIN Record!Effect(t, Record!InsertOf(x)) = DOMAIN x \cup DOMAIN t
      /\ \A k \in DOMAIN x : Record!Effect(t, Record!InsertOf(x))[k] = x[k]
      /\ \A k \in DOMAIN t \ DOMAIN x : Record!Effect(t, Record!InsertOf(x))[k] = t[k]
  <2>1. n \in Nat /\ t \in TablesBelow(n) /\ x \in TablesBelow(n)
    BY <1>1, <1>2, <1>3
  <2> QED BY <2>1, InsertDoes
<1> HIDE DEF u
<1>7. \A k \in DOMAIN t : k # seq
  BY <1>1
<1>8. SaveOf(o, t, u)
  BY <1>3, <1>4, <1>5, <1>6, <1>7 DEF SaveOf
<1> QED BY <1>8, SaveOfIs DEF t, u

\* What each kind of step says of the two calls.
SaveTold == answer'.op = "save" /\ answer'.ok => Record!SaveStep(Head(answer'.batch))
BatchTold == answer'.op = "saveMany" => Record!BatchStep(answer'.batch, answer'.ok)

LEMMA StepsTell ==
    ASSUME RecordTyped, Kinds
    PROVE  UNCHANGED Record!vars \/ (SaveTold /\ BatchTold)
<1>1. CASE UNCHANGED Record!vars
  BY <1>1
<1>2. CASE InMemory \/ Refused \/ \E r : OtherWrite(r)
  BY <1>2 DEF InMemory, Refused, OtherWrite, SaveTold, BatchTold
<1>3. ASSUME NEW o, NEW r, Updated(o, r) \/ Inserted(o, r)
      PROVE  SaveTold /\ BatchTold
  <2>1. answer'.op = "save" /\ answer'.ok = r.ok /\ answer'.batch = <<o>>
    BY <1>3 DEF Updated, Inserted, Saved
  <2>2. r.ok => Record!SaveStep(o)
    BY <1>3, UpdatesOwnRow, InsertsOwnRow
  <2>3. Head(answer'.batch) = o
    BY <2>1
  <2> QED BY <2>1, <2>2, <2>3 DEF SaveTold, BatchTold
<1>4. ASSUME NEW b \in Seq(DOMAIN objs), NEW v, NEW e, BatchEnds(b, v, e)
      PROVE  SaveTold /\ BatchTold
  <2>1. answer'.op = "saveMany" /\ answer'.batch = b
    BY <1>4 DEF BatchEnds
  <2>2. Record!BatchStep(b, answer'.ok)
    BY <1>4, BatchStepHolds
  <2> QED BY <2>1, <2>2 DEF SaveTold, BatchTold
<1> QED BY <1>1, <1>2, <1>3, <1>4 DEF Kinds
-----------------------------------------------------------------------------
(* The theorems: what the modules say of a Model, of all its behaviours.   *)

RecordInv == RecordTyped /\ KeysKept

LEMMA RecordStart ==
    ASSUME Record!Init
    PROVE  RecordInv
<1>1. /\ shared = NewConnection /\ rows = Record!None /\ seq = 1 /\ objs = Record!None
      /\ maker = Record!None
  BY SameForRecord DEF Record!Init
<1>2. /\ \A D, R : Record!None \in Partials(D, R)
      /\ DOMAIN Record!None = {}
  BY EmptyPartial
<1>3. rows \in TablesBelow(seq) /\ objs \in Partials(Objs, Things)
  BY <1>1, <1>2 DEF TablesBelow
<1>4. Clean(StatementsBelow(seq), shared)
  <2> DEFINE W == StatementsBelow(seq)
  <2>1. <<>> \in Seq(W) /\ Len(<<>>) = 0
    BY EmptySeq
  <2> HIDE DEF W
  <2>2. Clean(W, NewConnection)
    BY <2>1 DEF Clean, NewConnection, NoMark
  <2> QED BY <1>1, <2>2 DEF W
<1>5. KeysKept
  BY <1>1, <1>2 DEF KeysKept
<1> QED BY <1>1, <1>3, <1>4, <1>5 DEF RecordInv, RecordTyped

LEMMA RecordSteps ==
    ASSUME RecordInv, [Next]_vars
    PROVE  /\ RecordInv'
           /\ UNCHANGED Record!vars \/ (SaveTold /\ BatchTold)
<1>1. [Record!Next]_(Record!vars)
  BY DEF Next, vars, modelVars, Record!vars
<1>2. Kinds /\ RecordTyped'
  BY <1>1, StepKinds DEF RecordInv
<1>3. KeysKept'
  BY <1>2, KeysStayKept DEF RecordInv
<1>4. UNCHANGED Record!vars \/ (SaveTold /\ BatchTold)
  BY <1>2, StepsTell DEF RecordInv
<1> QED BY <1>2, <1>3, <1>4 DEF RecordInv

\* The table, the open work and the objects have the shape that the statements
\* of Model.hpp give them, and every key that save() inserted is still its
\* object's key unless an answer was lost.
THEOREM RecordsTyped == Spec => []RecordInv
<1>1. Init => RecordInv
  BY RecordStart DEF Init
<1>2. RecordInv /\ [Next]_vars => RecordInv'
  BY RecordSteps
<1> QED BY <1>1, <1>2, PTL DEF Spec

\* save() gives an object at most one row, whatever is rolled back, deleted or
\* batched in between, unless an answer was lost or saveMany inserted it
\* (Model.hpp, save and saveMany).
THEOREM RowsPerObject == Spec => []OneRowPerObject
<1>1. RecordInv => OneRowPerObject
  BY KeptOneRow DEF RecordInv, OneRowPerObject
<1> QED BY <1>1, RecordsTyped, PTL

\* A save() that succeeds has made one row, for an object without a key, or
\* changed at most the row of its object's key, in the columns that the object
\* has; it deletes no row and touches no other (Model.hpp, save).
THEOREM SaveWritesOwnRow == Spec => OwnRowOnly
<1>1. RecordInv /\ [Next]_vars =>
         [answer'.op = "save" /\ answer'.ok => Record!SaveStep(Head(answer'.batch))]_(Record!vars)
  BY RecordSteps DEF SaveTold
<1> QED BY <1>1, RecordsTyped, PTL DEF Spec, OwnRowOnly, Record!OwnRowOnly

\* A saveMany() that answers true has updated the row of every object with a
\* key that still has one, and inserted a row of its own for each place of the
\* others; one that fails has inserted nothing and made all of its updates or
\* none, unless the connection was lost (Model.hpp, saveMany).
THEOREM BatchIsWhole == Spec => BatchWholeOrUpdates
<1>1. RecordInv /\ [Next]_vars =>
         [answer'.op = "saveMany" => Record!BatchStep(answer'.batch, answer'.ok)]_(Record!vars)
  BY RecordSteps DEF BatchTold
<1> QED BY <1>1, RecordsTyped, PTL DEF Spec, BatchWholeOrUpdates, Record!BatchWholeOrUpdates
===============================================================================

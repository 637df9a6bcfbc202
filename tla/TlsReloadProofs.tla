--------------------------- MODULE TlsReloadProofs ---------------------------
(***************************************************************************)
(* Proofs about TlsReload for any number of reloading threads, any number  *)
(* of renewals and any configurations given to reloadTls(new_tls).         *)
(*                                                                         *)
(* NeverBroken needs Sound, which follows a context through the steps of   *)
(* its build: what was checked of it stays true although other threads     *)
(* write tls_ in between.  ConfigMatchesContext needs Alone, which says    *)
(* what tls_, saved and new_ctx hold while reloads have not overlapped.    *)
(***************************************************************************)
EXTENDS TlsReload, TLAPS

USE ReloadAssumption

\* A reload holds the configurations that its next steps use.
Held ==
    \A r \in Reloaders :
        /\ pc[r] \in {"keyFile", "assign"} => new[r] \in Config
        /\ pc[r] \in Building => saved[r] \in Config
        /\ pc[r] \in {"verify", "install"} => built[r] \in Config

\* A context that is being built has passed the checks made so far.
Sound ==
    /\ \A r \in Reloaders : pc[r] = "verify" => ~Mismatch(built[r])
    /\ \A r \in Reloaders : pc[r] = "install" => Valid(built[r])
    /\ Valid(ctx)

\* Without overlap one reload builds at a time, from the tls_ it assigned,
\* and what it would restore is the configuration of the context in place.
Alone ==
    ~overlapped =>
        /\ \A q, r \in Reloaders : pc[q] \in Building /\ pc[r] \in Building => q = r
        /\ \A r \in Reloaders : pc[r] \in Building =>
              saved[r] = ctx /\ (pc[r] # "keyPair" => built[r] = tls)
        /\ (\A r \in Reloaders : pc[r] \notin Building) => tls = ctx

IInv == TypeOK /\ Held /\ Sound /\ Alone
-----------------------------------------------------------------------------

LEMMA InitInv == Init => IInv
<1> SUFFICES ASSUME Init PROVE IInv
  OBVIOUS
<1>1. 0 \in Versions
  BY DEF Versions
<1>2. TypeOK
  BY <1>1 DEF Init, TypeOK, Config, Verify
<1>3. Held /\ Sound /\ Alone
  BY DEF Init, Held, Sound, Alone, Building, Valid
<1> QED
  BY <1>2, <1>3 DEF IInv

\* The operator's renewals do not touch the server.
LEMMA RenewInv ==
    ASSUME IInv, RenewCert \/ RenewKey
    PROVE  IInv'
<1>1. files' \in [cert: Versions, key: Versions]
  BY DEF IInv, TypeOK, Versions, RenewCert, RenewKey
<1>2. UNCHANGED <<tls, ctx, pc, new, saved, built, overlapped>>
  BY DEF RenewCert, RenewKey
<1> QED
  BY <1>1, <1>2 DEF IInv, TypeOK, Held, Sound, Alone

\* Reading the files, or a configuration of the caller's, leaves tls_ alone.
LEMMA ReadInv ==
    ASSUME IInv, NEW r \in Reloaders,
           ReadCertFile(r) \/ ReadKeyFile(r) \/ \E c \in Config : GiveConfig(r, c)
    PROVE  IInv'
<1>1. \E c \in Config, s \in {"keyFile", "assign"} :
          new' = [new EXCEPT ![r] = c] /\ pc' = [pc EXCEPT ![r] = s]
  <2>1. CASE ReadCertFile(r)
    <3>1. [tls EXCEPT !.cert = files.cert] \in Config
      BY DEF IInv, TypeOK, Config
    <3> QED
      BY <2>1, <3>1 DEF ReadCertFile
  <2>2. CASE ReadKeyFile(r)
    <3>1. [new[r] EXCEPT !.key = files.key] \in Config
      BY <2>2 DEF IInv, TypeOK, Held, Config, ReadKeyFile
    <3>2. new' = [new EXCEPT ![r] = [new[r] EXCEPT !.key = files.key]]
      BY <2>2 DEF ReadKeyFile
    <3> QED
      BY <2>2, <3>1, <3>2 DEF ReadKeyFile
  <2>3. CASE \E c \in Config : GiveConfig(r, c)
    BY <2>3 DEF GiveConfig
  <2> QED
    BY <2>1, <2>2, <2>3
<1>2. UNCHANGED <<files, tls, ctx, saved, built, overlapped>> /\ pc[r] \notin Building
  BY DEF ReadCertFile, ReadKeyFile, GiveConfig, Building
<1>3. TypeOK' /\ Held'
  BY <1>1, <1>2 DEF IInv, TypeOK, Held, Building
<1>4. Sound'
  BY <1>1, <1>2 DEF IInv, TypeOK, Sound
<1>5. Alone'
  BY <1>1, <1>2 DEF IInv, TypeOK, Alone, Building
<1> QED
  BY <1>3, <1>4, <1>5 DEF IInv

\* tls_ = new_tls: only a reload that builds can have changed tls_ since.
LEMMA AssignInv ==
    ASSUME IInv, NEW r \in Reloaders, Assign(r)
    PROVE  IInv'
<1>1. TypeOK' /\ Held'
  BY DEF IInv, TypeOK, Held, Assign, Assigned, Building
<1>2. Sound'
  BY DEF IInv, TypeOK, Sound, Assign
<1>3. Alone'
  <2> SUFFICES ASSUME ~overlapped' PROVE Alone'
    BY DEF Alone
  <2>1. ~overlapped /\ \A q \in Reloaders : pc[q] \notin Building
    BY DEF Assign, IInv, TypeOK
  <2>2. tls = ctx
    BY <2>1 DEF IInv, Alone
  <2>3. pc'[r] = "keyPair" /\ saved'[r] = ctx /\ ctx' = ctx
    BY <2>2 DEF Assign, IInv, TypeOK
  <2>4. \A q \in Reloaders \ {r} : pc'[q] = pc[q]
    BY DEF Assign, IInv, TypeOK
  <2> QED
    BY <2>1, <2>3, <2>4 DEF Alone, Building
<1> QED
  BY <1>1, <1>2, <1>3 DEF IInv

\* A failed build restores tls_.
LEMMA FailInv ==
    ASSUME IInv, NEW r \in Reloaders, pc[r] \in Building, Fail(r)
    PROVE  IInv'
<1>1. TypeOK' /\ Held'
  BY DEF IInv, TypeOK, Held, Fail, Restored, Building
<1>2. Sound'
  BY DEF IInv, TypeOK, Sound, Fail
<1>3. Alone'
  <2> SUFFICES ASSUME ~overlapped' PROVE Alone'
    BY DEF Alone
  <2>1. ~overlapped
    BY DEF Fail
  <2>2. tls' = ctx' /\ \A q \in Reloaders : pc'[q] \notin Building
    BY <2>1 DEF IInv, Alone, TypeOK, Fail, Restored, Building
  <2> QED
    BY <2>2 DEF Alone
<1> QED
  BY <1>1, <1>2, <1>3 DEF IInv

\* The two halves of the build, when they do not throw.
LEMMA BuildInv ==
    ASSUME IInv, NEW r \in Reloaders,
           LoadKeyPair(r) \/ SetVerifyMode(r), ~Fail(r)
    PROVE  IInv'
<1> DEFINE b == built'[r]
<1>1. /\ UNCHANGED <<files, tls, ctx, new, saved, overlapped>>
      /\ pc[r] \in Building /\ pc'[r] \in {"verify", "install"}
      /\ pc' \in [Reloaders -> {"idle", "keyFile", "assign", "keyPair", "verify", "install"}]
      /\ \A q \in Reloaders \ {r} : pc'[q] = pc[q] /\ built'[q] = built[q]
  BY DEF LoadKeyPair, SetVerifyMode, IInv, TypeOK, Building
<1>2. /\ b \in Config /\ built' \in [Reloaders -> Config \cup {NoConfig}]
      /\ pc'[r] = "verify" => ~Mismatch(b)
      /\ pc'[r] = "install" => Valid(b)
      /\ ~overlapped => b = tls
  <2>1. CASE LoadKeyPair(r)
    BY <2>1 DEF LoadKeyPair, IInv, TypeOK
  <2>2. CASE SetVerifyMode(r)
    <3>1. pc[r] = "verify" /\ pc'[r] = "install" /\ ~CaFails(tls)
      BY <2>2 DEF SetVerifyMode, IInv, TypeOK
    <3>2. built' = [built EXCEPT ![r] = [built[r] EXCEPT !.verify = tls.verify]]
      BY <2>2 DEF SetVerifyMode
    <3>3. built[r] \in Config /\ ~Mismatch(built[r]) /\ (~overlapped => built[r] = tls)
      BY <3>1 DEF IInv, Held, Sound, Alone, Building
    <3>4. b = [built[r] EXCEPT !.verify = tls.verify]
      BY <3>2 DEF IInv, TypeOK
    <3>5. b \in Config /\ b.cert = b.key /\ b.verify = tls.verify /\ (~overlapped => b = tls)
      BY <3>3, <3>4 DEF IInv, TypeOK, Config, Mismatch
    <3>6. built' \in [Reloaders -> Config \cup {NoConfig}]
      BY <3>2, <3>4, <3>5 DEF IInv, TypeOK
    <3> QED
      BY <3>1, <3>5, <3>6 DEF Valid, CaFails
  <2> QED
    BY <2>1, <2>2
<1>3. TypeOK' /\ Held'
  BY <1>1, <1>2 DEF IInv, TypeOK, Held, Building
<1>4. Sound'
  BY <1>1, <1>2 DEF IInv, Sound
<1>5. Alone'
  BY <1>1, <1>2 DEF IInv, Alone, Building
<1> QED
  BY <1>3, <1>4, <1>5 DEF IInv

\* The new context goes into place.
LEMMA InstallInv ==
    ASSUME IInv, NEW r \in Reloaders, Install(r)
    PROVE  IInv'
<1>1. TypeOK' /\ Held'
  BY DEF IInv, TypeOK, Held, Install, Building
<1>2. Sound'
  BY DEF IInv, TypeOK, Sound, Install
<1>3. Alone'
  <2> SUFFICES ASSUME ~overlapped' PROVE Alone'
    BY DEF Alone
  <2>1. ~overlapped /\ pc[r] \in Building
    BY DEF Install, Building
  <2>2. tls' = ctx' /\ \A q \in Reloaders : pc'[q] \notin Building
    BY <2>1 DEF IInv, Alone, TypeOK, Install, Building
  <2> QED
    BY <2>2 DEF Alone
<1> QED
  BY <1>1, <1>2, <1>3 DEF IInv

LEMMA NextInv == IInv /\ [Next]_vars => IInv'
<1> SUFFICES ASSUME IInv, [Next]_vars PROVE IInv'
  OBVIOUS
<1>1. CASE UNCHANGED vars
  BY <1>1 DEF vars, IInv, TypeOK, Held, Sound, Alone
<1>2. ASSUME NEW r \in Reloaders, LoadKeyPair(r) \/ SetVerifyMode(r) PROVE IInv'
  <2>1. pc[r] \in Building
    BY <1>2 DEF LoadKeyPair, SetVerifyMode, Building
  <2> QED
    BY <1>2, <2>1, FailInv, BuildInv
<1> QED
  BY <1>1, <1>2, RenewInv, ReadInv, AssignInv, InstallInv DEF Next

THEOREM Invariance == Spec => []IInv
  BY InitInv, NextInv, PTL DEF Spec

\* Type correctness.
THEOREM TypeCorrect == Spec => []TypeOK
<1>1. IInv => TypeOK
  BY DEF IInv
<1> QED
  BY <1>1, Invariance, PTL

\* The context new handshakes use always has a matching key pair and a
\* usable CA, however reloads interleave and fail.
THEOREM ContextNeverBroken == Spec => []NeverBroken
<1>1. IInv => NeverBroken
  BY DEF IInv, Sound, NeverBroken
<1> QED
  BY <1>1, Invariance, PTL

\* Between reloads that did not overlap tls_ is what the context was built
\* from: a failed reload is rolled back completely.
THEOREM RollbackComplete == Spec => []ConfigMatchesContext
<1>1. IInv => ConfigMatchesContext
  BY DEF IInv, Alone, Building, ConfigMatchesContext
<1> QED
  BY <1>1, Invariance, PTL
=============================================================================

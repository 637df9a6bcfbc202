------------------------------ MODULE TlsReload ------------------------------
(***************************************************************************)
(* Hot reload of the TLS configuration of an HttpsServer.  reloadTls()     *)
(* reads the certificate and the key file; reloadTls(new_tls) puts the     *)
(* configuration into the member tls_, builds a context from tls_, and     *)
(* installs it under ssl_ctx_mutex_, or restores tls_ when the build       *)
(* throws.  Only ssl_ctx_ is under a lock: tls_ is a plain member that     *)
(* every reloading thread writes.                                          *)
(*                                                                         *)
(* A certificate and its key carry the same version; an operator renews    *)
(* the files one after the other.  The client verification mode stands     *)
(* for the rest of the configuration, which is read after the key pair.    *)
(* The key pair is read in one step, from memory or from the files that    *)
(* tls_ names: an overlapping reload could also come between the reads of  *)
(* its two halves (HttpsServerTLS.cpp:80-89); the pair that it then has is *)
(* checked for a match like any other before the context is installed.     *)
(***************************************************************************)
EXTENDS Integers

CONSTANTS
    Reloaders,  \* threads that call reloadTls
    NoConfig,   \* a reloader holds no configuration
    MaxVersion  \* bound: renewals of the files

ASSUME ReloadAssumption == MaxVersion \in Nat

Versions == 0..MaxVersion
\* "badCA": client verification with a CA file that cannot be loaded.
Verify == {"none", "badCA"}
Config == [cert: Versions, key: Versions, verify: Verify]

VARIABLES
    files,  \* the certificate and key files: their versions
    tls,    \* tls_
    ctx,    \* the configuration ssl_ctx_ was built from
    pc,     \* where each reloader is
    new,    \* the new_tls of each reloader
    saved,  \* the saved of each reloader
    built,  \* the new_ctx of each reloader, as far as it is configured
    overlapped  \* history: one reload put its tls_ in place during another

vars == <<files, tls, ctx, pc, new, saved, built, overlapped>>
-----------------------------------------------------------------------------
(* Variants with a plausible slip: a failed build that keeps the new       *)
(* configuration, a build that does not compare the key with the           *)
(* certificate.                                                            *)

KeepsNew(r) == tls
NeverMismatch(c) == FALSE
-----------------------------------------------------------------------------

\* The certificate and the private key do not match, so the build throws.
Mismatch(c) == c.cert # c.key

\* load_verify_file throws.
CaFails(c) == c.verify = "badCA"

\* A configuration from which a context can be built.
Valid(c) == c.cert = c.key /\ c.verify # "badCA"

\* The steps of a reload that read tls_ after it was assigned.
Building == {"keyPair", "verify", "install"}

\* tls_ after a failed build.
Restored(r) == saved[r]

\* tls_ = new_tls
Assigned(r) == new[r]

Init ==
    /\ files = [cert |-> 0, key |-> 0]
    /\ tls = [cert |-> 0, key |-> 0, verify |-> "none"]
    /\ ctx = tls
    /\ pc = [r \in Reloaders |-> "idle"]
    /\ new = [r \in Reloaders |-> NoConfig]
    /\ saved = [r \in Reloaders |-> NoConfig]
    /\ built = [r \in Reloaders |-> NoConfig]
    /\ overlapped = FALSE

\* The operator (outside the server) renews the certificate, then the key.
RenewCert ==
    /\ files.cert = files.key /\ files.cert < MaxVersion
    /\ files' = [files EXCEPT !.cert = @ + 1]
    /\ UNCHANGED <<tls, ctx, pc, new, saved, built, overlapped>>

RenewKey ==
    /\ files.key < files.cert
    /\ files' = [files EXCEPT !.key = @ + 1]
    /\ UNCHANGED <<tls, ctx, pc, new, saved, built, overlapped>>

\* reloadTls(): a copy of tls_ with the certificate file, then the key file.
\* (A file that cannot be opened makes it return with nothing changed.)
ReadCertFile(r) ==
    /\ pc[r] = "idle"
    /\ pc' = [pc EXCEPT ![r] = "keyFile"]
    /\ new' = [new EXCEPT ![r] = [tls EXCEPT !.cert = files.cert]]
    /\ UNCHANGED <<files, tls, ctx, saved, built, overlapped>>

ReadKeyFile(r) ==
    /\ pc[r] = "keyFile"
    /\ pc' = [pc EXCEPT ![r] = "assign"]
    /\ new' = [new EXCEPT ![r].key = files.key]
    /\ UNCHANGED <<files, tls, ctx, saved, built, overlapped>>

\* reloadTls(new_tls) with a configuration of the caller's.
GiveConfig(r, c) ==
    /\ pc[r] = "idle"
    /\ pc' = [pc EXCEPT ![r] = "assign"]
    /\ new' = [new EXCEPT ![r] = c]
    /\ UNCHANGED <<files, tls, ctx, saved, built, overlapped>>

Assign(r) ==
    /\ pc[r] = "assign"
    /\ pc' = [pc EXCEPT ![r] = "keyPair"]
    /\ saved' = [saved EXCEPT ![r] = tls]
    /\ tls' = Assigned(r)
    /\ overlapped' = (overlapped \/ \E q \in Reloaders : pc[q] \in Building)
    /\ UNCHANGED <<files, ctx, new, built>>

\* The build throws: tls_ is restored and false returned.
Fail(r) ==
    /\ pc' = [pc EXCEPT ![r] = "idle"]
    /\ tls' = Restored(r)
    /\ saved' = [saved EXCEPT ![r] = NoConfig]
    /\ built' = [built EXCEPT ![r] = NoConfig]
    /\ new' = [new EXCEPT ![r] = NoConfig]
    /\ UNCHANGED <<files, ctx, overlapped>>

\* The key pair, checked for a match on both branches.
LoadKeyPair(r) ==
    /\ pc[r] = "keyPair"
    /\ \/ Mismatch(tls) /\ Fail(r)
       \/ /\ ~Mismatch(tls)
          /\ pc' = [pc EXCEPT ![r] = "verify"]
          /\ built' = [built EXCEPT ![r] = tls]
          /\ UNCHANGED <<files, tls, ctx, new, saved, overlapped>>

\* The verification mode and its CA file.
SetVerifyMode(r) ==
    /\ pc[r] = "verify"
    /\ \/ CaFails(tls) /\ Fail(r)
       \/ /\ ~CaFails(tls)
          /\ pc' = [pc EXCEPT ![r] = "install"]
          /\ built' = [built EXCEPT ![r].verify = tls.verify]
          /\ UNCHANGED <<files, tls, ctx, new, saved, overlapped>>

\* ssl_ctx_ = new_ctx under the lock; true is returned.
Install(r) ==
    /\ pc[r] = "install"
    /\ pc' = [pc EXCEPT ![r] = "idle"]
    /\ ctx' = built[r]
    /\ saved' = [saved EXCEPT ![r] = NoConfig]
    /\ built' = [built EXCEPT ![r] = NoConfig]
    /\ new' = [new EXCEPT ![r] = NoConfig]
    /\ UNCHANGED <<files, tls, overlapped>>

Next ==
    \/ RenewCert \/ RenewKey
    \/ \E r \in Reloaders :
          \/ ReadCertFile(r) \/ ReadKeyFile(r)
          \/ \E c \in Config : GiveConfig(r, c)
          \/ Assign(r) \/ LoadKeyPair(r) \/ SetVerifyMode(r) \/ Install(r)

Spec == Init /\ [][Next]_vars
-----------------------------------------------------------------------------
(* Properties.                                                             *)

\* The shape of the state.
TypeOK ==
    /\ files \in [cert: Versions, key: Versions]
    /\ tls \in Config /\ ctx \in Config
    /\ pc \in [Reloaders -> {"idle", "keyFile", "assign", "keyPair", "verify", "install"}]
    /\ new \in [Reloaders -> Config \cup {NoConfig}]
    /\ saved \in [Reloaders -> Config \cup {NoConfig}]
    /\ built \in [Reloaders -> Config \cup {NoConfig}]
    /\ overlapped \in BOOLEAN

\* New handshakes always find a context with a matching key pair and a
\* usable CA, also while files are half renewed and reloads fail.
NeverBroken == Valid(ctx)

\* As long as no two reloads overlapped, tls_ describes the context in place
\* between reloads: a failed reload leaves no trace in the configuration the
\* next one starts from.
ConfigMatchesContext ==
    ~overlapped /\ (\A r \in Reloaders : pc[r] = "idle") => tls = ctx
=============================================================================

----------------------------- MODULE Cryptography -----------------------------
(***************************************************************************)
(* The functions that use OpenSSL objects by hand: RSA, AES256, Hash, and  *)
(* the two of HttpsServer that prepare an SSL context.  What they compute  *)
(* is left to OpenSSL; the model is about the objects.  A function is the  *)
(* sequence of its steps, and a step says which objects it needs, which it *)
(* yields, which it gives back, and which its error path frees before the  *)
(* exception.  Building a std::string may run out of memory, and hash()    *)
(* calls Logger::log, which may throw, before it frees: these error paths  *)
(* free nothing.                                                           *)
(***************************************************************************)
EXTENDS Integers, Sequences

VARIABLES
    fn,    \* the function that is called
    at,    \* its next step
    held,  \* the OpenSSL objects that are allocated
    end    \* "running", or how the call ended

vars == <<fn, at, held, end>>
-----------------------------------------------------------------------------
(* Steps.                                                                  *)

\* A call that yields o, made from other objects.
Make(o, from, undo) == [kind |-> "call", uses |-> from, gets |-> {o}, gone |-> {}, undo |-> undo]
New(o, undo) == Make(o, {}, undo)

\* A call that works on objects; on failure all of them are freed.
Use(objects) == [kind |-> "call", uses |-> objects, gets |-> {}, gone |-> {}, undo |-> objects]

\* A call whose error path logs before it frees; Logger::log may throw.
Logged(step) == [step EXCEPT !.kind = "logged"]

\* The call itself cannot fail, or its failure is a result.
Look(objects) == [Use(objects) EXCEPT !.kind = "sure"]
Free(o) == [kind |-> "sure", uses |-> {o}, gets |-> {}, gone |-> {o}, undo |-> {}]

\* A std::string is built.
Text == [kind |-> "text", uses |-> {}, gets |-> {}, gone |-> {}, undo |-> {}]
-----------------------------------------------------------------------------
(* A variant with a plausible slip: a signature that keeps its key.        *)

SignKeepsKey ==
    << New("bio", {}), Make("pkey", {"bio"}, {"bio"}), Free("bio"),
       New("ctx", {"pkey"}), Use({"ctx", "pkey"}), Use({"ctx", "pkey"}), Use({"ctx", "pkey"}),
       Text, Use({"ctx", "pkey"}), Free("ctx") >>
-----------------------------------------------------------------------------
(* The functions.                                                          *)

\* loadPublicKey, loadPrivateKey: nullptr ends the caller.
LoadKey == << New("bio", {}), Make("pkey", {"bio"}, {"bio"}), Free("bio") >>

GenerateKeyPair ==
    << New("ctx", {}), Use({"ctx"}), Use({"ctx"}), Make("pkey", {"ctx"}, {"ctx"}), Free("ctx"),
       New("bioPub", {"pkey"}), Use({"bioPub", "pkey"}), Text, Free("bioPub"),
       New("bioPriv", {"pkey"}), Use({"bioPriv", "pkey"}), Text, Free("bioPriv"), Free("pkey") >>

\* init, padding, length, the result's buffer, the operation itself.
EncryptWithPublic ==
    LoadKey \o
    << New("ctx", {"pkey"}), Use({"ctx", "pkey"}), Use({"ctx", "pkey"}), Use({"ctx", "pkey"}),
       Text, Use({"ctx", "pkey"}), Free("ctx"), Free("pkey") >>
DecryptWithPrivate == EncryptWithPublic
DecryptWithPublic == EncryptWithPublic

Sign ==
    LoadKey \o
    << New("ctx", {"pkey"}), Use({"ctx", "pkey"}), Use({"ctx", "pkey"}), Use({"ctx", "pkey"}),
       Text, Use({"ctx", "pkey"}), Free("ctx"), Free("pkey") >>

Verify ==
    LoadKey \o
    << New("ctx", {"pkey"}), Use({"ctx", "pkey"}), Use({"ctx", "pkey"}),
       Look({"ctx", "pkey"}), Free("ctx"), Free("pkey") >>

ValidateKey == LoadKey \o << Free("pkey") >>

ExtractPublicKey ==
    LoadKey \o
    << New("bio", {"pkey"}), Use({"bio", "pkey"}), Text, Free("bio"), Free("pkey") >>

AesEncrypt ==
    << New("cipher", {}), Use({"cipher"}), Text, Use({"cipher"}), Use({"cipher"}), Free("cipher") >>
AesDecrypt == AesEncrypt

\* Argon2; a salt is copied or made while both objects are held.
HashPassword ==
    << New("kdf", {}), Logged(Make("kctx", {"kdf"}, {"kdf"})), Text, Logged(Use({"kctx", "kdf"})),
       Free("kctx"), Free("kdf") >>

\* One command; the loop's others do the same.
ApplySslConf == << New("cctx", {}), Use({"cctx"}), Use({"cctx"}), Free("cctx") >>

\* A certificate of the chain: the SSL context owns it once it is added.
ChainCert ==
    << [Make("cert", {"bio"}, {}) EXCEPT !.kind = "sure"],
       [Use({"bio", "cert"}) EXCEPT !.gone = {"cert"}] >>

LoadCertFromMemory(chain) ==
    << New("bio", {}), Make("leaf", {"bio"}, {"bio"}), Use({"leaf", "bio"}), Free("leaf") >>
    \o (IF chain THEN ChainCert ELSE <<>>) \o
    << Free("bio"), New("keyBio", {}), Make("pkey", {"keyBio"}, {"keyBio"}), Free("keyBio"),
       Use({"pkey"}), Free("pkey"), Use({}) >>

Body ==
    [generateKeyPair |-> GenerateKeyPair, encryptWithPublic |-> EncryptWithPublic,
     decryptWithPrivate |-> DecryptWithPrivate, decryptWithPublic |-> DecryptWithPublic,
     sign |-> Sign, verify |-> Verify, validateKey |-> ValidateKey,
     extractPublicKey |-> ExtractPublicKey, aesEncrypt |-> AesEncrypt, aesDecrypt |-> AesDecrypt,
     hash |-> HashPassword, applySslConf |-> ApplySslConf,
     loadCert |-> LoadCertFromMemory(FALSE), loadChain |-> LoadCertFromMemory(TRUE)]
-----------------------------------------------------------------------------
Step == Body[fn][at]

Init ==
    /\ fn \in DOMAIN Body
    /\ at = 1 /\ held = {} /\ end = "running"

Succeeds ==
    /\ end = "running"
    /\ held' = (held \cup Step.gets) \ Step.gone
    /\ at' = at + 1
    /\ end' = IF at = Len(Body[fn]) THEN "returned" ELSE "running"
    /\ UNCHANGED fn

\* The error path of a call, then the exception or the nullptr.
Fails ==
    /\ end = "running" /\ Step.kind \in {"call", "logged"}
    /\ held' = held \ Step.undo
    /\ end' = "threw"
    /\ UNCHANGED <<fn, at>>

\* std::bad_alloc, or an exception of Logger::log in an error path, leaves the
\* function from where it is: nothing is freed.
LeavesAtOnce ==
    /\ end = "running" /\ Step.kind \in {"text", "logged"}
    /\ end' = "left"
    /\ UNCHANGED <<fn, at, held>>

Next == Succeeds \/ Fails \/ LeavesAtOnce

Spec == Init /\ [][Next]_vars
-----------------------------------------------------------------------------
(* Properties.                                                             *)

\* Whichever call fails, no OpenSSL object is used or freed that is not
\* allocated at that moment, and none is left behind, except by a function
\* that ran out of memory for a std::string, or whose call failed and then
\* could not be logged (Hash.cpp:46, 63: the log comes before the frees).
ObjectsComeHome ==
    /\ end = "running" => Step.uses \cup Step.undo \subseteq held
    /\ end \in {"returned", "threw"} => held = {}
===============================================================================

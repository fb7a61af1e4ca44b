---------------------------- MODULE ManagedDevice ----------------------------
(***************************************************************************)
(* A managed device and its control plane: signed, single-use requests     *)
(* (internal/controlplane/handler.go, enrollment_store.go), the device's   *)
(* configuration and signing endpoints (internal/remoteserver/server.go)   *)
(* and the device's cached configuration (internal/remoteclient/           *)
(* session.go), which processes of one home share without a lock.          *)
(*                                                                         *)
(* A request is named by its proof.  The network delivers what was sent    *)
(* any number of times and at any time, and loses answers.  Bundles are    *)
(* their version and expiry; the device's and the server's clock agree.    *)
(* A transaction of the store is one step.                                 *)
(***************************************************************************)
EXTENDS Integers, FiniteSets

CONSTANTS
    Openers,          \* processes of the device that open a session
    Handlers,         \* requests the control plane works on at a time
    Proofs,           \* request proofs (a bound on the requests)
    NoProof,
    RequestLifetime,  \* remote.RequestLifetime
    PruneEvery,       \* one minute between two prunings of old nonces
    CacheFreshness,   \* how long a cached bundle is used without asking
    BundleTTL,        \* how long a bundle is valid
    MaxVersion,       \* bound on the configurations pushed
    LastTime          \* bound on the clock

ASSUME DeviceAssumption ==
    /\ RequestLifetime \in Nat /\ PruneEvery \in Nat /\ BundleTTL \in Nat
    /\ NoProof \notin Proofs

VARIABLES
    clock,
    active,        \* the device's status in the control plane is active
    identityOn,    \* the SSH identity of its hosts is active
    version,       \* configs.version of the device, 0 before the first push
    nonces,        \* request_nonces: the consumed proofs not yet pruned
    nextPrune,     \* Store.nextNoncePrune
    sent,          \* the proofs sent, with what they ask and their times
    handler,       \* what every handler works on
    answer,        \* the answer to every proof, "none" before it
    signLog,       \* the proofs whose signature the signing log records
    admitted,      \* how often every proof reached its route's handler
    cache,         \* the device's bundle cache
    opener,        \* every process of the device
    seen           \* the newest version any session was opened with

serverVars == <<active, identityOn, version, nonces, nextPrune, handler, signLog, admitted>>
deviceVars == <<cache, opener, seen>>
deviceAll == <<clock, serverVars, sent, answer, deviceVars>>

NoAnswer == [kind |-> "none"]
Refusal == [kind |-> "refused"]
Bundle(v, t) == [kind |-> "bundle", version |-> v, notAfter |-> t]
Signature == [kind |-> "signature"]

NoCache == [version |-> 0, notAfter |-> 0, fetched |-> 0, maxVersion |-> -1]
Larger(a, b) == IF a < b THEN b ELSE a

Working(h) == handler[h].pc
Asked(p) == CHOOSE r \in sent : r.proof = p

(***************************************************************************)
(* The control plane.                                                      *)
(***************************************************************************)

IdleHandler == [pc |-> "idle", proof |-> NoProof, at |-> 0, wasActive |-> FALSE]

\* The device is looked up and the proof verified against the clock; the body
\* may take its time after that.
VerifyProof(h) ==
    /\ Working(h) = "idle"
    /\ \E r \in sent :
         /\ clock < r.expires
         /\ handler' = [handler EXCEPT ![h] = [pc |-> "body", proof |-> r.proof,
                                               at |-> clock, wasActive |-> active]]
    /\ UNCHANGED <<clock, active, identityOn, version, nonces, nextPrune, sent, answer,
                   signLog, admitted, deviceVars>>

\* The answer of a request that is delivered again goes nowhere.
Answer(h, a) ==
    LET p == handler[h].proof IN
    /\ answer' = IF answer[p] = NoAnswer THEN [answer EXCEPT ![p] = a] ELSE answer
    /\ handler' = [handler EXCEPT ![h] = IdleHandler]

\* For comparison, the time of the verification.
ConsumeTimeRead(h) == handler[h].at

\* What consumeNonce finds under the write lock: the status of now and the
\* clock of now.
Standing(h) == active
ConsumeTime(h) == clock

Prunes(h) == ConsumeTime(h) >= nextPrune
Unpruned(h) == IF Prunes(h)
           THEN {p \in nonces : Asked(p).expires > ConsumeTime(h)}
           ELSE nonces

PruneScheduled(h) ==
    nextPrune' = IF Prunes(h) THEN ConsumeTime(h) + PruneEvery ELSE nextPrune

\* The proof is consumed and the request admitted, with the answer to come.
Consume(h) ==
    LET p == handler[h].proof IN
    /\ Working(h) = "body"
    /\ Standing(h) /\ Asked(p).expires > ConsumeTime(h)
    /\ p \notin Unpruned(h)
    /\ nonces' = Unpruned(h) \union {p}
    /\ PruneScheduled(h)
    /\ admitted' = [admitted EXCEPT ![p] = @ + 1]
    /\ handler' = [handler EXCEPT ![h].pc = Asked(p).asks]
    /\ UNCHANGED <<clock, active, identityOn, version, sent, answer, signLog, deviceVars>>

\* The device is revoked, the proof has expired or was consumed before, or the
\* store fails; a rollback leaves the nonces but not the next pruning.
ConsumeRefuses(h) ==
    LET p == handler[h].proof IN
    /\ Working(h) = "body"
    /\ Answer(h, Refusal)
    /\ \/ /\ ~ Standing(h) \/ Asked(p).expires <= ConsumeTime(h)
          /\ UNCHANGED nextPrune
       \/ /\ Standing(h) /\ Asked(p).expires > ConsumeTime(h)
          /\ PruneScheduled(h)
    /\ UNCHANGED <<clock, active, identityOn, version, nonces, sent, signLog, admitted,
                   deviceVars>>

\* GET /bundle: the configuration of now, if one was pushed.
ServeBundle(h) ==
    /\ Working(h) = "bundle"
    /\ Answer(h, IF version = 0 THEN Refusal ELSE Bundle(version, clock + BundleTTL))
    /\ UNCHANGED <<clock, active, identityOn, version, nonces, nextPrune, sent, signLog,
                   admitted, deviceVars>>

\* POST /sign: the host and its identity are checked,
CheckSign(h) ==
    /\ Working(h) = "sign"
    /\ IF version # 0 /\ identityOn
       THEN handler' = [handler EXCEPT ![h].pc = "log"] /\ UNCHANGED answer
       ELSE Answer(h, Refusal)
    /\ UNCHANGED <<clock, active, identityOn, version, nonces, nextPrune, sent, signLog,
                   admitted, deviceVars>>

\* and the signature is logged before it is handed out; a log that fails
\* refuses it.
LogAndSign(h) ==
    /\ Working(h) = "log"
    /\ \/ signLog' = signLog \union {handler[h].proof} /\ Answer(h, Signature)
       \/ UNCHANGED signLog /\ Answer(h, Refusal)
    /\ UNCHANGED <<clock, active, identityOn, version, nonces, nextPrune, sent, admitted,
                   deviceVars>>

\* The administrator pushes a configuration, restores the database of an older
\* one, revokes the device or disables the identity.
Administer ==
    /\ \/ /\ version < MaxVersion /\ version' = version + 1
          /\ UNCHANGED <<active, identityOn>>
       \/ /\ version > 1 /\ version' = version - 1
          /\ UNCHANGED <<active, identityOn>>
       \/ active /\ active' = FALSE /\ UNCHANGED <<identityOn, version>>
       \/ identityOn /\ identityOn' = FALSE /\ UNCHANGED <<active, version>>
    /\ UNCHANGED <<clock, nonces, nextPrune, handler, signLog, admitted, sent, answer,
                   deviceVars>>

(***************************************************************************)
(* The device: Open, Sign and the cache they share.                        *)
(***************************************************************************)

FreshOpener == [pc |-> "closed", version |-> 0, at |-> 0, cached |-> NoCache,
                proof |-> NoProof, since |-> 0]

Send(o, asks, where) ==
    \E p \in Proofs :
        /\ \A r \in sent : r.proof # p
        /\ sent' = sent \union {[proof |-> p, asks |-> asks, expires |-> clock + RequestLifetime]}
        /\ opener' = [opener EXCEPT ![o] = [where EXCEPT !.proof = p]]

\* A session is opened with a bundle.
Opened(o, v) ==
    /\ opener' = [opener EXCEPT ![o].pc = "open", ![o].version = v]
    /\ seen' = Larger(seen, v)

\* Open reads the cache and the clock.  A fresh bundle is used as it is,
OpenCached(o) ==
    /\ opener[o].pc = "closed"
    /\ cache # NoCache
    /\ clock - cache.fetched < CacheFreshness
    /\ clock < cache.notAfter
    /\ opener' = [opener EXCEPT ![o] = [pc |-> "open", version |-> cache.version,
                     at |-> clock, cached |-> cache, proof |-> NoProof, since |-> seen]]
    /\ seen' = Larger(seen, cache.version)
    /\ UNCHANGED <<clock, serverVars, sent, answer, cache>>

\* another is asked for otherwise, or when the caller wants a refresh.
OpenFetches(o) ==
    /\ opener[o].pc = "closed"
    /\ Send(o, "bundle", [pc |-> "fetch", version |-> 0, at |-> clock, cached |-> cache,
                          proof |-> NoProof, since |-> seen])
    /\ UNCHANGED <<clock, serverVars, answer, cache, seen>>

\* The bundle must not be older than the newest the cache knew of.
Floor(o) == opener[o].cached.maxVersion

\* The answer arrives.  Its bundle is stored with the version floor the cache
\* had when it was read, whatever the file holds by now.
BundleArrives(o) ==
    LET a == answer[opener[o].proof] IN
    /\ opener[o].pc = "fetch"
    /\ a.kind = "bundle"
    /\ IF a.version >= Floor(o) /\ opener[o].at < a.notAfter
       THEN /\ cache' = [version |-> a.version, notAfter |-> a.notAfter,
                         fetched |-> opener[o].at,
                         maxVersion |-> Larger(Floor(o), a.version)]
            /\ Opened(o, a.version)
       ELSE /\ opener' = [opener EXCEPT ![o] = FreshOpener]
            /\ UNCHANGED <<cache, seen>>
    /\ UNCHANGED <<clock, serverVars, sent, answer>>

\* A refusal is never papered over with the cache.
FetchRefused(o) ==
    /\ opener[o].pc = "fetch"
    /\ answer[opener[o].proof].kind = "refused"
    /\ opener' = [opener EXCEPT ![o] = FreshOpener]
    /\ UNCHANGED <<clock, serverVars, sent, answer, cache, seen>>

\* No answer in time: the cached bundle serves until it expires.
FetchUnreachable(o) ==
    /\ opener[o].pc = "fetch"
    /\ IF opener[o].cached # NoCache /\ opener[o].at < opener[o].cached.notAfter
       THEN Opened(o, opener[o].cached.version)
       ELSE opener' = [opener EXCEPT ![o] = FreshOpener] /\ UNCHANGED seen
    /\ UNCHANGED <<clock, serverVars, sent, answer, cache>>

\* A command of the session needs a signature for its login.
AskSignature(o) ==
    /\ opener[o].pc = "open"
    /\ Send(o, "sign", [opener[o] EXCEPT !.pc = "login"])
    /\ UNCHANGED <<clock, serverVars, answer, cache, seen>>

\* The login ends, signed or not, or the session ends.
EndSession(o) ==
    /\ \/ opener[o].pc = "login"
       \/ opener[o].pc = "open"
    /\ opener' = [opener EXCEPT ![o] = FreshOpener]
    /\ UNCHANGED <<clock, serverVars, sent, answer, cache, seen>>

TickClock ==
    /\ clock < LastTime
    /\ clock' = clock + 1
    /\ UNCHANGED <<serverVars, sent, answer, deviceVars>>

DeviceInit ==
    /\ clock = 0
    /\ active = TRUE
    /\ identityOn = TRUE
    /\ version = 0
    /\ nonces = {}
    /\ nextPrune = 0
    /\ sent = {}
    /\ handler = [h \in Handlers |-> IdleHandler]
    /\ answer = [p \in Proofs |-> NoAnswer]
    /\ signLog = {}
    /\ admitted = [p \in Proofs |-> 0]
    /\ cache = NoCache
    /\ opener = [o \in Openers |-> FreshOpener]
    /\ seen = 0

DeviceNext ==
    \/ \E h \in Handlers :
         \/ VerifyProof(h) \/ Consume(h) \/ ConsumeRefuses(h)
         \/ ServeBundle(h) \/ CheckSign(h) \/ LogAndSign(h)
    \/ \E o \in Openers :
         \/ OpenCached(o) \/ OpenFetches(o) \/ BundleArrives(o)
         \/ FetchRefused(o) \/ FetchUnreachable(o)
         \/ AskSignature(o) \/ EndSession(o)
    \/ Administer
    \/ TickClock

DeviceSpec == DeviceInit /\ [][DeviceNext]_deviceAll

(***************************************************************************)
(* Properties.                                                             *)
(***************************************************************************)

\* Nothing old is accepted, however late it comes: a request proof is admitted
\* once, also after its nonce was pruned while a delivery waited for its body
\* or for the write lock; and none is admitted once the device's revocation has
\* committed, also when its lookup saw the device active
\* (enrollment_store.go, consumeNonce: "Never derive the refusal from a cached
\* Device value").
NothingReplayed ==
    [][\A p \in Proofs : admitted'[p] # admitted[p] => admitted[p] = 0 /\ active]_deviceAll

\* No session uses an older configuration than a session before it, whatever
\* the control plane was restored to (session.go, Open: "refusing rollback").
\* It takes sessions one after another: two that overlap may store the older
\* bundle last.
NoRollback ==
    \A o \in Openers : opener[o].pc = "open" => opener[o].version >= opener[o].since

\* Nothing old is accepted, by the control plane or by the device
\* (enrollment_store.go, consumeNonce; session.go, Open).
NothingOld == NothingReplayed /\ []NoRollback
==============================================================================

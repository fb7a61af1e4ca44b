----------------------------- MODULE Enrollment -----------------------------
(***************************************************************************)
(* How a home becomes a device of a control plane, works as one and stops  *)
(* being one: one-time tokens (internal/controlplane/enrollment_store.go,  *)
(* handler.go), remote enroll and leave (internal/remoteclient/enroll.go,  *)
(* client.go), the commands that read the home's three files one after     *)
(* another (internal/remoteclient/session.go) and the guard that stops     *)
(* them when the device is revoked (guard.go).                             *)
(*                                                                         *)
(* A device is its ID.  The bundle of a device is named by the device:     *)
(* versions and times are in ManagedDevice, so a cached bundle may be      *)
(* fresh or not.  A request is signed with a key; what a signature covers  *)
(* and the nonces are in ManagedDevice, too.                               *)
(***************************************************************************)
EXTENDS Integers, FiniteSets

CONSTANTS
    HomeOperators,  \* the terminals at which enroll and leave are typed
    HomeCommands,   \* the other processes of the home
    Tokens,         \* enrollment tokens
    DeviceKeys,     \* keys that enrollments generate (a bound on them)
    DeviceIds,      \* device IDs the control plane hands out
    Absent          \* no file, key or device

ASSUME EnrollAssumption ==
    Absent \notin DeviceIds /\ Absent \notin Tokens /\ "refused" \notin DeviceIds

VARIABLES
    token,    \* enroll_tokens: "none", "good", "spent" or "over"
    device,   \* devices: what every ID was registered with
    posted,   \* the enrollment requests ever sent
    reply,    \* the answer to the request with every key
    home,     \* the files of the home's directory "remote"
    desk,     \* what every operator's process does
    command   \* what every other process does

planeVars == <<token, device, reply>>
enrollVars == <<token, device, posted, reply, home, desk, command>>

Unregistered == [key |-> Absent, token |-> Absent, active |-> FALSE]
HomeFiles == {"marker", "key", "cache"}
NoHome == [dir |-> FALSE, marker |-> Absent, key |-> Absent, cache |-> Absent]

Registered(d) == device[d] # Unregistered

(***************************************************************************)
(* The control plane.                                                      *)
(***************************************************************************)

\* The administrator creates a token, or its lifetime ends.
CreateEnrollToken(t) ==
    /\ token[t] = "none"
    /\ token' = [token EXCEPT ![t] = "good"]
    /\ UNCHANGED <<device, posted, reply, home, desk, command>>

TokenExpires(t) ==
    /\ token[t] = "good"
    /\ token' = [token EXCEPT ![t] = "over"]
    /\ UNCHANGED <<device, posted, reply, home, desk, command>>

\* What a transaction of RedeemEnrollToken does with the token it found good.
Spend(t) == [token EXCEPT ![t] = "spent"]

Tell(k, answer) == IF reply[k] = Absent THEN [reply EXCEPT ![k] = answer] ELSE reply

\* A delivery of an enrollment request, possibly not the first.  One
\* transaction spends the token and registers the key.
RedeemEnrollToken(r) ==
    /\ token[r.token] = "good"
    /\ token' = Spend(r.token)
    /\ \E d \in DeviceIds :
         /\ ~ Registered(d)
         /\ device' = [device EXCEPT ![d] = [key |-> r.key, token |-> r.token,
                                             active |-> TRUE]]
         /\ reply' = Tell(r.key, d)
    /\ UNCHANGED <<posted, home, desk, command>>

\* The token is spent or over, or the store fails and rolls back.
RedeemRefused(r) ==
    /\ reply[r.key] = Absent
    /\ reply' = [reply EXCEPT ![r.key] = "refused"]
    /\ UNCHANGED <<token, device, posted, home, desk, command>>

RevokeDevice(d) ==
    /\ device[d].active
    /\ device' = [device EXCEPT ![d].active = FALSE]
    /\ UNCHANGED <<token, posted, reply, home, desk, command>>

\* A request signed with key k as device d is authentic, and is admitted if
\* the device stands.
Authentic(d, k) == Registered(d) /\ device[d].key = k
Admits(d, k) == Authentic(d, k) /\ device[d].active

(***************************************************************************)
(* remote enroll and remote leave.                                         *)
(***************************************************************************)

AtPrompt == [pc |-> "prompt", token |-> Absent, key |-> Absent, device |-> Absent]

\* The home is not enrolled; the probe finds a control plane of the right
\* mode and costs no token.
EnrollProbes(o) ==
    /\ desk[o].pc = "prompt"
    /\ home.marker = Absent
    /\ \E t \in Tokens :
         /\ token[t] # "none"
         /\ desk' = [desk EXCEPT ![o] = [AtPrompt EXCEPT !.pc = "post", !.token = t]]
    /\ UNCHANGED <<planeVars, posted, home, command>>

\* A fresh key is generated and proved with the request.
EnrollPosts(o) ==
    /\ desk[o].pc = "post"
    /\ \E k \in DeviceKeys :
         /\ \A r \in posted : r.key # k
         /\ posted' = posted \union {[token |-> desk[o].token, key |-> k]}
         /\ desk' = [desk EXCEPT ![o].pc = "wait", ![o].key = k]
    /\ UNCHANGED <<planeVars, home, command>>

\* The answer names the device.
EnrollAnswered(o) ==
    LET a == reply[desk[o].key] IN
    /\ desk[o].pc = "wait"
    /\ a \in DeviceIds
    /\ desk' = [desk EXCEPT ![o].pc = "key", ![o].device = a]
    /\ UNCHANGED <<planeVars, posted, home, command>>

\* The device key is written,
WriteDeviceKey(o) ==
    /\ desk[o].pc = "key"
    /\ home' = [home EXCEPT !.dir = TRUE, !.key = desk[o].key]
    /\ desk' = [desk EXCEPT ![o].pc = "marker"]
    /\ UNCHANGED <<planeVars, posted, command>>

\* and the marker last, which makes the home a device's.
WriteMarker(o) ==
    /\ desk[o].pc = "marker"
    /\ home' = [home EXCEPT !.marker = desk[o].device]
    /\ desk' = [desk EXCEPT ![o] = AtPrompt]
    /\ UNCHANGED <<planeVars, posted, command>>

\* For comparison, a removal that begins with the key.
LeaveKeyFirst(o) == [home EXCEPT !.key = Absent]

\* Leave takes the marker first,
LeaveFirst(o) == [home EXCEPT !.marker = Absent]

LeaveStarts(o) ==
    /\ desk[o].pc = "prompt"
    /\ home.marker # Absent
    /\ home' = LeaveFirst(o)
    /\ desk' = [desk EXCEPT ![o].pc = "purge"]
    /\ UNCHANGED <<planeVars, posted, command>>

\* and the other files one after another, until the directory is empty.
LeaveRemoves(o) ==
    /\ desk[o].pc = "purge"
    /\ \/ \E f \in HomeFiles :
            /\ home[f] # Absent
            /\ home' = [home EXCEPT ![f] = Absent]
            /\ UNCHANGED desk
       \/ /\ \A f \in HomeFiles : home[f] = Absent
          /\ home' = NoHome
          /\ desk' = [desk EXCEPT ![o] = AtPrompt]
    /\ UNCHANGED <<planeVars, posted, command>>

\* A refusal, no answer in time, a write that fails or a death of the process,
\* anywhere: what was done stays done.
OperatorFails(o) ==
    /\ desk[o].pc # "prompt"
    /\ desk' = [desk EXCEPT ![o] = AtPrompt]
    /\ UNCHANGED <<planeVars, posted, home, command>>

(***************************************************************************)
(* The other processes of an enrolled home.                                *)
(***************************************************************************)

NoCommand == [pc |-> "none", device |-> Absent, key |-> Absent, bundle |-> Absent,
         caught |-> FALSE]

Fails(c) == command' = [command EXCEPT ![c] = NoCommand]
Runs(c, bundle) == command' = [command EXCEPT ![c].pc = "run", ![c].bundle = bundle]

\* The marker says which device the home is,
LoadState(c) ==
    /\ command[c].pc = "none"
    /\ home.marker # Absent
    /\ command' = [command EXCEPT ![c].pc = "key", ![c].device = home.marker]
    /\ UNCHANGED <<planeVars, posted, home, desk>>

\* and another file holds its key, if it is still there.
LoadKey(c) ==
    /\ command[c].pc = "key"
    /\ IF home.key # Absent
       THEN command' = [command EXCEPT ![c].pc = "cache", ![c].key = home.key]
       ELSE Fails(c)
    /\ UNCHANGED <<planeVars, posted, home, desk>>

\* A cached bundle of another device is no cached bundle.
CacheServes(c) == home.cache = command[c].device

\* A fresh bundle is used, another one is asked for and kept for the case that
\* no answer comes.
OpenHome(c) ==
    /\ command[c].pc = "cache"
    /\ \/ CacheServes(c) /\ Runs(c, home.cache)
       \/ command' = [command EXCEPT ![c].pc = "ask",
                         ![c].bundle = IF CacheServes(c) THEN home.cache ELSE Absent]
    /\ UNCHANGED <<planeVars, posted, home, desk>>

BundleServed(c) ==
    /\ command[c].pc = "ask"
    /\ IF Admits(command[c].device, command[c].key)
       THEN command' = [command EXCEPT ![c].pc = "store", ![c].bundle = command[c].device]
       ELSE Fails(c)
    /\ UNCHANGED <<planeVars, posted, home, desk>>

PlaneUnreachable(c) ==
    /\ command[c].pc = "ask"
    /\ command[c].bundle # Absent
    /\ Runs(c, command[c].bundle)
    /\ UNCHANGED <<planeVars, posted, home, desk>>

\* The cache is written over whatever the directory holds by now; without the
\* directory the session does not open.
StoreBundle(c) ==
    /\ command[c].pc = "store"
    /\ IF home.dir
       THEN /\ home' = [home EXCEPT !.cache = command[c].bundle]
            /\ Runs(c, command[c].bundle)
       ELSE UNCHANGED home /\ Fails(c)
    /\ UNCHANGED <<planeVars, posted, desk>>

\* The session does not open: an error, an expired bundle, or a death.
CommandFails(c) ==
    /\ command[c].pc \in {"key", "cache", "ask", "store"}
    /\ Fails(c)
    /\ UNCHANGED <<planeVars, posted, home, desk>>

\* The guard's status request is answered with a revocation.
Revoked(c) ==
    /\ Authentic(command[c].device, command[c].key)
    /\ ~ device[command[c].device].active

\* The guard cancels the command, which may just have ended: the guard is
\* waited for before the result is told.
GuardCancels(c) ==
    /\ command[c].pc \in {"run", "ended"}
    /\ ~ command[c].caught
    /\ Revoked(c)
    /\ command' = [command EXCEPT ![c].caught = TRUE]
    /\ UNCHANGED <<planeVars, posted, home, desk>>

\* The guarded command ends, by itself or cancelled, and its result is told.
GuardedEnds(c) ==
    /\ \/ /\ command[c].pc = "run"
          /\ command' = [command EXCEPT ![c].pc = "ended"]
       \/ /\ command[c].pc = "ended"
          /\ command' = [command EXCEPT ![c] = NoCommand]
    /\ UNCHANGED <<planeVars, posted, home, desk>>

EnrollInit ==
    /\ token = [t \in Tokens |-> "none"]
    /\ device = [d \in DeviceIds |-> Unregistered]
    /\ posted = {}
    /\ reply = [k \in DeviceKeys |-> Absent]
    /\ home = NoHome
    /\ desk = [o \in HomeOperators |-> AtPrompt]
    /\ command = [c \in HomeCommands |-> NoCommand]

EnrollNext ==
    \/ \E t \in Tokens : CreateEnrollToken(t) \/ TokenExpires(t)
    \/ \E r \in posted : RedeemEnrollToken(r) \/ RedeemRefused(r)
    \/ \E d \in DeviceIds : RevokeDevice(d)
    \/ \E o \in HomeOperators :
         \/ EnrollProbes(o) \/ EnrollPosts(o) \/ EnrollAnswered(o)
         \/ WriteDeviceKey(o) \/ WriteMarker(o)
         \/ LeaveStarts(o) \/ LeaveRemoves(o)
         \/ OperatorFails(o)
    \/ \E c \in HomeCommands :
         \/ LoadState(c) \/ LoadKey(c) \/ OpenHome(c)
         \/ BundleServed(c) \/ PlaneUnreachable(c) \/ StoreBundle(c)
         \/ CommandFails(c) \/ GuardCancels(c) \/ GuardedEnds(c)

EnrollSpec == EnrollInit /\ [][EnrollNext]_enrollVars

(***************************************************************************)
(* Properties.                                                             *)
(***************************************************************************)

\* A token makes one device, however often its request is delivered and
\* whatever is told of it (enrollment_store.go, RedeemEnrollToken: the token is
\* spent in the transaction that registers the key).
TokensMakeOne ==
    \A d, e \in DeviceIds : Registered(d) /\ Registered(e) /\ d # e =>
        device[d].token # device[e].token

\* An enrollment is whole or not at all: a home that says it is a device holds
\* that device's key, wherever enroll or leave died before (enroll.go: "The
\* marker commits enrollment last; failures never activate partial state";
\* client.go: "The marker goes first so a partial failure still exits remote
\* mode").
EnrolledWhole ==
    home.marker # Absent =>
        Registered(home.marker) /\ home.key = device[home.marker].key

\* No session works with the configuration of a device the home was before,
\* though a leave that died, or a session that stored its bundle late, has left
\* it in the cache (session.go, readCache); and a command is stopped as revoked
\* only when its device was, though the key it read next to its marker may be
\* another device's (guard.go: "Only a definitive revocation cancels").
SessionsOwn ==
    \A c \in HomeCommands :
        command[c].pc \in {"run", "ended"} =>
            /\ command[c].bundle = command[c].device
            /\ command[c].caught => ~ device[command[c].device].active

\* A home is one device: the one its token made, whose key it holds and with
\* whose configuration its sessions work (enroll.go, client.go and session.go).
HomeIsOneDevice == TokensMakeOne /\ EnrolledWhole /\ SessionsOwn
==============================================================================

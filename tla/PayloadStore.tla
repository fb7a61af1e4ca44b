---------------------------- MODULE PayloadStore ----------------------------
(***************************************************************************)
(* The content-addressed store of plan inputs, internal/payload/store.go.  *)
(* Every operation that writes holds one file lock for its whole length,   *)
(* so it is one step here; a process that dies inside leaves one of the    *)
(* states its write order passes through, which the Dies... actions give.  *)
(* Get and List take no lock: a reader sees a state between two steps.     *)
(* Objects stand for contents (all of size one, with the temporary files   *)
(* of dead writers), so equal contents are one object.                     *)
(*                                                                         *)
(* A Put syncs the data it writes.  Metadata, pins and every removal are   *)
(* left to the system, so a machine that loses its power may have lost any *)
(* of them, or not: `unsynced` says of which files it is not known.        *)
(***************************************************************************)
EXTENDS Integers, FiniteSets

CONSTANTS
    Objects,      \* the contents a plan may send on stdin
    Owners,       \* pin owners: execution IDs and plan IDs
    Retentions,   \* the retention times asked for; 0 asks for none
    Limit,        \* MaxTotalBytes
    MaxTime,      \* bound: the clock stops here
    MaxDeaths     \* bound: processes and machines that die

ASSUME StoreAssumption ==
    /\ IsFiniteSet(Objects)
    /\ Retentions \subseteq Nat
    /\ MaxTime \in Nat /\ MaxDeaths \in Nat

VARIABLES
    content,      \* objects/: the objects whose data file exists
    meta,         \* meta/: state of the metadata file, and its expiry
    pins,         \* pins/<object>/: the owners with a pin file
    litter,       \* temporary data files that dead writers left in objects/
    now,          \* the clock
    deaths,       \* how many processes and machines have died
    unsynced      \* what the machine may lose: the files that changed since it
                  \* started and were not synced

storeVars == <<content, meta, pins, litter, now, deaths>>

\* A metadata file is absent, cut short by a death while it was rewritten, or
\* whole; expireAt = 0 is a file without an expiry.
Meta == [state : {"none", "torn", "whole"}, expireAt : Nat]

NoMeta   == [state |-> "none", expireAt |-> 0]
TornMeta == [state |-> "torn", expireAt |-> 0]

\* Data files and pins that came or went, metadata files that changed.
Unsynced == [data : SUBSET Objects, meta : SUBSET Objects, pins : [Objects -> SUBSET Owners]]

AllSynced == [data |-> {}, meta |-> {}, pins |-> [o \in Objects |-> {}]]

StoreTypeOK ==
    /\ content \subseteq Objects
    /\ meta \in [Objects -> Meta]
    /\ pins \in [Objects -> SUBSET Owners]
    /\ litter \in Nat /\ now \in Nat /\ deaths \in Nat

StoreInit ==
    /\ content = {}
    /\ meta = [o \in Objects |-> NoMeta]
    /\ pins = [o \in Objects |-> {}]
    /\ litter = 0
    /\ now = 0
    /\ deaths = 0
    /\ unsynced = AllSynced

-----------------------------------------------------------------------------
\* checkTotal weighs every file of objects/, whosever it is.
Fits(o) == Cardinality(content \cup {o}) + litter <= Limit

\* Get verifies the content, so a payload is there whole or it is not retained.
Retained(o) == o \in content

\* The last Put decides the name and the expiry, whatever an earlier one asked.
Kept(retain) ==
    [state |-> "whole", expireAt |-> IF retain = 0 THEN 0 ELSE now + retain]

AddPin(o, owner) == pins' = [pins EXCEPT ![o] = @ \cup {owner}]

Put(o, retain) ==
    /\ Fits(o)
    /\ content' = content \cup {o}
    /\ meta' = [meta EXCEPT ![o] = Kept(retain)]
    /\ UNCHANGED <<pins, litter, now, deaths>>

PutAndPin(o, retain, owner) ==
    /\ Fits(o)
    /\ content' = content \cup {o}
    /\ meta' = [meta EXCEPT ![o] = Kept(retain)]
    /\ AddPin(o, owner)
    /\ UNCHANGED <<litter, now, deaths>>

Pin(o, owner) ==
    /\ Retained(o)
    /\ AddPin(o, owner)
    /\ UNCHANGED <<content, meta, litter, now, deaths>>

Unpin(o, owner) ==
    /\ pins' = [pins EXCEPT ![o] = @ \ {owner}]
    /\ UNCHANGED <<content, meta, litter, now, deaths>>

Removable(o, force) == force \/ pins[o] = {}

RemoveObject(o, force) ==
    /\ Removable(o, force)
    /\ content' = content \ {o}
    /\ meta' = [meta EXCEPT ![o] = NoMeta]
    /\ pins' = [pins EXCEPT ![o] = {}]
    /\ UNCHANGED <<litter, now, deaths>>

\* Mutant: garbage collection goes by age alone.
CollectableByAge(o) == meta[o].state = "whole" /\ meta[o].expireAt \in 1..now

\* GC goes by List, which skips objects without readable metadata.
Collectable(o) ==
    /\ meta[o].state = "whole"
    /\ meta[o].expireAt \in 1..now
    /\ Removable(o, FALSE)

GC ==
    LET gone == {o \in Objects : Collectable(o)} IN
    /\ gone # {}
    /\ content' = content \ gone
    /\ meta' = [o \in Objects |-> IF o \in gone THEN NoMeta ELSE meta[o]]
    /\ UNCHANGED <<pins, litter, now, deaths>>

-----------------------------------------------------------------------------
Death == deaths < MaxDeaths /\ deaths' = deaths + 1

\* A Put dies with its temporary file, with the data but the old metadata, or
\* with the metadata truncated. (After the metadata only the pin is missing:
\* that is Put.)
PutDies(o) ==
    /\ Death
    /\ Fits(o)
    /\ \/ litter' = litter + 1 /\ UNCHANGED <<content, meta>>
       \/ content' = content \cup {o} /\ UNCHANGED <<meta, litter>>
       \/ /\ content' = content \cup {o}
          /\ meta' = [meta EXCEPT ![o] = TornMeta]
          /\ UNCHANGED litter
    /\ UNCHANGED <<pins, now>>

\* A removal dies after the data, or, when forced, before the pins.
RemoveDies(o, force) ==
    /\ Death
    /\ Removable(o, force)
    /\ content' = content \ {o}
    /\ meta' \in {meta, [meta EXCEPT ![o] = NoMeta]}
    /\ UNCHANGED <<pins, litter, now>>

Tick == now < MaxTime /\ now' = now + 1 /\ UNCHANGED <<content, meta, pins, litter, deaths>>

Changed(S, T) == (S \ T) \cup (T \ S)

\* The data files that a Put wrote to its end: a Put that died may have renamed
\* its file without syncing the directory, and a later one finds it there.
DataSynced == {o \in content' \ content : deaths' = deaths}

\* What every step but a loss of power does to unsynced. (Where no death is to
\* come it does not matter any more.)
Tracked ==
    unsynced' =
        IF deaths' >= MaxDeaths THEN AllSynced
        ELSE [data |-> (unsynced.data \cup Changed(content, content')) \ DataSynced,
              meta |-> unsynced.meta \cup {o \in Objects : meta'[o] # meta[o]},
              pins |-> [o \in Objects |-> unsynced.pins[o] \cup Changed(pins[o], pins'[o])]]

\* What a metadata file that changed may hold: nothing, a part, since a Put
\* rewrites it in place, or an expiry that a Put gave it. (Which ones were given
\* is not kept.)
MayHold(o) ==
    IF o \notin unsynced.meta THEN {meta[o]}
    ELSE {NoMeta, TornMeta, [state |-> "whole", expireAt |-> 0]}
         \cup {[state |-> "whole", expireAt |-> t + r] : t \in 0..now, r \in Retentions \ {0}}

\* A loss of power leaves every file as it was last synced, or as it was at some
\* moment since: the data of a rename that is lost is a temporary file again.
PowerLoss ==
    /\ content' \in {(content \ unsynced.data) \cup S : S \in SUBSET unsynced.data}
    /\ pins' \in {f \in [Objects -> SUBSET Owners] :
                    \A o \in Objects : Changed(f[o], pins[o]) \subseteq unsynced.pins[o]}
    /\ meta' \in {f \in [Objects -> UNION {MayHold(o) : o \in Objects}] :
                    \A o \in Objects : f[o] \in MayHold(o)}
    /\ litter' = litter + Cardinality(content \ content')
    /\ unsynced' = AllSynced
    /\ UNCHANGED now

\* `plan payload remove --force` overrides the pins.
ForcedRemoval(o) == RemoveObject(o, TRUE) \/ RemoveDies(o, TRUE)

\* The other payload commands, and saves by executions that are not modelled here.
StoreNext ==
    \/ \E o \in Objects :
          \/ \E r \in Retentions : Put(o, r)
          \/ PutDies(o)
          \/ RemoveObject(o, FALSE)
          \/ RemoveDies(o, FALSE)
    \/ GC
    \/ Tick
=============================================================================

----------------------------- MODULE AuditChain -----------------------------
(***************************************************************************)
(* The audit log of internal/audit/record.go as a file that several        *)
(* processes append to under a lock on the open file, and that a repair    *)
(* replaces by renaming a new file over it, without the lock.              *)
(*                                                                         *)
(* Every appender appends once, so its record is named by it.  A hash      *)
(* covers its record and the hash before it: a record carries the name of  *)
(* the record it was chained to and whether its own hash still fits.       *)
(***************************************************************************)
EXTENDS Naturals, Sequences, FiniteSets

CONSTANTS
    Appenders,   \* calls of Store.AppendUnless, each for one fact
    Facts,       \* what AppendUnless records at most once
    Repairs,     \* calls of Store.TruncateBroken, each writing one file
    Original,    \* the file the log starts as
    Nobody,
    MaxAlters    \* bound on the records altered from outside

ASSUME ChainAssumption == Nobody \notin Appenders /\ Original \notin Repairs

VARIABLES
    logPath,     \* the file at Store.Path
    lines,       \* the records of every file
    cut,         \* the files that end in the middle of a line
    flock,       \* the appender that holds the lock of every file
    backup,      \* the records at Store.Path + ".bak"
    append,      \* where every append is, the file it opened, what it read
    repair,      \* where every repair is and the records it read
    acked,       \* the appenders whose append was reported as done
    alters       \* records altered from outside so far

chainVars == <<logPath, lines, cut, flock, backup, append, repair, acked, alters>>

Files == {Original} \union Repairs

(***************************************************************************)
(* Reading and verifying.                                                  *)
(***************************************************************************)

\* What verifyRecords asks of the i-th record.
Follows(records, i) ==
    /\ records[i].seq = i - 1
    /\ records[i].prev = IF i = 1 THEN Nobody ELSE records[i-1].by
    /\ records[i].sound

Verifies(records) == \A i \in DOMAIN records : Follows(records, i)

\* The records before the first that does not fit.
SoundPrefix(records) ==
    SubSeq(records, 1,
           Cardinality({i \in DOMAIN records : \A j \in 1..i : Follows(records, j)}))

Records(s) == {s[i] : i \in DOMAIN s}

(***************************************************************************)
(* Store.AppendUnless.                                                     *)
(***************************************************************************)

OpenLog(a) ==
    /\ append[a].pc = "start"
    /\ append' = [append EXCEPT ![a].pc = "lock", ![a].file = logPath]
    /\ UNCHANGED <<logPath, lines, cut, flock, backup, repair, acked, alters>>

\* For comparison, a lock that several appends may hold.
UnlockedForAll(f) == f \in Files

\* The lock is exclusive.
Unlocked(f) == flock[f] = Nobody

\* The lock is taken and the log read.  A log that does not parse or does not
\* verify refuses the append; a fact that is there already is not repeated.
LockAndRead(a) ==
    LET f == append[a].file
        records == lines[f]
        there == \E i \in DOMAIN records : records[i].fact = append[a].fact IN
    /\ append[a].pc = "lock"
    /\ Unlocked(f)
    /\ \/ /\ f \in cut \/ ~ Verifies(records)
          /\ append' = [append EXCEPT ![a].pc = "refused"]
          /\ UNCHANGED <<flock, acked>>
       \/ /\ f \notin cut /\ Verifies(records) /\ there
          /\ append' = [append EXCEPT ![a].pc = "done"]
          /\ UNCHANGED <<flock, acked>>
       \/ /\ f \notin cut /\ Verifies(records) /\ ~ there
          /\ append' = [append EXCEPT ![a].pc = "write", ![a].read = records]
          /\ flock' = [flock EXCEPT ![f] = a]
          /\ UNCHANGED acked
    /\ UNCHANGED <<logPath, lines, cut, backup, repair, alters>>

NewRecord(a) ==
    LET records == append[a].read IN
    [by |-> a, fact |-> append[a].fact, seq |-> Len(records), sound |-> TRUE,
     prev |-> IF records = <<>> THEN Nobody ELSE records[Len(records)].by]

Unlock(a) ==
    flock' = [f \in Files |-> IF flock[f] = a THEN Nobody ELSE flock[f]]

\* The record is written and synced, and the lock let go.
WriteRecord(a) ==
    /\ append[a].pc = "write"
    /\ lines' = [lines EXCEPT ![append[a].file] = Append(@, NewRecord(a))]
    /\ append' = [append EXCEPT ![a].pc = "done"]
    /\ acked' = acked \union {a}
    /\ Unlock(a)
    /\ UNCHANGED <<logPath, cut, backup, repair, alters>>

\* The process dies, or the disk is full, in the middle of the line.
WriteCut(a) ==
    /\ append[a].pc = "write"
    /\ cut' = cut \union {append[a].file}
    /\ append' = [append EXCEPT ![a].pc = "died"]
    /\ Unlock(a)
    /\ UNCHANGED <<logPath, lines, backup, repair, acked, alters>>

(***************************************************************************)
(* Store.TruncateBroken.                                                   *)
(***************************************************************************)

RepairTo(r, where) == repair' = [repair EXCEPT ![r].pc = where]

\* The log is read; one that does not parse cannot be repaired.
RepairReads(r) ==
    /\ repair[r].pc = "start"
    /\ IF logPath \in cut
       THEN RepairTo(r, "failed")
       ELSE repair' = [repair EXCEPT ![r].pc = "verify", ![r].records = lines[logPath]]
    /\ UNCHANGED <<logPath, lines, cut, flock, backup, append, acked, alters>>

\* It is read once more to be verified; what is kept comes from the first
\* reading, the place of the cut from the second.
RepairVerifies(r) ==
    LET now == lines[logPath]
        keep == Len(SoundPrefix(now))
        first == repair[r].records IN
    /\ repair[r].pc = "verify"
    /\ IF logPath \in cut \/ Verifies(now)
       THEN RepairTo(r, IF logPath \in cut THEN "failed" ELSE "unchanged")
       ELSE repair' = [repair EXCEPT ![r].pc = "backup",
                         ![r].records = SubSeq(first, 1, IF keep > Len(first) THEN Len(first) ELSE keep)]
    /\ UNCHANGED <<logPath, lines, cut, flock, backup, append, acked, alters>>

\* The file at the path is copied aside, over the backup of an earlier repair.
Copied(r) == lines[logPath]

RepairBacksUp(r) ==
    /\ repair[r].pc = "backup"
    /\ backup' = Copied(r)
    /\ RepairTo(r, "replace")
    /\ UNCHANGED <<logPath, lines, cut, flock, append, acked, alters>>

\* The sound prefix, written to a file of its own, is renamed over the log.
RepairReplaces(r) ==
    /\ repair[r].pc = "replace"
    /\ lines' = [lines EXCEPT ![r] = repair[r].records]
    /\ logPath' = r
    /\ RepairTo(r, "repaired")
    /\ UNCHANGED <<cut, flock, backup, append, acked, alters>>

\* A record is altered from outside, between two appends.
Alter ==
    /\ alters < MaxAlters
    /\ flock[logPath] = Nobody
    /\ \E i \in DOMAIN lines[logPath] :
         lines' = [lines EXCEPT ![logPath][i].sound = FALSE]
    /\ alters' = alters + 1
    /\ UNCHANGED <<logPath, cut, flock, backup, append, repair, acked>>

ChainInit ==
    /\ logPath = Original
    /\ lines = [f \in Files |-> <<>>]
    /\ cut = {}
    /\ flock = [f \in Files |-> Nobody]
    /\ backup = <<>>
    /\ \E fact \in [Appenders -> Facts] :
         append = [a \in Appenders |-> [pc |-> "start", file |-> Original,
                                        read |-> <<>>, fact |-> fact[a]]]
    /\ repair = [r \in Repairs |-> [pc |-> "start", records |-> <<>>]]
    /\ acked = {}
    /\ alters = 0

ChainNext ==
    \/ \E a \in Appenders :
         OpenLog(a) \/ LockAndRead(a) \/ WriteRecord(a) \/ WriteCut(a)
    \/ \E r \in Repairs :
         \/ RepairReads(r) \/ RepairVerifies(r)
         \/ RepairBacksUp(r) \/ RepairReplaces(r)
    \/ Alter

ChainSpec == ChainInit /\ [][ChainNext]_chainVars

(***************************************************************************)
(* Properties.                                                             *)
(***************************************************************************)

\* Only what happens outside breaks the chain: up to the first altered record
\* every record of the log continues the one before it, however appends,
\* repairs and torn writes interleave (record.go, AppendUnless: read, chain
\* and write under one lock).
ChainUnbroken ==
    \A i \in DOMAIN lines[logPath] :
        (\A j \in 1..i : lines[logPath][j].sound) => Follows(lines[logPath], i)

\* A record that was reported as appended is in the log or, when a repair
\* removed it, in the backup (record.go, TruncateBroken; README.md, "remove a
\* broken audit tail after backing it up").  It takes one repair at a time:
\* the backup of a second one replaces that of the first.
AcknowledgedKept ==
    \A a \in acked : \E r \in Records(lines[logPath]) \union Records(backup) : r.by = a

\* The log is unbroken and complete while processes append to it and one
\* repairs it (record.go, AppendUnless and TruncateBroken).
LogSound == ChainUnbroken /\ AcknowledgedKept
=============================================================================

------------------------------- MODULE RunStore -------------------------------
(***************************************************************************)
(* The gateway's run store, internal/gateway/runstore.go, with the request *)
(* handlers of exec.go and runs.go that enter it.  A run is named by a     *)
(* device and the ID that device chose.  On disk there is one record per   *)
(* claimed ID and one spool file per attempt; in memory, the live runs,    *)
(* the slots they occupy and a cached count of each device's records.      *)
(* Every action below is one critical section of s.mu (or one step of the  *)
(* goroutine that executes a run), so handlers interleave between them as  *)
(* they do in the program; a crash keeps the disk and loses the memory.    *)
(*                                                                         *)
(* Time is counted from 1 in ticks; 0 stands for a time never set.         *)
(***************************************************************************)
EXTENDS Naturals, FiniteSets, FiniteSetsExt

CONSTANTS
  Devices,             \* enrolled devices
  RunIDs,              \* the IDs devices choose for their runs
  Requests,            \* the hashes of distinct requests
  NoRequest,           \* a record that holds no request
  Handlers,            \* bound: concurrent HTTP handlers
  Nonces,              \* bound: the random suffixes of spool names
  MaxConcurrent,       \* --max-concurrent, per device
  RunRecords,          \* --run-records, per device
  QuotaBytes,          \* --run-quota-bytes, per device
  RunMaxBytes,         \* --run-max-bytes, per run
  Retention,           \* --run-retention
  ExecTimeout,         \* --exec-timeout
  IdempotencyWindow,   \* idempotencyWindow
  CancelTombstoneTTL,  \* cancelTombstoneTTL
  OrphanAge,           \* orphanAge
  SweepEvery,          \* runSweepEvery
  RecordWritesFail,    \* bound: may the rewrite of a record fail?
  MaxTime,             \* bound: the clock stops here
  MaxCrashes           \* bound: restarts of the gateway

ASSUME LimitsAssumption ==
  /\ MaxConcurrent \in Nat /\ RunRecords \in Nat
  /\ QuotaBytes \in Nat /\ RunMaxBytes \in Nat
  /\ MaxTime \in Nat \ {0} /\ MaxCrashes \in Nat
  /\ RecordWritesFail \in BOOLEAN

ASSUME TimesAssumption ==
  /\ Retention \in Nat /\ ExecTimeout \in Nat /\ IdempotencyWindow \in Nat
  /\ CancelTombstoneTTL \in Nat /\ OrphanAge \in Nat /\ SweepEvery \in Nat \ {0}

ASSUME NamesAssumption ==
  /\ NoRequest \notin Requests
  /\ Nonces \subseteq Nat \ {0}

ASSUME FiniteAssumption ==
  IsFiniteSet(Devices) /\ IsFiniteSet(RunIDs) /\ IsFiniteSet(Nonces)

VARIABLES
  rec,        \* the record file of each run
  spool,      \* the spool files of each run, by nonce
  live,       \* s.runs: the runs this process executes
  done,       \* live runs whose final frame is written, endRun still to come
  cancelled,  \* live runs whose context is cancelled or timed out
  running,    \* s.running: occupied slots of each device
  counted,    \* devices whose record count is cached
  count,      \* s.deviceRecords
  devSweep,   \* s.deviceSweeps: when the device's next sweep is due
  nextSweep,  \* s.nextSweep
  handler,    \* each handler's position and request
  now,        \* the clock
  crashes,    \* restarts so far
  startedAt,  \* history: when the command of this ID was last started
  tombAt      \* history: when a cancel last claimed this ID

disk   == <<rec, spool>>
memory == <<live, done, cancelled, running, counted, count, devSweep, nextSweep>>
ghosts == <<startedAt, tombAt>>
vars   == <<disk, memory, handler, now, crashes, ghosts>>

Keys == Devices \X RunIDs

States == {"none", "running", "finished", "cancelled", "evicted"}

\* runRecord: state "none" is a missing file, frames 0 an empty Frames field.
Records == [state : States, created : Nat, finished : Nat,
            req : Requests \cup {NoRequest}, frames : Nonces \cup {0}]

NoRecord == [state |-> "none", created |-> 0, finished |-> 0,
             req |-> NoRequest, frames |-> 0]

Files == [exists : BOOLEAN, mtime : Nat, bytes : Nat]

NoFile == [exists |-> FALSE, mtime |-> 0, bytes |-> 0]

\* A handler holds a request for a run from its lookup to its answer.
Idle == [pc |-> "idle", key |-> << >>, req |-> NoRequest]

HandlerStates == {Idle} \cup
  [pc : {"sweep", "start", "rejoin"}, key : Keys, req : Requests]

-----------------------------------------------------------------------------
(* Helpers on a set of records r, spool files s and live runs l. *)

\* storedRunsLocked: the device's records whose runs are not live.
Stored(r, l, d) ==
  {k \in Keys : k[1] = d /\ r[k].state # "none" /\ k \notin l}

\* The output a stored run keeps: only a finished one's spool is weighed.
StoredBytes(r, s, k) ==
  IF r[k].state = "finished" /\ r[k].frames # 0 /\ s[k][r[k].frames].exists
  THEN s[k][r[k].frames].bytes ELSE 0

\* What evictLocked and run.finish leave of a record.
Evicted(c) == [state |-> "evicted", created |-> c.created, finished |-> c.finished,
               req |-> c.req, frames |-> 0]

Finished(c) == [state |-> "finished", created |-> c.created, finished |-> now,
                req |-> c.req, frames |-> c.frames]

\* evictLocked on every run of E: the output goes, the record stays.
EvictRecs(r, E) ==
  [k \in Keys |-> IF k \in E THEN Evicted(r[k]) ELSE r[k]]

RemoveSpoolsForgotten(r, s, E) == s

\* os.Remove of the spools that the records of E name.
RemoveSpools(r, s, E) ==
  [k \in Keys |-> [n \in Nonces |->
     IF k \in E /\ r[k].frames = n THEN NoFile ELSE s[k][n]]]

\* The records of D deleted: deleteRecordLocked and sweepDeviceLocked.
DeleteRecs(r, D) == [k \in Keys |-> IF k \in D THEN NoRecord ELSE r[k]]

DeletableEarly(c) ==
  \/ c.state = "evicted" /\ now > c.created + Retention
  \/ c.state = "cancelled" /\ now > c.created + CancelTombstoneTTL
  \/ c.state = "running" /\ now > c.created + Retention + ExecTimeout

DeletableTombstone(c) ==
  \/ c.state = "evicted" /\ now > c.created + IdempotencyWindow
  \/ c.state = "cancelled"
  \/ c.state = "running" /\ now > c.created + Retention + ExecTimeout

\* A stored record that a sweep deletes: evicted past the idempotency
\* window, a cancel past its TTL, or a run a restart interrupted, once it can
\* no longer be running.
Deletable(c) ==
  \/ c.state = "evicted" /\ now > c.created + IdempotencyWindow
  \/ c.state = "cancelled" /\ now > c.created + CancelTombstoneTTL
  \/ c.state = "running" /\ now > c.created + Retention + ExecTimeout

\* A finished run whose output is past its retention.
PastRetention(c) == c.state = "finished" /\ now > c.finished + Retention

SweptRecsLive(D) ==
  [k \in Keys |->
     CASE k[1] \in D /\ k \notin live /\ Deletable(rec[k]) -> NoRecord
       [] k[1] \in D /\ PastRetention(rec[k]) -> Evicted(rec[k])
       [] OTHER -> rec[k]]

\* sweepDeviceLocked for the devices of D.
SweptRecs(D) ==
  [k \in Keys |->
     CASE k[1] \in D /\ k \notin live /\ Deletable(rec[k]) -> NoRecord
       [] k[1] \in D /\ k \notin live /\ PastRetention(rec[k]) ->
            Evicted(rec[k])
       [] OTHER -> rec[k]]

\* A spool goes with its record; one that no record names any more (an
\* attempt that crashed before its claim) goes once it is old enough.
SweptSpools(D) ==
  [k \in Keys |-> [n \in Nonces |->
     IF /\ k[1] \in D
        /\ \/ rec[k].frames = n /\ SweptRecs(D)[k].frames # n
           \/ rec[k].frames # n /\ now > spool[k][n].mtime + OrphanAge
     THEN NoFile ELSE spool[k][n]]]

RecordsOf(r, d) == {k \in Keys : k[1] = d /\ r[k].state # "none"}

ReclaimableAnyAge(r, d) ==
  {k \in Stored(r, live, d) : r[k].state \in {"finished", "evicted"}}

\* The runs admitLocked may reclaim when the device is at its limit.
Reclaimable(r, d) ==
  {k \in Stored(r, live, d) : /\ r[k].state \in {"finished", "evicted"}
                              /\ now > r[k].created + IdempotencyWindow}

\* The oldest reclaimable runs, as many as it takes to be below the limit or
\* else all of them.  Equal creation times leave the order to the sort.
Reclaims(r, c, d) ==
  {R \in SUBSET Reclaimable(r, d) :
     /\ \A k \in R, m \in Reclaimable(r, d) \ R : r[k].created <= r[m].created
     /\ R # {} => c - Cardinality(R) + 1 >= RunRecords
     /\ c - Cardinality(R) < RunRecords \/ R = Reclaimable(r, d)}

Fits(bytes, reserve) == bytes + reserve <= QuotaBytes

Total(weight, S) == MapThenSumSet(LAMBDA x : weight[x], S)

\* makeRoomLocked: the oldest finished outputs, until what is left and the
\* reserve fit the quota.
Evictions(r, s, l, d, reserve) ==
  LET sized   == {k \in Stored(r, l, d) : StoredBytes(r, s, k) > 0}
      total(E) == Total([k \in sized |-> StoredBytes(r, s, k)], sized \ E)
  IN {E \in SUBSET sized :
        /\ \A k \in E, m \in sized \ E : r[k].finished <= r[m].finished
        /\ E # {} => \E k \in E :
                       /\ \A m \in E : r[m].finished <= r[k].finished
                       /\ ~Fits(total(E \ {k}), reserve)
        /\ Fits(total(E), reserve) \/ E = sized}

\* The sweep admitLocked makes when the device's count is unknown or due.
SweepDue(d) == d \notin counted \/ now >= devSweep[d]
AdmitRecs(d)   == IF SweepDue(d) THEN SweptRecs({d}) ELSE rec
AdmitSpools(d) == IF SweepDue(d) THEN SweptSpools({d}) ELSE spool
AdmitCountStale(d) == count[d]

AdmitCount(d) == IF SweepDue(d) THEN Cardinality(RecordsOf(SweptRecs({d}), d))
                 ELSE count[d]

\* What admitLocked leaves in memory: c records counted for d.
Recount(d, c) ==
  /\ counted' = counted \cup {d}
  /\ count' = [count EXCEPT ![d] = c]
  /\ devSweep' = IF SweepDue(d) THEN [devSweep EXCEPT ![d] = now + SweepEvery]
                 ELSE devSweep

-----------------------------------------------------------------------------

Init ==
  /\ rec = [k \in Keys |-> NoRecord]
  /\ spool = [k \in Keys |-> [n \in Nonces |-> NoFile]]
  /\ live = {} /\ done = {} /\ cancelled = {}
  /\ running = [d \in Devices |-> 0]
  /\ counted = {}
  /\ count = [d \in Devices |-> 0]
  /\ devSweep = [d \in Devices |-> 0]
  /\ nextSweep = 0
  /\ handler = [h \in Handlers |-> Idle]
  /\ now = 1
  /\ crashes = 0
  /\ startedAt = [k \in Keys |-> 0]
  /\ tombAt = [k \in Keys |-> 0]

Goto(h, pc) == handler' = [handler EXCEPT ![h].pc = pc]

Answer(h) == handler' = [handler EXCEPT ![h] = Idle]

LookupRunByCreation(k) ==
  LET expired == /\ k \notin live /\ rec[k].state = "finished"
                 /\ now > rec[k].created + Retention IN
  /\ rec' = IF expired THEN EvictRecs(rec, {k}) ELSE rec
  /\ spool' = IF expired THEN RemoveSpools(rec, spool, {k}) ELSE spool

\* lookupRun by a handler whose request is for run k, from the position
\* found to the one it takes when the ID was never claimed.  Every other
\* answer (a live run to follow, kept output, or a refusal) ends the handler;
\* the only state it changes is the output it finds past retention.
LookupRun(k) ==
  LET expired == k \notin live /\ PastRetention(rec[k]) IN
  /\ rec' = IF expired THEN EvictRecs(rec, {k}) ELSE rec
  /\ spool' = IF expired THEN RemoveSpools(rec, spool, {k}) ELSE spool

\* serveExisting at the top of execAs: a request for a claimed ID ends here,
\* one for a free ID goes on to start the run.
ExecLookup(h, k, q) ==
  /\ handler[h].pc = "idle"
  /\ LookupRun(k)
  /\ handler' = [handler EXCEPT ![h] =
       IF rec[k].state = "none" THEN [pc |-> "sweep", key |-> k, req |-> q]
       ELSE Idle]
  /\ UNCHANGED <<memory, now, crashes, ghosts>>

\* sweepRuns, as startRun calls it before it takes the lock for admission.
SweepAll ==
  IF now < nextSweep
  THEN UNCHANGED <<disk, counted, count, devSweep, nextSweep>>
  ELSE /\ rec' = SweptRecs(Devices)
       /\ spool' = SweptSpools(Devices)
       /\ counted' = Devices
       /\ count' = [d \in Devices |-> Cardinality(RecordsOf(SweptRecs(Devices), d))]
       /\ devSweep' = [d \in Devices |-> now + SweepEvery]
       /\ nextSweep' = now + SweepEvery

StartSweep(h) ==
  /\ handler[h].pc = "sweep"
  /\ SweepAll
  /\ Goto(h, "start")
  /\ UNCHANGED <<live, done, cancelled, running, now, crashes, ghosts>>

\* handleAttach: a sweep, then the lookup of one run.
Attach(k) ==
  \/ /\ now >= nextSweep
     /\ SweepAll
     /\ UNCHANGED <<live, done, cancelled, running, handler, now, crashes, ghosts>>
  \/ /\ now < nextSweep
     /\ LookupRun(k)
     /\ UNCHANGED <<memory, handler, now, crashes, ghosts>>

\* startRun finds the ID claimed meanwhile, or every slot taken.
StartRefused(h) ==
  LET k == handler[h].key IN
  /\ handler[h].pc = "start"
  /\ \/ rec[k].state # "none" /\ Goto(h, "rejoin")
     \/ /\ rec[k].state = "none" /\ running[k[1]] >= MaxConcurrent
        /\ Answer(h)
  /\ UNCHANGED <<disk, memory, now, crashes, ghosts>>

\* admitLocked refuses: what it swept and reclaimed on the way stays so.
StartUnadmitted(h) ==
  LET k == handler[h].key
      d == k[1]
      r == AdmitRecs(d)
  IN
  /\ handler[h].pc = "start" /\ rec[k].state = "none"
  /\ running[d] < MaxConcurrent
  /\ \E R \in Reclaims(r, AdmitCount(d), d) :
       /\ AdmitCount(d) - Cardinality(R) >= RunRecords
       /\ rec' = DeleteRecs(r, R)
       /\ spool' = RemoveSpools(r, AdmitSpools(d), R)
       /\ Recount(d, AdmitCount(d) - Cardinality(R))
  /\ Answer(h)
  /\ UNCHANGED <<live, done, cancelled, running, nextSweep, now, crashes, ghosts>>

\* A failed spool or claim: admission's sweep stays, the private spool goes.
StartFails(h) ==
  LET k == handler[h].key
      d == k[1]
      r == AdmitRecs(d)
  IN
  /\ handler[h].pc = "start" /\ rec[k].state = "none"
  /\ running[d] < MaxConcurrent
  /\ \E R \in Reclaims(r, AdmitCount(d), d) :
       /\ AdmitCount(d) - Cardinality(R) < RunRecords
       /\ rec' = DeleteRecs(r, R)
       /\ spool' = RemoveSpools(r, AdmitSpools(d), R)
       /\ Recount(d, AdmitCount(d) - Cardinality(R))
  /\ Answer(h)
  /\ UNCHANGED <<live, done, cancelled, running, nextSweep, now, crashes, ghosts>>

NewFile == [exists |-> TRUE, mtime |-> now, bytes |-> 0]

NewRecord(q, n) == [state |-> "running", created |-> now, finished |-> 0,
                    req |-> q, frames |-> n]

\* The exclusive claim succeeds: the commit point.  Only now does the run
\* take a slot and evict finished output to make room for its own.
StartCommits(h) ==
  LET k == handler[h].key
      d == k[1]
      r == AdmitRecs(d)
  IN
  /\ handler[h].pc = "start" /\ rec[k].state = "none"
  /\ running[d] < MaxConcurrent
  /\ \E R \in Reclaims(r, AdmitCount(d), d), n \in Nonces :
       LET s1 == RemoveSpools(r, AdmitSpools(d), R)
           r1 == [DeleteRecs(r, R) EXCEPT ![k] = NewRecord(handler[h].req, n)]
           s2 == [s1 EXCEPT ![k][n] = NewFile]
       IN /\ AdmitCount(d) - Cardinality(R) < RunRecords
          /\ ~s1[k][n].exists
          /\ \E E \in Evictions(r1, s2, live \cup {k}, d, RunMaxBytes) :
               /\ rec' = EvictRecs(r1, E)
               /\ spool' = RemoveSpools(r1, s2, E)
          /\ Recount(d, AdmitCount(d) - Cardinality(R) + 1)
  /\ live' = live \cup {k}
  /\ running' = [running EXCEPT ![d] = @ + 1]
  /\ startedAt' = [startedAt EXCEPT ![k] = now]
  /\ Answer(h)
  /\ UNCHANGED <<done, cancelled, nextSweep, now, crashes, tombAt>>

\* The second serveExisting: the record that beat this request answers it.
Rejoin(h) ==
  /\ handler[h].pc = "rejoin"
  /\ LookupRun(handler[h].key)
  /\ Answer(h)
  /\ UNCHANGED <<memory, now, crashes, ghosts>>

\* A running command's output reaches its spool (run.data, run.response).
Write(k) ==
  LET n == rec[k].frames IN
  /\ k \in live \ done
  /\ spool[k][n].bytes < RunMaxBytes
  /\ spool' = [spool EXCEPT ![k][n] =
       [exists |-> TRUE, mtime |-> now, bytes |-> @.bytes + 1]]
  /\ UNCHANGED <<rec, memory, handler, now, crashes, ghosts>>

\* run.finish: the final frame and the record's completion, which a full disk
\* can prevent; the record then still says running.
Finish(k) ==
  /\ k \in live \ done
  /\ \/ rec' = [rec EXCEPT ![k] = Finished(rec[k])]
     \/ RecordWritesFail /\ rec' = rec
  /\ done' = done \cup {k}
  /\ UNCHANGED <<spool, live, cancelled, running, counted, count, devSweep,
                 nextSweep, handler, now, crashes, ghosts>>

ReleaseKeepsSlot(k) ==
  /\ live' = live \ {k} /\ done' = done \ {k} /\ cancelled' = cancelled \ {k}
  /\ running' = running

\* The run leaves s.runs and gives its slot back.
Release(k) ==
  /\ live' = live \ {k} /\ done' = done \ {k} /\ cancelled' = cancelled \ {k}
  /\ running' = [running EXCEPT ![k[1]] = @ - 1]

\* endRun: the slot is released and the finished output settled together.
EndRun(k) ==
  /\ k \in done
  /\ Release(k)
  /\ \E E \in Evictions(rec, spool, live \ {k}, k[1], 0) :
       /\ rec' = EvictRecs(rec, E)
       /\ spool' = RemoveSpools(rec, spool, E)
  /\ UNCHANGED <<counted, count, devSweep, nextSweep, handler, now, crashes, ghosts>>

\* cancelRun of a live run cancels its context.
CancelLive(k) ==
  /\ k \in live
  /\ cancelled' = IF k \in done THEN cancelled ELSE cancelled \cup {k}
  /\ UNCHANGED <<disk, live, done, running, counted, count, devSweep, nextSweep,
                 handler, now, crashes, ghosts>>

Tombstone == [state |-> "cancelled", created |-> now, finished |-> 0,
              req |-> NoRequest, frames |-> 0]

\* cancelRun of an ID never claimed claims it, so that the request it
\* overtook is refused; admission can refuse the claim.
CancelEarly(k) ==
  LET d == k[1]
      r == AdmitRecs(d)
  IN
  /\ k \notin live /\ rec[k].state = "none"
  /\ \E R \in Reclaims(r, AdmitCount(d), d) :
       LET c      == AdmitCount(d) - Cardinality(R)
           claims == c < RunRecords
       IN /\ rec' = IF claims
                    THEN [DeleteRecs(r, R) EXCEPT ![k] = Tombstone]
                    ELSE DeleteRecs(r, R)
          /\ spool' = RemoveSpools(r, AdmitSpools(d), R)
          /\ Recount(d, IF claims THEN c + 1 ELSE c)
          /\ tombAt' = IF claims THEN [tombAt EXCEPT ![k] = now] ELSE tombAt
  /\ UNCHANGED <<live, done, cancelled, running, nextSweep, handler, now,
                 crashes, startedAt>>

TimerStopped(k) == FALSE /\ k \in live /\ UNCHANGED vars

\* The execution timeout of the run's context.  The clock is cut off at
\* MaxTime, and a timer still pending then fires there.
TimerFires(k) ==
  /\ k \in live \ (done \cup cancelled)
  /\ now >= rec[k].created + ExecTimeout \/ now = MaxTime
  /\ cancelled' = cancelled \cup {k}
  /\ UNCHANGED <<disk, live, done, running, counted, count, devSweep, nextSweep,
                 handler, now, crashes, ghosts>>

Tick ==
  /\ now < MaxTime
  /\ now' = now + 1
  /\ UNCHANGED <<disk, memory, handler, crashes, ghosts>>

\* The process dies: everything but the disk is lost.
LoseMemory ==
  /\ crashes < MaxCrashes
  /\ crashes' = crashes + 1
  /\ live' = {} /\ done' = {} /\ cancelled' = {}
  /\ running' = [d \in Devices |-> 0]
  /\ counted' = {}
  /\ count' = [d \in Devices |-> 0]
  /\ devSweep' = [d \in Devices |-> 0]
  /\ nextSweep' = 0
  /\ handler' = [h \in Handlers |-> Idle]
  /\ UNCHANGED <<now, ghosts>>

Crash == LoseMemory /\ UNCHANGED disk

\* It dies in startRun between creating the spool and claiming the record.
CrashInStart(h) ==
  LET k == handler[h].key IN
  /\ handler[h].pc = "start" /\ rec[k].state = "none"
  /\ running[k[1]] < MaxConcurrent
  /\ LoseMemory
  /\ \E n \in Nonces :
       /\ ~spool[k][n].exists
       /\ spool' = [spool EXCEPT ![k][n] = NewFile]
  /\ UNCHANGED rec

\* It dies in evictLocked between removing the output and rewriting the
\* record: of output past its retention, or of the first output that a
\* finished run's endRun evicts.
CrashInEvict(k) ==
  /\ rec[k].state = "finished"
  /\ \/ k \notin live /\ PastRetention(rec[k])
     \/ \E j \in done : \E E \in Evictions(rec, spool, live \ {j}, k[1], 0) :
          /\ k \in E /\ j[1] = k[1]
          /\ \A m \in E : rec[k].finished <= rec[m].finished
  /\ LoseMemory
  /\ spool' = RemoveSpools(rec, spool, {k})
  /\ UNCHANGED rec

HandlerStep(h) ==
  \/ \E k \in Keys, q \in Requests : ExecLookup(h, k, q)
  \/ StartSweep(h)
  \/ StartRefused(h)
  \/ StartUnadmitted(h)
  \/ StartFails(h)
  \/ StartCommits(h)
  \/ Rejoin(h)
  \/ CrashInStart(h)

RunStep(k) ==
  \/ Attach(k)
  \/ Write(k)
  \/ Finish(k)
  \/ EndRun(k)
  \/ CancelLive(k)
  \/ CancelEarly(k)
  \/ TimerFires(k)
  \/ CrashInEvict(k)

Next ==
  \/ \E h \in Handlers : HandlerStep(h)
  \/ \E k \in Keys : RunStep(k)
  \/ Tick
  \/ Crash

Spec == Init /\ [][Next]_vars

\* A cancelled context ends the command, the deferred endRun follows, timers
\* fire and the clock advances.  Nothing makes a command end by itself.
Fairness ==
  /\ WF_vars(Tick)
  /\ \A k \in Keys : /\ WF_vars(TimerFires(k))
                     /\ WF_vars(k \in cancelled /\ Finish(k))
                     /\ WF_vars(EndRun(k))

FairSpec == Spec /\ Fairness
-----------------------------------------------------------------------------
(* Correctness *)

Min2(a, b) == IF a <= b THEN a ELSE b

\* How long a claim is certain to be remembered: no record of a started run
\* is deleted before the earlier of the two ages.
GuardWindow == Min2(IdempotencyWindow, Retention + ExecTimeout)

\* Every variable has its type.
TypeOK ==
  /\ rec \in [Keys -> Records]
  /\ spool \in [Keys -> [Nonces -> Files]]
  /\ live \in SUBSET Keys /\ done \in SUBSET live
  /\ cancelled \in SUBSET live
  /\ running \in [Devices -> Nat]
  /\ counted \in SUBSET Devices
  /\ count \in [Devices -> Nat]
  /\ devSweep \in [Devices -> Nat]
  /\ nextSweep \in Nat
  /\ handler \in [Handlers -> HandlerStates]
  /\ now \in 1..MaxTime
  /\ crashes \in 0..MaxCrashes
  /\ startedAt \in [Keys -> Nat]
  /\ tombAt \in [Keys -> Nat]

\* s.running and s.runs agree after any interleaving of starts, ends and
\* restarts, and no device runs more than --max-concurrent at once.
SlotsMatchLive ==
  \A d \in Devices :
    /\ running[d] = Cardinality({k \in live : k[1] = d})
    /\ running[d] <= MaxConcurrent

\* The cached record count never drifts from the disk, so the record limit
\* that admitLocked enforces through it bounds the files themselves.
CountMatchesDisk ==
  \A d \in counted :
    /\ count[d] = Cardinality(RecordsOf(rec, d))
    /\ count[d] <= RunRecords

\* No sweep, eviction, reclamation or cancel touches a live run: its record
\* still names it and the spool it writes to is still there.
LiveRunIntact ==
  \A k \in live :
    /\ rec[k].state \in {"running", "finished"}
    /\ rec[k].state = "finished" => k \in done
    /\ rec[k].frames # 0
    /\ spool[k][rec[k].frames].exists

\* A started run's ID stays claimed for the guard window whatever happens to
\* its output, its gateway or its device's other runs, so a repeat of its
\* request cannot start the command again.
ClaimRemembered ==
  \A k \in Keys :
    startedAt[k] # 0 /\ now <= startedAt[k] + GuardWindow =>
      /\ rec[k].state \in {"running", "finished", "evicted"}
      /\ rec[k].created = startedAt[k]

\* A cancel that overtook its request refuses that request for the
\* tombstone's TTL, also across a restart.
TombstoneHolds ==
  \A k \in Keys :
    tombAt[k] # 0 /\ now <= tombAt[k] + CancelTombstoneTTL =>
      rec[k].state = "cancelled" /\ rec[k].created = tombAt[k]

Kept(r, s, k) == r[k].state = "finished" /\ r[k].frames # 0
                 /\ s[k][r[k].frames].exists

\* A request that is refused or joins a run costs no other run its output:
\* finished output goes when its retention or its record's window is over,
\* when a run of the same device starts or ends, or in a crash.
OutputLossJustified ==
  [][\A k \in Keys \ live : Kept(rec, spool, k) /\ ~Kept(rec', spool', k) =>
       \/ PastRetention(rec[k])
       \/ rec'[k].state = "none" /\ now > rec[k].created + IdempotencyWindow
       \/ \E j \in Keys : j[1] = k[1] /\ (j \in live) # (j \in live')
       \/ crashes' # crashes]_vars

\* A run whose record never got its completion, by a restart or a failed
\* write: nothing weighs its output until the sweep deletes it.
Interrupted(k) == k \notin live /\ rec[k].state = "running"

\* Eviction never leaves output behind: but for interrupted runs, a device
\* occupies at most the quota and one full spool for each concurrent run.
QuotaHolds ==
  \A d \in Devices :
    Total([kn \in Keys \X Nonces |-> spool[kn[1]][kn[2]].bytes],
          {kn \in Keys \X Nonces : kn[1][1] = d /\ ~Interrupted(kn[1])})
      <= QuotaBytes + MaxConcurrent * RunMaxBytes

\* What the store promises about the commands themselves: RunClaims, in which
\* an ID's command starts once and its claim is forgotten only when too old to
\* matter.  A run a restart interrupted is over.
Phase(k) == CASE rec[k].state = "none" -> "free"
              [] rec[k].state = "cancelled" -> "refused"
              [] k \in live -> "running"
              [] OTHER -> "over"

Claims == INSTANCE RunClaims WITH
            Runs <- Keys, StartWindow <- GuardWindow,
            RefusalWindow <- CancelTombstoneTTL,
            phase <- [k \in Keys |-> Phase(k)], started <- startedAt,
            refused <- tombAt, clock <- now

\* The run store implements RunClaims: through every interleaving of starts,
\* cancels, sweeps, reclamations and restarts.
ImplementsClaims == Claims!Spec

\* Every run ends and gives its slot back: its timeout stops a command that
\* does not end by itself.
SlotReleased == \A k \in Keys : (k \in live) ~> (k \notin live)

===============================================================================

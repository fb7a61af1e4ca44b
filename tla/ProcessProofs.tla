----------------------------- MODULE ProcessProofs -----------------------------
(***************************************************************************)
(* Proofs about the processes at the ends: the connection pool of the      *)
(* executor, the audit log that processes share, the device of a control   *)
(* plane, with its requests and with the files of its home, the call of a  *)
(* remote client, and the writers of a policy.                             *)
(***************************************************************************)
EXTENDS ConnectionPool, AuditChain, ManagedDevice, Enrollment, ExecClient, PolicyWriters,
        FiniteSetTheorems, TLAPS

-----------------------------------------------------------------------------
(* The connection pool.  No connection is lost because an entry that leaves *)
(* the pool with its connection open is marked to be closed with its last   *)
(* session, and the count of its sessions is exact.                         *)

EntryRecords ==
  [phase : {"free", "dialing", "failed", "up"}, ready : BOOLEAN, inFlight : Nat,
   closeWhenIdle : BOOLEAN, forceClosed : BOOLEAN]

SessionRecords ==
  [pc : {"get", "dial", "wait", "open", "run", "release", "own", "ownRun", "ended"},
   at : Entries \cup {NoEntry}, own : {"none", "open", "closed"},
   retried : BOOLEAN, next : {"done", "ended", "own", "get"}]

\* Every variable has its type.
PoolTypeOK ==
  /\ pooled \in Entries \cup {NoEntry} /\ poolClosed \in BOOLEAN
  /\ entry \in [Entries -> EntryRecords]
  /\ conn \in [Entries -> {"none", "open", "dead", "closed"}]
  /\ keepAlive \in SUBSET Entries
  /\ session \in [Sessions -> SessionRecords]

Connected(e) == conn[e] \in {"open", "dead"}

\* An entry that left the pool takes its connection to its last session.
EntryValid(e) ==
  /\ entry[e].phase # "up" => entry[e].inFlight = 0 /\ ~entry[e].forceClosed
  /\ entry[e].phase \notin {"free", "dialing"} => entry[e].ready
  /\ pooled = e => entry[e].phase \in {"dialing", "up"}
  /\ entry[e].phase = "dialing" => pooled = e \/ entry[e].ready
  /\ Connected(e) =>
       /\ entry[e].phase = "up" /\ ~entry[e].forceClosed
       /\ pooled = e \/ (entry[e].closeWhenIdle /\ entry[e].inFlight > 0)

\* A dial that nobody is told of yet has its dialer.
DialersExist ==
  \A e \in Entries : entry[e].phase = "dialing" /\ ~entry[e].ready =>
    \E t \in Sessions : session[t].pc = "dial" /\ session[t].at = e

SessionValid(s) ==
  /\ session[s].pc \in Holding \cup {"dial", "wait"} => session[s].at \in Entries
  /\ session[s].pc \in Holding => entry[session[s].at].phase = "up"
  /\ session[s].pc = "dial" => entry[session[s].at].phase = "dialing"
  /\ session[s].pc = "wait" => entry[session[s].at].phase # "free"
  /\ session[s].pc = "release" => session[s].next # "done"
  /\ session[s].own = "open" <=> session[s].pc = "ownRun"

OneDialer ==
  \A s, t \in Sessions :
    session[s].pc = "dial" /\ session[t].pc = "dial" /\ session[s].at = session[t].at => s = t

PoolInv ==
  /\ PoolTypeOK /\ DialersExist /\ OneDialer /\ InFlightExact
  /\ \A e \in Entries : EntryValid(e)
  /\ \A s \in Sessions : SessionValid(s)
-----------------------------------------------------------------------------
(* Changes that keep every session where it is *)

\* The connection of an entry may go, and the entry be marked or leave the pool.
PoolGentle ==
  /\ pooled' \in Entries \cup {NoEntry} /\ poolClosed' \in BOOLEAN
  /\ entry' \in [Entries -> EntryRecords]
  /\ conn' \in [Entries -> {"none", "open", "dead", "closed"}]
  /\ keepAlive' \in SUBSET Entries
  /\ \A e \in Entries :
       /\ entry'[e].phase = entry[e].phase /\ entry'[e].inFlight = entry[e].inFlight
       /\ entry[e].ready => entry'[e].ready
       /\ EntryValid(e)'

LEMMA HoldersFinite ==
  ASSUME PoolInv, NEW e
  PROVE  IsFiniteSet(Holders(e)) /\ Cardinality(Holders(e)) \in Nat
<1>1. Holders(e) \subseteq Sessions
  BY DEF Holders
<1>2. IsFiniteSet(Holders(e))
  BY <1>1, PoolAssumption, FS_Subset
<1>. QED  BY <1>2, FS_CardinalityType

\* A session that keeps what it holds moves on.
LEMMA GentleMove ==
  ASSUME PoolInv, PoolGentle, NEW s \in Sessions, NEW r \in SessionRecords,
         session' = [session EXCEPT ![s] = r],
         r.pc \in Holding <=> session[s].pc \in Holding,
         r.pc \in Holding => r.at = session[s].at,
         session[s].pc # "dial", r.pc # "dial",
         r.pc = "wait" => r.at \in Entries /\ entry[r.at].phase # "free",
         r.pc = "release" => r.next # "done",
         r.own = "open" <=> r.pc = "ownRun"
  PROVE  PoolInv'
<1>. USE DEF PoolInv, PoolGentle
<1>1. session'[s] = r /\ \A t \in Sessions \ {s} : session'[t] = session[t]
  BY DEF PoolTypeOK
<1>2. PoolTypeOK'
  BY DEF PoolTypeOK
<1>3. DialersExist'
  BY <1>1 DEF DialersExist
<1>4. OneDialer'
  BY <1>1 DEF OneDialer
<1>5. \A e \in Entries : Holders(e)' = Holders(e)
  BY <1>1 DEF Holders
<1>6. InFlightExact'
  BY <1>5 DEF InFlightExact
<1>7. ASSUME NEW t \in Sessions PROVE SessionValid(t)'
  <2>1. CASE t = s
    BY <1>1, <2>1 DEF SessionValid, Holding
  <2>2. CASE t # s
    BY <1>1, <2>2 DEF SessionValid, Holding
  <2>. QED  BY <2>1, <2>2
<1>. QED  BY <1>2, <1>3, <1>4, <1>6, <1>7

LEMMA GentleStay == ASSUME PoolInv, PoolGentle, session' = session PROVE PoolInv'
<1>. USE DEF PoolInv, PoolGentle
<1>1. PoolTypeOK'
  BY DEF PoolTypeOK
<1>2. DialersExist' /\ OneDialer'
  BY DEF DialersExist, OneDialer
<1>3. \A e \in Entries : Holders(e)' = Holders(e)
  BY DEF Holders
<1>4. InFlightExact'
  BY <1>3 DEF InFlightExact
<1>5. \A t \in Sessions : SessionValid(t)'
  BY DEF SessionValid, Holding
<1>. QED  BY <1>1, <1>2, <1>4, <1>5

LEMMA UnchangedGentle ==
  ASSUME PoolInv, UNCHANGED <<pooled, poolClosed, entry, conn>>, keepAlive' \in SUBSET Entries
  PROVE  PoolGentle
BY DEF PoolInv, PoolTypeOK, PoolGentle, EntryValid, Connected

LEMMA ForceCloseGentle ==
  ASSUME PoolInv, NEW e \in Entries, entry[e].phase = "up", Unpool(e), ForceClose(e),
         poolClosed' = poolClosed, keepAlive' \in SUBSET Entries
  PROVE  PoolGentle
<1>1. pooled' \in Entries \cup {NoEntry} /\ (pooled' = pooled \/ (pooled = e /\ pooled' = NoEntry))
      /\ pooled' # e
  BY PoolAssumption DEF PoolInv, PoolTypeOK, Unpool
<1>2. /\ entry' \in [Entries -> EntryRecords]
      /\ \A x \in Entries \ {e} : entry'[x] = entry[x]
      /\ entry'[e].phase = entry[e].phase /\ entry'[e].inFlight = entry[e].inFlight
      /\ entry'[e].ready = entry[e].ready /\ entry'[e].forceClosed
  BY DEF PoolInv, PoolTypeOK, EntryRecords, ForceClose
<1>3. /\ conn' \in [Entries -> {"none", "open", "dead", "closed"}]
      /\ \A x \in Entries \ {e} : conn'[x] = conn[x]
      /\ conn'[e] = "closed"
  BY DEF PoolInv, PoolTypeOK, ForceClose
<1>4. ASSUME NEW x \in Entries PROVE EntryValid(x)'
  <2>1. CASE x = e
    <3>1. EntryValid(e)
      BY DEF PoolInv
    <3>2. EntryValid(e)'
      BY <1>1, <1>2, <1>3, <3>1 DEF EntryValid, Connected
    <3>. QED  BY <2>1, <3>2
  <2>2. CASE x # e
    BY <1>1, <1>2, <1>3, <2>2, PoolAssumption DEF PoolInv, EntryValid, Connected
  <2>. QED  BY <2>1, <2>2
<1>. QED  BY <1>1, <1>2, <1>3, <1>4 DEF PoolGentle, PoolInv, PoolTypeOK

LEMMA EvictGentle ==
  ASSUME PoolInv, NEW e \in Entries, evictNow(e),
         poolClosed' = poolClosed, keepAlive' \in SUBSET Entries
  PROVE  PoolGentle
BY ForceCloseGentle, UnchangedGentle DEF evictNow

LEMMA DepoolGentle ==
  ASSUME PoolInv, NEW e \in Entries, depoolWhenIdle(e),
         poolClosed' = poolClosed, keepAlive' \in SUBSET Entries
  PROVE  PoolGentle
<1>1. CASE /\ entry[e].phase = "up" /\ Unpool(e)
           /\ entry' = [entry EXCEPT ![e].closeWhenIdle = TRUE]
           /\ conn' = conn /\ entry[e].inFlight # 0
  <2>1. pooled' \in Entries \cup {NoEntry} /\ (pooled' = pooled \/ (pooled = e /\ pooled' = NoEntry))
    BY <1>1, PoolAssumption DEF PoolInv, PoolTypeOK, Unpool
  <2>2. /\ entry' \in [Entries -> EntryRecords]
        /\ \A x \in Entries \ {e} : entry'[x] = entry[x]
        /\ entry'[e].phase = entry[e].phase /\ entry'[e].inFlight = entry[e].inFlight
        /\ entry'[e].ready = entry[e].ready /\ entry'[e].forceClosed = entry[e].forceClosed
        /\ entry'[e].closeWhenIdle
    BY <1>1 DEF PoolInv, PoolTypeOK, EntryRecords
  <2>0. entry[e].inFlight > 0
    <3>1. entry[e].inFlight \in Nat
      BY DEF PoolInv, PoolTypeOK, EntryRecords
    <3>. QED  BY <3>1, <1>1
  <2>3. ASSUME NEW x \in Entries PROVE EntryValid(x)'
    <3>1. CASE x = e
      <4>1. EntryValid(e)
        BY DEF PoolInv
      <4>2. EntryValid(e)'
        BY <1>1, <2>1, <2>2, <2>0, <4>1, PoolAssumption DEF EntryValid, Connected
      <4>. QED  BY <3>1, <4>2
    <3>2. CASE x # e
      BY <1>1, <2>1, <2>2, <3>2, PoolAssumption DEF PoolInv, EntryValid, Connected
    <3>. QED  BY <3>1, <3>2
  <2>. QED  BY <1>1, <2>1, <2>2, <2>3 DEF PoolGentle, PoolInv, PoolTypeOK
<1>. QED  BY <1>1, ForceCloseGentle, UnchangedGentle DEF depoolWhenIdle

-----------------------------------------------------------------------------
(* The steps of a session on a connection *)

LEMMA SessionTyped ==
  ASSUME PoolInv, NEW s \in Sessions
  PROVE  session[s] \in SessionRecords /\ SessionValid(s)
BY DEF PoolInv, PoolTypeOK

LEMMA ThenKeeps ==
  ASSUME PoolInv, PoolGentle, NEW s \in Sessions, session[s].pc \in {"open", "run"},
         NEW next \in {"ended", "own", "get"}, Then(s, next)
  PROVE  PoolInv'
<1>1. PICK r \in SessionRecords : r = [session[s] EXCEPT !.pc = "release", !.next = next]
  BY SessionTyped DEF SessionRecords
<1>2. r.pc = "release" /\ r.next = next /\ r.at = session[s].at /\ r.own = session[s].own
  BY <1>1, SessionTyped DEF SessionRecords
<1>3. session' = [session EXCEPT ![s] = r]
  BY <1>1, SessionTyped DEF Then, SessionRecords
<1>4. r.own # "open"
  BY <1>2, SessionTyped DEF SessionValid
<1>. QED  BY <1>2, <1>3, <1>4, GentleMove DEF Holding

LEMMA SessionStepsKeep ==
  ASSUME PoolInv, NEW s \in Sessions,
         \/ HostIsFull(s) \/ OpenTimesOut(s) \/ OpenFails(s) \/ OpenRefused(s)
         \/ CommandEnds(s) \/ CommandBreaks(s) \/ CommandCancelled(s)
  PROVE  PoolInv'
<1>1. session[s].pc \in {"open", "run"} /\ poolClosed' = poolClosed /\ keepAlive' \in SUBSET Entries
  BY DEF PoolInv, PoolTypeOK, HostIsFull, OpenTimesOut, OpenFails, OpenRefused, CommandEnds,
         CommandBreaks, CommandCancelled
<1>2. session[s].at \in Entries
  BY <1>1, SessionTyped DEF SessionValid, Holding
<1>3. \/ evictNow(session[s].at) \/ depoolWhenIdle(session[s].at)
      \/ UNCHANGED <<pooled, entry, conn>>
  BY DEF HostIsFull, OpenTimesOut, OpenFails, OpenRefused, CommandEnds, CommandBreaks,
         CommandCancelled
<1>4. PoolGentle
  <2>1. PICK e \in Entries : e = session[s].at
    BY <1>2
  <2>2. evictNow(e) \/ depoolWhenIdle(e) \/ UNCHANGED <<pooled, entry, conn>>
    BY <1>3, <2>1
  <2>. QED  BY <1>1, <2>2, EvictGentle, DepoolGentle, UnchangedGentle
<1>5. PICK next \in {"ended", "own", "get"} : Then(s, next)
  BY DEF HostIsFull, OpenTimesOut, OpenFails, OpenRefused, CommandEnds, CommandBreaks,
         CommandCancelled
<1>. QED  BY <1>1, <1>4, <1>5, ThenKeeps

\* A session goes to a place where it holds nothing of the pool.
LEMMA PlaceKeeps ==
  ASSUME PoolInv, NEW s \in Sessions, NEW r \in SessionRecords,
         session' = [session EXCEPT ![s] = r],
         UNCHANGED <<pooled, poolClosed, entry, conn, keepAlive>>,
         session[s].pc \notin Holding \cup {"dial"},
         r.pc \in {"get", "ended", "own", "ownRun"}, r.own = "open" <=> r.pc = "ownRun"
  PROVE  PoolInv'
<1>1. PoolGentle
  BY UnchangedGentle DEF PoolInv, PoolTypeOK
<1>. QED  BY <1>1, GentleMove DEF Holding

LEMMA SessionOpensKeeps == ASSUME PoolInv, NEW s \in Sessions, SessionOpens(s) PROVE PoolInv'
<1>1. PoolGentle
  BY UnchangedGentle DEF SessionOpens, PoolInv, PoolTypeOK
<1>2. PICK r \in SessionRecords : r = [session[s] EXCEPT !.pc = "run"]
  BY SessionTyped DEF SessionRecords
<1>3. r.pc = "run" /\ r.at = session[s].at /\ r.own = session[s].own /\ session[s].pc = "open"
  BY <1>2, SessionTyped DEF SessionRecords, SessionOpens
<1>4. session' = [session EXCEPT ![s] = r]
  BY <1>2, SessionTyped DEF SessionOpens, SessionAt, SessionRecords
<1>5. r.own # "open"
  BY <1>3, SessionTyped DEF SessionValid
<1>. QED  BY <1>1, <1>3, <1>4, <1>5, GentleMove DEF Holding

LEMMA WakeKeeps == ASSUME PoolInv, NEW s \in Sessions, Wake(s) PROVE PoolInv'
<1>1. PICK place \in {"get", "ended"} : SessionAt(s, place)
  BY DEF Wake
<1>2. PICK r \in SessionRecords : r = [session[s] EXCEPT !.pc = place]
  BY SessionTyped DEF SessionRecords
<1>3. r.pc = place /\ r.own = session[s].own /\ session[s].pc = "wait"
  BY <1>2, SessionTyped DEF SessionRecords, Wake
<1>4. session' = [session EXCEPT ![s] = r]
  BY <1>1, <1>2 DEF SessionAt
<1>5. r.own # "open"
  BY <1>3, SessionTyped DEF SessionValid
<1>. QED  BY <1>3, <1>4, <1>5, PlaceKeeps DEF Holding, Wake

LEMMA OwnConnectionKeeps ==
  ASSUME PoolInv, NEW s \in Sessions, OwnConnection(s) PROVE PoolInv'
<1>1. session[s].pc \in {"own", "ownRun"}
  BY DEF OwnConnection
<1>2. PICK r \in SessionRecords :
        /\ session' = [session EXCEPT ![s] = r]
        /\ r.pc \in {"ended", "ownRun"} /\ (r.own = "open" <=> r.pc = "ownRun")
  <2>1. CASE session[s].pc = "own" /\ session' = [session EXCEPT ![s].pc = "ended"]
    <3>1. [session[s] EXCEPT !.pc = "ended"] \in SessionRecords /\ session[s].own # "open"
      BY <2>1, SessionTyped DEF SessionRecords, SessionValid
    <3>. QED  BY <2>1, <3>1, SessionTyped DEF SessionRecords
  <2>2. CASE /\ session[s].pc = "own"
             /\ session' = [session EXCEPT ![s].pc = "ownRun", ![s].own = "open"]
    <3>1. [session[s] EXCEPT !.pc = "ownRun", !.own = "open"] \in SessionRecords
      BY SessionTyped DEF SessionRecords
    <3>2. session' = [session EXCEPT ![s] = [session[s] EXCEPT !.pc = "ownRun", !.own = "open"]]
      BY <2>2 DEF PoolInv, PoolTypeOK
    <3>. QED  BY <3>1, <3>2, SessionTyped DEF SessionRecords
  <2>3. CASE session' = [session EXCEPT ![s].pc = "ended", ![s].own = "closed"]
    <3>1. [session[s] EXCEPT !.pc = "ended", !.own = "closed"] \in SessionRecords
      BY SessionTyped DEF SessionRecords
    <3>2. session' = [session EXCEPT ![s] = [session[s] EXCEPT !.pc = "ended", !.own = "closed"]]
      BY <2>3 DEF PoolInv, PoolTypeOK
    <3>. QED  BY <3>1, <3>2, SessionTyped DEF SessionRecords
  <2>. QED  BY <2>1, <2>2, <2>3 DEF OwnConnection
<1>. QED  BY <1>1, <1>2, PlaceKeeps DEF Holding, OwnConnection

-----------------------------------------------------------------------------
(* The steps of the pool *)

LEMMA GetKeeps == ASSUME PoolInv, NEW s \in Sessions, Get(s) PROVE PoolInv'
<1>1. session[s].pc = "get" /\ session[s].own # "open" /\ session[s] \in SessionRecords
  BY SessionTyped DEF Get, SessionValid
<1>2. CASE SessionAt(s, "ended") /\ UNCHANGED <<pooled, entry>>
  <2>1. PICK r \in SessionRecords : r = [session[s] EXCEPT !.pc = "ended"]
    BY <1>1 DEF SessionRecords
  <2>2. r.pc = "ended" /\ r.own # "open" /\ session' = [session EXCEPT ![s] = r]
    BY <1>1, <1>2, <2>1 DEF SessionRecords, SessionAt
  <2>. QED  BY <1>1, <1>2, <2>2, PlaceKeeps DEF Holding, Get
<1>3. ASSUME pooled = NoEntry, NEW e \in Entries, entry[e].phase = "free", pooled' = e,
             entry' = [entry EXCEPT ![e].phase = "dialing"],
             session' = [session EXCEPT ![s].pc = "dial", ![s].at = e]
      PROVE  PoolInv'
  <2>1. /\ entry' \in [Entries -> EntryRecords]
        /\ \A x \in Entries \ {e} : entry'[x] = entry[x]
        /\ entry'[e].phase = "dialing" /\ entry'[e].inFlight = entry[e].inFlight
        /\ entry'[e].forceClosed = entry[e].forceClosed
    BY <1>3 DEF PoolInv, PoolTypeOK, EntryRecords
  <2>2. /\ session' \in [Sessions -> SessionRecords]
        /\ \A t \in Sessions \ {s} : session'[t] = session[t]
        /\ session'[s].pc = "dial" /\ session'[s].at = e /\ session'[s].own = session[s].own
    BY <1>3, <1>1 DEF PoolInv, PoolTypeOK, SessionRecords
  <2>3. UNCHANGED <<poolClosed, conn, keepAlive>>
    BY DEF Get
  <2>4. \A x \in Entries : Holders(x)' = Holders(x)
    BY <1>1, <2>2 DEF Holders, Holding
  <2>5. PoolTypeOK'
    BY <1>3, <2>1, <2>2, <2>3 DEF PoolInv, PoolTypeOK
  <2>6. DialersExist'
    BY <1>1, <2>1, <2>2 DEF PoolInv, DialersExist
  <2>7. \A t \in Sessions : ~(session[t].pc = "dial" /\ session[t].at = e)
    BY <1>3 DEF PoolInv, SessionValid
  <2>8. OneDialer'
    BY <2>2, <2>7 DEF PoolInv, OneDialer
  <2>9. InFlightExact'
    <3>1. \A x \in Entries : entry'[x].inFlight = entry[x].inFlight
      BY <2>1
    <3>. QED  BY <2>4, <3>1 DEF PoolInv, InFlightExact
  <2>10. ASSUME NEW x \in Entries PROVE EntryValid(x)'
    <3>1. EntryValid(x) /\ pooled # x /\ (pooled' = x <=> x = e)
      BY <1>3, PoolAssumption DEF PoolInv
    <3>2. CASE x = e
      BY <1>3, <2>1, <2>3, <3>1, <3>2 DEF EntryValid, Connected
    <3>3. CASE x # e
      BY <2>1, <2>3, <3>1, <3>3 DEF EntryValid, Connected
    <3>. QED  BY <3>2, <3>3
  <2>11. ASSUME NEW t \in Sessions PROVE SessionValid(t)'
    <3>1. SessionValid(t)
      BY DEF PoolInv
    <3>2. CASE t = s
      BY <1>1, <2>1, <2>2, <3>2 DEF SessionValid, Holding
    <3>3. CASE t # s
      BY <1>3, <2>1, <2>2, <3>1, <3>3 DEF SessionValid, Holding
    <3>. QED  BY <3>2, <3>3
  <2>. QED  BY <2>5, <2>6, <2>8, <2>9, <2>10, <2>11 DEF PoolInv
<1>4. ASSUME pooled # NoEntry, pooled' = pooled, entry[pooled].phase = "up",
             entry' = [entry EXCEPT ![pooled].inFlight = @ + 1],
             session' = [session EXCEPT ![s].pc = "open", ![s].at = pooled]
      PROVE  PoolInv'
  <2>0. PICK e \in Entries : e = pooled
    BY <1>4 DEF PoolInv, PoolTypeOK
  <2>1. /\ entry' \in [Entries -> EntryRecords]
        /\ \A x \in Entries \ {e} : entry'[x] = entry[x]
        /\ entry'[e].phase = "up" /\ entry'[e].inFlight = entry[e].inFlight + 1
        /\ entry'[e].ready = entry[e].ready /\ entry'[e].closeWhenIdle = entry[e].closeWhenIdle
        /\ entry'[e].forceClosed = entry[e].forceClosed
    BY <1>4, <2>0 DEF PoolInv, PoolTypeOK, EntryRecords
  <2>2. /\ session' \in [Sessions -> SessionRecords]
        /\ \A t \in Sessions \ {s} : session'[t] = session[t]
        /\ session'[s].pc = "open" /\ session'[s].at = e /\ session'[s].own = session[s].own
    BY <1>4, <1>1, <2>0 DEF PoolInv, PoolTypeOK, SessionRecords
  <2>3. UNCHANGED <<poolClosed, conn, keepAlive>>
    BY DEF Get
  <2>4. /\ \A x \in Entries \ {e} : Holders(x)' = Holders(x)
        /\ Holders(e)' = Holders(e) \cup {s} /\ s \notin Holders(e)
    BY <1>1, <2>2 DEF Holders, Holding
  <2>5. PoolTypeOK'
    BY <1>4, <2>1, <2>2, <2>3 DEF PoolInv, PoolTypeOK
  <2>6. DialersExist'
    BY <1>1, <2>1, <2>2 DEF PoolInv, DialersExist
  <2>8. OneDialer'
    BY <2>2 DEF PoolInv, OneDialer
  <2>9. InFlightExact'
    <3>1. Cardinality(Holders(e)') = Cardinality(Holders(e)) + 1
      BY <2>4, HoldersFinite, FS_AddElement
    <3>. QED  BY <2>1, <2>4, <3>1 DEF PoolInv, InFlightExact
  <2>10. ASSUME NEW x \in Entries PROVE EntryValid(x)'
    <3>1. EntryValid(x)
      BY DEF PoolInv
    <3>2. CASE x = e
      BY <1>4, <2>0, <2>1, <2>3, <3>1, <3>2 DEF EntryValid, Connected
    <3>3. CASE x # e
      BY <1>4, <2>1, <2>3, <3>1, <3>3 DEF EntryValid, Connected
    <3>. QED  BY <3>2, <3>3
  <2>11. ASSUME NEW t \in Sessions PROVE SessionValid(t)'
    <3>1. SessionValid(t)
      BY DEF PoolInv
    <3>2. CASE t = s
      BY <1>1, <2>1, <2>2, <3>2 DEF SessionValid, Holding
    <3>3. CASE t # s
      BY <1>4, <2>0, <2>1, <2>2, <3>1, <3>3 DEF SessionValid, Holding
    <3>. QED  BY <3>2, <3>3
  <2>. QED  BY <2>5, <2>6, <2>8, <2>9, <2>10, <2>11 DEF PoolInv
<1>5. ASSUME pooled # NoEntry, pooled' = pooled, entry[pooled].phase # "up", entry' = entry,
             session' = [session EXCEPT ![s].pc = "wait", ![s].at = pooled]
      PROVE  PoolInv'
  <2>0. PICK e \in Entries : e = pooled
    BY <1>5 DEF PoolInv, PoolTypeOK
  <2>1. PICK r \in SessionRecords : r = [session[s] EXCEPT !.pc = "wait", !.at = e]
    BY <1>1 DEF SessionRecords
  <2>2. r.pc = "wait" /\ r.own # "open" /\ r.at = e /\ session' = [session EXCEPT ![s] = r]
    BY <1>1, <1>5, <2>0, <2>1 DEF SessionRecords, PoolInv, PoolTypeOK
  <2>3. PoolGentle
    BY <1>5, UnchangedGentle DEF Get, PoolInv, PoolTypeOK
  <2>4. entry[e].phase = "dialing"
    BY <1>5, <2>0 DEF PoolInv, EntryValid
  <2>. QED  BY <1>1, <2>2, <2>3, <2>4, GentleMove DEF Holding
<1>. QED  BY <1>2, <1>3, <1>4, <1>5 DEF Get

\* A dialer that goes leaves its entry announced.
LEMMA DialFailsKeeps == ASSUME PoolInv, NEW s \in Sessions, DialFails(s) PROVE PoolInv'
<1>1. PICK e \in Entries : e = session[s].at
  BY SessionTyped DEF DialFails, SessionValid
<1>2. /\ session[s].pc = "dial" /\ session[s].own # "open" /\ entry[e].phase = "dialing"
      /\ SessionAt(s, "ended") /\ UNCHANGED <<poolClosed, conn, keepAlive>>
      /\ \/ /\ pooled = e /\ pooled' = NoEntry
            /\ entry' = [entry EXCEPT ![e].phase = "failed", ![e].ready = TRUE]
         \/ pooled # e /\ UNCHANGED <<pooled, entry>>
  BY <1>1, SessionTyped DEF DialFails, SessionValid
<1>3. /\ session' \in [Sessions -> SessionRecords]
      /\ \A t \in Sessions \ {s} : session'[t] = session[t]
      /\ session'[s].pc = "ended" /\ session'[s].own = session[s].own
  BY <1>2 DEF SessionAt, PoolInv, PoolTypeOK, SessionRecords
<1>4. \A x \in Entries : Holders(x)' = Holders(x)
  BY <1>2, <1>3 DEF Holders, Holding
<1>5. \A t \in Sessions \ {s} : ~(session[t].pc = "dial" /\ session[t].at = e)
  BY <1>1, <1>2 DEF PoolInv, OneDialer
<1>6. OneDialer'
  BY <1>3 DEF PoolInv, OneDialer
<1>7. CASE pooled # e /\ UNCHANGED <<pooled, entry>>
  <2>1. PoolTypeOK'
    BY <1>2, <1>3, <1>7 DEF PoolInv, PoolTypeOK
  <2>2. EntryValid(e) /\ entry[e].ready
    BY <1>2, <1>7 DEF PoolInv, EntryValid
  <2>3. DialersExist'
    BY <1>1, <1>3, <1>7, <2>2 DEF PoolInv, DialersExist
  <2>4. InFlightExact'
    BY <1>4, <1>7 DEF PoolInv, InFlightExact
  <2>5. \A x \in Entries : EntryValid(x)'
    BY <1>2, <1>7 DEF PoolInv, EntryValid, Connected
  <2>6. \A t \in Sessions : SessionValid(t)'
    BY <1>2, <1>3, <1>7 DEF PoolInv, SessionValid, Holding
  <2>. QED  BY <1>6, <2>1, <2>3, <2>4, <2>5, <2>6 DEF PoolInv
<1>8. CASE /\ pooled = e /\ pooled' = NoEntry
           /\ entry' = [entry EXCEPT ![e].phase = "failed", ![e].ready = TRUE]
  <2>1. /\ entry' \in [Entries -> EntryRecords]
        /\ \A x \in Entries \ {e} : entry'[x] = entry[x]
        /\ entry'[e].phase = "failed" /\ entry'[e].ready
        /\ entry'[e].inFlight = entry[e].inFlight
        /\ entry'[e].forceClosed = entry[e].forceClosed
    <3> DEFINE down == [entry[e] EXCEPT !.phase = "failed", !.ready = TRUE]
    <3>1. entry \in [Entries -> EntryRecords] /\ entry[e] \in EntryRecords
      BY DEF PoolInv, PoolTypeOK
    <3>2. /\ down \in EntryRecords /\ down.phase = "failed" /\ down.ready
          /\ down.inFlight = entry[e].inFlight /\ down.forceClosed = entry[e].forceClosed
      BY <3>1 DEF EntryRecords
    <3>3. entry' = [entry EXCEPT ![e] = down]
      BY <1>8, <3>1
    <3> HIDE DEF down
    <3>. QED  BY <3>1, <3>2, <3>3
  <2>2. PoolTypeOK'
    BY <1>2, <1>3, <1>8, <2>1 DEF PoolInv, PoolTypeOK
  <2>3. DialersExist'
    BY <1>1, <1>3, <2>1 DEF PoolInv, DialersExist
  <2>4. InFlightExact'
    <3>1. \A x \in Entries : entry'[x].inFlight = entry[x].inFlight
      BY <2>1
    <3>. QED  BY <1>4, <3>1 DEF PoolInv, InFlightExact
  <2>5. ASSUME NEW x \in Entries PROVE EntryValid(x)'
    <3>1. EntryValid(x) /\ pooled' # x
      BY <1>8, PoolAssumption DEF PoolInv
    <3>2. CASE x = e
      BY <1>2, <2>1, <3>1, <3>2 DEF EntryValid, Connected
    <3>3. CASE x # e
      BY <1>2, <1>8, <2>1, <3>1, <3>3 DEF EntryValid, Connected
    <3>. QED  BY <3>2, <3>3
  <2>6. ASSUME NEW t \in Sessions PROVE SessionValid(t)'
    <3>1. SessionValid(t)
      BY DEF PoolInv
    <3>2. CASE t = s
      BY <1>2, <1>3, <3>2 DEF SessionValid, Holding
    <3>3. CASE t # s
      BY <1>2, <1>3, <1>5, <2>1, <3>1, <3>3 DEF SessionValid, Holding
    <3>. QED  BY <3>2, <3>3
  <2>. QED  BY <1>6, <2>2, <2>3, <2>4, <2>5, <2>6 DEF PoolInv
<1>. QED  BY <1>2, <1>7, <1>8

LEMMA DialSucceedsKeeps == ASSUME PoolInv, NEW s \in Sessions, DialSucceeds(s) PROVE PoolInv'
<1>1. PICK e \in Entries : e = session[s].at
  BY SessionTyped DEF DialSucceeds, SessionValid
<1>2. /\ session[s].pc = "dial" /\ session[s].own # "open" /\ entry[e].phase = "dialing"
      /\ UNCHANGED <<pooled, poolClosed>>
      /\ \/ /\ pooled = e /\ conn' = [conn EXCEPT ![e] = "open"]
            /\ entry' = [entry EXCEPT ![e].phase = "up", ![e].ready = TRUE, ![e].inFlight = 1]
            /\ keepAlive' = keepAlive \union {e} /\ SessionAt(s, "open")
         \/ /\ pooled # e /\ conn' = [conn EXCEPT ![e] = "closed"] /\ SessionAt(s, "ended")
            /\ UNCHANGED <<entry, keepAlive>>
  BY <1>1, SessionTyped DEF DialSucceeds, Published, SessionValid
<1>3. PICK place \in {"open", "ended"} :
        SessionAt(s, place) /\ (place = "open" <=> pooled = e)
  BY <1>2
<1>4. /\ session' \in [Sessions -> SessionRecords]
      /\ \A t \in Sessions \ {s} : session'[t] = session[t]
      /\ session'[s].pc = place /\ session'[s].own = session[s].own
      /\ session'[s].at = session[s].at
  BY <1>3 DEF SessionAt, PoolInv, PoolTypeOK, SessionRecords
<1>5. \A t \in Sessions \ {s} : ~(session[t].pc = "dial" /\ session[t].at = e)
  BY <1>1, <1>2 DEF PoolInv, OneDialer
<1>6. OneDialer'
  BY <1>4 DEF PoolInv, OneDialer
<1>7. CASE /\ pooled # e /\ conn' = [conn EXCEPT ![e] = "closed"] /\ UNCHANGED <<entry, keepAlive>>
  <2>1. PoolTypeOK'
    BY <1>2, <1>4, <1>7 DEF PoolInv, PoolTypeOK
  <2>2. EntryValid(e) /\ entry[e].ready
    BY <1>2, <1>7 DEF PoolInv, EntryValid
  <2>3. DialersExist'
    BY <1>1, <1>4, <1>7, <2>2 DEF PoolInv, DialersExist
  <2>4. InFlightExact'
    <3>1. \A x \in Entries : Holders(x)' = Holders(x)
      BY <1>2, <1>3, <1>4, <1>7 DEF Holders, Holding
    <3>. QED  BY <3>1, <1>7 DEF PoolInv, InFlightExact
  <2>5. ASSUME NEW x \in Entries PROVE EntryValid(x)'
    <3>1. EntryValid(x) /\ (Connected(x)' => Connected(x))
      BY <1>7 DEF PoolInv, PoolTypeOK, Connected
    <3>. QED  BY <1>2, <1>7, <3>1 DEF EntryValid
  <2>6. \A t \in Sessions : SessionValid(t)'
    BY <1>2, <1>3, <1>4, <1>7 DEF PoolInv, SessionValid, Holding
  <2>. QED  BY <1>6, <2>1, <2>3, <2>4, <2>5, <2>6 DEF PoolInv
<1>8. CASE /\ pooled = e /\ conn' = [conn EXCEPT ![e] = "open"]
           /\ entry' = [entry EXCEPT ![e].phase = "up", ![e].ready = TRUE, ![e].inFlight = 1]
           /\ keepAlive' = keepAlive \union {e}
  <2>1. /\ entry' \in [Entries -> EntryRecords]
        /\ \A x \in Entries \ {e} : entry'[x] = entry[x]
        /\ entry'[e].phase = "up" /\ entry'[e].ready /\ entry'[e].inFlight = 1
        /\ entry'[e].forceClosed = entry[e].forceClosed
    <3> DEFINE up == [entry[e] EXCEPT !.phase = "up", !.ready = TRUE, !.inFlight = 1]
    <3>1. entry \in [Entries -> EntryRecords] /\ entry[e] \in EntryRecords
      BY DEF PoolInv, PoolTypeOK
    <3>2. /\ up \in EntryRecords /\ up.phase = "up" /\ up.ready /\ up.inFlight = 1
          /\ up.forceClosed = entry[e].forceClosed
      BY <3>1 DEF EntryRecords
    <3>3. entry' = [entry EXCEPT ![e] = up]
      BY <1>8, <3>1
    <3> HIDE DEF up
    <3>. QED  BY <3>1, <3>2, <3>3
  <2>2. PoolTypeOK'
    BY <1>2, <1>4, <1>8, <2>1 DEF PoolInv, PoolTypeOK
  <2>3. DialersExist'
    BY <1>1, <1>4, <2>1 DEF PoolInv, DialersExist
  <2>4. InFlightExact'
    <3>1. /\ \A x \in Entries \ {e} : Holders(x)' = Holders(x)
          /\ Holders(e)' = Holders(e) \cup {s} /\ s \notin Holders(e)
      BY <1>1, <1>2, <1>3, <1>4, <1>8 DEF Holders, Holding
    <3>2. Cardinality(Holders(e)) = 0
      BY <1>2 DEF PoolInv, EntryValid, InFlightExact
    <3>3. Cardinality(Holders(e)') = Cardinality(Holders(e)) + 1
      BY <3>1, HoldersFinite, FS_AddElement
    <3>4. Cardinality(Holders(e)') = 1
      BY <3>2, <3>3
    <3>. QED  BY <2>1, <3>1, <3>4 DEF PoolInv, InFlightExact
  <2>5. ASSUME NEW x \in Entries PROVE EntryValid(x)'
    <3>1. EntryValid(x) /\ EntryValid(e)
      BY DEF PoolInv
    <3>2. CASE x = e
      BY <1>2, <1>8, <2>1, <3>1, <3>2 DEF EntryValid, Connected
    <3>3. CASE x # e
      <4>1. conn'[x] = conn[x]
        BY <1>8, <3>3 DEF PoolInv, PoolTypeOK
      <4>. QED  BY <1>2, <2>1, <3>1, <3>3, <4>1 DEF EntryValid, Connected
    <3>. QED  BY <3>2, <3>3
  <2>6. ASSUME NEW t \in Sessions PROVE SessionValid(t)'
    <3>1. SessionValid(t)
      BY DEF PoolInv
    <3>2. CASE t = s
      BY <1>1, <1>2, <1>3, <1>4, <1>8, <2>1, <3>2 DEF SessionValid, Holding
    <3>3. CASE t # s
      BY <1>2, <1>4, <1>5, <2>1, <3>1, <3>3 DEF SessionValid, Holding
    <3>. QED  BY <3>2, <3>3
  <2>. QED  BY <1>6, <2>2, <2>3, <2>4, <2>5, <2>6 DEF PoolInv
<1>. QED  BY <1>2, <1>7, <1>8

\* The last session of an entry that is to be closed when idle closes it.
LEMMA ReleaseKeeps == ASSUME PoolInv, NEW s \in Sessions, Release(s) PROVE PoolInv'
<1>1. PICK e \in Entries : e = session[s].at
  BY SessionTyped DEF Release, SessionValid, Holding
<1>2. /\ session[s].pc = "release" /\ session[s].own # "open" /\ entry[e].phase = "up"
      /\ session[s].next \in {"ended", "own", "get"} /\ release(e)
      /\ UNCHANGED <<poolClosed, keepAlive, pooled>>
  BY <1>1, SessionTyped DEF Release, release, SessionValid, SessionRecords, Holding
<1>3. /\ session' \in [Sessions -> SessionRecords]
      /\ \A t \in Sessions \ {s} : session'[t] = session[t]
      /\ session'[s].pc = session[s].next /\ session'[s].own = session[s].own
  <2>1. PICK again \in BOOLEAN : again = (session[s].retried \/ session[s].next = "get")
    BY Zenon
  <2>2. PICK r \in SessionRecords :
          r = [session[s] EXCEPT !.pc = session[s].next, !.at = NoEntry, !.retried = again]
    BY <1>2, SessionTyped DEF SessionRecords
  <2>3. r.pc = session[s].next /\ r.own = session[s].own
    BY <2>2, SessionTyped DEF SessionRecords
  <2>4. session' = [session EXCEPT ![s] = r]
    BY <2>1, <2>2 DEF Release, PoolInv, PoolTypeOK
  <2>. QED  BY <2>3, <2>4 DEF PoolInv, PoolTypeOK
<1>4. /\ \A x \in Entries \ {e} : Holders(x)' = Holders(x)
      /\ Holders(e)' = Holders(e) \ {s} /\ s \in Holders(e)
  BY <1>1, <1>2, <1>3 DEF Holders, Holding
<1>5. /\ Cardinality(Holders(e)') = Cardinality(Holders(e)) - 1
      /\ Cardinality(Holders(e)) \in Nat /\ Cardinality(Holders(e)) # 0
  <2>1. IsFiniteSet(Holders(e)) /\ Cardinality(Holders(e)) \in Nat
    BY HoldersFinite
  <2>2. Cardinality(Holders(e) \ {s}) = Cardinality(Holders(e)) - 1
    BY <1>4, <2>1, FS_RemoveElement
  <2>3. Cardinality(Holders(e)) # 0
    BY <1>4, <2>1, FS_EmptySet
  <2>. QED  BY <1>4, <2>1, <2>2, <2>3
<1>6. PICK left \in Nat : left = entry[e].inFlight - 1 /\ left = Cardinality(Holders(e)')
  <2>1. entry[e].inFlight = Cardinality(Holders(e))
    BY DEF PoolInv, InFlightExact
  <2>2. Cardinality(Holders(e)) - 1 \in Nat
    BY <1>5
  <2>. QED  BY <1>5, <2>1, <2>2, Zenon
<1>7. PICK last \in BOOLEAN :
        /\ last <=> (left = 0 /\ entry[e].closeWhenIdle /\ ~entry[e].forceClosed)
        /\ entry' = [entry EXCEPT ![e].inFlight = left, ![e].forceClosed = @ \/ last]
        /\ conn' = IF last THEN [conn EXCEPT ![e] = "closed"] ELSE conn
  BY <1>2, <1>6 DEF release
<1>8. /\ entry' \in [Entries -> EntryRecords]
      /\ \A x \in Entries \ {e} : entry'[x] = entry[x]
      /\ entry'[e].phase = entry[e].phase /\ entry'[e].inFlight = left
      /\ entry'[e].ready = entry[e].ready /\ entry'[e].closeWhenIdle = entry[e].closeWhenIdle
      /\ entry'[e].forceClosed <=> entry[e].forceClosed \/ last
  <2>1. entry[e].forceClosed \/ last \in BOOLEAN
    BY Zenon
  <2>. QED  BY <1>7, <2>1 DEF PoolInv, PoolTypeOK, EntryRecords
<1>9. /\ conn' \in [Entries -> {"none", "open", "dead", "closed"}]
      /\ \A x \in Entries \ {e} : conn'[x] = conn[x]
      /\ conn'[e] = IF last THEN "closed" ELSE conn[e]
  BY <1>7 DEF PoolInv, PoolTypeOK
<1>10. PoolTypeOK'
  BY <1>2, <1>3, <1>8, <1>9 DEF PoolInv, PoolTypeOK
<1>11. DialersExist'
  BY <1>2, <1>3, <1>8 DEF PoolInv, DialersExist
<1>12. OneDialer'
  BY <1>2, <1>3 DEF PoolInv, OneDialer
<1>13. InFlightExact'
  BY <1>4, <1>6, <1>8 DEF PoolInv, InFlightExact
<1>14. ASSUME NEW x \in Entries PROVE EntryValid(x)'
  <2>1. EntryValid(x)
    BY DEF PoolInv
  <2>2. CASE x = e
    BY <1>2, <1>7, <1>8, <1>9, <2>1, <2>2 DEF EntryValid, Connected
  <2>3. CASE x # e
    BY <1>2, <1>8, <1>9, <2>1, <2>3 DEF EntryValid, Connected
  <2>. QED  BY <2>2, <2>3
<1>15. ASSUME NEW t \in Sessions PROVE SessionValid(t)'
  <2>1. SessionValid(t)
    BY DEF PoolInv
  <2>2. CASE t = s
    BY <1>2, <1>3, <2>2 DEF SessionValid, Holding
  <2>3. CASE t # s
    BY <1>3, <1>8, <2>1, <2>3 DEF SessionValid, Holding
  <2>. QED  BY <2>2, <2>3
<1>. QED  BY <1>10, <1>11, <1>12, <1>13, <1>14, <1>15 DEF PoolInv

-----------------------------------------------------------------------------
(* The keep-alive, the peer and Close *)

LEMMA KeepAliveKeeps ==
  ASSUME PoolInv, NEW e \in Entries, KeepAliveFails(e) \/ KeepAliveStops(e) PROVE PoolInv'
<1>1. keepAlive' \in SUBSET Entries /\ poolClosed' = poolClosed /\ session' = session
  BY DEF KeepAliveFails, KeepAliveStops, PoolInv, PoolTypeOK
<1>. QED  BY <1>1, EvictGentle, UnchangedGentle, GentleStay DEF KeepAliveFails, KeepAliveStops

LEMMA PeerGoneKeeps == ASSUME PoolInv, NEW e \in Entries, PeerGone(e) PROVE PoolInv'
<1>1. /\ conn' \in [Entries -> {"none", "open", "dead", "closed"}]
      /\ \A x \in Entries : Connected(x)' <=> Connected(x)
      /\ UNCHANGED <<pooled, poolClosed, entry, keepAlive, session>>
  BY DEF PeerGone, Open, PoolInv, PoolTypeOK, Connected
<1>2. \A x \in Entries : EntryValid(x)'
  BY <1>1 DEF PoolInv, EntryValid
<1>3. PoolGentle
  BY <1>1, <1>2 DEF PoolGentle, PoolInv, PoolTypeOK
<1>. QED  BY <1>1, <1>3, GentleStay

LEMMA ClosePoolKeeps == ASSUME PoolInv, ClosePool PROVE PoolInv'
<1>1. /\ poolClosed' \in BOOLEAN /\ pooled' = NoEntry /\ keepAlive' \in SUBSET Entries
      /\ session' = session
  BY DEF ClosePool, PoolInv, PoolTypeOK
<1>2. CASE UNCHANGED <<entry, conn>> /\ pooled = NoEntry
  <2>1. \A x \in Entries : EntryValid(x)'
    BY <1>1, <1>2 DEF PoolInv, EntryValid, Connected
  <2>. QED  BY <1>1, <1>2, <2>1, GentleStay DEF PoolGentle, PoolInv, PoolTypeOK
<1>3. CASE pooled # NoEntry
  <2>1. PICK e \in Entries : e = pooled
    BY <1>3 DEF PoolInv, PoolTypeOK
  <2>2. CASE /\ entry[e].phase = "dialing" /\ entry' = [entry EXCEPT ![e].ready = TRUE]
             /\ conn' = conn
    <3>1. /\ entry' \in [Entries -> EntryRecords]
          /\ \A x \in Entries \ {e} : entry'[x] = entry[x]
          /\ entry'[e].phase = "dialing" /\ entry'[e].ready
          /\ entry'[e].inFlight = entry[e].inFlight
          /\ entry'[e].forceClosed = entry[e].forceClosed
      BY <2>2 DEF PoolInv, PoolTypeOK, EntryRecords
    <3>2. ASSUME NEW x \in Entries PROVE EntryValid(x)'
      <4>1. EntryValid(x) /\ pooled' # x /\ (pooled = x <=> x = e)
        BY <1>1, <2>1, PoolAssumption DEF PoolInv
      <4>2. CASE x = e
        BY <2>2, <3>1, <4>1, <4>2 DEF EntryValid, Connected
      <4>3. CASE x # e
        BY <2>2, <3>1, <4>1, <4>3 DEF EntryValid, Connected
      <4>. QED  BY <4>2, <4>3
    <3>3. PoolGentle
      BY <1>1, <2>2, <3>1, <3>2 DEF PoolGentle, PoolInv, PoolTypeOK
    <3>. QED  BY <1>1, <3>3, GentleStay
  <2>3. CASE entry[e].phase # "dialing" /\ conn' = [conn EXCEPT ![e] = "closed"] /\ entry' = entry
    <3>1. /\ conn' \in [Entries -> {"none", "open", "dead", "closed"}]
          /\ \A x \in Entries \ {e} : conn'[x] = conn[x]
          /\ conn'[e] = "closed"
      BY <2>3 DEF PoolInv, PoolTypeOK
    <3>2. ASSUME NEW x \in Entries PROVE EntryValid(x)'
      <4>1. EntryValid(x) /\ pooled' # x /\ (pooled = x <=> x = e)
        BY <1>1, <2>1, PoolAssumption DEF PoolInv
      <4>2. CASE x = e
        BY <2>3, <3>1, <4>1, <4>2 DEF EntryValid, Connected
      <4>3. CASE x # e
        BY <2>3, <3>1, <4>1, <4>3 DEF EntryValid, Connected
      <4>. QED  BY <4>2, <4>3
    <3>3. PoolGentle
      BY <1>1, <2>3, <3>1, <3>2 DEF PoolGentle, PoolInv, PoolTypeOK
    <3>. QED  BY <1>1, <3>3, GentleStay
  <2>. QED  BY <1>3, <2>1, <2>2, <2>3 DEF ClosePool
<1>. QED  BY <1>2, <1>3 DEF ClosePool

-----------------------------------------------------------------------------
(* The invariant *)

LEMMA PoolInitInv == PoolInit => PoolInv
<1>. SUFFICES ASSUME PoolInit PROVE PoolInv
  OBVIOUS
<1>1. PoolTypeOK
  BY DEF PoolInit, PoolTypeOK, FreshEntry, FreshSession, EntryRecords, SessionRecords
<1>2. /\ \A e \in Entries : entry[e] = FreshEntry /\ conn[e] = "none"
      /\ \A s \in Sessions : session[s] = FreshSession
  BY DEF PoolInit
<1>3. DialersExist /\ OneDialer
  BY <1>2 DEF DialersExist, OneDialer, FreshEntry, FreshSession
<1>4. \A e \in Entries : Holders(e) = {}
  BY <1>2 DEF Holders, Holding, FreshSession
<1>5. InFlightExact
  BY <1>2, <1>4, FS_EmptySet DEF InFlightExact, FreshEntry
<1>6. \A e \in Entries : EntryValid(e)
  BY <1>2, PoolAssumption DEF PoolInit, EntryValid, FreshEntry, Connected
<1>7. \A s \in Sessions : SessionValid(s)
  BY <1>2 DEF SessionValid, FreshSession, Holding
<1>. QED  BY <1>1, <1>3, <1>5, <1>6, <1>7 DEF PoolInv

LEMMA PoolPreserved == PoolInv /\ [PoolNext]_poolVars => PoolInv'
<1>. SUFFICES ASSUME PoolInv, [PoolNext]_poolVars PROVE PoolInv'
  OBVIOUS
<1>1. ASSUME NEW s \in Sessions, Get(s) \/ Wake(s) PROVE PoolInv'
  BY <1>1, GetKeeps, WakeKeeps
<1>2. ASSUME NEW s \in Sessions, DialFails(s) \/ DialSucceeds(s) PROVE PoolInv'
  BY <1>2, DialFailsKeeps, DialSucceedsKeeps
<1>3. ASSUME NEW s \in Sessions, SessionOpens(s) \/ Release(s) \/ OwnConnection(s) PROVE PoolInv'
  BY <1>3, SessionOpensKeeps, ReleaseKeeps, OwnConnectionKeeps
<1>4. ASSUME NEW s \in Sessions,
             \/ HostIsFull(s) \/ OpenTimesOut(s) \/ OpenFails(s) \/ OpenRefused(s)
             \/ CommandEnds(s) \/ CommandBreaks(s) \/ CommandCancelled(s)
      PROVE  PoolInv'
  BY <1>4, SessionStepsKeep
<1>5. ASSUME NEW e \in Entries, KeepAliveFails(e) \/ KeepAliveStops(e) \/ PeerGone(e)
      PROVE  PoolInv'
  BY <1>5, KeepAliveKeeps, PeerGoneKeeps
<1>6. ASSUME ClosePool PROVE PoolInv'
  BY <1>6, ClosePoolKeeps
<1>7. CASE UNCHANGED poolVars
  <2>1. PoolGentle
    BY <1>7, UnchangedGentle DEF poolVars, PoolInv, PoolTypeOK
  <2>. QED  BY <1>7, <2>1, GentleStay DEF poolVars
<1>. QED  BY <1>1, <1>2, <1>3, <1>4, <1>5, <1>6, <1>7 DEF PoolNext

\* Every reachable state of the pool satisfies the invariant: what is said of
\* entries, dialers and sessions above holds whatever they interleave.
THEOREM PoolInductive == PoolSpec => []PoolInv
<1>. QED  BY PoolInitInv, PoolPreserved, PTL DEF PoolSpec

\* The pool's variables keep their types (native.go, nativePoolEntry).
THEOREM PoolTypeCorrect == PoolSpec => []PoolTypeOK
<1>1. PoolInv => PoolTypeOK
  BY DEF PoolInv
<1>. QED  BY <1>1, PoolInductive, PTL

\* Whatever keep-alives, failed dials, evictions, depooling and Close do to a
\* shared connection, it is closed or someone will close it, no waiter is left
\* behind and the count of its sessions is exact (native.go, get to Close).
THEOREM ConnectionsAccounted == PoolSpec => []PoolAccounted
<1>1. ASSUME PoolInv PROVE PoolAccounted
  <2>1. InFlightExact
    BY <1>1 DEF PoolInv
  <2>2. ASSUME NEW e \in Entries, conn[e] \in {"open", "dead"} PROVE pooled = e \/ Holders(e) # {}
    <3>1. pooled = e \/ entry[e].inFlight > 0
      BY <1>1, <2>2 DEF PoolInv, EntryValid, Connected
    <3>2. Holders(e) = {} => entry[e].inFlight = 0
      BY <2>1, FS_EmptySet DEF InFlightExact
    <3>. QED  BY <3>1, <3>2
  <2>3. NoLeak
    BY <1>1, <2>2 DEF NoLeak, PoolInv, SessionValid
  <2>4. NoStuckWaiter
    <3>1. SUFFICES ASSUME NEW s \in Sessions, session[s].pc = "wait", ~entry[session[s].at].ready
                   PROVE  \E t \in Sessions : session[t].pc = "dial" /\ session[t].at = session[s].at
      BY DEF NoStuckWaiter
    <3>2. PICK e \in Entries : e = session[s].at
      BY <1>1, <3>1 DEF PoolInv, SessionValid
    <3>3. entry[e].phase = "dialing"
      BY <1>1, <3>1, <3>2 DEF PoolInv, SessionValid, EntryValid
    <3>. QED  BY <1>1, <3>1, <3>2, <3>3 DEF PoolInv, DialersExist
  <2>. QED  BY <2>1, <2>3, <2>4 DEF PoolAccounted
<1>. QED  BY <1>1, PoolInductive, PTL

-----------------------------------------------------------------------------
(* The audit log.  Whoever writes has read the file under its lock, which   *)
(* nothing outside an append takes, and a file becomes the log only once    *)
(* its repair is over: what a repair writes was read from a log that was    *)
(* unbroken then.                                                           *)

LogRecords ==
  [by : Appenders, fact : Facts, seq : Nat, sound : BOOLEAN, prev : Appenders \cup {Nobody}]

AppendRecords ==
  [pc : {"start", "lock", "refused", "done", "write", "died"}, file : Files,
   read : Seq(LogRecords), fact : Facts]

RepairRecords ==
  [pc : {"start", "verify", "backup", "replace", "repaired", "failed", "unchanged"},
   records : Seq(LogRecords)]

\* Every variable of AuditChain has its type.
ChainTypeOK ==
  /\ logPath \in Files /\ lines \in [Files -> Seq(LogRecords)] /\ cut \subseteq Files
  /\ flock \in [Files -> Appenders \cup {Nobody}] /\ backup \in Seq(LogRecords)
  /\ append \in [Appenders -> AppendRecords] /\ repair \in [Repairs -> RepairRecords]
  /\ acked \subseteq Appenders /\ alters \in Nat

\* ChainUnbroken of any list of records.
Unbroken(records) ==
  \A i \in DOMAIN records : (\A j \in 1..i : records[j].sound) => Follows(records, i)

\* A writer holds its file, which is as it was read.
WritersHold ==
  \A a \in Appenders : append[a].pc = "write" =>
    /\ flock[append[a].file] = a
    /\ append[a].read = lines[append[a].file]

\* The file of a repair is the log, or was, only when the repair is over.
RepairsOver ==
  \A r \in Repairs :
    r = logPath \/ (\E a \in Appenders : append[a].file = r) => repair[r].pc = "repaired"

ChainInv ==
  /\ ChainTypeOK /\ WritersHold /\ RepairsOver
  /\ \A f \in Files : Unbroken(lines[f])
  /\ \A r \in Repairs : Unbroken(repair[r].records)

LEMMA ChainStarts == ChainInit => ChainInv
<1>. SUFFICES ASSUME ChainInit PROVE ChainInv
  OBVIOUS
<1>1. PICK fact \in [Appenders -> Facts] :
        append = [a \in Appenders |-> [pc |-> "start", file |-> Original,
                                       read |-> <<>>, fact |-> fact[a]]]
  BY DEF ChainInit
<1>2. append \in [Appenders -> AppendRecords] /\ repair \in [Repairs -> RepairRecords]
  BY <1>1 DEF ChainInit, AppendRecords, RepairRecords, Files
<1>3. ChainTypeOK
  BY <1>2 DEF ChainInit, ChainTypeOK, Files
<1>4. WritersHold /\ RepairsOver
  BY <1>1, ChainAssumption DEF ChainInit, WritersHold, RepairsOver
<1>5. Unbroken(<<>>)
  BY DEF Unbroken
<1>6. (\A f \in Files : Unbroken(lines[f])) /\ \A r \in Repairs : Unbroken(repair[r].records)
  BY <1>5 DEF ChainInit
<1>. QED  BY <1>3, <1>4, <1>6 DEF ChainInv

\* A record that continues an unbroken list keeps it unbroken.
LEMMA ContinuedUnbroken ==
  ASSUME NEW records \in Seq(LogRecords), Unbroken(records), NEW x \in LogRecords,
         x.seq = Len(records), x.sound,
         x.prev = IF records = <<>> THEN Nobody ELSE records[Len(records)].by
  PROVE  Unbroken(Append(records, x))
<1> DEFINE more == Append(records, x)
           n == Len(records)
<1>1. /\ n \in Nat /\ Len(more) = n + 1 /\ DOMAIN more = 1..n + 1 /\ DOMAIN records = 1..n
      /\ more[n + 1] = x /\ \A i \in 1..n : more[i] = records[i]
  OBVIOUS
<1>. HIDE DEF more
<1>2. ASSUME NEW i \in 1..n + 1, \A j \in 1..i : more[j].sound PROVE Follows(more, i)
  <2>1. CASE i \in 1..n
    <3>1. \A j \in 1..i : more[j] = records[j]
      BY <1>1, <2>1
    <3>2. Follows(records, i)
      BY <1>1, <1>2, <2>1, <3>1 DEF Unbroken
    <3>3. more[i] = records[i] /\ (i # 1 => more[i - 1] = records[i - 1])
      BY <1>1, <2>1
    <3>. QED  BY <3>2, <3>3 DEF Follows
  <2>2. CASE i = n + 1
    <3>1. more[i] = x
      BY <1>1, <2>2
    <3>2. i # 1 => records # <<>> /\ more[i - 1] = records[n]
      BY <1>1, <2>2
    <3>3. i = 1 => records = <<>>
      BY <1>1, <2>2
    <3>4. x.seq = i - 1 /\ x.prev = IF i = 1 THEN Nobody ELSE more[i - 1].by
      BY <1>1, <2>2, <3>2, <3>3
    <3>. QED  BY <3>1, <3>4 DEF Follows
  <2>. QED  BY <1>1, <2>1, <2>2
<1>3. Unbroken(more)
  BY <1>1, <1>2 DEF Unbroken
<1>. QED  BY <1>3 DEF more

\* So does leaving out its end,
LEMMA PrefixUnbroken ==
  ASSUME NEW records \in Seq(LogRecords), Unbroken(records), NEW k \in Nat, k <= Len(records)
  PROVE  SubSeq(records, 1, k) \in Seq(LogRecords) /\ Unbroken(SubSeq(records, 1, k))
<1> DEFINE less == SubSeq(records, 1, k)
<1>1. /\ less \in Seq(LogRecords) /\ DOMAIN less = 1..k /\ DOMAIN records = 1..Len(records)
      /\ \A i \in 1..k : less[i] = records[i]
  OBVIOUS
<1>. HIDE DEF less
<1>2. ASSUME NEW i \in 1..k, \A j \in 1..i : less[j].sound PROVE Follows(less, i)
  <2>1. \A j \in 1..i : less[j] = records[j]
    BY <1>1
  <2>2. i \in DOMAIN records
    BY <1>1
  <2>3. Follows(records, i)
    BY <1>2, <2>1, <2>2 DEF Unbroken
  <2>4. less[i] = records[i] /\ (i # 1 => less[i - 1] = records[i - 1])
    BY <1>1
  <2>. QED  BY <2>3, <2>4 DEF Follows
<1>3. Unbroken(less)
  BY <1>1, <1>2 DEF Unbroken
<1>. QED  BY <1>1, <1>3 DEF less

\* and altering a record.
LEMMA AlteredUnbroken ==
  ASSUME NEW records \in Seq(LogRecords), Unbroken(records), NEW i \in DOMAIN records
  PROVE  /\ [records EXCEPT ![i].sound = FALSE] \in Seq(LogRecords)
         /\ Unbroken([records EXCEPT ![i].sound = FALSE])
<1> DEFINE x == [records[i] EXCEPT !.sound = FALSE]
           worse == [records EXCEPT ![i] = x]
<1>1. x \in LogRecords /\ ~x.sound
  <2> DEFINE record == records[i]
  <2>1. record \in LogRecords
    OBVIOUS
  <2>. HIDE DEF record
  <2>2. /\ [record EXCEPT !.sound = FALSE] \in LogRecords
        /\ [record EXCEPT !.sound = FALSE].sound = FALSE
    BY <2>1 DEF LogRecords
  <2>. QED  BY <2>2 DEF record
<1>. HIDE DEF x
<1>2. /\ worse \in Seq(LogRecords) /\ DOMAIN worse = DOMAIN records
      /\ \A j \in DOMAIN records : worse[j] = IF j = i THEN x ELSE records[j]
      /\ DOMAIN records = 1..Len(records) /\ Len(records) \in Nat
  BY <1>1
<1>. HIDE DEF worse
<1>3. ASSUME NEW n \in DOMAIN records, \A j \in 1..n : worse[j].sound PROVE Follows(worse, n)
  <2>1. n < i
    BY <1>1, <1>2, <1>3
  <2>2. \A j \in 1..n : worse[j] = records[j]
    BY <1>2, <2>1
  <2>3. Follows(records, n)
    BY <1>3, <2>2 DEF Unbroken
  <2>4. worse[n] = records[n] /\ (n # 1 => worse[n - 1] = records[n - 1])
    BY <1>2, <2>2
  <2>. QED  BY <2>3, <2>4 DEF Follows
<1>4. Unbroken(worse)
  BY <1>2, <1>3 DEF Unbroken
<1>. QED  BY <1>2, <1>4 DEF worse, x


\* An appender opens the log: a repair whose file that is, is over.
LEMMA OpeningKeeps ==
  ASSUME ChainInv, NEW a \in Appenders, OpenLog(a) PROVE ChainInv'
<1> DEFINE opened == [append[a] EXCEPT !.pc = "lock", !.file = logPath]
<1>a. append \in [Appenders -> AppendRecords] /\ append[a] \in AppendRecords /\ logPath \in Files
  BY DEF ChainInv, ChainTypeOK
<1>b. opened \in AppendRecords /\ opened.pc = "lock" /\ opened.file = logPath
  BY <1>a DEF AppendRecords
<1>c. append' = [append EXCEPT ![a] = opened]
  BY <1>a DEF OpenLog
<1> HIDE DEF opened
<1>1. append' \in [Appenders -> AppendRecords]
  BY <1>a, <1>b, <1>c
<1>2. ChainTypeOK'
  BY <1>1 DEF ChainInv, ChainTypeOK, OpenLog
<1>3. \A b \in Appenders :
        /\ append'[b].pc = "write" => b # a
        /\ b # a => append'[b] = append[b]
        /\ append'[b].file = append[b].file \/ append'[b].file = logPath
  <2>1. append'[a] = opened /\ \A b \in Appenders : b # a => append'[b] = append[b]
    BY <1>a, <1>c
  <2>. QED  BY <1>b, <2>1
<1>4. WritersHold'
  <2>1. UNCHANGED <<lines, flock>> /\ WritersHold
    BY DEF ChainInv, OpenLog
  <2>2. \A b \in Appenders : append'[b].pc = "write" => append'[b] = append[b]
    BY <1>3
  <2>. QED  BY <2>1, <2>2 DEF WritersHold
<1>5. RepairsOver'
  BY <1>3 DEF ChainInv, RepairsOver, OpenLog
<1>. QED  BY <1>2, <1>4, <1>5 DEF ChainInv, OpenLog

\* The lock is taken of a file that nobody writes, and the file read as it is.
LEMMA LockingKeeps ==
  ASSUME ChainInv, NEW a \in Appenders, LockAndRead(a) PROVE ChainInv'
<1>1. append[a] \in AppendRecords /\ append[a].file \in Files
  BY DEF ChainInv, ChainTypeOK, AppendRecords
<1>2. /\ append' \in [Appenders -> AppendRecords] /\ flock' \in [Files -> Appenders \cup {Nobody}]
      /\ \A b \in Appenders : append'[b].file = append[b].file /\ (b # a => append'[b] = append[b])
      /\ append'[a].pc = "write" =>
           append'[a].read = lines[append[a].file] /\ flock' = [flock EXCEPT ![append[a].file] = a]
      /\ flock' = flock \/ flock' = [flock EXCEPT ![append[a].file] = a]
  <2>1. lines[append[a].file] \in Seq(LogRecords) /\ append \in [Appenders -> AppendRecords]
        /\ flock \in [Files -> Appenders \cup {Nobody}]
    BY <1>1 DEF ChainInv, ChainTypeOK
  <2>2. CASE flock' = flock /\ \E to \in {"refused", "done"} : append' = [append EXCEPT ![a].pc = to]
    <3>1. PICK to \in {"refused", "done"} : append' = [append EXCEPT ![a].pc = to]
      BY <2>2
    <3>2. append' \in [Appenders -> AppendRecords] /\ append'[a].pc # "write"
      BY <1>1, <2>1, <3>1 DEF AppendRecords
    <3>3. \A b \in Appenders : append'[b].file = append[b].file /\ (b # a => append'[b] = append[b])
      BY <2>1, <3>1 DEF AppendRecords
    <3>. QED  BY <2>1, <2>2, <3>2, <3>3
  <2>3. CASE /\ append' = [append EXCEPT ![a].pc = "write", ![a].read = lines[append[a].file]]
             /\ flock' = [flock EXCEPT ![append[a].file] = a]
    BY <1>1, <2>1, <2>3 DEF AppendRecords
  <2>. QED  BY <2>2, <2>3 DEF LockAndRead
<1>3. ChainTypeOK'
  BY <1>2 DEF ChainInv, ChainTypeOK, LockAndRead
<1>4. \A b \in Appenders : append[b].pc = "write" => append[b].file # append[a].file
  <2>1. flock[append[a].file] = Nobody
    BY DEF LockAndRead, Unlocked
  <2>. QED  BY <2>1, ChainAssumption DEF ChainInv, WritersHold
<1>5. WritersHold'
  <2>. SUFFICES ASSUME NEW b \in Appenders, append'[b].pc = "write"
       PROVE  flock'[append'[b].file] = b /\ append'[b].read = lines'[append'[b].file]
    BY DEF WritersHold
  <2>1. lines' = lines
    BY DEF LockAndRead
  <2>2. append[b].file \in Files
    BY DEF ChainInv, ChainTypeOK, AppendRecords
  <2>3. CASE b = a
    BY <1>1, <1>2, <2>1, <2>3 DEF ChainInv, ChainTypeOK
  <2>4. CASE b # a
    BY <1>1, <1>2, <1>4, <2>1, <2>2, <2>4 DEF ChainInv, ChainTypeOK, WritersHold
  <2>. QED  BY <2>3, <2>4
<1>6. RepairsOver'
  BY <1>2 DEF ChainInv, RepairsOver, LockAndRead
<1>. QED  BY <1>3, <1>5, <1>6 DEF ChainInv, LockAndRead

\* Letting a writer's lock go leaves the others theirs.
LEMMA UnlockingKeeps ==
  ASSUME ChainInv, NEW a \in Appenders, Unlock(a)
  PROVE  /\ flock' \in [Files -> Appenders \cup {Nobody}]
         /\ \A b \in Appenders \ {a} : append[b].pc = "write" => flock'[append[b].file] = b
<1>1. \A b \in Appenders : append[b].file \in Files
  BY DEF ChainInv, ChainTypeOK, AppendRecords
<1>. QED  BY <1>1 DEF ChainInv, ChainTypeOK, WritersHold, Unlock

\* The record that is written continues what the writer read.
LEMMA NewRecordContinues ==
  ASSUME ChainInv, NEW a \in Appenders
  PROVE  /\ NewRecord(a) \in LogRecords /\ NewRecord(a).sound
         /\ NewRecord(a).seq = Len(append[a].read)
         /\ NewRecord(a).prev = IF append[a].read = <<>> THEN Nobody
                                ELSE append[a].read[Len(append[a].read)].by
<1> DEFINE read == append[a].read
           prev == IF read = <<>> THEN Nobody ELSE read[Len(read)].by
<1>1. append[a] \in AppendRecords
  BY DEF ChainInv, ChainTypeOK
<1>2. read \in Seq(LogRecords) /\ append[a].fact \in Facts
  BY <1>1 DEF AppendRecords
<1>. HIDE DEF read
<1>3. read # <<>> => Len(read) \in 1..Len(read)
  BY <1>2
<1>4. read # <<>> => read[Len(read)] \in LogRecords
  BY <1>2, <1>3
<1>5. prev \in Appenders \cup {Nobody} /\ Len(read) \in Nat
  BY <1>2, <1>4 DEF LogRecords
<1>. HIDE DEF prev
<1>6. NewRecord(a) = [by |-> a, fact |-> append[a].fact, seq |-> Len(read), sound |-> TRUE, prev |-> prev]
  BY DEF NewRecord, read, prev
<1>7. NewRecord(a) \in LogRecords
  BY <1>2, <1>5, <1>6 DEF LogRecords
<1>. QED  BY <1>6, <1>7 DEF read, prev

LEMMA WritingKeeps ==
  ASSUME ChainInv, NEW a \in Appenders, WriteRecord(a) PROVE ChainInv'
<1> DEFINE f == append[a].file
           x == NewRecord(a)
<1>1. append[a] \in AppendRecords /\ f \in Files /\ append[a].pc = "write"
  BY DEF ChainInv, ChainTypeOK, AppendRecords, WriteRecord
<1>2. /\ x \in LogRecords /\ x.sound /\ x.seq = Len(append[a].read)
      /\ x.prev = IF append[a].read = <<>> THEN Nobody ELSE append[a].read[Len(append[a].read)].by
  BY NewRecordContinues
<1>3. flock[f] = a /\ append[a].read = lines[f]
  BY <1>1 DEF ChainInv, WritersHold
<1>4. lines[f] \in Seq(LogRecords) /\ Unbroken(lines[f])
  BY <1>1 DEF ChainInv, ChainTypeOK
<1>5. /\ lines' = [lines EXCEPT ![f] = Append(lines[f], x)]
      /\ append' = [append EXCEPT ![a].pc = "done"] /\ Unlock(a)
      /\ UNCHANGED <<logPath, cut, backup, repair, alters>> /\ acked' = acked \cup {a}
  BY DEF WriteRecord
<1>. HIDE DEF f, x
<1>6. Unbroken(Append(lines[f], x)) /\ Append(lines[f], x) \in Seq(LogRecords)
  BY <1>2, <1>3, <1>4, ContinuedUnbroken
<1>7. /\ flock' \in [Files -> Appenders \cup {Nobody}]
      /\ \A b \in Appenders \ {a} : append[b].pc = "write" => flock'[append[b].file] = b
  BY <1>5, UnlockingKeeps
<1>8. /\ append' \in [Appenders -> AppendRecords]
      /\ \A b \in Appenders : append'[b].file = append[b].file /\ (b # a => append'[b] = append[b])
      /\ append'[a].pc = "done"
  BY <1>5 DEF ChainInv, ChainTypeOK, AppendRecords
<1>9. lines' \in [Files -> Seq(LogRecords)] /\ \A g \in Files : Unbroken(lines'[g])
  BY <1>1, <1>5, <1>6 DEF ChainInv, ChainTypeOK
<1>10. ChainTypeOK'
  BY <1>5, <1>7, <1>8, <1>9 DEF ChainInv, ChainTypeOK
<1>11. WritersHold'
  <2>. SUFFICES ASSUME NEW b \in Appenders, append'[b].pc = "write"
       PROVE  flock'[append'[b].file] = b /\ append'[b].read = lines'[append'[b].file]
    BY DEF WritersHold
  <2>1. b # a /\ append'[b] = append[b]
    BY <1>8
  <2>2. flock[append[b].file] = b /\ append[b].read = lines[append[b].file] /\ append[b].file # f
    BY <2>1, <1>3 DEF ChainInv, WritersHold
  <2>3. lines'[append[b].file] = lines[append[b].file]
    BY <1>5, <2>2, <1>1 DEF ChainInv, ChainTypeOK
  <2>. QED  BY <1>7, <2>1, <2>2, <2>3
<1>12. RepairsOver'
  BY <1>5, <1>8 DEF ChainInv, RepairsOver
<1>. QED  BY <1>5, <1>9, <1>10, <1>11, <1>12 DEF ChainInv

LEMMA CuttingKeeps ==
  ASSUME ChainInv, NEW a \in Appenders, WriteCut(a) PROVE ChainInv'
<1>1. append[a].file \in Files
  BY DEF ChainInv, ChainTypeOK, AppendRecords
<1>2. /\ flock' \in [Files -> Appenders \cup {Nobody}]
      /\ \A b \in Appenders \ {a} : append[b].pc = "write" => flock'[append[b].file] = b
  BY UnlockingKeeps DEF WriteCut
<1>3. /\ append' \in [Appenders -> AppendRecords]
      /\ \A b \in Appenders : append'[b].file = append[b].file /\ (b # a => append'[b] = append[b])
      /\ append'[a].pc = "died"
  BY DEF ChainInv, ChainTypeOK, AppendRecords, WriteCut
<1>4. ChainTypeOK'
  BY <1>1, <1>2, <1>3 DEF ChainInv, ChainTypeOK, WriteCut
<1>5. WritersHold'
  BY <1>2, <1>3 DEF ChainInv, WritersHold, WriteCut
<1>6. RepairsOver'
  BY <1>3 DEF ChainInv, RepairsOver, WriteCut
<1>. QED  BY <1>4, <1>5, <1>6 DEF ChainInv, WriteCut

\* What a repair sets of itself: a list that is unbroken, and not the end.
LEMMA RepairingKeeps ==
  ASSUME ChainInv, NEW r \in Repairs, repair[r].pc # "repaired",
         NEW to \in {"verify", "backup", "replace", "failed", "unchanged"},
         NEW records \in Seq(LogRecords), Unbroken(records),
         repair' = [repair EXCEPT ![r].pc = to, ![r].records = records],
         backup' \in Seq(LogRecords),
         UNCHANGED <<logPath, lines, cut, flock, append, acked, alters>>
  PROVE  ChainInv'
<1>1. /\ repair' \in [Repairs -> RepairRecords]
      /\ \A q \in Repairs : q # r => repair'[q] = repair[q]
      /\ repair'[r].records = records
  BY DEF ChainInv, ChainTypeOK, RepairRecords
<1>2. ChainTypeOK'
  BY <1>1 DEF ChainInv, ChainTypeOK
<1>3. WritersHold'
  BY DEF ChainInv, WritersHold
<1>4. RepairsOver'
  BY <1>1 DEF ChainInv, RepairsOver
<1>. QED  BY <1>1, <1>2, <1>3, <1>4 DEF ChainInv

LEMMA RepairReadingKeeps ==
  ASSUME ChainInv, NEW r \in Repairs, RepairReads(r) PROVE ChainInv'
<1>1. repair[r] \in RepairRecords /\ lines[logPath] \in Seq(LogRecords) /\ Unbroken(lines[logPath])
  BY DEF ChainInv, ChainTypeOK
<1>2. CASE logPath \in cut
  <2>1. repair' = [repair EXCEPT ![r].pc = "failed", ![r].records = repair[r].records]
    BY <1>2 DEF RepairReads, RepairTo, ChainInv, ChainTypeOK, RepairRecords
  <2>. QED  BY <1>1, <2>1, RepairingKeeps DEF RepairReads, ChainInv, ChainTypeOK, RepairRecords
<1>3. CASE logPath \notin cut
  BY <1>1, <1>3, RepairingKeeps DEF RepairReads, ChainInv, ChainTypeOK
<1>. QED  BY <1>2, <1>3

LEMMA RepairVerifyingKeeps ==
  ASSUME ChainInv, NEW r \in Repairs, RepairVerifies(r) PROVE ChainInv'
<1> DEFINE now == lines[logPath]
           first == repair[r].records
           keep == Len(SoundPrefix(now))
           k == IF keep > Len(first) THEN Len(first) ELSE keep
<1>1. /\ repair[r] \in RepairRecords /\ now \in Seq(LogRecords)
      /\ first \in Seq(LogRecords) /\ Unbroken(first)
  BY DEF ChainInv, ChainTypeOK, RepairRecords
<1>2. CASE logPath \in cut \/ Verifies(now)
  <2>1. \E to \in {"failed", "unchanged"} :
          repair' = [repair EXCEPT ![r].pc = to, ![r].records = repair[r].records]
    BY <1>2 DEF RepairVerifies, RepairTo, ChainInv, ChainTypeOK, RepairRecords
  <2>. QED  BY <1>1, <2>1, RepairingKeeps DEF RepairVerifies, ChainInv, ChainTypeOK
<1>3. CASE ~(logPath \in cut \/ Verifies(now))
  <2>1. keep \in Nat
    <3> DEFINE sound == {i \in DOMAIN now : \A j \in 1..i : Follows(now, j)}
    <3>1. DOMAIN now = 1..Len(now) /\ Len(now) \in Nat
      BY <1>1
    <3>. HIDE DEF now
    <3>2. IsFiniteSet(1..Len(now)) /\ sound \subseteq 1..Len(now) /\ Cardinality(1..Len(now)) = Len(now)
      <4>1. sound \subseteq 1..Len(now)
        BY <3>1
      <4>2. \A n \in Nat : IsFiniteSet(1..n) /\ Cardinality(1..n) = n
        BY FS_Interval
      <4>. QED  BY <3>1, <4>1, <4>2
    <3>3. IsFiniteSet(sound) /\ Cardinality(sound) <= Len(now)
      BY <3>2, FS_Subset
    <3>4. Cardinality(sound) \in Nat
      BY <3>3, FS_CardinalityType
    <3>5. now \in Seq(LogRecords)
      BY <1>1 DEF now
    <3>. HIDE DEF sound
    <3>6. Len(SubSeq(now, 1, Cardinality(sound))) \in Nat
      BY <3>1, <3>3, <3>4, <3>5
    <3>. QED  BY <3>6 DEF SoundPrefix, sound
  <2>. HIDE DEF now, first, keep
  <2>2. k \in Nat /\ k <= Len(first)
    BY <1>1, <2>1
  <2>. HIDE DEF k
  <2>3. SubSeq(first, 1, k) \in Seq(LogRecords) /\ Unbroken(SubSeq(first, 1, k))
    BY <1>1, <2>2, PrefixUnbroken
  <2>4. /\ repair' = [repair EXCEPT ![r].pc = "backup", ![r].records = SubSeq(first, 1, k)]
        /\ UNCHANGED <<logPath, lines, cut, flock, backup, append, acked, alters>>
        /\ repair[r].pc = "verify"
    BY <1>3 DEF RepairVerifies, now, first, keep, k
  <2>. QED  BY <2>3, <2>4, RepairingKeeps DEF ChainInv, ChainTypeOK
<1>. QED  BY <1>2, <1>3

LEMMA RepairBackingUpKeeps ==
  ASSUME ChainInv, NEW r \in Repairs, RepairBacksUp(r) PROVE ChainInv'
<1>1. repair' = [repair EXCEPT ![r].pc = "replace", ![r].records = repair[r].records]
  BY DEF RepairBacksUp, RepairTo, ChainInv, ChainTypeOK, RepairRecords
<1>2. /\ repair[r] \in RepairRecords /\ Unbroken(repair[r].records)
      /\ backup' \in Seq(LogRecords) /\ repair[r].pc # "repaired"
      /\ UNCHANGED <<logPath, lines, cut, flock, append, acked, alters>>
  BY DEF ChainInv, ChainTypeOK, RepairBacksUp, Copied
<1>3. repair[r].records \in Seq(LogRecords)
  BY <1>2 DEF RepairRecords
<1>. QED  BY <1>1, <1>2, <1>3, RepairingKeeps

\* The file that becomes the log is one that no append has open.
LEMMA ReplacingKeeps ==
  ASSUME ChainInv, NEW r \in Repairs, RepairReplaces(r) PROVE ChainInv'
<1>1. repair[r] \in RepairRecords /\ Unbroken(repair[r].records) /\ r \in Files
  BY DEF ChainInv, ChainTypeOK, Files
<1>2. repair[r].records \in Seq(LogRecords)
  BY <1>1 DEF RepairRecords
<1>3. \A a \in Appenders : append[a].file # r
  BY DEF ChainInv, RepairsOver, RepairReplaces
<1>4. /\ lines' \in [Files -> Seq(LogRecords)] /\ lines'[r] = repair[r].records
      /\ \A f \in Files \ {r} : lines'[f] = lines[f]
  BY <1>1, <1>2 DEF ChainInv, ChainTypeOK, RepairReplaces
<1>5. /\ repair' \in [Repairs -> RepairRecords] /\ repair'[r].pc = "repaired"
      /\ \A q \in Repairs : repair'[q].records = repair[q].records /\ (q # r => repair'[q] = repair[q])
  BY DEF ChainInv, ChainTypeOK, RepairReplaces, RepairTo, RepairRecords
<1>6. ChainTypeOK'
  BY <1>1, <1>4, <1>5 DEF ChainInv, ChainTypeOK, RepairReplaces
<1>7. \A a \in Appenders : append[a].file \in Files
  BY DEF ChainInv, ChainTypeOK, AppendRecords
<1>8. WritersHold'
  BY <1>3, <1>4, <1>7 DEF ChainInv, WritersHold, RepairReplaces
<1>9. RepairsOver'
  BY <1>5 DEF ChainInv, RepairsOver, RepairReplaces
<1>10. (\A f \in Files : Unbroken(lines'[f])) /\ \A q \in Repairs : Unbroken(repair'[q].records)
  BY <1>1, <1>4, <1>5 DEF ChainInv
<1>. QED  BY <1>6, <1>8, <1>9, <1>10 DEF ChainInv

\* Nobody writes to the log when a record of it is altered.
LEMMA AlteringKeeps ==
  ASSUME ChainInv, Alter PROVE ChainInv'
<1>1. PICK i \in DOMAIN lines[logPath] : lines' = [lines EXCEPT ![logPath][i].sound = FALSE]
  BY DEF Alter
<1> DEFINE worse == [lines[logPath] EXCEPT ![i].sound = FALSE]
<1>2. worse \in Seq(LogRecords) /\ Unbroken(worse)
  BY AlteredUnbroken DEF ChainInv, ChainTypeOK
<1>3. lines' = [lines EXCEPT ![logPath] = worse]
  BY <1>1
<1>. HIDE DEF worse
<1>4. lines' \in [Files -> Seq(LogRecords)] /\ \A f \in Files \ {logPath} : lines'[f] = lines[f]
  BY <1>2, <1>3 DEF ChainInv, ChainTypeOK
<1>5. \A f \in Files : Unbroken(lines'[f])
  BY <1>2, <1>3, <1>4 DEF ChainInv, ChainTypeOK
<1>6. ChainTypeOK'
  BY <1>4 DEF ChainInv, ChainTypeOK, Alter
<1>7. \A a \in Appenders : append[a].file \in Files
  BY DEF ChainInv, ChainTypeOK, AppendRecords
<1>8. \A a \in Appenders : append[a].pc = "write" => append[a].file # logPath
  <2>1. flock[logPath] = Nobody
    BY DEF Alter
  <2>. QED  BY <2>1, ChainAssumption DEF ChainInv, WritersHold
<1>9. WritersHold'
  BY <1>4, <1>7, <1>8 DEF ChainInv, WritersHold, Alter
<1>10. RepairsOver'
  BY DEF ChainInv, RepairsOver, Alter
<1>. QED  BY <1>5, <1>6, <1>9, <1>10 DEF ChainInv, Alter

LEMMA ChainKept == ChainInv /\ [ChainNext]_chainVars => ChainInv'
<1>. SUFFICES ASSUME ChainInv, [ChainNext]_chainVars PROVE ChainInv'
  OBVIOUS
<1>1. ASSUME NEW a \in Appenders, OpenLog(a) \/ LockAndRead(a) \/ WriteRecord(a) \/ WriteCut(a)
      PROVE  ChainInv'
  BY <1>1, OpeningKeeps, LockingKeeps, WritingKeeps, CuttingKeeps
<1>2. ASSUME NEW r \in Repairs,
             RepairReads(r) \/ RepairVerifies(r) \/ RepairBacksUp(r) \/ RepairReplaces(r)
      PROVE  ChainInv'
  BY <1>2, RepairReadingKeeps, RepairVerifyingKeeps, RepairBackingUpKeeps, ReplacingKeeps
<1>3. CASE UNCHANGED chainVars
  BY <1>3 DEF chainVars, ChainInv, ChainTypeOK, WritersHold, RepairsOver, Unbroken, Follows
<1>. QED  BY <1>1, <1>2, <1>3, AlteringKeeps DEF ChainNext

\* What every state of the log satisfies, whatever appends, repairs and torn
\* writes do to it (record.go, AppendUnless and TruncateBroken).
THEOREM ChainInductive == ChainSpec => []ChainInv
<1>. QED  BY ChainStarts, ChainKept, PTL DEF ChainSpec

\* Every variable of AuditChain has its type.
THEOREM ChainTypeCorrect == ChainSpec => []ChainTypeOK
<1>1. ChainInv => ChainTypeOK
  BY DEF ChainInv
<1>. QED  BY <1>1, ChainInductive, PTL

\* For any number of appends, repairs, torn writes and alterations: the log is
\* a chain up to the first record that was altered from outside.
THEOREM ChainHolds == ChainSpec => []ChainUnbroken
<1>1. ChainInv => ChainUnbroken
  BY DEF ChainInv, ChainTypeOK, Unbroken, ChainUnbroken
<1>. QED  BY <1>1, ChainInductive, PTL

-----------------------------------------------------------------------------
(* With one repair at a time no record that was reported is lost: the log   *)
(* the repair reads is broken and stays so, nobody appends to it any more,  *)
(* and whoever appends later appends to the repair's file.                  *)

Has(records, a) == \E i \in DOMAIN records : records[i].by = a

RepairUnderWay(r) == repair[r].pc \in {"backup", "replace", "repaired"}

AcknowledgedInv(r) ==
  /\ logPath = IF repair[r].pc = "repaired" THEN r ELSE Original
  /\ RepairUnderWay(r) => ~Verifies(lines[Original])
  /\ repair[r].pc # "repaired" => \A a \in acked : Has(lines[Original], a)
  /\ repair[r].pc = "replace" => \A a \in acked : Has(backup, a)
  /\ repair[r].pc = "repaired" => \A a \in acked : Has(lines[r], a) \/ Has(backup, a)
  /\ \A a \in Appenders : append[a].pc = "write" => Verifies(append[a].read)

LEMMA HasAppended ==
  ASSUME NEW records \in Seq(LogRecords), NEW x \in LogRecords
  PROVE  /\ Has(Append(records, x), x.by)
         /\ \A a : Has(records, a) => Has(Append(records, x), a)
<1> DEFINE more == Append(records, x)
           n == Len(records)
<1>1. /\ n \in Nat /\ DOMAIN more = 1..n + 1 /\ DOMAIN records = 1..n
      /\ more[n + 1] = x /\ \A i \in 1..n : more[i] = records[i]
  OBVIOUS
<1>. HIDE DEF more
<1>2. Has(more, x.by)
  BY <1>1 DEF Has
<1>3. ASSUME NEW a, Has(records, a) PROVE Has(more, a)
  <2>1. PICK i \in 1..n : records[i].by = a
    BY <1>1, <1>3 DEF Has
  <2>2. i \in DOMAIN more /\ more[i].by = a
    BY <1>1, <2>1
  <2>. QED  BY <2>2 DEF Has
<1>. QED  BY <1>2, <1>3 DEF more

LEMMA HasAltered ==
  ASSUME NEW records \in Seq(LogRecords), NEW i \in DOMAIN records
  PROVE  /\ ~Verifies([records EXCEPT ![i].sound = FALSE])
         /\ \A a : Has(records, a) => Has([records EXCEPT ![i].sound = FALSE], a)
<1> DEFINE record == records[i]
           x == [record EXCEPT !.sound = FALSE]
           worse == [records EXCEPT ![i] = x]
<1>1. record \in LogRecords
  OBVIOUS
<1>. HIDE DEF record
<1>2. x.sound = FALSE /\ x.by = record.by
  BY <1>1 DEF LogRecords
<1>. HIDE DEF x
<1>3. /\ DOMAIN worse = DOMAIN records
      /\ \A j \in DOMAIN records : worse[j] = IF j = i THEN x ELSE records[j]
  OBVIOUS
<1>. HIDE DEF worse
<1>4. ~Verifies(worse)
  <2>1. ~Follows(worse, i)
    BY <1>2, <1>3 DEF Follows
  <2>. QED  BY <1>3, <2>1 DEF Verifies
<1>5. \A a : Has(records, a) => Has(worse, a)
  BY <1>2, <1>3 DEF Has, record
<1>. QED  BY <1>4, <1>5 DEF worse, x, record

\* A writer's file is not the one under repair.
LEMMA WritersElsewhere ==
  ASSUME NEW r, Repairs = {r}, ChainInv, AcknowledgedInv(r),
         NEW a \in Appenders, append[a].pc = "write"
  PROVE  /\ append[a].file = logPath
         /\ repair[r].pc \notin {"backup", "replace"}
<1>1. append[a].file \in {Original, r}
  BY DEF ChainInv, ChainTypeOK, AppendRecords, Files
<1>2. append[a].file = Original => ~RepairUnderWay(r)
  BY DEF ChainInv, WritersHold, AcknowledgedInv
<1>3. append[a].file = r => repair[r].pc = "repaired"
  BY DEF ChainInv, RepairsOver
<1>. QED  BY <1>1, <1>2, <1>3 DEF AcknowledgedInv, RepairUnderWay

LEMMA AppendKeepsAcknowledged ==
  ASSUME NEW r, Repairs = {r}, ChainInv, AcknowledgedInv(r), NEW a \in Appenders,
         OpenLog(a) \/ LockAndRead(a) \/ WriteRecord(a) \/ WriteCut(a)
  PROVE  AcknowledgedInv(r)'
<1>1. append \in [Appenders -> AppendRecords] /\ UNCHANGED <<logPath, backup, repair>>
  BY DEF ChainInv, ChainTypeOK, OpenLog, LockAndRead, WriteRecord, WriteCut
<1>2. \A b \in Appenders : append'[b].pc = "write" => Verifies(append'[b].read)
  <2>1. CASE LockAndRead(a)
    <3>1. \A b \in Appenders : b # a => append'[b] = append[b]
      BY <1>1, <2>1 DEF LockAndRead
    <3>2. append'[a].pc = "write" => Verifies(append'[a].read)
      BY <1>1, <2>1 DEF LockAndRead, AppendRecords
    <3>. QED  BY <3>1, <3>2 DEF AcknowledgedInv
  <2>2. CASE OpenLog(a) \/ WriteRecord(a) \/ WriteCut(a)
    BY <1>1, <2>2 DEF OpenLog, WriteRecord, WriteCut, AppendRecords, AcknowledgedInv
  <2>. QED  BY <2>1, <2>2
<1>3. CASE OpenLog(a) \/ LockAndRead(a) \/ WriteCut(a)
  <2>1. UNCHANGED <<lines, acked>>
    BY <1>3 DEF OpenLog, LockAndRead, WriteCut
  <2>. QED  BY <1>1, <1>2, <2>1 DEF AcknowledgedInv, RepairUnderWay
<1>4. CASE WriteRecord(a)
  <2> DEFINE x == NewRecord(a)
             f == append[a].file
  <2>1. f = logPath /\ f \in Files /\ repair[r].pc \notin {"backup", "replace"}
    BY <1>4, WritersElsewhere DEF WriteRecord, ChainInv, ChainTypeOK
  <2>2. /\ lines' = [lines EXCEPT ![f] = Append(lines[f], x)] /\ acked' = acked \cup {a}
        /\ lines[f] \in Seq(LogRecords)
    BY <1>4, <2>1 DEF WriteRecord, ChainInv, ChainTypeOK
  <2>3. x \in LogRecords /\ x.by = a
    BY NewRecordContinues DEF NewRecord
  <2>. HIDE DEF x, f
  <2>4. /\ Has(Append(lines[f], x), a)
        /\ \A b : Has(lines[f], b) => Has(Append(lines[f], x), b)
    BY <2>2, <2>3, HasAppended
  <2>5. /\ lines'[f] = Append(lines[f], x)
        /\ \A g \in Files \ {f} : lines'[g] = lines[g]
    BY <2>1, <2>2 DEF ChainInv, ChainTypeOK
  <2>6. Original \in Files /\ r \in Files /\ Original # r
    BY ChainAssumption DEF Files
  <2>7. CASE repair[r].pc = "repaired"
    <3>1. f = r /\ lines'[Original] = lines[Original]
      BY <2>1, <2>5, <2>6, <2>7 DEF AcknowledgedInv
    <3>. QED  BY <1>1, <1>2, <2>2, <2>4, <2>5, <2>7, <3>1 DEF AcknowledgedInv, RepairUnderWay
  <2>8. CASE repair[r].pc # "repaired"
    <3>1. f = Original /\ ~RepairUnderWay(r) /\ repair[r].pc # "replace"
      BY <2>1, <2>8 DEF AcknowledgedInv, RepairUnderWay
    <3>. QED  BY <1>1, <1>2, <2>2, <2>4, <2>5, <2>8, <3>1 DEF AcknowledgedInv, RepairUnderWay
  <2>. QED  BY <2>7, <2>8
<1>. QED  BY <1>3, <1>4

LEMMA RepairKeepsAcknowledged ==
  ASSUME NEW r, Repairs = {r}, ChainInv, AcknowledgedInv(r),
         RepairReads(r) \/ RepairVerifies(r) \/ RepairBacksUp(r) \/ RepairReplaces(r)
  PROVE  AcknowledgedInv(r)'
<1>1. repair \in [Repairs -> RepairRecords] /\ UNCHANGED <<append, acked>> /\ r \in Repairs
  BY DEF ChainInv, ChainTypeOK, RepairReads, RepairVerifies, RepairBacksUp, RepairReplaces
<1>2. CASE RepairReads(r)
  <2>1. repair[r].pc = "start" /\ repair'[r].pc \in {"failed", "verify"}
    BY <1>1, <1>2 DEF RepairReads, RepairTo, RepairRecords
  <2>. QED  BY <1>1, <1>2, <2>1 DEF AcknowledgedInv, RepairReads, RepairUnderWay
<1>3. CASE RepairVerifies(r)
  <2>1. /\ repair[r].pc = "verify" /\ repair'[r].pc \in {"failed", "unchanged", "backup"}
        /\ repair'[r].pc = "backup" => ~Verifies(lines[logPath])
    BY <1>1, <1>3 DEF RepairVerifies, RepairTo, RepairRecords
  <2>. QED  BY <1>1, <1>3, <2>1 DEF AcknowledgedInv, RepairVerifies, RepairUnderWay
<1>4. CASE RepairBacksUp(r)
  <2>1. /\ repair[r].pc = "backup" /\ repair'[r].pc = "replace" /\ backup' = lines[logPath]
    BY <1>1, <1>4 DEF RepairBacksUp, RepairTo, RepairRecords, Copied
  <2>. QED  BY <1>1, <1>4, <2>1 DEF AcknowledgedInv, RepairBacksUp, RepairUnderWay
<1>5. CASE RepairReplaces(r)
  <2>1. /\ repair[r].pc = "replace" /\ repair'[r].pc = "repaired" /\ logPath' = r
        /\ UNCHANGED backup
    BY <1>1, <1>5 DEF RepairReplaces, RepairTo, RepairRecords
  <2>2. lines'[Original] = lines[Original]
    BY <1>5, ChainAssumption DEF RepairReplaces, ChainInv, ChainTypeOK, Files
  <2>. QED  BY <1>1, <1>5, <2>1, <2>2 DEF AcknowledgedInv, RepairUnderWay
<1>. QED  BY <1>2, <1>3, <1>4, <1>5

LEMMA AlterKeepsAcknowledged ==
  ASSUME NEW r, Repairs = {r}, ChainInv, AcknowledgedInv(r), Alter
  PROVE  AcknowledgedInv(r)'
<1>1. UNCHANGED <<logPath, backup, append, repair, acked>>
  BY DEF Alter
<1>2. PICK i \in DOMAIN lines[logPath] : lines' = [lines EXCEPT ![logPath][i].sound = FALSE]
  BY DEF Alter
<1> DEFINE worse == [lines[logPath] EXCEPT ![i].sound = FALSE]
<1>3. ~Verifies(worse) /\ \A a : Has(lines[logPath], a) => Has(worse, a)
  BY HasAltered DEF ChainInv, ChainTypeOK
<1>4. lines' = [lines EXCEPT ![logPath] = worse]
  BY <1>2
<1>. HIDE DEF worse
<1>5. lines'[logPath] = worse /\ \A f \in Files \ {logPath} : lines'[f] = lines[f]
  BY <1>4 DEF ChainInv, ChainTypeOK
<1>6. Original \in Files /\ r \in Files
  BY DEF Files
<1>. QED  BY <1>1, <1>3, <1>5, <1>6 DEF AcknowledgedInv, RepairUnderWay

\* For any number of appends and alterations, and one repair: a record whose
\* append was reported is in the log or in the backup, and the log a chain.
THEOREM AcknowledgedStay ==
  ASSUME NEW r, Repairs = {r} PROVE ChainSpec => []LogSound
<1>1. ChainInit => AcknowledgedInv(r)
  BY DEF ChainInit, AcknowledgedInv, RepairUnderWay
<1>2. ChainInv /\ AcknowledgedInv(r) /\ [ChainNext]_chainVars => AcknowledgedInv(r)'
  <2>. SUFFICES ASSUME ChainInv, AcknowledgedInv(r), [ChainNext]_chainVars
       PROVE  AcknowledgedInv(r)'
    OBVIOUS
  <2>1. CASE UNCHANGED chainVars
    BY <2>1 DEF chainVars, AcknowledgedInv, RepairUnderWay, Has, Verifies, Follows
  <2>. QED  BY <2>1, AppendKeepsAcknowledged, RepairKeepsAcknowledged, AlterKeepsAcknowledged
            DEF ChainNext
<1>3. ChainInv /\ AcknowledgedInv(r) => AcknowledgedKept
  <2>. SUFFICES ASSUME AcknowledgedInv(r), NEW a \in acked
       PROVE  \E x \in Records(lines[logPath]) \cup Records(backup) : x.by = a
    BY DEF AcknowledgedKept
  <2>1. Has(lines[logPath], a) \/ Has(backup, a)
    BY DEF AcknowledgedInv
  <2>. QED  BY <2>1 DEF Has, Records
<1>. QED  BY <1>1, <1>2, <1>3, ChainInductive, ChainHolds, PTL DEF ChainSpec, LogSound

-----------------------------------------------------------------------------
(* The requests of a managed device.  A proof that was admitted is          *)
(* remembered until it has expired, and the clock that prunes it is the one *)
(* that any later consumption is judged by.                                 *)

Requests == [proof : Proofs, asks : {"bundle", "sign"}, expires : Nat]

Answers ==
  {NoAnswer, Refusal, Signature} \cup [kind : {"bundle"}, version : Nat, notAfter : Nat]

HandlerRecords ==
  [pc : {"idle", "body", "bundle", "sign", "log"}, proof : Proofs \cup {NoProof}, at : Nat,
   wasActive : BOOLEAN]

Caches == [version : Nat, notAfter : Nat, fetched : Nat, maxVersion : Nat \cup {-1}]

OpenerFields ==
  [pc : {"closed", "open", "fetch", "login"}, version : Nat, at : Nat, cached : Caches,
   proof : Proofs \cup {NoProof}, since : Nat]

OpenerRecords == {r \in OpenerFields : r.pc = "fetch" => r.proof \in Proofs}

\* The control plane's part of the type.
PlaneTypeOK ==
  /\ clock \in Nat /\ active \in BOOLEAN /\ identityOn \in BOOLEAN /\ version \in Nat
  /\ nonces \subseteq Proofs /\ nextPrune \in Nat /\ sent \subseteq Requests
  /\ handler \in [Handlers -> HandlerRecords]
  /\ answer \in [Proofs -> Answers]
  /\ signLog \subseteq Proofs /\ admitted \in [Proofs -> Nat]

\* Every variable of ManagedDevice has its type.
DeviceTypeOK ==
  /\ PlaneTypeOK
  /\ cache \in Caches /\ opener \in [Openers -> OpenerRecords] /\ seen \in Nat

\* No two requests share a proof, and what a handler works on was sent.
RequestsApart ==
  /\ \A r, q \in sent : r.proof = q.proof => r = q
  /\ \A h \in Handlers : Working(h) # "idle" => \E r \in sent : r.proof = handler[h].proof

\* An admitted proof is remembered, or has expired.
AdmittedRemembered ==
  \A p \in Proofs : admitted[p] # 0 =>
    /\ \E r \in sent : r.proof = p
    /\ p \in nonces \/ Asked(p).expires <= clock

DeviceInv == DeviceTypeOK /\ RequestsApart /\ AdmittedRemembered

LEMMA DeviceStarts == DeviceInit => DeviceInv
<1>. SUFFICES ASSUME DeviceInit PROVE DeviceInv
  OBVIOUS
<1>1. IdleHandler \in HandlerRecords /\ NoAnswer \in Answers /\ NoCache \in Caches
  BY DEF IdleHandler, HandlerRecords, Answers, NoCache, Caches
<1>2. FreshOpener \in OpenerRecords
  BY <1>1 DEF FreshOpener, OpenerRecords, OpenerFields
<1>3. DeviceTypeOK
  BY <1>1, <1>2 DEF DeviceInit, DeviceTypeOK, PlaneTypeOK
<1>4. RequestsApart
  BY DEF DeviceInit, RequestsApart, Working, IdleHandler
<1>5. AdmittedRemembered
  BY DEF DeviceInit, AdmittedRemembered
<1>. QED  BY <1>3, <1>4, <1>5 DEF DeviceInv

\* A request is found by its proof.
LEMMA AskedIs ==
  ASSUME DeviceInv, NEW r \in sent
  PROVE  Asked(r.proof) = r /\ r \in Requests /\ r.proof \in Proofs /\ r.expires \in Nat
<1>1. \A q \in sent : q.proof = r.proof => q = r
  BY DEF DeviceInv, RequestsApart
<1>2. Asked(r.proof) = r
  BY <1>1 DEF Asked
<1>. QED  BY <1>2 DEF DeviceInv, DeviceTypeOK, PlaneTypeOK, Requests

LEMMA HandledAsked ==
  ASSUME DeviceInv, NEW h \in Handlers, Working(h) # "idle"
  PROVE  /\ handler[h].proof \in Proofs /\ Asked(handler[h].proof) \in sent
         /\ Asked(handler[h].proof).proof = handler[h].proof
<1>1. PICK r \in sent : r.proof = handler[h].proof
  BY DEF DeviceInv, RequestsApart
<1>. QED  BY <1>1, AskedIs

\* The handlers go on with requests that were sent.
LEMMA HandlerMoves ==
  ASSUME DeviceInv, NEW h \in Handlers, NEW r \in HandlerRecords,
         handler' = [handler EXCEPT ![h] = r], sent' = sent,
         r.pc # "idle" => \E q \in sent : q.proof = r.proof
  PROVE  handler' \in [Handlers -> HandlerRecords] /\ RequestsApart'
<1>1. handler \in [Handlers -> HandlerRecords]
  BY DEF DeviceInv, DeviceTypeOK, PlaneTypeOK
<1>2. handler' \in [Handlers -> HandlerRecords]
  BY <1>1
<1>3. ASSUME NEW g \in Handlers, handler'[g].pc # "idle"
      PROVE  \E q \in sent : q.proof = handler'[g].proof
  <2>1. handler'[g] = IF g = h THEN r ELSE handler[g]
    BY <1>1
  <2>. QED  BY <1>3, <2>1 DEF DeviceInv, RequestsApart, Working
<1>. QED  BY <1>2, <1>3 DEF DeviceInv, RequestsApart, Working

\* What is answered leaves the proofs and what is remembered of them alone.
LEMMA AnswerKeeps ==
  ASSUME DeviceInv, NEW h \in Handlers, Working(h) # "idle", NEW a \in Answers, Answer(h, a),
         sent' = sent
  PROVE  /\ answer' \in [Proofs -> Answers] /\ handler' \in [Handlers -> HandlerRecords]
         /\ RequestsApart'
<1>1. answer \in [Proofs -> Answers]
  BY DEF DeviceInv, DeviceTypeOK, PlaneTypeOK
<1>2. answer' \in [Proofs -> Answers]
  BY <1>1 DEF Answer
<1>3. IdleHandler \in HandlerRecords /\ IdleHandler.pc = "idle"
  BY DEF IdleHandler, HandlerRecords
<1>4. handler' = [handler EXCEPT ![h] = IdleHandler]
  BY DEF Answer
<1>. QED  BY <1>2, <1>3, <1>4, HandlerMoves

\* A step of the control plane or the clock that admits nothing and prunes nothing.
LEMMA PlaneKeeps ==
  ASSUME DeviceInv, UNCHANGED <<nonces, sent, admitted, deviceVars>>, PlaneTypeOK',
         RequestsApart', clock <= clock'
  PROVE  DeviceInv'
<1>1. DeviceTypeOK'
  BY DEF DeviceInv, DeviceTypeOK, deviceVars
<1>2. ASSUME NEW p \in Proofs, admitted[p] # 0, p \notin nonces PROVE Asked(p).expires <= clock'
  <2>1. PICK r \in sent : r.proof = p
    BY <1>2 DEF DeviceInv, AdmittedRemembered
  <2>2. Asked(p) = r /\ r.expires \in Nat
    BY <2>1, AskedIs
  <2>3. Asked(p).expires <= clock
    BY <1>2 DEF DeviceInv, AdmittedRemembered
  <2>. QED  BY <2>2, <2>3 DEF DeviceInv, DeviceTypeOK, PlaneTypeOK
<1>3. AdmittedRemembered'
  BY <1>2 DEF DeviceInv, AdmittedRemembered, Asked
<1>. QED  BY <1>1, <1>3 DEF DeviceInv

LEMMA VerifyProofKeeps ==
  ASSUME DeviceInv, NEW h \in Handlers, VerifyProof(h)
  PROVE  DeviceInv'
<1>1. PICK r \in sent :
        handler' = [handler EXCEPT ![h] = [pc |-> "body", proof |-> r.proof,
                                           at |-> clock, wasActive |-> active]]
  BY DEF VerifyProof
<1>2. UNCHANGED <<clock, active, identityOn, version, nonces, nextPrune, sent, answer,
                  signLog, admitted, deviceVars>>
  BY DEF VerifyProof
<1> DEFINE new == [pc |-> "body", proof |-> r.proof, at |-> clock, wasActive |-> active]
<1>3. r.proof \in Proofs /\ clock \in Nat /\ active \in BOOLEAN
  BY AskedIs DEF DeviceInv, DeviceTypeOK, PlaneTypeOK
<1>4. new \in HandlerRecords
  BY <1>3, Zenon DEF HandlerRecords
<1>5. new.proof = r.proof
  BY Zenon
<1>. HIDE DEF new
<1>6. handler' = [handler EXCEPT ![h] = new]
  BY <1>1 DEF new
<1>7. handler' \in [Handlers -> HandlerRecords] /\ RequestsApart'
  BY <1>2, <1>4, <1>5, <1>6, HandlerMoves
<1>8. PlaneTypeOK'
  BY <1>2, <1>7 DEF DeviceInv, DeviceTypeOK, PlaneTypeOK
<1>. QED  BY <1>2, <1>3, <1>7, <1>8, PlaneKeeps

\* The answers a handler gives.
LEMMA AnswersKeep ==
  ASSUME DeviceInv, NEW h \in Handlers,
         ConsumeRefuses(h) \/ ServeBundle(h) \/ CheckSign(h) \/ LogAndSign(h)
  PROVE  DeviceInv'
<1>1. /\ Working(h) # "idle"
      /\ UNCHANGED <<clock, active, identityOn, version, nonces, sent, admitted, deviceVars>>
  BY DEF ConsumeRefuses, ServeBundle, CheckSign, LogAndSign
<1>2. /\ clock \in Nat /\ version \in Nat /\ nextPrune \in Nat /\ signLog \subseteq Proofs
      /\ handler[h] \in HandlerRecords /\ answer \in [Proofs -> Answers]
  BY DEF DeviceInv, DeviceTypeOK, PlaneTypeOK
<1>3. handler[h].proof \in Proofs
  BY <1>1, HandledAsked
<1>4. \/ \E a \in Answers : Answer(h, a)
      \/ handler' = [handler EXCEPT ![h].pc = "log"] /\ UNCHANGED answer
  <2>1. Refusal \in Answers /\ Signature \in Answers
    BY DEF Answers
  <2>2. Bundle(version, clock + BundleTTL) \in Answers
    BY <1>2, DeviceAssumption DEF Bundle, Answers
  <2>. QED  BY <2>1, <2>2 DEF ConsumeRefuses, ServeBundle, CheckSign, LogAndSign
<1>5. /\ answer' \in [Proofs -> Answers] /\ handler' \in [Handlers -> HandlerRecords]
      /\ RequestsApart'
  <2>1. CASE \E a \in Answers : Answer(h, a)
    BY <1>1, <2>1, AnswerKeeps
  <2>2. CASE handler' = [handler EXCEPT ![h].pc = "log"] /\ UNCHANGED answer
    <3> DEFINE new == [handler[h] EXCEPT !.pc = "log"]
    <3>1. new \in HandlerRecords /\ new.proof = handler[h].proof
      BY <1>2 DEF HandlerRecords
    <3>2. handler' = [handler EXCEPT ![h] = new]
      BY <2>2
    <3>. HIDE DEF new
    <3>3. \E q \in sent : q.proof = new.proof
      BY <1>1, <3>1, HandledAsked
    <3>. QED  BY <1>1, <1>2, <2>2, <3>1, <3>2, <3>3, HandlerMoves
  <2>. QED  BY <1>4, <2>1, <2>2
<1>6. nextPrune' \in Nat
  BY <1>2, DeviceAssumption
     DEF ConsumeRefuses, ServeBundle, CheckSign, LogAndSign, PruneScheduled, ConsumeTime
<1>7. signLog' \subseteq Proofs
  BY <1>2, <1>3 DEF ConsumeRefuses, ServeBundle, CheckSign, LogAndSign
<1>8. PlaneTypeOK'
  BY <1>1, <1>5, <1>6, <1>7 DEF DeviceInv, DeviceTypeOK, PlaneTypeOK
<1>. QED  BY <1>1, <1>2, <1>5, <1>8, PlaneKeeps

\* A proof is consumed by a clock that no admitted and pruned one survives.
LEMMA ConsumesOnce ==
  ASSUME DeviceInv, NEW h \in Handlers, Consume(h)
  PROVE  admitted[handler[h].proof] = 0
<1> DEFINE p == handler[h].proof
<1>1. p \in Proofs /\ Asked(p) \in sent /\ Asked(p).proof = p
  BY HandledAsked DEF Consume
<1>2. Asked(p).expires > clock /\ p \notin Unpruned(h) /\ Asked(p).expires \in Nat /\ clock \in Nat
  BY <1>1, AskedIs DEF Consume, ConsumeTime, DeviceInv, DeviceTypeOK, PlaneTypeOK
<1>3. p \notin nonces
  BY <1>2 DEF Unpruned, ConsumeTime
<1>. QED  BY <1>1, <1>2, <1>3 DEF DeviceInv, AdmittedRemembered

LEMMA ConsumeKeeps ==
  ASSUME DeviceInv, NEW h \in Handlers, Consume(h)
  PROVE  DeviceInv'
<1> DEFINE p == handler[h].proof
<1>1. p \in Proofs /\ Asked(p) \in sent /\ Asked(p).proof = p /\ Asked(p) \in Requests
  BY HandledAsked DEF Consume, DeviceInv, DeviceTypeOK, PlaneTypeOK
<1>2. /\ UNCHANGED <<clock, active, identityOn, version, sent, answer, signLog, deviceVars>>
      /\ nonces' = Unpruned(h) \union {p} /\ PruneScheduled(h)
      /\ admitted' = [admitted EXCEPT ![p] = @ + 1]
      /\ handler' = [handler EXCEPT ![h].pc = Asked(p).asks]
  BY DEF Consume
<1>3. /\ clock \in Nat /\ nextPrune \in Nat /\ nonces \subseteq Proofs
      /\ admitted \in [Proofs -> Nat] /\ handler[h] \in HandlerRecords
  BY DEF DeviceInv, DeviceTypeOK, PlaneTypeOK
<1>4. handler' \in [Handlers -> HandlerRecords] /\ RequestsApart'
  <2> DEFINE new == [handler[h] EXCEPT !.pc = Asked(p).asks]
  <2>1. new \in HandlerRecords /\ new.proof = p
    BY <1>1, <1>3 DEF HandlerRecords, Requests
  <2>2. handler' = [handler EXCEPT ![h] = new]
    BY <1>2
  <2>3. \E q \in sent : q.proof = new.proof
    BY <1>1, <2>1
  <2>. HIDE DEF new, p
  <2>. QED  BY <1>2, <2>1, <2>2, <2>3, HandlerMoves
<1>5. nonces' \subseteq Proofs
  BY <1>1, <1>2, <1>3 DEF Unpruned
<1>6. nextPrune' \in Nat
  BY <1>2, <1>3, DeviceAssumption DEF PruneScheduled, ConsumeTime
<1>7. admitted' \in [Proofs -> Nat] /\ \A q \in Proofs : q # p => admitted'[q] = admitted[q]
  BY <1>1, <1>2, <1>3
<1>8. DeviceTypeOK'
  BY <1>2, <1>4, <1>5, <1>6, <1>7 DEF DeviceInv, DeviceTypeOK, PlaneTypeOK, deviceVars
<1>9. ASSUME NEW q \in Proofs, admitted'[q] # 0
      PROVE  (\E r \in sent : r.proof = q) /\ (q \in nonces' \/ Asked(q).expires <= clock)
  <2>1. CASE q = p
    BY <1>1, <1>2, <2>1
  <2>2. CASE q # p
    <3>1. admitted[q] # 0
      BY <1>7, <1>9, <2>2
    <3>2. PICK r \in sent : r.proof = q
      BY <3>1 DEF DeviceInv, AdmittedRemembered
    <3>3. Asked(q) = r /\ r.expires \in Nat
      BY <3>2, AskedIs
    <3>4. q \in nonces \/ Asked(q).expires <= clock
      BY <3>1 DEF DeviceInv, AdmittedRemembered
    <3>5. q \in nonces /\ q \notin Unpruned(h) => Asked(q).expires <= clock
      BY <1>3, <3>3 DEF Unpruned, ConsumeTime
    <3>. QED  BY <1>2, <3>2, <3>4, <3>5
  <2>. QED  BY <2>1, <2>2
<1>10. AdmittedRemembered'
  BY <1>2, <1>9 DEF AdmittedRemembered, Asked
<1>. QED  BY <1>4, <1>8, <1>10 DEF DeviceInv

LEMMA AdministerKeeps ==
  ASSUME DeviceInv, Administer \/ TickClock
  PROVE  DeviceInv'
<1>1. UNCHANGED <<nonces, nextPrune, handler, signLog, admitted, sent, answer, deviceVars>>
  BY DEF Administer, TickClock, serverVars
<1>2. /\ clock \in Nat /\ clock' \in Nat /\ clock <= clock' /\ version' \in Nat
      /\ active' \in BOOLEAN /\ identityOn' \in BOOLEAN
  <2>1. clock \in Nat /\ version \in Nat /\ active \in BOOLEAN /\ identityOn \in BOOLEAN
    BY DEF DeviceInv, DeviceTypeOK, PlaneTypeOK
  <2>2. clock' \in Nat /\ clock <= clock' /\ version' \in Nat
    <3>1. clock' \in {clock, clock + 1} /\ version' \in {version, version + 1, version - 1}
          /\ (version' = version - 1 => version > 1)
      BY <2>1 DEF Administer, TickClock, serverVars
    <3>. QED  BY <2>1, <3>1
  <2>3. active' \in {active, FALSE} /\ identityOn' \in {identityOn, FALSE}
    <3>1. CASE Administer
      BY <3>1, Zenon DEF Administer
    <3>2. CASE TickClock
      BY <3>2, Zenon DEF TickClock, serverVars
    <3>. QED  BY <3>1, <3>2
  <2>. QED  BY <2>1, <2>2, <2>3, Zenon
<1>3. PlaneTypeOK' /\ RequestsApart'
  BY <1>1, <1>2 DEF DeviceInv, DeviceTypeOK, PlaneTypeOK, RequestsApart, Working
<1>. QED  BY <1>1, <1>2, <1>3, PlaneKeeps

-----------------------------------------------------------------------------
(* The device, and the theorems *)

\* What the device does leaves the consumed proofs alone.
LEMMA DeviceStepKeeps ==
  ASSUME DeviceInv, UNCHANGED <<clock, serverVars, answer>>, sent \subseteq sent',
         sent' \subseteq Requests, \A r, q \in sent' : r.proof = q.proof => r = q,
         cache' \in Caches, opener' \in [Openers -> OpenerRecords], seen' \in Nat
  PROVE  DeviceInv'
<1>1. DeviceTypeOK'
  BY DEF DeviceInv, DeviceTypeOK, PlaneTypeOK, serverVars
<1>2. RequestsApart'
  BY DEF DeviceInv, RequestsApart, Working, serverVars
<1>3. ASSUME NEW p \in Proofs, admitted[p] # 0
      PROVE  (\E r \in sent' : r.proof = p) /\ (p \in nonces \/ Asked(p)'.expires <= clock)
  <2>1. PICK r \in sent : r.proof = p
    BY <1>3 DEF DeviceInv, AdmittedRemembered
  <2>2. Asked(p) = r
    BY <2>1, AskedIs
  <2>3. Asked(p)' = r
    BY <2>1 DEF Asked
  <2>. QED  BY <1>3, <2>1, <2>2, <2>3 DEF DeviceInv, AdmittedRemembered
<1>4. AdmittedRemembered'
  BY <1>3 DEF AdmittedRemembered, serverVars
<1>. QED  BY <1>1, <1>2, <1>4 DEF DeviceInv

LEMMA OpenerTyped ==
  ASSUME DeviceInv, NEW o \in Openers
  PROVE  opener[o] \in OpenerRecords /\ cache \in Caches /\ seen \in Nat /\ clock \in Nat
BY DEF DeviceInv, DeviceTypeOK, PlaneTypeOK

\* A request is sent with a proof of its own.
LEMMA SendKeeps ==
  ASSUME DeviceInv, NEW o \in Openers, NEW asks \in {"bundle", "sign"},
         NEW where \in OpenerFields, Send(o, asks, where),
         UNCHANGED <<clock, serverVars, answer, cache, seen>>
  PROVE  DeviceInv'
<1>1. PICK p \in Proofs :
        /\ \A r \in sent : r.proof # p
        /\ sent' = sent \union {[proof |-> p, asks |-> asks, expires |-> clock + RequestLifetime]}
        /\ opener' = [opener EXCEPT ![o] = [where EXCEPT !.proof = p]]
  BY DEF Send
<1> DEFINE new == [proof |-> p, asks |-> asks, expires |-> clock + RequestLifetime]
<1>2. new \in Requests /\ new.proof = p
  BY OpenerTyped, DeviceAssumption DEF Requests
<1>3. [where EXCEPT !.proof = p] \in OpenerRecords
  BY DEF OpenerRecords, OpenerFields
<1>4. sent' = sent \union {new}
  BY <1>1
<1>. HIDE DEF new
<1>5. sent' \subseteq Requests /\ \A r, q \in sent' : r.proof = q.proof => r = q
  BY <1>1, <1>2, <1>4 DEF DeviceInv, DeviceTypeOK, PlaneTypeOK, RequestsApart
<1>6. opener' \in [Openers -> OpenerRecords]
  BY <1>1, <1>3 DEF DeviceInv, DeviceTypeOK
<1>. QED  BY <1>4, <1>5, <1>6, OpenerTyped, DeviceStepKeeps

\* A step of one opener that sends nothing.
LEMMA OpenerKeeps ==
  ASSUME DeviceInv, NEW o \in Openers, NEW r \in OpenerRecords,
         opener' = [opener EXCEPT ![o] = r], UNCHANGED <<clock, serverVars, sent, answer>>,
         cache' \in Caches, seen' \in Nat
  PROVE  DeviceInv'
<1>1. opener' \in [Openers -> OpenerRecords]
  BY DEF DeviceInv, DeviceTypeOK
<1>2. sent' \subseteq Requests /\ \A q, t \in sent' : q.proof = t.proof => q = t
  BY DEF DeviceInv, DeviceTypeOK, PlaneTypeOK, RequestsApart
<1>. QED  BY <1>1, <1>2, DeviceStepKeeps

LEMMA FreshTyped == FreshOpener \in OpenerRecords
BY DEF FreshOpener, OpenerRecords, OpenerFields, NoCache, Caches

LEMMA LargerTyped == \A a, b \in Nat \cup {-1} : Larger(a, b) \in {a, b}
BY DEF Larger

LEMMA OpenedKeeps ==
  ASSUME DeviceInv, NEW o \in Openers, NEW v \in Nat, Opened(o, v), cache' \in Caches,
         UNCHANGED <<clock, serverVars, sent, answer>>
  PROVE  DeviceInv'
<1> DEFINE r == [opener[o] EXCEPT !.pc = "open", !.version = v]
<1>1. r \in OpenerRecords
  BY OpenerTyped DEF OpenerRecords, OpenerFields
<1>2. opener' = [opener EXCEPT ![o] = r]
  BY DEF Opened
<1>3. seen' \in Nat
  BY OpenerTyped, LargerTyped DEF Opened
<1>. HIDE DEF r
<1>. QED  BY <1>1, <1>2, <1>3, OpenerKeeps

LEMMA SessionsKeep ==
  ASSUME DeviceInv, NEW o \in Openers,
         \/ OpenCached(o) \/ OpenFetches(o) \/ BundleArrives(o)
         \/ FetchRefused(o) \/ FetchUnreachable(o) \/ AskSignature(o) \/ EndSession(o)
  PROVE  DeviceInv'
<1>0. opener[o] \in OpenerRecords /\ cache \in Caches /\ seen \in Nat /\ clock \in Nat
  BY OpenerTyped
<1>1. CASE OpenCached(o)
  <2> DEFINE r == [pc |-> "open", version |-> cache.version, at |-> clock, cached |-> cache,
                   proof |-> NoProof, since |-> seen]
  <2>1. r \in OpenerRecords
    BY <1>0 DEF OpenerRecords, OpenerFields, Caches
  <2>2. seen' \in Nat
    BY <1>0, <1>1, LargerTyped DEF OpenCached, Caches
  <2>. QED  BY <1>0, <1>1, <2>1, <2>2, OpenerKeeps DEF OpenCached
<1>2. CASE OpenFetches(o)
  <2> DEFINE r == [pc |-> "fetch", version |-> 0, at |-> clock, cached |-> cache,
                   proof |-> NoProof, since |-> seen]
  <2>1. r \in OpenerFields
    BY <1>0 DEF OpenerRecords, OpenerFields
  <2>. QED  BY <1>2, <2>1, SendKeeps DEF OpenFetches
<1>3. CASE AskSignature(o)
  <2> DEFINE r == [opener[o] EXCEPT !.pc = "login"]
  <2>1. r \in OpenerFields
    BY <1>0 DEF OpenerRecords, OpenerFields
  <2>. QED  BY <1>3, <2>1, SendKeeps DEF AskSignature
<1>4. CASE BundleArrives(o)
  <2> DEFINE a == answer[opener[o].proof]
  <2>1. /\ opener[o].pc = "fetch" /\ a.kind = "bundle"
        /\ UNCHANGED <<clock, serverVars, sent, answer>>
    BY <1>4 DEF BundleArrives
  <2>2. CASE /\ cache' = [version |-> a.version, notAfter |-> a.notAfter,
                          fetched |-> opener[o].at, maxVersion |-> Larger(Floor(o), a.version)]
             /\ Opened(o, a.version)
    <3>1. a \in Answers
      BY <1>0, <2>1 DEF OpenerRecords, DeviceInv, DeviceTypeOK, PlaneTypeOK
    <3>2. a.version \in Nat /\ a.notAfter \in Nat
      BY <2>1, <3>1 DEF Answers, NoAnswer, Refusal, Signature
    <3>3. Floor(o) \in Nat \cup {-1} /\ opener[o].at \in Nat
      BY <1>0 DEF Floor, OpenerRecords, OpenerFields, Caches
    <3>4. Larger(Floor(o), a.version) \in Nat \cup {-1}
      BY <3>2, <3>3, LargerTyped
    <3>. HIDE DEF a
    <3>5. cache' \in Caches
      BY <2>2, <3>2, <3>3, <3>4 DEF Caches
    <3>. QED  BY <2>1, <2>2, <3>2, <3>5, OpenedKeeps
  <2>3. CASE opener' = [opener EXCEPT ![o] = FreshOpener] /\ UNCHANGED <<cache, seen>>
    BY <1>0, <2>1, <2>3, FreshTyped, OpenerKeeps
  <2>. QED  BY <1>4, <2>2, <2>3 DEF BundleArrives
<1>5. CASE FetchUnreachable(o)
  <2>1. CASE Opened(o, opener[o].cached.version)
    <3>1. opener[o].cached.version \in Nat
      BY <1>0 DEF OpenerRecords, OpenerFields, Caches
    <3>. QED  BY <1>0, <1>5, <2>1, <3>1, OpenedKeeps DEF FetchUnreachable
  <2>2. CASE opener' = [opener EXCEPT ![o] = FreshOpener] /\ UNCHANGED seen
    BY <1>0, <1>5, <2>2, FreshTyped, OpenerKeeps DEF FetchUnreachable
  <2>. QED  BY <1>5, <2>1, <2>2 DEF FetchUnreachable
<1>6. CASE FetchRefused(o) \/ EndSession(o)
  BY <1>0, <1>6, FreshTyped, OpenerKeeps DEF FetchRefused, EndSession
<1>. QED  BY <1>1, <1>2, <1>3, <1>4, <1>5, <1>6

LEMMA DevicePreserved == DeviceInv /\ [DeviceNext]_deviceAll => DeviceInv'
<1>. SUFFICES ASSUME DeviceInv, [DeviceNext]_deviceAll PROVE DeviceInv'
  OBVIOUS
<1>1. ASSUME NEW h \in Handlers,
             \/ VerifyProof(h) \/ Consume(h) \/ ConsumeRefuses(h)
             \/ ServeBundle(h) \/ CheckSign(h) \/ LogAndSign(h)
      PROVE  DeviceInv'
  BY <1>1, VerifyProofKeeps, ConsumeKeeps, AnswersKeep
<1>2. CASE UNCHANGED deviceAll
  BY <1>2 DEF deviceAll, serverVars, deviceVars, DeviceInv, DeviceTypeOK, PlaneTypeOK,
              RequestsApart, AdmittedRemembered, Asked, Working
<1>. QED  BY <1>1, <1>2, SessionsKeep, AdministerKeeps DEF DeviceNext

\* The strengthening holds throughout: an admitted proof is remembered or has
\* expired by the clock that any later request is judged by.
THEOREM DeviceInductive == DeviceSpec => []DeviceInv
<1>1. DeviceInv /\ [DeviceNext]_deviceAll => DeviceInv'
  BY DevicePreserved
<1>. QED  BY <1>1, DeviceStarts, PTL DEF DeviceSpec

\* Every variable of ManagedDevice keeps its type.
THEOREM DeviceTypeCorrect == DeviceSpec => []DeviceTypeOK
<1>1. DeviceInv => DeviceTypeOK
  BY DEF DeviceInv
<1>. QED  BY <1>1, DeviceInductive, PTL

\* A request proof is admitted once, whenever its nonce was pruned, and only
\* while the device is active (enrollment_store.go, consumeNonce).
THEOREM NoReplay == DeviceSpec => NothingReplayed
<1>1. DeviceInv /\ [DeviceNext]_deviceAll
        => [\A p \in Proofs : admitted'[p] # admitted[p] => admitted[p] = 0 /\ active]_deviceAll
  <2>. SUFFICES ASSUME DeviceInv, DeviceNext, NEW p \in Proofs, admitted'[p] # admitted[p]
                PROVE  admitted[p] = 0 /\ active
    OBVIOUS
  <2>1. PICK h \in Handlers : Consume(h)
    BY DEF DeviceNext, VerifyProof, ConsumeRefuses, ServeBundle, CheckSign, LogAndSign,
           OpenCached, OpenFetches, BundleArrives, FetchRefused, FetchUnreachable,
           AskSignature, EndSession, Administer, TickClock, serverVars
  <2>2. p = handler[h].proof
    BY <2>1 DEF Consume, DeviceInv, DeviceTypeOK, PlaneTypeOK
  <2>3. admitted[p] = 0
    BY <2>1, <2>2, ConsumesOnce
  <2>4. active
    BY <2>1, Zenon DEF Consume, Standing
  <2>. QED  BY <2>3, <2>4
<1>. QED  BY <1>1, DeviceInductive, PTL DEF DeviceSpec, NothingReplayed


-----------------------------------------------------------------------------
(* With one session at a time the cache never forgets: its bundle is the    *)
(* newest it knew of, and no session was opened with a newer one.           *)

RollbackInv(o) ==
  /\ cache # NoCache => cache.version = cache.maxVersion
  /\ seen <= cache.version
  /\ opener[o].pc = "fetch" => opener[o].cached = cache /\ opener[o].since = seen
  /\ opener[o].pc = "open" => opener[o].version >= opener[o].since

\* A session is opened with a version that is now the newest of all.
LEMMA OpenedForward ==
  ASSUME DeviceInv, NEW o \in Openers, NEW r \in OpenerRecords, opener' = [opener EXCEPT ![o] = r],
         r.pc = "open", r.version >= r.since,
         cache'.version = cache'.maxVersion, seen' <= cache'.version
  PROVE  RollbackInv(o)'
<1>1. opener'[o] = r
  BY DEF DeviceInv, DeviceTypeOK
<1>. QED  BY <1>1 DEF RollbackInv

LEMMA SessionsForward ==
  ASSUME NEW o \in Openers, DeviceInv, RollbackInv(o),
         \/ OpenCached(o) \/ OpenFetches(o) \/ BundleArrives(o)
         \/ FetchRefused(o) \/ FetchUnreachable(o) \/ AskSignature(o) \/ EndSession(o)
  PROVE  RollbackInv(o)'
<1> DEFINE e == opener[o]
<1>0. /\ e \in OpenerRecords /\ cache \in Caches /\ seen \in Nat /\ clock \in Nat
      /\ cache.version \in Nat /\ cache.maxVersion \in Nat \cup {-1}
      /\ opener \in [Openers -> OpenerRecords]
  BY OpenerTyped DEF Caches, DeviceInv, DeviceTypeOK
<1>1. FreshOpener.pc = "closed"
  BY DEF FreshOpener
<1>2. CASE OpenCached(o)
  <2> DEFINE r == [pc |-> "open", version |-> cache.version, at |-> clock, cached |-> cache,
                   proof |-> NoProof, since |-> seen]
  <2>1. cache # NoCache /\ seen' = Larger(seen, cache.version) /\ opener' = [opener EXCEPT ![o] = r]
        /\ UNCHANGED cache
    BY <1>2 DEF OpenCached
  <2>2. r \in OpenerRecords /\ r.pc = "open" /\ r.version = cache.version /\ r.since = seen
    BY <1>0 DEF OpenerRecords, OpenerFields
  <2>. HIDE DEF r
  <2>3. seen' <= cache'.version /\ cache'.version = cache'.maxVersion /\ r.version >= r.since
    BY <1>0, <2>1, <2>2 DEF RollbackInv, Larger
  <2>. QED  BY <2>1, <2>2, <2>3, OpenedForward
<1>3. CASE OpenFetches(o)
  <2>1. PICK p \in Proofs : opener' = [opener EXCEPT ![o] =
          [[pc |-> "fetch", version |-> 0, at |-> clock, cached |-> cache,
            proof |-> NoProof, since |-> seen] EXCEPT !.proof = p]]
    BY <1>3 DEF OpenFetches, Send
  <2>2. opener'[o].pc = "fetch" /\ opener'[o].cached = cache /\ opener'[o].since = seen
    BY <1>0, <2>1
  <2>. QED  BY <1>3, <2>2 DEF OpenFetches, RollbackInv
<1>4. CASE BundleArrives(o)
  <2> DEFINE a == answer[e.proof]
  <2>1. /\ e.pc = "fetch" /\ a.kind = "bundle" /\ e.cached = cache /\ e.since = seen
    BY <1>4 DEF BundleArrives, RollbackInv
  <2>2. CASE opener' = [opener EXCEPT ![o] = FreshOpener] /\ UNCHANGED <<cache, seen>>
    BY <1>0, <1>1, <2>2 DEF RollbackInv
  <2>3. CASE /\ a.version >= Floor(o) /\ Opened(o, a.version)
             /\ cache' = [version |-> a.version, notAfter |-> a.notAfter,
                          fetched |-> opener[o].at, maxVersion |-> Larger(Floor(o), a.version)]
    <3> DEFINE r == [e EXCEPT !.pc = "open", !.version = a.version]
    <3>1. a \in Answers
      BY <1>0, <2>1 DEF OpenerRecords, DeviceInv, DeviceTypeOK, PlaneTypeOK
    <3>2. a.version \in Nat
      BY <2>1, <3>1 DEF Answers, NoAnswer, Refusal, Signature
    <3>3. Floor(o) = cache.maxVersion
      BY <2>1 DEF Floor
    <3>4. opener' = [opener EXCEPT ![o] = r] /\ seen' = Larger(seen, a.version)
      BY <2>3 DEF Opened
    <3>. HIDE DEF a, e
    <3>5. r \in OpenerRecords /\ r.pc = "open" /\ r.version = a.version /\ r.since = e.since
      BY <1>0, <2>1, <3>2 DEF OpenerRecords, OpenerFields
    <3>. HIDE DEF r
    <3>6. a.version >= seen
      <4>1. CASE cache = NoCache
        BY <1>0, <3>2, <4>1 DEF NoCache, RollbackInv
      <4>2. CASE cache # NoCache
        BY <1>0, <2>3, <3>2, <3>3, <4>2 DEF RollbackInv
      <4>. QED  BY <4>1, <4>2
    <3>7. cache'.version = a.version /\ cache'.maxVersion = a.version
      BY <1>0, <2>3, <3>2, <3>3 DEF Larger, a
    <3>8. seen' <= cache'.version
      BY <1>0, <3>2, <3>4, <3>6, <3>7 DEF Larger
    <3>. QED  BY <2>1, <3>4, <3>5, <3>6, <3>7, <3>8, OpenedForward
  <2>. QED  BY <1>4, <2>2, <2>3 DEF BundleArrives
<1>5. CASE FetchUnreachable(o)
  <2>1. e.pc = "fetch" /\ e.cached = cache /\ e.since = seen /\ UNCHANGED cache
    BY <1>5 DEF FetchUnreachable, RollbackInv
  <2>2. CASE opener' = [opener EXCEPT ![o] = FreshOpener] /\ UNCHANGED seen
    BY <1>0, <1>1, <2>1, <2>2 DEF RollbackInv
  <2>3. CASE e.cached # NoCache /\ Opened(o, e.cached.version)
    <3> DEFINE r == [e EXCEPT !.pc = "open", !.version = cache.version]
    <3>1. opener' = [opener EXCEPT ![o] = r] /\ seen' = Larger(seen, cache.version)
      BY <2>1, <2>3 DEF Opened
    <3>. HIDE DEF e
    <3>2. r \in OpenerRecords /\ r.pc = "open" /\ r.version = cache.version /\ r.since = e.since
      BY <1>0, <2>1 DEF OpenerRecords, OpenerFields
    <3>. HIDE DEF r
    <3>3. seen' <= cache'.version /\ cache'.version = cache'.maxVersion /\ r.version >= r.since
      BY <1>0, <2>1, <2>3, <3>1, <3>2 DEF RollbackInv, Larger
    <3>. QED  BY <3>1, <3>2, <3>3, OpenedForward
  <2>. QED  BY <1>5, <2>2, <2>3 DEF FetchUnreachable
<1>6. CASE FetchRefused(o) \/ EndSession(o)
  BY <1>0, <1>1, <1>6 DEF FetchRefused, EndSession, RollbackInv
<1>7. CASE AskSignature(o)
  <2>1. PICK p \in Proofs : opener' = [opener EXCEPT ![o] =
          [[e EXCEPT !.pc = "login"] EXCEPT !.proof = p]]
    BY <1>7 DEF AskSignature, Send
  <2>2. opener'[o].pc = "login"
    BY <1>0, <2>1 DEF OpenerRecords, OpenerFields
  <2>. QED  BY <1>7, <2>2 DEF AskSignature, RollbackInv
<1>. QED  BY <1>2, <1>3, <1>4, <1>5, <1>6, <1>7

\* For any number of requests, pushes and restores: no proof is admitted twice
\* or for a revoked device, and sessions that open one after another never go
\* back to an older configuration.
THEOREM NeverBack ==
  ASSUME NEW o, Openers = {o} PROVE DeviceSpec => NothingOld
<1>1. DeviceInit => RollbackInv(o)
  BY DEF DeviceInit, RollbackInv, NoCache, FreshOpener
<1>2. DeviceInv /\ RollbackInv(o) /\ [DeviceNext]_deviceAll => RollbackInv(o)'
  <2>. SUFFICES ASSUME DeviceInv, RollbackInv(o), [DeviceNext]_deviceAll PROVE RollbackInv(o)'
    OBVIOUS
  <2>1. CASE UNCHANGED deviceVars
    BY <2>1 DEF deviceVars, RollbackInv
  <2>2. ASSUME NEW h \in Handlers,
               \/ VerifyProof(h) \/ Consume(h) \/ ConsumeRefuses(h)
               \/ ServeBundle(h) \/ CheckSign(h) \/ LogAndSign(h)
        PROVE  UNCHANGED deviceVars
    BY <2>2 DEF VerifyProof, Consume, ConsumeRefuses, ServeBundle, CheckSign, LogAndSign
  <2>3. Administer \/ TickClock \/ UNCHANGED deviceAll => UNCHANGED deviceVars
    BY DEF Administer, TickClock, deviceAll
  <2>. QED  BY <2>1, <2>2, <2>3, SessionsForward DEF DeviceNext
<1>3. RollbackInv(o) => NoRollback
  BY DEF RollbackInv, NoRollback
<1>. QED  BY <1>1, <1>2, <1>3, DeviceInductive, NoReplay, PTL DEF DeviceSpec, NothingOld

-----------------------------------------------------------------------------
(* The sessions of a home.  A device is registered once and stays what it    *)
(* was registered with; what the other files of the home hold while a        *)
(* command reads them is anybody's guess, and no part of the invariant.      *)

DeviceRecords ==
  [key : DeviceKeys \cup {Absent}, token : Tokens \cup {Absent}, active : BOOLEAN]

EnrollRequests == [token : Tokens, key : DeviceKeys]

HomeRecords ==
  [dir : BOOLEAN, marker : DeviceIds \cup {Absent}, key : DeviceKeys \cup {Absent},
   cache : DeviceIds \cup {Absent}]

DeskRecords ==
  [pc : {"prompt", "post", "wait", "key", "marker", "purge"}, token : Tokens \cup {Absent},
   key : DeviceKeys \cup {Absent}, device : DeviceIds \cup {Absent}]

CommandRecords ==
  [pc : {"none", "key", "cache", "ask", "store", "run", "ended"},
   device : DeviceIds \cup {Absent}, key : DeviceKeys \cup {Absent},
   bundle : DeviceIds \cup {Absent}, caught : BOOLEAN]

\* Every variable of Enrollment has its type.
EnrollTypeOK ==
  /\ token \in [Tokens -> {"none", "good", "spent", "over"}]
  /\ device \in [DeviceIds -> DeviceRecords]
  /\ posted \subseteq EnrollRequests
  /\ reply \in [DeviceKeys -> DeviceIds \cup {Absent, "refused"}]
  /\ home \in HomeRecords
  /\ desk \in [HomeOperators -> DeskRecords]
  /\ command \in [HomeCommands -> CommandRecords]

\* A registered device spent its token, which no other did.
TokensSpent ==
  /\ \A d \in DeviceIds : Registered(d) =>
       device[d].token \in Tokens /\ token[device[d].token] = "spent"
  /\ TokensMakeOne

\* What a command may be about to work with is its own device's.
CommandOwn(m) ==
  /\ m.pc # "none" => m.device \in DeviceIds
  /\ m.pc = "ask" => m.bundle \in {Absent, m.device}
  /\ m.pc \in {"store", "run", "ended"} => m.bundle = m.device
  /\ m.caught =>
       /\ m.pc \in {"run", "ended"}
       /\ Registered(m.device) /\ ~device[m.device].active

\* An answer names the device that has the key.
AnswersOwn ==
  \A k \in DeviceKeys : reply[k] \in DeviceIds =>
    Registered(reply[k]) /\ device[reply[k]].key = k

\* So does what an operator is about to write.
DeskOwn(o) ==
  LET e == desk[o] IN
  /\ e.pc = "post" => e.token \in Tokens
  /\ e.pc \in {"wait", "key", "marker"} => e.key \in DeviceKeys
  /\ e.pc \in {"key", "marker"} =>
       e.device \in DeviceIds /\ Registered(e.device) /\ device[e.device].key = e.key

EnrollInv ==
  /\ EnrollTypeOK /\ TokensSpent /\ AnswersOwn
  /\ \A o \in HomeOperators : DeskOwn(o)
  /\ \A c \in HomeCommands : CommandOwn(command[c])

\* What a step of the control plane leaves of the devices there are.
DevicesKept ==
  \A d \in DeviceIds : Registered(d) =>
    /\ Registered(d)' /\ device'[d].key = device[d].key
    /\ ~device[d].active => ~device'[d].active

LEMMA EnrollStarts == EnrollInit => EnrollInv
<1>. SUFFICES ASSUME EnrollInit PROVE EnrollInv
  OBVIOUS
<1>1. /\ Unregistered \in DeviceRecords /\ NoHome \in HomeRecords
      /\ AtPrompt \in DeskRecords /\ NoCommand \in CommandRecords
  BY DEF DeviceRecords, HomeRecords, DeskRecords, CommandRecords, Unregistered, NoHome,
         AtPrompt, NoCommand
<1>2. EnrollTypeOK
  BY <1>1 DEF EnrollInit, EnrollTypeOK
<1>3. \A d \in DeviceIds : ~Registered(d)
  BY DEF EnrollInit, Registered
<1>4. TokensSpent
  BY <1>3 DEF TokensSpent, TokensMakeOne
<1>5. ASSUME NEW c \in HomeCommands PROVE CommandOwn(command[c])
  <2>1. command[c] = NoCommand
    BY DEF EnrollInit
  <2>2. NoCommand.pc = "none" /\ NoCommand.caught = FALSE
    BY DEF NoCommand
  <2>. QED  BY <2>1, <2>2 DEF CommandOwn
<1>6. ASSUME NEW o \in HomeOperators PROVE DeskOwn(o)
  BY DEF EnrollInit, DeskOwn, AtPrompt
<1>7. AnswersOwn
  BY EnrollAssumption DEF EnrollInit, AnswersOwn
<1>. QED  BY <1>2, <1>4, <1>5, <1>6, <1>7 DEF EnrollInv

LEMMA ProcessesStayOwn ==
  ASSUME EnrollInv, UNCHANGED <<desk, command>>, DevicesKept
  PROVE  /\ \A o \in HomeOperators : DeskOwn(o)'
         /\ \A c \in HomeCommands : CommandOwn(command[c])'
<1>1. ASSUME NEW o \in HomeOperators PROVE DeskOwn(o)'
  <2>1. DeskOwn(o) /\ desk'[o] = desk[o]
    BY DEF EnrollInv
  <2>. QED  BY <2>1 DEF DeskOwn, DevicesKept
<1>2. ASSUME NEW c \in HomeCommands PROVE CommandOwn(command[c])'
  <2>1. CommandOwn(command[c]) /\ command'[c] = command[c]
    BY DEF EnrollInv
  <2>. QED  BY <2>1 DEF CommandOwn, DevicesKept
<1>. QED  BY <1>1, <1>2

\* Tokens are created and expire: not those that devices have spent.
LEMMA TokenStepsKeep ==
  ASSUME EnrollInv, NEW t \in Tokens, CreateEnrollToken(t) \/ TokenExpires(t) PROVE EnrollInv'
<1>1. /\ token' \in [Tokens -> {"none", "good", "spent", "over"}]
      /\ \A u \in Tokens : token[u] = "spent" => token'[u] = "spent"
      /\ UNCHANGED <<device, posted, reply, home, desk, command>>
  BY DEF EnrollInv, EnrollTypeOK, CreateEnrollToken, TokenExpires
<1>2. EnrollTypeOK' /\ TokensSpent'
  BY <1>1 DEF EnrollInv, EnrollTypeOK, TokensSpent, TokensMakeOne, Registered
<1>3. DevicesKept /\ AnswersOwn'
  BY <1>1 DEF EnrollInv, AnswersOwn, DevicesKept, Registered
<1>. QED  BY <1>1, <1>2, <1>3, ProcessesStayOwn DEF EnrollInv

LEMMA RedeemingKeeps ==
  ASSUME EnrollInv, NEW r \in posted, RedeemEnrollToken(r) PROVE EnrollInv'
<1>1. r \in EnrollRequests /\ r.token \in Tokens /\ r.key \in DeviceKeys
  BY DEF EnrollInv, EnrollTypeOK, EnrollRequests
<1> DEFINE new == [key |-> r.key, token |-> r.token, active |-> TRUE]
<1>2. PICK d \in DeviceIds :
        ~Registered(d) /\ device' = [device EXCEPT ![d] = new] /\ reply' = Tell(r.key, d)
  BY DEF RedeemEnrollToken
<1>3. /\ new \in DeviceRecords /\ new # Unregistered /\ new.token = r.token /\ new.key = r.key
  BY <1>1 DEF DeviceRecords, Unregistered
<1>. HIDE DEF new
<1>4. /\ device' \in [DeviceIds -> DeviceRecords] /\ device'[d] = new
      /\ \A e \in DeviceIds \ {d} : device'[e] = device[e]
  BY <1>2, <1>3 DEF EnrollInv, EnrollTypeOK
<1>5. /\ token' \in [Tokens -> {"none", "good", "spent", "over"}] /\ token[r.token] = "good"
      /\ token'[r.token] = "spent" /\ \A u \in Tokens : token[u] = "spent" => token'[u] = "spent"
  BY <1>1 DEF EnrollInv, EnrollTypeOK, RedeemEnrollToken, Spend
<1>6. reply' \in [DeviceKeys -> DeviceIds \cup {Absent, "refused"}]
  BY <1>1, <1>2 DEF EnrollInv, EnrollTypeOK, Tell
<1>7. UNCHANGED <<posted, home, desk, command>>
  BY DEF RedeemEnrollToken
<1>8. EnrollTypeOK'
  BY <1>4, <1>5, <1>6, <1>7 DEF EnrollInv, EnrollTypeOK
<1>9. \A e \in DeviceIds : Registered(e)' <=> e = d \/ Registered(e)
  BY <1>2, <1>3, <1>4 DEF Registered
<1>10. \A e \in DeviceIds : Registered(e) => e # d /\ device[e].token # r.token
  BY <1>2, <1>5 DEF EnrollInv, TokensSpent
<1>11. TokensSpent'
  <2>1. ASSUME NEW e \in DeviceIds, Registered(e)'
        PROVE  device'[e].token \in Tokens /\ token'[device'[e].token] = "spent"
    BY <1>1, <1>3, <1>4, <1>5, <1>9, <2>1 DEF EnrollInv, TokensSpent
  <2>2. ASSUME NEW e \in DeviceIds, NEW g \in DeviceIds, Registered(e)', Registered(g)', e # g
        PROVE  device'[e].token # device'[g].token
    BY <1>3, <1>4, <1>9, <1>10, <2>2 DEF EnrollInv, TokensSpent, TokensMakeOne
  <2>. QED  BY <2>1, <2>2 DEF TokensSpent, TokensMakeOne
<1>12. DevicesKept
  BY <1>2, <1>4, <1>9 DEF DevicesKept
<1>13. AnswersOwn'
  <2>. SUFFICES ASSUME NEW k \in DeviceKeys, reply'[k] \in DeviceIds
       PROVE  (Registered(reply[k]) /\ device[reply[k]].key = k)'
    BY DEF AnswersOwn
  <2>1. CASE reply'[k] = reply[k]
    <3>1. Registered(reply[k]) /\ device[reply[k]].key = k /\ reply[k] \in DeviceIds
      BY <2>1 DEF EnrollInv, AnswersOwn
    <3>2. Registered(reply[k])' /\ device'[reply[k]].key = k
      BY <2>1, <3>1, <1>12 DEF DevicesKept, Registered
    <3>. QED  BY <2>1, <3>2 DEF Registered
  <2>2. CASE k = r.key /\ reply'[k] = d
    BY <1>3, <1>4, <2>2 DEF Registered
  <2>. QED  BY <1>1, <1>2, <2>1, <2>2 DEF Tell, EnrollInv, EnrollTypeOK
<1>. QED  BY <1>7, <1>8, <1>11, <1>12, <1>13, ProcessesStayOwn DEF EnrollInv

LEMMA RefusingKeeps ==
  ASSUME EnrollInv, NEW r \in posted, RedeemRefused(r) PROVE EnrollInv'
<1>1. r \in EnrollRequests /\ r.key \in DeviceKeys
  BY DEF EnrollInv, EnrollTypeOK, EnrollRequests
<1>2. EnrollTypeOK' /\ TokensSpent'
  BY <1>1 DEF EnrollInv, EnrollTypeOK, RedeemRefused, TokensSpent, TokensMakeOne, Registered
<1>3. DevicesKept /\ AnswersOwn'
  BY <1>1, EnrollAssumption
     DEF RedeemRefused, Registered, DevicesKept, EnrollInv, EnrollTypeOK, AnswersOwn
<1>. QED  BY <1>2, <1>3, ProcessesStayOwn DEF EnrollInv, RedeemRefused

LEMMA RevokingKeeps ==
  ASSUME EnrollInv, NEW d \in DeviceIds, RevokeDevice(d) PROVE EnrollInv'
<1> DEFINE was == device[d]
           now == [was EXCEPT !.active = FALSE]
<1>1. was \in DeviceRecords /\ device' = [device EXCEPT ![d] = now] /\ was.active
  BY DEF EnrollInv, EnrollTypeOK, RevokeDevice
<1>2. Registered(d)
  BY <1>1 DEF Registered, Unregistered
<1>. HIDE DEF was
<1>3. now \in DeviceRecords /\ now.token = was.token /\ now.key = was.key /\ ~now.active
  BY <1>1 DEF DeviceRecords
<1>. HIDE DEF now
<1>4. now # Unregistered
  <2>1. was.token \in Tokens
    BY <1>2 DEF EnrollInv, TokensSpent, was
  <2>. QED  BY <1>3, <2>1, EnrollAssumption DEF Unregistered
<1>5. /\ device' \in [DeviceIds -> DeviceRecords] /\ device'[d] = now
      /\ \A e \in DeviceIds \ {d} : device'[e] = device[e]
  BY <1>1, <1>3 DEF EnrollInv, EnrollTypeOK
<1>6. \A e \in DeviceIds :
        /\ device'[e].token = device[e].token /\ device'[e].key = device[e].key
        /\ Registered(e)' <=> Registered(e)
        /\ ~device[e].active => ~device'[e].active
  BY <1>2, <1>3, <1>4, <1>5 DEF Registered, was
<1>7. UNCHANGED <<token, posted, reply, home, desk, command>>
  BY DEF RevokeDevice
<1>8. EnrollTypeOK' /\ TokensSpent'
  BY <1>5, <1>6, <1>7 DEF EnrollInv, EnrollTypeOK, TokensSpent, TokensMakeOne
<1>9. DevicesKept /\ AnswersOwn'
  BY <1>6, <1>7 DEF DevicesKept, EnrollInv, AnswersOwn
<1>. QED  BY <1>7, <1>8, <1>9, ProcessesStayOwn DEF EnrollInv


\* What an operator does leaves the control plane and the others alone.
LEMMA DeskStepKeeps ==
  ASSUME EnrollInv, NEW o \in HomeOperators, UNCHANGED <<token, device, reply, command>>,
         posted' \subseteq EnrollRequests, home' \in HomeRecords,
         desk' \in [HomeOperators -> DeskRecords],
         \A p \in HomeOperators \ {o} : desk'[p] = desk[p], DeskOwn(o)'
  PROVE  EnrollInv'
<1>1. EnrollTypeOK' /\ TokensSpent' /\ AnswersOwn'
  BY DEF EnrollInv, EnrollTypeOK, TokensSpent, TokensMakeOne, AnswersOwn, Registered
<1>2. \A c \in HomeCommands : CommandOwn(command[c])'
  BY DEF EnrollInv, CommandOwn, Registered
<1>3. \A p \in HomeOperators : DeskOwn(p)'
  BY DEF EnrollInv, DeskOwn, Registered
<1>. QED  BY <1>1, <1>2, <1>3 DEF EnrollInv

LEMMA HomeRecordsChange ==
  ASSUME EnrollInv
  PROVE  /\ \A k \in DeviceKeys \cup {Absent} :
              [home EXCEPT !.dir = TRUE, !.key = k] \in HomeRecords
         /\ \A d \in DeviceIds \cup {Absent} :
              [home EXCEPT !.marker = d] \in HomeRecords /\ [home EXCEPT !.cache = d] \in HomeRecords
         /\ \A f \in HomeFiles : [home EXCEPT ![f] = Absent] \in HomeRecords
         /\ NoHome \in HomeRecords
<1>1. home \in HomeRecords
  BY DEF EnrollInv, EnrollTypeOK
<1>2. \A f \in HomeFiles : f = "marker" \/ f = "key" \/ f = "cache"
  BY DEF HomeFiles
<1>3. /\ [home EXCEPT !["marker"] = Absent] \in HomeRecords
      /\ [home EXCEPT !["key"] = Absent] \in HomeRecords
      /\ [home EXCEPT !["cache"] = Absent] \in HomeRecords
  BY <1>1 DEF HomeRecords
<1>4. \A f \in HomeFiles : [home EXCEPT ![f] = Absent] \in HomeRecords
  BY <1>2, <1>3
<1>5. \A k \in DeviceKeys \cup {Absent} : [home EXCEPT !.dir = TRUE, !.key = k] \in HomeRecords
  BY <1>1 DEF HomeRecords
<1>6. \A d \in DeviceIds \cup {Absent} :
        [home EXCEPT !.marker = d] \in HomeRecords /\ [home EXCEPT !.cache = d] \in HomeRecords
  BY <1>1 DEF HomeRecords
<1>7. NoHome \in HomeRecords
  BY DEF NoHome, HomeRecords
<1>. QED  BY <1>4, <1>5, <1>6, <1>7

\* What an operator's record becomes.
LEMMA DeskBecomes ==
  ASSUME EnrollInv, NEW o \in HomeOperators, NEW e \in DeskRecords, desk' = [desk EXCEPT ![o] = e]
  PROVE  /\ desk' \in [HomeOperators -> DeskRecords] /\ desk'[o] = e
         /\ \A p \in HomeOperators \ {o} : desk'[p] = desk[p]
<1>. QED  BY DEF EnrollInv, EnrollTypeOK

LEMMA OperatorKeeps ==
  ASSUME EnrollInv, NEW o \in HomeOperators,
         \/ EnrollProbes(o) \/ EnrollPosts(o) \/ EnrollAnswered(o) \/ WriteDeviceKey(o)
         \/ WriteMarker(o) \/ LeaveStarts(o) \/ LeaveRemoves(o) \/ OperatorFails(o)
  PROVE  EnrollInv'
<1> DEFINE e == desk[o]
<1>1. /\ desk \in [HomeOperators -> DeskRecords] /\ e \in DeskRecords
      /\ e.token \in Tokens \cup {Absent} /\ e.key \in DeviceKeys \cup {Absent}
      /\ e.device \in DeviceIds \cup {Absent}
      /\ posted \subseteq EnrollRequests /\ home \in HomeRecords /\ DeskOwn(o)
  BY DEF EnrollInv, EnrollTypeOK, DeskRecords
<1>2. CASE EnrollProbes(o)
  <2>1. PICK t \in Tokens :
          desk' = [desk EXCEPT ![o] = [AtPrompt EXCEPT !.pc = "post", !.token = t]]
    BY <1>2 DEF EnrollProbes
  <2>2. /\ [AtPrompt EXCEPT !.pc = "post", !.token = t] \in DeskRecords
        /\ [AtPrompt EXCEPT !.pc = "post", !.token = t].pc = "post"
        /\ [AtPrompt EXCEPT !.pc = "post", !.token = t].token = t
    BY DEF AtPrompt, DeskRecords
  <2>3. DeskOwn(o)'
    BY <2>1, <2>2, DeskBecomes DEF DeskOwn
  <2>. QED  BY <1>1, <1>2, <2>1, <2>2, <2>3, DeskBecomes, DeskStepKeeps DEF EnrollProbes, planeVars
<1>3. CASE EnrollPosts(o)
  <2>1. PICK k \in DeviceKeys :
          /\ posted' = posted \cup {[token |-> e.token, key |-> k]}
          /\ desk' = [desk EXCEPT ![o] = [e EXCEPT !.pc = "wait", !.key = k]]
    BY <1>1, <1>3 DEF EnrollPosts
  <2>2. e.token \in Tokens
    BY <1>1, <1>3 DEF DeskOwn, EnrollPosts
  <2>3. posted' \subseteq EnrollRequests
    BY <1>1, <2>1, <2>2 DEF EnrollRequests
  <2>. HIDE DEF e
  <2>4. /\ [e EXCEPT !.pc = "wait", !.key = k] \in DeskRecords
        /\ [e EXCEPT !.pc = "wait", !.key = k].pc = "wait"
        /\ [e EXCEPT !.pc = "wait", !.key = k].key = k
    BY <1>1 DEF DeskRecords
  <2>5. DeskOwn(o)'
    BY <2>1, <2>4, DeskBecomes DEF DeskOwn
  <2>. QED  BY <1>1, <1>3, <2>1, <2>3, <2>4, <2>5, DeskBecomes, DeskStepKeeps
            DEF EnrollPosts, planeVars
<1>4. CASE EnrollAnswered(o)
  <2> DEFINE a == reply[e.key]
             now == [e EXCEPT !.pc = "key", !.device = a]
  <2>1. /\ a \in DeviceIds /\ desk' = [desk EXCEPT ![o] = now] /\ e.pc = "wait"
    BY <1>1, <1>4 DEF EnrollAnswered
  <2>2. Registered(a) /\ device[a].key = e.key /\ e.key \in DeviceKeys
    BY <1>1, <2>1 DEF EnrollInv, AnswersOwn, DeskOwn
  <2>. HIDE DEF e, a
  <2>3. now \in DeskRecords /\ now.pc = "key" /\ now.device = a /\ now.key = e.key
    BY <1>1, <2>1 DEF DeskRecords
  <2>. HIDE DEF now
  <2>4. DeskOwn(o)'
    BY <1>4, <2>1, <2>2, <2>3, DeskBecomes DEF DeskOwn, EnrollAnswered, planeVars, Registered
  <2>. QED  BY <1>1, <1>4, <2>1, <2>3, <2>4, DeskBecomes, DeskStepKeeps
            DEF EnrollAnswered, planeVars
<1>5. CASE WriteDeviceKey(o)
  <2> DEFINE now == [e EXCEPT !.pc = "marker"]
  <2>1. desk' = [desk EXCEPT ![o] = now] /\ e.pc = "key"
    BY <1>1, <1>5 DEF WriteDeviceKey
  <2>. HIDE DEF e
  <2>2. now \in DeskRecords /\ now.pc = "marker" /\ now.device = e.device /\ now.key = e.key
    BY <1>1 DEF DeskRecords
  <2>. HIDE DEF now
  <2>3. DeskOwn(o)'
    BY <1>1, <1>5, <2>1, <2>2, DeskBecomes
       DEF DeskOwn, WriteDeviceKey, planeVars, Registered, e
  <2>4. home' \in HomeRecords
    BY <1>1, <1>5, HomeRecordsChange DEF WriteDeviceKey, e
  <2>. QED  BY <1>1, <1>5, <2>1, <2>2, <2>3, <2>4, DeskBecomes, DeskStepKeeps
            DEF WriteDeviceKey, planeVars
<1>6. ASSUME desk' = [desk EXCEPT ![o] = AtPrompt]
      PROVE  /\ desk' \in [HomeOperators -> DeskRecords] /\ DeskOwn(o)'
             /\ \A p \in HomeOperators \ {o} : desk'[p] = desk[p]
  <2>1. AtPrompt \in DeskRecords /\ AtPrompt.pc = "prompt"
    BY DEF AtPrompt, DeskRecords
  <2>. QED  BY <1>6, <2>1, DeskBecomes DEF DeskOwn
<1>7. CASE WriteMarker(o)
  BY <1>1, <1>6, <1>7, HomeRecordsChange, DeskStepKeeps DEF WriteMarker, planeVars
<1>8. CASE LeaveStarts(o)
  <2> DEFINE now == [e EXCEPT !.pc = "purge"]
  <2>1. desk' = [desk EXCEPT ![o] = now]
    BY <1>1, <1>8 DEF LeaveStarts
  <2>. HIDE DEF e
  <2>2. now \in DeskRecords /\ now.pc = "purge"
    BY <1>1 DEF DeskRecords
  <2>. HIDE DEF now
  <2>3. DeskOwn(o)'
    BY <2>1, <2>2, DeskBecomes DEF DeskOwn
  <2>. QED  BY <1>1, <1>8, <2>1, <2>2, <2>3, DeskBecomes, HomeRecordsChange, DeskStepKeeps
            DEF LeaveStarts, LeaveFirst, planeVars
<1>9. CASE LeaveRemoves(o)
  <2>1. home' \in HomeRecords
    BY <1>9, HomeRecordsChange DEF LeaveRemoves
  <2>2. CASE UNCHANGED desk
    BY <1>1, <1>9, <2>1, <2>2, DeskStepKeeps DEF LeaveRemoves, planeVars, DeskOwn, Registered
  <2>3. CASE desk' = [desk EXCEPT ![o] = AtPrompt]
    BY <1>1, <1>6, <1>9, <2>1, <2>3, DeskStepKeeps DEF LeaveRemoves, planeVars
  <2>. QED  BY <1>9, <2>2, <2>3 DEF LeaveRemoves
<1>10. CASE OperatorFails(o)
  BY <1>1, <1>6, <1>10, DeskStepKeeps DEF OperatorFails, planeVars
<1>. QED  BY <1>2, <1>3, <1>4, <1>5, <1>7, <1>8, <1>9, <1>10


\* What a command does leaves everything but itself and the home alone.
LEMMA CommandBecomes ==
  ASSUME EnrollInv, NEW c \in HomeCommands, UNCHANGED <<token, device, reply, posted, desk>>,
         home' \in HomeRecords, NEW m \in CommandRecords, command' = [command EXCEPT ![c] = m],
         CommandOwn(m)
  PROVE  EnrollInv'
<1>1. EnrollTypeOK' /\ TokensSpent' /\ AnswersOwn'
  BY DEF EnrollInv, EnrollTypeOK, TokensSpent, TokensMakeOne, AnswersOwn, Registered
<1>2. ASSUME NEW b \in HomeCommands PROVE CommandOwn(command[b])'
  <2>1. command'[b] = IF b = c THEN m ELSE command[b]
    BY DEF EnrollInv, EnrollTypeOK
  <2>2. CommandOwn(command[b])
    BY DEF EnrollInv
  <2>. QED  BY <2>1, <2>2 DEF CommandOwn, Registered
<1>3. \A o \in HomeOperators : DeskOwn(o)'
  BY DEF EnrollInv, DeskOwn, Registered
<1>. QED  BY <1>1, <1>2, <1>3 DEF EnrollInv

\* A command that fails is none.
LEMMA FailingKeeps ==
  ASSUME EnrollInv, NEW c \in HomeCommands, UNCHANGED <<token, device, reply, posted, desk>>,
         home' \in HomeRecords, Fails(c)
  PROVE  EnrollInv'
<1>1. NoCommand \in CommandRecords /\ NoCommand.pc = "none" /\ NoCommand.caught = FALSE
  BY DEF NoCommand, CommandRecords
<1>2. CommandOwn(NoCommand)
  BY <1>1 DEF CommandOwn
<1>. QED  BY <1>1, <1>2, CommandBecomes DEF Fails

\* One that runs has the bundle of its device.
LEMMA RunningKeeps ==
  ASSUME EnrollInv, NEW c \in HomeCommands, UNCHANGED <<token, device, reply, posted, desk>>,
         home' \in HomeRecords, command[c].pc \in {"cache", "ask", "store"},
         NEW bundle, bundle = command[c].device, Runs(c, bundle)
  PROVE  EnrollInv'
<1> DEFINE m == command[c]
           now == [m EXCEPT !.pc = "run", !.bundle = bundle]
<1>1. m \in CommandRecords /\ CommandOwn(m) /\ command' = [command EXCEPT ![c] = now]
  BY DEF EnrollInv, EnrollTypeOK, Runs
<1>2. m.pc \in {"cache", "ask", "store"} /\ bundle = m.device
  OBVIOUS
<1>. HIDE DEF m
<1>3. /\ now \in CommandRecords /\ now.pc = "run" /\ now.bundle = bundle /\ now.device = m.device
      /\ now.caught = m.caught
  BY <1>1, <1>2 DEF CommandRecords
<1>. HIDE DEF now
<1>4. CommandOwn(now)
  BY <1>1, <1>2, <1>3 DEF CommandOwn
<1>. QED  BY <1>1, <1>3, <1>4, CommandBecomes

LEMMA CommandKeeps ==
  ASSUME EnrollInv, NEW c \in HomeCommands,
         \/ LoadState(c) \/ LoadKey(c) \/ OpenHome(c) \/ BundleServed(c) \/ PlaneUnreachable(c)
         \/ StoreBundle(c) \/ CommandFails(c) \/ GuardCancels(c) \/ GuardedEnds(c)
  PROVE  EnrollInv'
<1> DEFINE m == command[c]
<1>1. /\ m \in CommandRecords /\ CommandOwn(m) /\ home \in HomeRecords
      /\ command \in [HomeCommands -> CommandRecords]
  BY DEF EnrollInv, EnrollTypeOK
<1>2. home.marker \in DeviceIds \cup {Absent} /\ home.key \in DeviceKeys \cup {Absent}
  BY <1>1 DEF HomeRecords
<1>3. CASE LoadState(c)
  <2> DEFINE now == [m EXCEPT !.pc = "key", !.device = home.marker]
  <2>1. /\ command' = [command EXCEPT ![c] = now] /\ m.pc = "none" /\ home.marker \in DeviceIds
        /\ UNCHANGED <<token, device, reply, posted, desk, home>>
    BY <1>1, <1>2, <1>3 DEF LoadState, planeVars
  <2>. HIDE DEF m
  <2>2. /\ now \in CommandRecords /\ now.pc = "key" /\ now.device = home.marker
        /\ now.caught = m.caught
    BY <1>1, <2>1 DEF CommandRecords
  <2>. HIDE DEF now
  <2>3. CommandOwn(now)
    BY <1>1, <2>1, <2>2 DEF CommandOwn
  <2>. QED  BY <1>1, <2>1, <2>2, <2>3, CommandBecomes
<1>4. CASE LoadKey(c)
  <2> DEFINE now == [m EXCEPT !.pc = "cache", !.key = home.key]
  <2>1. CASE Fails(c)
    BY <1>1, <1>4, <2>1, FailingKeeps DEF LoadKey, planeVars
  <2>2. CASE command' = [command EXCEPT ![c] = now]
    <3>1. m.pc = "key" /\ UNCHANGED <<token, device, reply, posted, desk, home>>
      BY <1>4 DEF LoadKey, planeVars
    <3>. HIDE DEF m
    <3>2. /\ now \in CommandRecords /\ now.pc = "cache" /\ now.device = m.device
          /\ now.caught = m.caught
      BY <1>1, <1>2 DEF CommandRecords
    <3>. HIDE DEF now
    <3>3. CommandOwn(now)
      BY <1>1, <3>1, <3>2 DEF CommandOwn
    <3>. QED  BY <1>1, <2>2, <3>1, <3>2, <3>3, CommandBecomes
  <2>. QED  BY <1>1, <1>4, <2>1, <2>2 DEF LoadKey
<1>5. CASE OpenHome(c)
  <2>1. /\ m.pc = "cache" /\ UNCHANGED <<token, device, reply, posted, desk, home>>
    BY <1>5 DEF OpenHome, planeVars
  <2>2. CASE CacheServes(c) /\ Runs(c, home.cache)
    BY <1>1, <2>1, <2>2, RunningKeeps DEF CacheServes
  <2> DEFINE bundle == IF CacheServes(c) THEN home.cache ELSE Absent
             now == [m EXCEPT !.pc = "ask", !.bundle = bundle]
  <2>3. CASE command' = [command EXCEPT ![c] = now]
    <3>1. bundle \in {Absent, m.device} /\ m.device \in DeviceIds \cup {Absent}
      BY <1>1 DEF CacheServes, CommandRecords
    <3>. HIDE DEF m, bundle
    <3>2. /\ now \in CommandRecords /\ now.pc = "ask" /\ now.device = m.device
          /\ now.bundle = bundle /\ now.caught = m.caught
      BY <1>1, <3>1 DEF CommandRecords
    <3>. HIDE DEF now
    <3>3. CommandOwn(now)
      BY <1>1, <2>1, <3>1, <3>2 DEF CommandOwn
    <3>. QED  BY <1>1, <2>1, <2>3, <3>2, <3>3, CommandBecomes
  <2>. QED  BY <1>1, <1>5, <2>2, <2>3 DEF OpenHome
<1>6. CASE BundleServed(c)
  <2>1. m.pc = "ask" /\ UNCHANGED <<token, device, reply, posted, desk, home>>
    BY <1>6 DEF BundleServed, planeVars
  <2>2. CASE Fails(c)
    BY <1>1, <2>1, <2>2, FailingKeeps
  <2> DEFINE now == [m EXCEPT !.pc = "store", !.bundle = m.device]
  <2>3. CASE command' = [command EXCEPT ![c] = now]
    <3>. HIDE DEF m
    <3>1. /\ now \in CommandRecords /\ now.pc = "store" /\ now.device = m.device
          /\ now.bundle = m.device /\ now.caught = m.caught
      BY <1>1 DEF CommandRecords
    <3>. HIDE DEF now
    <3>2. CommandOwn(now)
      BY <1>1, <2>1, <3>1 DEF CommandOwn
    <3>. QED  BY <1>1, <2>1, <2>3, <3>1, <3>2, CommandBecomes
  <2>. QED  BY <1>1, <1>6, <2>2, <2>3 DEF BundleServed
<1>7. CASE PlaneUnreachable(c)
  <2>1. m.bundle = m.device /\ m.pc = "ask"
    BY <1>1, <1>7 DEF PlaneUnreachable, CommandOwn
  <2>. QED  BY <1>1, <1>7, <2>1, RunningKeeps DEF PlaneUnreachable, planeVars
<1>8. CASE StoreBundle(c)
  <2>1. m.bundle = m.device /\ m.pc = "store" /\ m.bundle \in DeviceIds
    BY <1>1, <1>8 DEF StoreBundle, CommandOwn
  <2>2. home' \in HomeRecords
    BY <1>1, <1>8, <2>1, HomeRecordsChange DEF StoreBundle
  <2>3. CASE Fails(c)
    BY <1>8, <2>2, <2>3, FailingKeeps DEF StoreBundle, planeVars
  <2>4. CASE Runs(c, m.bundle)
    BY <1>8, <2>1, <2>2, <2>4, RunningKeeps DEF StoreBundle, planeVars
  <2>. QED  BY <1>8, <2>3, <2>4 DEF StoreBundle
<1>9. CASE CommandFails(c)
  BY <1>1, <1>9, FailingKeeps DEF CommandFails, planeVars
<1>10. CASE GuardCancels(c)
  <2> DEFINE now == [m EXCEPT !.caught = TRUE]
  <2>1. /\ command' = [command EXCEPT ![c] = now] /\ m.pc \in {"run", "ended"}
        /\ Registered(m.device) /\ ~device[m.device].active
        /\ UNCHANGED <<token, device, reply, posted, desk, home>>
    BY <1>1, <1>10 DEF GuardCancels, Revoked, Authentic, planeVars
  <2>. HIDE DEF m
  <2>2. /\ now \in CommandRecords /\ now.pc = m.pc /\ now.device = m.device
        /\ now.bundle = m.bundle
    BY <1>1 DEF CommandRecords
  <2>. HIDE DEF now
  <2>3. CommandOwn(now)
    BY <1>1, <2>1, <2>2 DEF CommandOwn
  <2>. QED  BY <1>1, <2>1, <2>2, <2>3, CommandBecomes
<1>11. CASE GuardedEnds(c)
  <2> DEFINE now == [m EXCEPT !.pc = "ended"]
  <2>1. UNCHANGED <<token, device, reply, posted, desk, home>>
    BY <1>11 DEF GuardedEnds, planeVars
  <2>2. CASE Fails(c)
    BY <1>1, <2>1, <2>2, FailingKeeps
  <2>3. CASE m.pc = "run" /\ command' = [command EXCEPT ![c] = now]
    <3>1. m.pc = "run"
      BY <2>3
    <3>. HIDE DEF m
    <3>2. /\ now \in CommandRecords /\ now.pc = "ended" /\ now.device = m.device
          /\ now.bundle = m.bundle /\ now.caught = m.caught
      BY <1>1 DEF CommandRecords
    <3>. HIDE DEF now
    <3>3. CommandOwn(now)
      BY <1>1, <3>1, <3>2 DEF CommandOwn
    <3>. QED  BY <1>1, <2>1, <2>3, <3>2, <3>3, CommandBecomes
  <2>. QED  BY <1>1, <1>11, <2>2, <2>3 DEF GuardedEnds, Fails
<1>. QED  BY <1>3, <1>4, <1>5, <1>6, <1>7, <1>8, <1>9, <1>10, <1>11

LEMMA EnrollKept == EnrollInv /\ [EnrollNext]_enrollVars => EnrollInv'
<1>. SUFFICES ASSUME EnrollInv, [EnrollNext]_enrollVars PROVE EnrollInv'
  OBVIOUS
<1>1. CASE EnrollNext
  BY <1>1, TokenStepsKeep, RedeemingKeeps, RefusingKeeps, RevokingKeeps, OperatorKeeps, CommandKeeps
     DEF EnrollNext
<1>2. CASE UNCHANGED enrollVars
  BY <1>2 DEF enrollVars, planeVars, EnrollInv, EnrollTypeOK, TokensSpent, TokensMakeOne,
              AnswersOwn, DeskOwn, CommandOwn, Registered
<1>. QED  BY <1>1, <1>2

\* What every state of a home, its operators, its commands and its control
\* plane satisfies (enrollment_store.go, enroll.go, session.go, guard.go).
THEOREM EnrollInductive == EnrollSpec => []EnrollInv
<1>. QED  BY EnrollStarts, EnrollKept, PTL DEF EnrollSpec

\* Every variable of Enrollment has its type.
THEOREM EnrollTypeCorrect == EnrollSpec => []EnrollTypeOK
<1>1. EnrollInv => EnrollTypeOK
  BY DEF EnrollInv
<1>. QED  BY <1>1, EnrollInductive, PTL

\* For any number of tokens, devices, operators and repeated requests: a token
\* makes one device.
THEOREM OneDevicePerToken == EnrollSpec => []TokensMakeOne
<1>1. EnrollInv => TokensMakeOne
  BY DEF EnrollInv, TokensSpent
<1>. QED  BY <1>1, EnrollInductive, PTL

\* For any number of operators and commands of a home: a session works with
\* its own device's configuration, and only a revoked device stops a command.
THEOREM SessionsStayOwn == EnrollSpec => []SessionsOwn
<1>1. EnrollInv => SessionsOwn
  BY DEF EnrollInv, CommandOwn, SessionsOwn
<1>. QED  BY <1>1, EnrollInductive, PTL

-----------------------------------------------------------------------------
(* With one operator at a time the files of the home fit each other, though *)
(* enroll and leave may die between any two of them.                        *)

\* From the first write of enroll to its last, and from the first of leave,
\* the home is no device; the marker is written next to its device's key.
HomeInv(o) ==
  /\ desk[o].pc # "prompt" => home.marker = Absent
  /\ desk[o].pc = "marker" => home.key = desk[o].key
  /\ EnrolledWhole

LEMMA PlaneKeepsDevices ==
  ASSUME EnrollInv, UNCHANGED device
                    \/ (\E r \in posted : RedeemEnrollToken(r))
                    \/ (\E d \in DeviceIds : RevokeDevice(d))
  PROVE  DevicesKept
<1>1. CASE UNCHANGED device
  BY <1>1 DEF DevicesKept, Registered
<1>2. ASSUME NEW r \in posted, RedeemEnrollToken(r) PROVE DevicesKept
  <2>1. PICK d \in DeviceIds : ~Registered(d) /\ \A e \in DeviceIds \ {d} : device'[e] = device[e]
    BY <1>2 DEF RedeemEnrollToken, EnrollInv, EnrollTypeOK
  <2>. QED  BY <2>1 DEF DevicesKept, Registered
<1>3. ASSUME NEW d \in DeviceIds, RevokeDevice(d) PROVE DevicesKept
  <2> DEFINE was == device[d]
             now == [was EXCEPT !.active = FALSE]
  <2>1. was \in DeviceRecords /\ device' = [device EXCEPT ![d] = now]
    BY <1>3 DEF EnrollInv, EnrollTypeOK, RevokeDevice
  <2>. HIDE DEF was
  <2>2. now.token = was.token /\ now.key = was.key /\ ~now.active
    BY <2>1 DEF DeviceRecords
  <2>. HIDE DEF now
  <2>3. device'[d] = now /\ \A e \in DeviceIds \ {d} : device'[e] = device[e]
    BY <2>1 DEF EnrollInv, EnrollTypeOK
  <2>4. Registered(d) => Registered(d)'
    BY <2>2, <2>3, EnrollAssumption DEF Registered, Unregistered, EnrollInv, TokensSpent, was
  <2>. QED  BY <2>2, <2>3, <2>4 DEF DevicesKept, Registered, was
<1>. QED  BY <1>1, <1>2, <1>3

\* A step that leaves the marker, the key and the operator alone.
LEMMA HomeStays ==
  ASSUME EnrollInv, NEW o \in HomeOperators, HomeInv(o), DevicesKept, UNCHANGED desk,
         home'.marker = home.marker, home'.key = home.key
  PROVE  HomeInv(o)'
<1>1. home.marker # Absent => home.marker \in DeviceIds
  BY DEF EnrollInv, EnrollTypeOK, HomeRecords
<1>2. EnrolledWhole'
  BY <1>1 DEF HomeInv, EnrolledWhole, DevicesKept, Registered
<1>. QED  BY <1>2 DEF HomeInv

LEMMA HomeByOperator ==
  ASSUME EnrollInv, NEW o \in HomeOperators, HomeInv(o),
         \/ EnrollProbes(o) \/ EnrollPosts(o) \/ EnrollAnswered(o) \/ WriteDeviceKey(o)
         \/ WriteMarker(o) \/ LeaveStarts(o) \/ LeaveRemoves(o) \/ OperatorFails(o)
  PROVE  HomeInv(o)'
<1>1. /\ desk \in [HomeOperators -> DeskRecords] /\ desk[o] \in DeskRecords
      /\ home \in HomeRecords /\ DeskOwn(o)
  BY DEF EnrollInv, EnrollTypeOK
<1>2. UNCHANGED device
  BY DEF EnrollProbes, EnrollPosts, EnrollAnswered, WriteDeviceKey, WriteMarker, LeaveStarts,
         LeaveRemoves, OperatorFails, planeVars
<1>3. CASE EnrollProbes(o) \/ EnrollPosts(o) \/ EnrollAnswered(o)
  <2>1. home.marker = Absent /\ UNCHANGED home /\ desk'[o].pc \in {"post", "wait", "key"}
    <3>1. CASE EnrollProbes(o)
      <4>1. PICK t \in Tokens :
              desk' = [desk EXCEPT ![o] = [AtPrompt EXCEPT !.pc = "post", !.token = t]]
        BY <3>1 DEF EnrollProbes
      <4>2. [AtPrompt EXCEPT !.pc = "post", !.token = t].pc = "post"
        BY DEF AtPrompt
      <4>3. home.marker = Absent /\ UNCHANGED home
        BY <3>1 DEF EnrollProbes
      <4>. QED  BY <1>1, <4>1, <4>2, <4>3
    <3>2. CASE EnrollPosts(o) \/ EnrollAnswered(o)
      <4>1. home.marker = Absent /\ UNCHANGED home
        BY <3>2 DEF EnrollPosts, EnrollAnswered, HomeInv
      <4>2. EnrollPosts(o) => desk'[o].pc = "wait"
        <5>. SUFFICES ASSUME NEW k, desk' = [desk EXCEPT ![o].pc = "wait", ![o].key = k]
                      PROVE  desk'[o].pc = "wait"
          BY DEF EnrollPosts
        <5>1. desk'[o] = [desk[o] EXCEPT !.pc = "wait", !.key = k]
          BY <1>1
        <5>. QED  BY <1>1, <5>1 DEF DeskRecords
      <4>3. EnrollAnswered(o) => desk'[o].pc = "key"
        BY <1>1 DEF EnrollAnswered, DeskRecords
      <4>. QED  BY <3>2, <4>1, <4>2, <4>3
    <3>. QED  BY <1>3, <3>1, <3>2
  <2>. QED  BY <2>1 DEF HomeInv, EnrolledWhole
<1>4. CASE WriteDeviceKey(o)
  <2>1. home.marker = Absent /\ desk[o].pc = "key"
    BY <1>4 DEF WriteDeviceKey, HomeInv
  <2>2. home'.marker = Absent /\ home'.key = desk[o].key /\ desk'[o].key = desk[o].key
    BY <1>1, <1>4, <2>1 DEF WriteDeviceKey, HomeRecords, DeskRecords
  <2>. QED  BY <2>2 DEF HomeInv, EnrolledWhole
<1>5. CASE WriteMarker(o)
  <2>1. /\ home.key = desk[o].key /\ desk[o].device \in DeviceIds
        /\ Registered(desk[o].device) /\ device[desk[o].device].key = desk[o].key
    BY <1>1, <1>5 DEF WriteMarker, HomeInv, DeskOwn
  <2>2. home'.marker = desk[o].device /\ home'.key = home.key /\ desk'[o] = AtPrompt
    BY <1>1, <1>5 DEF WriteMarker, HomeRecords
  <2>3. AtPrompt.pc = "prompt"
    BY DEF AtPrompt
  <2>4. EnrolledWhole'
    BY <1>2, <2>1, <2>2 DEF EnrolledWhole, Registered
  <2>. QED  BY <2>2, <2>3, <2>4 DEF HomeInv
<1>6. CASE LeaveStarts(o)
  <2>1. home'.marker = Absent /\ desk'[o].pc = "purge"
    BY <1>1, <1>6 DEF LeaveStarts, LeaveFirst, HomeRecords, DeskRecords
  <2>. QED  BY <2>1 DEF HomeInv, EnrolledWhole
<1>7. CASE LeaveRemoves(o)
  <2>1. home.marker = Absent /\ desk[o].pc = "purge"
    BY <1>7 DEF LeaveRemoves, HomeInv
  <2>2. home'.marker = Absent
    <3>1. CASE home' = NoHome
      BY <3>1 DEF NoHome
    <3>2. ASSUME NEW f \in HomeFiles, home' = [home EXCEPT ![f] = Absent] PROVE home'.marker = Absent
      BY <1>1, <2>1, <3>2 DEF HomeFiles, HomeRecords
    <3>. QED  BY <1>7, <3>1, <3>2 DEF LeaveRemoves
  <2>3. desk'[o].pc \in {"prompt", "purge"}
    BY <1>1, <1>7, <2>1 DEF LeaveRemoves, AtPrompt
  <2>. QED  BY <2>2, <2>3 DEF HomeInv, EnrolledWhole
<1>8. CASE OperatorFails(o)
  <2>1. home.marker = Absent /\ UNCHANGED home /\ desk'[o].pc = "prompt"
    BY <1>1, <1>8 DEF OperatorFails, HomeInv, AtPrompt
  <2>. QED  BY <2>1 DEF HomeInv, EnrolledWhole
<1>. QED  BY <1>3, <1>4, <1>5, <1>6, <1>7, <1>8

LEMMA HomeKept ==
  ASSUME NEW o, HomeOperators = {o}, EnrollInv, HomeInv(o), [EnrollNext]_enrollVars
  PROVE  HomeInv(o)'
<1>1. ASSUME \/ \E t \in Tokens : CreateEnrollToken(t) \/ TokenExpires(t)
             \/ \E r \in posted : RedeemEnrollToken(r) \/ RedeemRefused(r)
             \/ \E d \in DeviceIds : RevokeDevice(d)
      PROVE  HomeInv(o)'
  <2>1. DevicesKept
    BY <1>1, PlaneKeepsDevices DEF CreateEnrollToken, TokenExpires, RedeemRefused
  <2>2. UNCHANGED <<home, desk>>
    BY <1>1 DEF CreateEnrollToken, TokenExpires, RedeemRefused, RedeemEnrollToken, RevokeDevice
  <2>. QED  BY <2>1, <2>2, HomeStays
<1>2. ASSUME NEW c \in HomeCommands,
             \/ LoadState(c) \/ LoadKey(c) \/ OpenHome(c) \/ BundleServed(c) \/ PlaneUnreachable(c)
             \/ StoreBundle(c) \/ CommandFails(c) \/ GuardCancels(c) \/ GuardedEnds(c)
      PROVE  HomeInv(o)'
  <2>1. UNCHANGED <<device, desk>>
    BY <1>2 DEF LoadState, LoadKey, OpenHome, BundleServed, PlaneUnreachable, StoreBundle,
                CommandFails, GuardCancels, GuardedEnds, planeVars
  <2>2. CASE UNCHANGED home
    BY <2>1, <2>2, PlaneKeepsDevices, HomeStays
  <2>3. CASE StoreBundle(c)
    <3>1. home'.marker = home.marker /\ home'.key = home.key
      BY <2>3 DEF StoreBundle, EnrollInv, EnrollTypeOK, HomeRecords
    <3>. QED  BY <2>1, <3>1, PlaneKeepsDevices, HomeStays
  <2>. QED  BY <1>2, <2>2, <2>3 DEF LoadState, LoadKey, OpenHome, BundleServed, PlaneUnreachable,
                CommandFails, GuardCancels, GuardedEnds
<1>3. CASE UNCHANGED enrollVars
  BY <1>3, PlaneKeepsDevices, HomeStays DEF enrollVars, planeVars
<1>. QED  BY <1>1, <1>2, <1>3, HomeByOperator DEF EnrollNext

\* For any number of tokens, devices and commands of a home at which one
\* operator types: the home that says it is a device holds its key, and is one
\* device.
THEOREM EnrollmentWhole ==
  ASSUME NEW o, HomeOperators = {o} PROVE EnrollSpec => []HomeIsOneDevice
<1>1. EnrollInit => HomeInv(o)
  BY DEF EnrollInit, HomeInv, EnrolledWhole, NoHome, AtPrompt
<1>2. EnrollInv /\ HomeInv(o) /\ [EnrollNext]_enrollVars => HomeInv(o)'
  BY HomeKept
<1>3. HomeInv(o) => EnrolledWhole
  BY DEF HomeInv
<1>. QED  BY <1>1, <1>2, <1>3, EnrollInductive, OneDevicePerToken, SessionsStayOwn, PTL
          DEF EnrollSpec, HomeIsOneDevice

-----------------------------------------------------------------------------
(* One call and its run.  The call sends its last request a patience window *)
(* after its first attempt, and that request is good for a proof's life; an *)
(* ID is claimed for longer.                                                *)

RequestRecords == [state : {"unsent", "flying", "joined", "refused"}, expires : Nat]

CallPlaces ==
  {"start", "starting", "reading", "attaching", "broken", "result", "refused", "lost",
   "cancelling", "cancelled", "unsure"}

CallRecords ==
  [pc : CallPlaces, attempt : 0..MaxAttempts, started : BOOLEAN, offset : Nat, mark : Nat,
   deadline : Nat \cup {-1}, since : Nat, delivered : Seq(Nat \X Nat)]

\* Every variable of ExecClient has its type.
CallTypeOK ==
  /\ claim \in [{RunID} -> {"free", "running", "over", "refused"}]
  /\ startedAt \in [{RunID} -> Nat] /\ refusedAt \in [{RunID} -> Nat]
  /\ hour \in Nat \ {0} /\ runStarts \in Nat /\ stopping \in BOOLEAN /\ spooled \in Nat
  /\ kept \in BOOLEAN /\ request \in [Attempts -> RequestRecords]
  /\ cancel \in {"unsent", "flying", "done", "failed"} /\ call \in CallRecords

\* The last hour at which a request to start is sent.
LastSend == 1 + AttemptTime + ReattachTimeout

\* What a call m that has seen no run frame yet may still do, at hour h.
Timely(m, h) ==
  /\ m.pc \in {"start", "starting"} => ~m.started
  /\ m.pc \in {"reading", "attaching"} => m.started
  /\ ~m.started =>
       /\ m.offset = 0 /\ m.mark = 0 /\ m.deadline <= LastSend
       /\ m.pc = "start" => h <= LastSend /\ (m.deadline = -1 => h = 1)
       /\ m.pc = "starting" => h <= m.since + AttemptTime /\ (m.deadline = -1 => m.since = 1)
       /\ m.pc = "broken" => m.deadline # -1

RequestsTimely ==
  \A n \in Attempts : request[n].state = "flying" =>
    request[n].expires <= LastSend + ProofLifetime /\ request[n].expires <= hour + ProofLifetime

\* The run, once started, keeps its claim as long as a request may arrive.
RunRemembered ==
  /\ runStarts <= 1
  /\ runStarts = 1 <=> startedAt[RunID] # 0
  /\ Claimed \in {"running", "over"} => runStarts = 1
  /\ spooled # 0 => runStarts = 1
  /\ Claimed = "refused" => cancel = "done"

\* A cancel that arrived has stopped the run or outlives the requests.
CancelRemembered ==
  /\ cancel # "unsent" => call.pc \in {"cancelling", "cancelled", "unsure"}
  /\ call.pc = "cancelled" => cancel = "done"
  /\ cancel = "done" =>
       /\ Claimed # "running" \/ stopping
       /\ \/ runStarts = 1
          \/ /\ refusedAt[RunID] # 0
             /\ \A n \in Attempts : request[n].state = "flying" =>
                  request[n].expires <= refusedAt[RunID] + ProofLifetime

\* What was delivered is the first part of the one run's frames.
Delivered(m) ==
  /\ m.delivered = [i \in 1..m.offset |-> <<1, i>>]
  /\ m.pc = "result" => m.offset = Frames

CallInv ==
  /\ CallTypeOK /\ Timely(call, hour) /\ RequestsTimely
  /\ RunRemembered /\ CancelRemembered /\ Delivered(call)

LEMMA CallStarts == ExecInit => CallInv
<1>. SUFFICES ASSUME ExecInit PROVE CallInv
  OBVIOUS
<1>1. /\ claim = [k \in {RunID} |-> "free"] /\ startedAt = [k \in {RunID} |-> 0]
      /\ refusedAt = [k \in {RunID} |-> 0] /\ hour = 1
  BY DEF ExecInit, Claims!Init
<1> DEFINE m == [pc |-> "start", attempt |-> 0, started |-> FALSE, offset |-> 0,
                 mark |-> 0, deadline |-> -1, since |-> 0, delivered |-> <<>>]
<1>2. call = m /\ m \in CallRecords
  <2>1. <<>> \in Seq(Nat \X Nat) /\ 0 \in 0..MaxAttempts
    BY CallAssumption
  <2>2. m \in CallRecords
    BY <2>1 DEF CallRecords, CallPlaces
  <2>. QED  BY <2>2 DEF ExecInit
<1>3. Unsent \in RequestRecords
  BY DEF Unsent, RequestRecords
<1> HIDE DEF m
<1>4. CallTypeOK
  <2>1. /\ runStarts = 0 /\ stopping = FALSE /\ spooled = 0 /\ kept = TRUE /\ cancel = "unsent"
        /\ request = [n \in Attempts |-> Unsent]
    BY DEF ExecInit
  <2>2. request \in [Attempts -> RequestRecords]
    BY <1>3, <2>1
  <2>3. stopping \in BOOLEAN /\ kept \in BOOLEAN
    BY <2>1
  <2>4. /\ claim \in [{RunID} -> {"free", "running", "over", "refused"}]
        /\ startedAt \in [{RunID} -> Nat] /\ refusedAt \in [{RunID} -> Nat]
    BY <1>1
  <2>. QED  BY <1>1, <1>2, <2>1, <2>2, <2>3, <2>4 DEF CallTypeOK
<1>5. Timely(m, 1) /\ Delivered(m)
  BY CallAssumption DEF Timely, Delivered, LastSend, m
<1>6. RequestsTimely /\ RunRemembered /\ CancelRemembered
  BY <1>1, <1>2 DEF ExecInit, RequestsTimely, Unsent, RunRemembered, Claimed, CancelRemembered
<1>. QED  BY <1>1, <1>2, <1>4, <1>5, <1>6 DEF CallInv

\* While a request can arrive, a run that was started is not started again,
\* nor one that was refused.
LEMMA StartsOnce ==
  ASSUME CallInv, NEW n \in Attempts, request[n].state = "flying", hour < request[n].expires,
         StartRun
  PROVE  runStarts = 0 /\ cancel # "done"
<1>1. /\ startedAt[RunID] \in Nat /\ refusedAt[RunID] \in Nat /\ hour \in Nat
      /\ request[n].expires \in Nat
  BY DEF CallInv, CallTypeOK, RequestRecords
<1>2. /\ startedAt[RunID] = 0 \/ hour > startedAt[RunID] + StartWindow
      /\ refusedAt[RunID] = 0 \/ hour > refusedAt[RunID] + RefusalWindow
  BY DEF StartRun, Claims!Start, Claims!Forgotten
<1>3. request[n].expires <= LastSend + ProofLifetime
  BY DEF CallInv, RequestsTimely
<1>4. startedAt[RunID] = 0
  BY <1>1, <1>2, <1>3, CallAssumption DEF LastSend
<1>5. runStarts = 0
  BY <1>4 DEF CallInv, CallTypeOK, RunRemembered
<1>6. ASSUME cancel = "done" PROVE FALSE
  <2>1. refusedAt[RunID] # 0 /\ request[n].expires <= refusedAt[RunID] + ProofLifetime
    BY <1>5, <1>6 DEF CallInv, CancelRemembered
  <2>. QED  BY <1>1, <1>2, <2>1, CallAssumption
<1>. QED  BY <1>5, <1>6

LEMMA RequestKeeps ==
  ASSUME CallInv, NEW n \in Attempts, RequestArrives(n) PROVE CallInv'
<1>1. /\ request[n].state = "flying" /\ hour < request[n].expires
      /\ UNCHANGED <<cancel, call, hour, refusedAt>>
      /\ \E to \in {"joined", "refused"} : request' = [request EXCEPT ![n].state = to]
  BY DEF RequestArrives, StartRun, gateVars
<1>2. /\ request' \in [Attempts -> RequestRecords]
      /\ \A i \in Attempts : request'[i].state = "flying" =>
           request[i].state = "flying" /\ request'[i].expires = request[i].expires
  BY <1>1 DEF CallInv, CallTypeOK, RequestRecords
<1>3. RequestsTimely' /\ Timely(call, hour)' /\ Delivered(call)'
  BY <1>1, <1>2 DEF CallInv, RequestsTimely, Timely, Delivered
<1>4. CASE UNCHANGED <<gateVars, runVars>>
  <2>1. CallTypeOK' /\ RunRemembered'
    BY <1>1, <1>2, <1>4 DEF CallInv, CallTypeOK, RunRemembered, gateVars, runVars, Claimed
  <2>2. CancelRemembered'
    BY <1>1, <1>2, <1>4 DEF CallInv, CancelRemembered, gateVars, runVars, Claimed
  <2>. QED  BY <1>3, <2>1, <2>2 DEF CallInv
<1>5. CASE StartRun
  <2>1. runStarts = 0 /\ cancel # "done"
    BY <1>1, <1>5, StartsOnce
  <2>2. /\ claim' = [claim EXCEPT ![RunID] = "running"]
        /\ startedAt' = [startedAt EXCEPT ![RunID] = hour]
        /\ runStarts' = 1 /\ spooled' = 0 /\ kept' = TRUE /\ stopping' = FALSE
    BY <1>5, <2>1 DEF StartRun, ClaimTo
  <2>3. CallTypeOK'
    BY <1>1, <1>2, <2>2 DEF CallInv, CallTypeOK
  <2>4. RunRemembered'
    BY <1>1, <2>2 DEF CallInv, CallTypeOK, RunRemembered, Claimed
  <2>5. CancelRemembered'
    BY <1>1, <2>1 DEF CallInv, CancelRemembered
  <2>. QED  BY <1>3, <2>3, <2>4, <2>5 DEF CallInv
<1>. QED  BY <1>4, <1>5 DEF RequestArrives

\* A step of the run or of the cancel that leaves the call, its requests and the
\* clock alone.
LEMMA RunMoves ==
  ASSUME CallInv, UNCHANGED <<call, request, hour>>, CallTypeOK', RunRemembered', CancelRemembered'
  PROVE  CallInv'
BY DEF CallInv, Timely, RequestsTimely, Delivered

LEMMA RunKeeps ==
  ASSUME CallInv,
         RunWrites \/ RunInterrupted \/ OutputEvicted \/ ClaimForgotten
  PROVE  CallInv'
<1>1. /\ UNCHANGED <<call, request, cancel, hour, startedAt, refusedAt, runStarts, stopping>>
      /\ spooled' # spooled => Claimed = "running"
      /\ \/ UNCHANGED claim
         \/ \E c \in {"over", "free"} : claim' = [claim EXCEPT ![RunID] = c]
  BY DEF RunWrites, RunInterrupted, OutputEvicted, ClaimForgotten, ClaimTo, gateVars, runVars
<1>2. spooled' \in Nat /\ kept' \in BOOLEAN
  <2>1. spooled' \in {spooled, spooled + 1} /\ spooled \in Nat
    BY DEF CallInv, CallTypeOK, RunWrites, RunInterrupted, OutputEvicted, ClaimForgotten, runVars
  <2>2. kept' \in BOOLEAN
    BY DEF CallInv, CallTypeOK, RunWrites, RunInterrupted, OutputEvicted, ClaimForgotten, runVars
  <2>. QED  BY <2>1, <2>2
<1>3. Claimed' \in {Claimed, "over", "free"} /\ (Claimed' = "over" => Claimed \in {"running", "over"})
  BY <1>1 DEF CallInv, CallTypeOK, Claimed, RunWrites, RunInterrupted, OutputEvicted,
     ClaimForgotten, ClaimTo, gateVars
<1>4. CallTypeOK'
  BY <1>1, <1>2 DEF CallInv, CallTypeOK
<1>5. RunRemembered' /\ CancelRemembered'
  BY <1>1, <1>3 DEF CallInv, RunRemembered, CancelRemembered
<1>. QED  BY <1>1, <1>4, <1>5, RunMoves

LEMMA CancelKeeps ==
  ASSUME CallInv, CancelArrives \/ CancelRefused PROVE CallInv'
<1>1. cancel = "flying" /\ UNCHANGED <<call, request, hour, startedAt, runStarts, spooled, kept>>
  BY DEF CancelArrives, CancelRefused, gateVars, runVars
<1>2. /\ Claimed # "refused" /\ hour \in Nat \ {0}
      /\ Claimed \in {"free", "running", "over"}
      /\ Claimed \in {"running", "over"} => runStarts = 1
  BY <1>1 DEF CallInv, RunRemembered, CallTypeOK, Claimed
<1>3. CASE CancelRefused
  <2>1. UNCHANGED <<claim, refusedAt, stopping>> /\ cancel' = "failed"
    BY <1>3 DEF CancelRefused, gateVars, runVars
  <2>2. CallTypeOK' /\ RunRemembered' /\ CancelRemembered'
    BY <1>1, <1>2, <2>1 DEF CallInv, CallTypeOK, RunRemembered, CancelRemembered, Claimed
  <2>. QED  BY <1>1, <2>2, RunMoves
<1>4. CASE CancelArrives /\ Claimed \in {"running", "over"}
  <2>1. UNCHANGED <<claim, refusedAt>> /\ cancel' = "done" /\ stopping' \in BOOLEAN
        /\ (Claimed = "running" => stopping')
    BY <1>4 DEF CancelArrives, gateVars, CallInv, CallTypeOK
  <2>2. CallTypeOK'
    BY <1>1, <2>1 DEF CallInv, CallTypeOK
  <2>3. RunRemembered' /\ CancelRemembered'
    BY <1>1, <1>2, <1>4, <2>1 DEF CallInv, RunRemembered, CancelRemembered, Claimed
  <2>. QED  BY <1>1, <2>2, <2>3, RunMoves
<1>5. CASE CancelArrives /\ Claimed = "free"
  <2>1. /\ claim' = [claim EXCEPT ![RunID] = "refused"] /\ cancel' = "done"
        /\ refusedAt' = [refusedAt EXCEPT ![RunID] = hour] /\ UNCHANGED stopping
    BY <1>5 DEF CancelArrives, ClaimTo
  <2>2. CallTypeOK' /\ Claimed' = "refused" /\ refusedAt'[RunID] = hour
    BY <1>1, <1>2, <2>1 DEF CallInv, CallTypeOK, Claimed
  <2>3. RunRemembered'
    BY <1>1, <2>1, <2>2 DEF CallInv, RunRemembered
  <2>4. CancelRemembered'
    BY <1>1, <1>2, <2>1, <2>2 DEF CallInv, CancelRemembered, RequestsTimely
  <2>. QED  BY <1>1, <2>2, <2>3, <2>4, RunMoves
<1>. QED  BY <1>2, <1>3, <1>4, <1>5

\* A step of the call itself.
LEMMA CallMoves ==
  ASSUME CallInv, UNCHANGED <<gateVars, runVars>>, UNCHANGED <<request, cancel>>,
         call' \in CallRecords, Timely(call', hour), Delivered(call'),
         cancel # "unsent" => call'.pc \in {"cancelling", "cancelled", "unsure"},
         call'.pc = "cancelled" => cancel = "done"
  PROVE  CallInv'
<1>1. CallTypeOK' /\ Timely(call, hour)' /\ Delivered(call)' /\ RequestsTimely'
  BY DEF CallInv, CallTypeOK, gateVars, runVars, Timely, Delivered, RequestsTimely
<1>2. RunRemembered' /\ CancelRemembered'
  BY DEF CallInv, RunRemembered, CancelRemembered, gateVars, runVars, Claimed
<1>. QED  BY <1>1, <1>2 DEF CallInv

\* A step that takes the call to another place.
LEMMA Going ==
  ASSUME CallInv, NEW p \in CallPlaces, Goes(p)
  PROVE  /\ call' \in CallRecords /\ call'.pc = p
         /\ UNCHANGED <<call.started, call.offset, call.mark, call.deadline, call.since, call.delivered>>
BY DEF CallInv, CallTypeOK, CallRecords, Goes

LEMMA CallSendKeeps == ASSUME CallInv, SendRequest PROVE CallInv'
<1> DEFINE n == call.attempt + 1
           r == [state |-> "flying", expires |-> hour + ProofLifetime]
<1>1. /\ call \in CallRecords /\ call.pc = "start" /\ n \in Attempts
      /\ hour \in Nat /\ n \in 0..MaxAttempts
      /\ ~call.started /\ cancel = "unsent" /\ hour <= LastSend
      /\ call.deadline = -1 => hour = 1
  <2>1. call \in CallRecords /\ call.pc = "start" /\ hour \in Nat
    BY DEF CallInv, CallTypeOK, SendRequest
  <2>2. call.attempt \in 0..MaxAttempts /\ call.attempt < MaxAttempts
    BY <2>1 DEF SendRequest, CallRecords
  <2>3. n \in Attempts /\ n \in 0..MaxAttempts
    BY <2>2, CallAssumption DEF Attempts
  <2>4. ~call.started /\ cancel = "unsent" /\ hour <= LastSend /\ (call.deadline = -1 => hour = 1)
    BY <2>1 DEF CallInv, Timely, CancelRemembered
  <2>. QED  BY <2>1, <2>3, <2>4
<1>2. /\ call' \in CallRecords /\ call'.pc = "starting" /\ call'.since = hour /\ ~call'.started
      /\ UNCHANGED <<call.offset, call.mark, call.deadline, call.delivered>>
  <2>1. call' = [call EXCEPT !.pc = "starting", !.attempt = n, !.since = hour]
    BY DEF SendRequest
  <2>2. "starting" \in CallPlaces
    BY DEF CallPlaces
  <2> HIDE DEF n
  <2>3. /\ call' \in CallRecords /\ call'.pc = "starting" /\ call'.since = hour
        /\ UNCHANGED <<call.started, call.offset, call.mark, call.deadline, call.delivered>>
    BY <1>1, <2>1, <2>2 DEF CallRecords
  <2>. QED  BY <1>1, <2>3
<1>3. /\ request' = [request EXCEPT ![n] = r] /\ r \in RequestRecords
      /\ UNCHANGED <<claim, startedAt, refusedAt, hour, runStarts, stopping, spooled, kept, cancel>>
  BY <1>1, CallAssumption DEF SendRequest, Gateway, gateVars, runVars, RequestRecords
<1>4. CallTypeOK'
  BY <1>1, <1>2, <1>3 DEF CallInv, CallTypeOK
<1>5. Timely(call, hour)' /\ Delivered(call)'
  BY <1>1, <1>2, <1>3, CallAssumption DEF CallInv, Timely, Delivered, CallRecords
<1>6. RequestsTimely'
  <2>. SUFFICES ASSUME NEW i \in Attempts, request'[i].state = "flying"
                PROVE  request'[i].expires <= LastSend + ProofLifetime
                       /\ request'[i].expires <= hour + ProofLifetime
    BY <1>3 DEF RequestsTimely
  <2>1. CASE i = n
    BY <1>1, <1>3, <2>1, CallAssumption DEF CallInv, CallTypeOK, LastSend
  <2>2. CASE i # n
    BY <1>3, <2>2 DEF CallInv, CallTypeOK, RequestsTimely
  <2>. QED  BY <2>1, <2>2
<1>7. RunRemembered' /\ CancelRemembered'
  BY <1>1, <1>2, <1>3 DEF CallInv, RunRemembered, CancelRemembered, Claimed
<1>. QED  BY <1>4, <1>5, <1>6, <1>7 DEF CallInv

LEMMA CallAnswerKeeps == ASSUME CallInv, RunFrame \/ StartRefused PROVE CallInv'
<1>1. /\ call \in CallRecords /\ call.pc = "starting" /\ cancel = "unsent"
      /\ UNCHANGED <<gateVars, runVars>> /\ UNCHANGED <<request, cancel>>
  BY DEF CallInv, CallTypeOK, RunFrame, StartRefused, CancelRemembered, Gateway
<1>2. CASE RunFrame
  <2>1. /\ call' \in CallRecords /\ call'.pc = "reading" /\ call'.started
        /\ UNCHANGED <<call.offset, call.delivered>>
    BY <1>1, <1>2 DEF RunFrame, CallRecords, CallPlaces
  <2>2. Timely(call', hour) /\ Delivered(call')
    BY <2>1 DEF CallInv, Timely, Delivered
  <2>. QED  BY <1>1, <2>1, <2>2, CallMoves
<1>3. CASE StartRefused
  <2>1. Goes("refused") /\ "refused" \in CallPlaces
    BY <1>3 DEF StartRefused, CallPlaces
  <2>2. Timely(call', hour) /\ Delivered(call')
    BY <2>1, Going DEF CallInv, Timely, Delivered
  <2>. QED  BY <1>1, <2>1, <2>2, Going, CallMoves
<1>. QED  BY <1>2, <1>3

LEMMA ReadKeeps == ASSUME CallInv, ReadFrame PROVE CallInv'
<1>1. /\ call \in CallRecords /\ call.pc = "reading" /\ cancel = "unsent" /\ call.started
      /\ call.offset < spooled /\ call.offset \in Nat /\ spooled \in Nat /\ runStarts \in Nat
      /\ UNCHANGED <<gateVars, runVars>> /\ UNCHANGED <<request, cancel>>
  BY DEF CallInv, CallTypeOK, CallRecords, ReadFrame, CancelRemembered, Gateway, Timely
<1>2. runStarts = 1
  BY <1>1 DEF CallInv, RunRemembered
<1> DEFINE k == call.offset
           d == call.delivered
<1>3. d = [i \in 1..k |-> <<1, i>>] /\ d \in Seq(Nat \X Nat) /\ Len(d) = k
  <2>1. d = [i \in 1..k |-> <<1, i>>]
    BY DEF CallInv, Delivered
  <2>2. d \in Seq(Nat \X Nat)
    BY <1>1 DEF CallRecords
  <2> HIDE DEF k, d
  <2>3. k \in Nat
    BY <1>1 DEF k
  <2>. QED  BY <2>1, <2>2, <2>3
<1>4. Append(d, <<1, k + 1>>) = [i \in 1..k + 1 |-> <<1, i>>]
  BY <1>1, <1>3
<1>5. Append(d, <<1, k + 1>>) \in Seq(Nat \X Nat)
  BY <1>1, <1>3
<1>6. PICK p \in {"reading", "result"} :
        /\ p = "result" => k + 1 = Frames
        /\ call' = [call EXCEPT !.offset = k + 1, !.delivered = Append(d, <<1, k + 1>>), !.pc = p]
  <2>1. PICK p \in {"reading", "result"} : p = IF k + 1 = Frames THEN "result" ELSE call.pc
    BY <1>1
  <2>2. call' = [call EXCEPT !.offset = k + 1, !.delivered = Append(d, <<1, k + 1>>), !.pc = p]
    BY <1>2, <2>1 DEF ReadFrame
  <2>3. p = "result" => k + 1 = Frames
    BY <1>1, <2>1
  <2>. QED  BY <2>2, <2>3
<1>7. /\ call' \in CallRecords /\ call'.pc = p /\ call'.offset = k + 1 /\ call'.started
      /\ call'.delivered = Append(d, <<1, k + 1>>)
  <2> DEFINE more == Append(d, <<1, k + 1>>)
  <2>1. more \in Seq(Nat \X Nat) /\ p \in CallPlaces /\ k + 1 \in Nat
    BY <1>1, <1>5 DEF CallPlaces
  <2> HIDE DEF more
  <2>2. call' = [call EXCEPT !.offset = k + 1, !.delivered = more, !.pc = p]
    BY <1>6 DEF more
  <2>3. /\ call' \in CallRecords /\ call'.pc = p /\ call'.offset = k + 1
        /\ UNCHANGED call.started /\ call'.delivered = more
    BY <1>1, <2>1, <2>2 DEF CallRecords
  <2>. QED  BY <1>1, <2>3 DEF more
<1>8. Timely(call', hour) /\ Delivered(call')
  BY <1>4, <1>6, <1>7 DEF Timely, Delivered
<1>. QED  BY <1>1, <1>6, <1>7, <1>8, CallMoves

LEMMA BreakKeeps == ASSUME CallInv, Breaks PROVE CallInv'
<1>1. /\ call \in CallRecords /\ call.pc \in {"starting", "reading", "attaching"}
      /\ cancel = "unsent" /\ hour \in Nat
      /\ UNCHANGED <<gateVars, runVars>> /\ UNCHANGED <<request, cancel>>
  BY DEF CallInv, CallTypeOK, Breaks, CancelRemembered, Gateway
<1>2. Patience(call) \in Nat \cup {-1} /\ Patience(call) # -1
  BY <1>1, CallAssumption DEF CallRecords, Patience
<1>3. ~call.started => /\ call.pc = "starting" /\ call.offset = 0
                       /\ Patience(call) <= LastSend
  BY <1>1, CallAssumption DEF CallInv, Timely, CallRecords, Patience, LastSend
<1>4. /\ call'.pc = "broken" /\ call'.mark = call.offset /\ call'.deadline = Patience(call)
      /\ UNCHANGED <<call.offset, call.started, call.delivered>> /\ call' \in CallRecords
  BY <1>1, <1>2 DEF Breaks, Consumed, CallRecords, CallPlaces
<1>5. Timely(call', hour) /\ Delivered(call')
  BY <1>2, <1>3, <1>4 DEF CallInv, Timely, Delivered
<1>. QED  BY <1>1, <1>4, <1>5, CallMoves

LEMMA GoKeeps ==
  ASSUME CallInv, GiveUp \/ Retry \/ Attach \/ CancelAnswered PROVE CallInv'
<1>1. /\ UNCHANGED <<gateVars, runVars>> /\ UNCHANGED <<request, cancel>>
      /\ call \in CallRecords
  BY DEF CallInv, CallTypeOK, GiveUp, Retry, Attach, CancelAnswered, Gateway
<1>2. CASE GiveUp
  <2>1. Goes("lost") /\ "lost" \in CallPlaces /\ cancel = "unsent"
    BY <1>2 DEF GiveUp, CallPlaces, CallInv, CancelRemembered
  <2>2. Timely(call', hour) /\ Delivered(call')
    BY <2>1, Going DEF CallInv, Timely, Delivered
  <2>. QED  BY <1>1, <2>1, <2>2, Going, CallMoves
<1>3. CASE Retry
  <2>1. PICK p \in {"attaching", "start"} : Goes(p) /\ (p = "attaching" <=> call.started)
    BY <1>3 DEF Retry
  <2>2. /\ p \in CallPlaces /\ cancel = "unsent"
        /\ call.pc = "broken" /\ hour <= call.deadline
    BY <1>3 DEF Retry, CallPlaces, CallInv, CancelRemembered
  <2>3. ~call.started => hour <= LastSend /\ call.deadline # -1
    <3>1. hour \in Nat /\ call.deadline \in Nat \cup {-1} /\ LastSend \in Nat
      BY <1>1, CallAssumption DEF CallInv, CallTypeOK, CallRecords, LastSend
    <3>2. ~call.started => call.deadline <= LastSend /\ call.deadline # -1
      BY <2>2 DEF CallInv, Timely
    <3>. QED  BY <2>2, <3>1, <3>2
  <2>4. Timely(call', hour) /\ Delivered(call')
    BY <2>1, <2>2, <2>3, Going DEF CallInv, Timely, Delivered
  <2>. QED  BY <1>1, <2>1, <2>2, <2>4, Going, CallMoves
<1>4. CASE Attach
  <2>1. PICK p \in {"reading", "refused"} : Goes(p)
    BY <1>4 DEF Attach
  <2>2. p \in CallPlaces /\ cancel = "unsent" /\ call.started
    BY <1>4 DEF Attach, CallPlaces, CallInv, CancelRemembered, Timely
  <2>3. Timely(call', hour) /\ Delivered(call')
    BY <2>1, <2>2, Going DEF CallInv, Timely, Delivered
  <2>. QED  BY <1>1, <2>1, <2>2, <2>3, Going, CallMoves
<1>5. CASE CancelAnswered
  <2>1. PICK p \in {"cancelled", "unsure"} : Goes(p) /\ (p = "cancelled" => cancel = "done")
    BY <1>5 DEF CancelAnswered
  <2>2. p \in CallPlaces
    BY DEF CallPlaces
  <2>3. Timely(call', hour) /\ Delivered(call')
    BY <2>1, <2>2, Going DEF CallInv, Timely, Delivered
  <2>. QED  BY <1>1, <2>1, <2>2, <2>3, Going, CallMoves
<1>. QED  BY <1>2, <1>3, <1>4, <1>5

LEMMA ContextKeeps == ASSUME CallInv, ContextEnds PROVE CallInv'
<1>1. /\ call.pc \in {"start", "starting", "reading", "broken", "attaching"}
      /\ cancel' = "flying" /\ Goes("cancelling") /\ "cancelling" \in CallPlaces
      /\ UNCHANGED request
      /\ UNCHANGED <<claim, startedAt, refusedAt, hour, runStarts, stopping, spooled, kept>>
  BY DEF ContextEnds, CancelNeeded, Gateway, gateVars, runVars, CallPlaces
<1>2. cancel = "unsent"
  BY <1>1 DEF CallInv, CancelRemembered
<1>3. CallTypeOK'
  BY <1>1, Going DEF CallInv, CallTypeOK
<1>4. Timely(call, hour)' /\ Delivered(call)' /\ RequestsTimely'
  BY <1>1, Going DEF CallInv, Timely, Delivered, RequestsTimely
<1>5. RunRemembered' /\ CancelRemembered'
  BY <1>1, <1>2, Going DEF CallInv, RunRemembered, CancelRemembered, Claimed
<1>. QED  BY <1>3, <1>4, <1>5 DEF CallInv

LEMMA HourKeeps == ASSUME CallInv, HourPasses PROVE CallInv'
<1>1. /\ hour \in Nat /\ hour' = hour + 1 /\ call.pc # "start"
      /\ call.pc = "starting" => hour < call.since + AttemptTime
      /\ UNCHANGED <<claim, startedAt, refusedAt, runStarts, stopping, spooled, kept>>
      /\ UNCHANGED <<request, cancel, call>>
      /\ call \in CallRecords
  BY DEF HourPasses, CallInv, CallTypeOK, runVars
<1>2. CallTypeOK'
  BY <1>1 DEF CallInv, CallTypeOK
<1>3. Timely(call, hour)'
  BY <1>1, CallAssumption DEF CallInv, Timely, CallRecords
<1>4. RequestsTimely'
  BY <1>1, CallAssumption DEF CallInv, CallTypeOK, RequestsTimely, RequestRecords
<1>5. RunRemembered' /\ CancelRemembered' /\ Delivered(call)'
  BY <1>1 DEF CallInv, RunRemembered, CancelRemembered, Claimed, Delivered
<1>. QED  BY <1>2, <1>3, <1>4, <1>5 DEF CallInv

\* The strengthening of a call, its requests and its run is an invariant.
THEOREM CallInductive == ExecSpec => []CallInv
<1>1. CallInv /\ [ExecNext]_callVars => CallInv'
  <2>. SUFFICES ASSUME CallInv, [ExecNext]_callVars PROVE CallInv'
    OBVIOUS
  <2>1. CASE UNCHANGED callVars
    <3>1. UNCHANGED <<gateVars, runVars>> /\ UNCHANGED <<request, cancel, call>>
      BY <2>1 DEF callVars
    <3>. QED  BY <3>1, CallMoves DEF CallInv, CallTypeOK, CancelRemembered
  <2>2. ASSUME NEW n \in Attempts, RequestArrives(n) PROVE CallInv'
    BY <2>2, RequestKeeps
  <2>. QED  BY <2>1, <2>2, CancelKeeps, RunKeeps, CallSendKeeps, CallAnswerKeeps, ReadKeeps, BreakKeeps,
               GoKeeps, ContextKeeps, HourKeeps DEF ExecNext
<1>. QED  BY <1>1, CallStarts, PTL DEF ExecSpec

\* Every variable of ExecClient keeps its type.
THEOREM CallTypeCorrect == ExecSpec => []CallTypeOK
<1>1. CallInv => CallTypeOK
  BY DEF CallInv
<1>. QED  BY <1>1, CallInductive, PTL

\* For any windows that outlast a call's last request, any number of frames and
\* of repeated requests: a call tells the truth about its command (client.go).
THEOREM CallsTruthful == ExecSpec => []CallTruthful
<1>1. ASSUME CallInv PROVE CallTruthful
  <2>1. ExecStartsOnce
    BY <1>1 DEF CallInv, RunRemembered, ExecStartsOnce
  <2>2. /\ call.offset \in Nat /\ call.delivered = [i \in 1..call.offset |-> <<1, i>>]
        /\ call.delivered \in Seq(Nat \X Nat)
    BY <1>1 DEF CallInv, CallTypeOK, CallRecords, Delivered
  <2>3. Len(call.delivered) = call.offset
    BY <2>2
  <2>4. \A i \in 1..Len(call.delivered) : call.delivered[1][1] = 1
    BY <2>2, <2>3
  <2>5. OutputExact
    BY <1>1, <2>2, <2>3, <2>4 DEF CallInv, Delivered, OutputExact
  <2>6. CancelHolds
    BY <1>1 DEF CallInv, CancelRemembered, CancelHolds
  <2>. QED  BY <2>1, <2>5, <2>6 DEF CallTruthful
<1>. QED  BY <1>1, CallInductive, PTL

-----------------------------------------------------------------------------
(* The writers of one policy.  The revision counts every store, so the      *)
(* policy a writer read is the one stored for as long as the revision is    *)
(* the one it read.                                                         *)

ReadAsStored ==
  \A w \in Writers : work[w] # Idle =>
    /\ work[w].from \in Nat /\ work[w].from <= revision
    /\ work[w].from = revision => work[w].base = stored

WritersInv ==
  /\ revision \in Nat /\ DOMAIN work = Writers
  /\ ReadAsStored

\* A store in a gateway's configuration replaces the policy that was read.
StoresWhatItRead ==
  \A w \in Writers : Stores(w) => (versioned => stored = work[w].base)

LEMMA WritersStart == WritersInit => WritersInv
BY DEF WritersInit, WritersInv, ReadAsStored

LEMMA LoadingReads ==
  ASSUME WritersInv, NEW w \in Writers, NEW e, Load(w, e) PROVE WritersInv' /\ StoresWhatItRead
<1>1. PICK n : /\ n = [edit |-> e, base |-> stored, from |-> revision]
               /\ work' = [work EXCEPT ![w] = n]
  BY DEF Load
<1>2. UNCHANGED <<versioned, stored, revision>>
  BY DEF Load
<1>3. n.from = revision /\ n.base = stored
  BY <1>1
<1>4. /\ DOMAIN work' = Writers /\ work'[w] = n
      /\ \A v \in Writers \ {w} : work'[v] = work[v]
  BY <1>1 DEF WritersInv
<1>5. WritersInv'
  BY <1>2, <1>3, <1>4 DEF WritersInv, ReadAsStored, Idle
<1>. QED  BY <1>2, <1>5 DEF StoresWhatItRead, Stores

\* A store moves the revision past whatever was read before.
LEMMA StoringMoves ==
  ASSUME WritersInv, revision' = revision + 1, NEW S \in SUBSET Writers,
         work' = [v \in Writers |-> IF v \in S THEN Idle ELSE work[v]]
  PROVE  WritersInv'
<1>1. revision' \in Nat /\ DOMAIN work' = Writers
  BY DEF WritersInv
<1>2. ASSUME NEW v \in Writers, work'[v] # Idle
      PROVE  work'[v].from \in Nat /\ work'[v].from < revision'
  <2>1. work'[v] = work[v]
    BY <1>2
  <2>2. work[v].from \in Nat /\ work[v].from <= revision /\ revision \in Nat
    BY <1>2, <2>1 DEF WritersInv, ReadAsStored
  <2>. QED  BY <2>1, <2>2
<1>. QED  BY <1>1, <1>2 DEF WritersInv, ReadAsStored, Idle

LEMMA WritersStep ==
  ASSUME WritersInv, [WritersNext]_writerVars PROVE WritersInv' /\ StoresWhatItRead
<1>1. ASSUME NEW w \in Writers, NEW e \in EditsOffered, Load(w, e)
      PROVE  WritersInv' /\ StoresWhatItRead
  BY <1>1, LoadingReads
<1>2. ASSUME NEW w \in Writers, Store(w) PROVE WritersInv' /\ StoresWhatItRead
  <2>1. /\ revision' = revision + 1 /\ work' = [work EXCEPT ![w] = Idle]
        /\ work[w] # Idle /\ UnchangedSince(work[w].from)
    BY <1>2 DEF Store, Keep
  <2>2. work' = [v \in Writers |-> IF v \in {w} THEN Idle ELSE work[v]]
    BY <2>1 DEF WritersInv
  <2>3. WritersInv'
    BY <2>1, <2>2, StoringMoves
  <2>4. versioned => stored = work[w].base
    BY <2>1 DEF UnchangedSince, WritersInv, ReadAsStored
  <2>5. \A v \in Writers \ {w} : work'[v] = work[v]
    BY <2>1 DEF WritersInv
  <2>. QED  BY <2>3, <2>4, <2>5 DEF StoresWhatItRead, Stores
<1>3. ASSUME NEW w \in Writers, Fail(w) PROVE WritersInv' /\ StoresWhatItRead
  <2>1. work' = [work EXCEPT ![w] = Idle] /\ UNCHANGED <<versioned, stored, revision>>
    BY <1>3 DEF Fail
  <2>2. DOMAIN work' = Writers /\ \A v \in Writers : work'[v] = Idle \/ work'[v] = work[v]
    BY <2>1 DEF WritersInv
  <2>3. WritersInv'
    BY <2>1, <2>2 DEF WritersInv, ReadAsStored, Idle
  <2>. QED  BY <2>1, <2>3 DEF StoresWhatItRead, Stores
<1>4. ASSUME NEW pol \in Pushed, Push(pol) PROVE WritersInv' /\ StoresWhatItRead
  <2>1. revision' = revision + 1 /\ UNCHANGED work
    BY <1>4 DEF Push, Keep
  <2>2. ASSUME NEW v \in Writers, work[v] # Idle
        PROVE  work[v].from \in Nat /\ work[v].from < revision'
    BY <2>1, <2>2 DEF WritersInv, ReadAsStored
  <2>3. WritersInv'
    BY <2>1, <2>2 DEF WritersInv, ReadAsStored, Idle
  <2>. QED  BY <2>1, <2>3 DEF StoresWhatItRead, Stores
<1>5. CASE UNCHANGED writerVars
  BY <1>5 DEF writerVars, WritersInv, ReadAsStored, Idle, StoresWhatItRead, Stores
<1>. QED  BY <1>1, <1>2, <1>3, <1>4, <1>5 DEF WritersNext

THEOREM WritersInductive == WritersSpec => []WritersInv
<1>1. WritersInv /\ [WritersNext]_writerVars => WritersInv'
  BY WritersStep
<1>. QED  BY <1>1, WritersStart, PTL DEF WritersSpec

\* In a gateway's configuration an edit replaces the policy it was made to:
\* what another push or decision stored since makes the write fail
\* (controlplane.ReplaceConfig).
THEOREM EditsReplaceWhatTheyRead == WritersSpec => EditsWhatItReplaces
<1>1. WritersInv /\ [WritersNext]_writerVars =>
        [\A w \in Writers :
           Stores(w) => (versioned => stored = work[w].base)]_writerVars
  BY WritersStep DEF StoresWhatItRead
<1>. QED  BY <1>1, WritersInductive, PTL DEF WritersSpec, EditsWhatItReplaces

==============================================================================

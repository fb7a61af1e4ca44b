---------------------------- MODULE RunStoreProofs ----------------------------
(***************************************************************************)
(* What TLAPS proves of RunStore, for every number of devices, IDs and     *)
(* handlers and every limit and lifetime: the inductive invariant IInv,    *)
(* from which type correctness, the accounting invariants and the two      *)
(* claim invariants follow, the step simulation of RunClaims, and the      *)
(* quota.                                                                  *)
(***************************************************************************)
EXTENDS RunStore, TLAPS, FiniteSetTheorems, NaturalsInduction, WellFoundedInduction

-----------------------------------------------------------------------------
(* Sets of keys and of records. *)

\* There are finitely many keys, hence finitely many records of a device.
LEMMA KeysFinite ==
  /\ IsFiniteSet(Keys)
  /\ \A S \in SUBSET Keys : IsFiniteSet(S) /\ Cardinality(S) \in Nat
<1>1. IsFiniteSet(Keys)
  BY FiniteAssumption, FS_Product DEF Keys
<1>2. ASSUME NEW S \in SUBSET Keys
      PROVE  IsFiniteSet(S) /\ Cardinality(S) \in Nat
  BY <1>1, FS_Subset, FS_CardinalityType
<1>. QED  BY <1>1, <1>2

LEMMA RecordsOfFinite ==
  ASSUME NEW r, NEW d
  PROVE  /\ RecordsOf(r, d) \subseteq Keys
         /\ IsFiniteSet(RecordsOf(r, d))
         /\ Cardinality(RecordsOf(r, d)) \in Nat
<1>1. RecordsOf(r, d) \subseteq Keys
  BY DEF RecordsOf
<1>. QED  BY <1>1, KeysFinite

\* Deleting records of one device takes exactly their number from its count.
LEMMA DeleteCounts ==
  ASSUME NEW r \in [Keys -> Records], NEW d, NEW R \in SUBSET RecordsOf(r, d)
  PROVE  /\ RecordsOf(DeleteRecs(r, R), d) = RecordsOf(r, d) \ R
         /\ Cardinality(RecordsOf(DeleteRecs(r, R), d))
              = Cardinality(RecordsOf(r, d)) - Cardinality(R)
         /\ Cardinality(R) \in Nat
         /\ \A e : e # d => RecordsOf(DeleteRecs(r, R), e) = RecordsOf(r, e)
<1>1. RecordsOf(DeleteRecs(r, R), d) = RecordsOf(r, d) \ R
  BY DEF RecordsOf, DeleteRecs, NoRecord
<1>2. Cardinality(RecordsOf(r, d) \ R)
        = Cardinality(RecordsOf(r, d)) - Cardinality(RecordsOf(r, d) \cap R)
  BY RecordsOfFinite, FS_Difference, Zenon
<1>3. RecordsOf(r, d) \cap R = R
  OBVIOUS
<1>4. Cardinality(R) \in Nat
  BY RecordsOfFinite, KeysFinite
<1>5. ASSUME NEW e, e # d
      PROVE  RecordsOf(DeleteRecs(r, R), e) = RecordsOf(r, e)
  BY <1>5 DEF RecordsOf, DeleteRecs
<1>. QED  BY <1>1, <1>2, <1>3, <1>4, <1>5

\* Eviction keeps every record.
LEMMA EvictCounts ==
  ASSUME NEW r \in [Keys -> Records], NEW E \in SUBSET Keys,
         \A k \in E : r[k].state # "none"
  PROVE  \A d : RecordsOf(EvictRecs(r, E), d) = RecordsOf(r, d)
BY DEF RecordsOf, EvictRecs, Evicted

\* A claim adds one record to its device and none to another.
LEMMA ClaimCounts ==
  ASSUME NEW r \in [Keys -> Records], NEW k \in Keys, NEW c,
         r[k].state = "none", c.state # "none"
  PROVE  /\ Cardinality(RecordsOf([r EXCEPT ![k] = c], k[1]))
              = Cardinality(RecordsOf(r, k[1])) + 1
         /\ \A e : e # k[1] => RecordsOf([r EXCEPT ![k] = c], e) = RecordsOf(r, e)
<1>1. RecordsOf([r EXCEPT ![k] = c], k[1]) = RecordsOf(r, k[1]) \cup {k}
  BY DEF RecordsOf
<1>2. k \notin RecordsOf(r, k[1])
  BY DEF RecordsOf
<1>3. Cardinality(RecordsOf(r, k[1]) \cup {k}) = Cardinality(RecordsOf(r, k[1])) + 1
  BY <1>2, RecordsOfFinite, FS_AddElement
<1>4. ASSUME NEW e, e # k[1]
      PROVE  RecordsOf([r EXCEPT ![k] = c], e) = RecordsOf(r, e)
  BY <1>4 DEF RecordsOf
<1>. QED  BY <1>1, <1>3, <1>4

-----------------------------------------------------------------------------
(* What the critical sections may do to a record they do not claim. *)

\* A record no live run owns that is old enough to go.
Old(c) ==
  \/ c.state \in {"running", "finished", "evicted"} /\ now > c.created + GuardWindow
  \/ c.state = "cancelled" /\ now > c.created + CancelTombstoneTTL

\* From the records r to r2, with l live: each record stays, or it is no
\* live run's and is deleted when old or evicted when finished.
Keeps(r, r2, l) ==
  \A k \in Keys :
    \/ r2[k] = r[k]
    \/ k \notin l /\ r2[k] = NoRecord /\ Old(r[k])
    \/ /\ k \notin l /\ r[k].state = "finished"
       /\ r2[k] = Evicted(r[k])

LEMMA KeepsTrans ==
  ASSUME NEW r \in [Keys -> Records], NEW r1 \in [Keys -> Records],
         NEW r2 \in [Keys -> Records], NEW l,
         Keeps(r, r1, l), Keeps(r1, r2, l)
  PROVE  Keeps(r, r2, l)
<1>1. ASSUME NEW k \in Keys, k \notin l, r[k].state = "finished",
             r1[k] = Evicted(r[k]),
             r2[k] = NoRecord, Old(r1[k])
      PROVE  Old(r[k])
  <2>. r[k] \in Records
    OBVIOUS
  <2>. r1[k].created = r[k].created /\ r1[k].state = "evicted"
    BY <1>1 DEF Evicted
  <2>. QED  BY <1>1 DEF Old
<1>2. ASSUME NEW k \in Keys, r1[k] = NoRecord
      PROVE  r2[k] = r1[k]
  BY <1>2 DEF Keeps, Old, NoRecord
<1>3. ASSUME NEW k \in Keys, r1[k] = Evicted(r[k])
      PROVE  r1[k].state # "finished"
  BY <1>3 DEF Evicted
<1>. QED  BY <1>1, <1>2, <1>3 DEF Keeps

\* What is kept leaves no device with more records.
LEMMA KeepsCounts ==
  ASSUME NEW r \in [Keys -> Records], NEW r2 \in [Keys -> Records], NEW l,
         Keeps(r, r2, l)
  PROVE  \A d : Cardinality(RecordsOf(r2, d)) <= Cardinality(RecordsOf(r, d))
<1>1. ASSUME NEW d PROVE RecordsOf(r2, d) \subseteq RecordsOf(r, d)
  BY DEF Keeps, RecordsOf, NoRecord
<1>. QED  BY <1>1, RecordsOfFinite, FS_Subset

LEMMA GuardBounds ==
  /\ GuardWindow \in Nat
  /\ GuardWindow <= IdempotencyWindow
  /\ GuardWindow <= Retention + ExecTimeout
BY TimesAssumption DEF GuardWindow, Min2

\* Eviction of finished runs.
LEMMA EvictKeeps ==
  ASSUME NEW r \in [Keys -> Records], NEW l, NEW E \in SUBSET Keys,
         \A k \in E : k \notin l /\ r[k].state = "finished"
  PROVE  /\ EvictRecs(r, E) \in [Keys -> Records]
         /\ Keeps(r, EvictRecs(r, E), l)
         /\ \A d : RecordsOf(EvictRecs(r, E), d) = RecordsOf(r, d)
<1>1. ASSUME NEW k \in Keys PROVE Evicted(r[k]) \in Records
  <2>. r[k] \in Records
    OBVIOUS
  <2>. QED  BY DEF Evicted, Records, States
<1>2. EvictRecs(r, E) \in [Keys -> Records]
  BY <1>1 DEF EvictRecs
<1>3. Keeps(r, EvictRecs(r, E), l)
  BY DEF Keeps, EvictRecs
<1>. QED  BY <1>2, <1>3, EvictCounts

\* makeRoomLocked evicts finished runs that are not live.
LEMMA EvictionsKeep ==
  ASSUME NEW r \in [Keys -> Records], NEW s, NEW l, NEW d, NEW reserve,
         NEW E \in Evictions(r, s, l, d, reserve)
  PROVE  /\ E \in SUBSET Keys
         /\ \A k \in E : k \notin l /\ r[k].state = "finished"
<1>1. E \subseteq {k \in Stored(r, l, d) : StoredBytes(r, s, k) > 0}
  BY DEF Evictions
<1>2. ASSUME NEW k \in E
      PROVE  k \in Keys /\ k \notin l /\ StoredBytes(r, s, k) > 0
  BY <1>1 DEF Stored
<1>3. ASSUME NEW k \in E PROVE r[k].state = "finished"
  BY <1>2 DEF StoredBytes
<1>. QED  BY <1>2, <1>3

\* Reclamation deletes old records only.
LEMMA ReclaimKeeps ==
  ASSUME NEW r \in [Keys -> Records], NEW d, NEW R \in SUBSET Reclaimable(r, d),
         now \in Nat
  PROVE  /\ DeleteRecs(r, R) \in [Keys -> Records]
         /\ Keeps(r, DeleteRecs(r, R), live)
         /\ R \in SUBSET RecordsOf(r, d)
         /\ R \cap live = {}
<1>1. NoRecord \in Records
  BY DEF NoRecord, Records, States
<1>2. DeleteRecs(r, R) \in [Keys -> Records]
  BY <1>1 DEF DeleteRecs
<1>3. ASSUME NEW k \in R PROVE Old(r[k]) /\ k \notin live /\ k \in RecordsOf(r, d)
  <2>1. /\ k \in Keys /\ k \notin live /\ k \in RecordsOf(r, d)
        /\ r[k].state \in {"finished", "evicted"}
        /\ now > r[k].created + IdempotencyWindow
    BY DEF Reclaimable, Stored, RecordsOf
  <2>2. r[k].created \in Nat
    BY <2>1 DEF Records
  <2>3. now > r[k].created + GuardWindow
    BY <2>1, <2>2, GuardBounds, TimesAssumption
  <2>. QED  BY <2>1, <2>3 DEF Old
<1>4. Keeps(r, DeleteRecs(r, R), live)
  BY <1>3 DEF Keeps, DeleteRecs
<1>. QED  BY <1>2, <1>3, <1>4

\* A sweep deletes old records and evicts finished ones.
LEMMA SweepKeeps ==
  ASSUME NEW D, rec \in [Keys -> Records], now \in Nat
  PROVE  /\ SweptRecs(D) \in [Keys -> Records]
         /\ Keeps(rec, SweptRecs(D), live)
         /\ \A d : d \notin D => RecordsOf(SweptRecs(D), d) = RecordsOf(rec, d)
<1>1. NoRecord \in Records
  BY DEF NoRecord, Records, States
<1>2. ASSUME NEW k \in Keys PROVE Evicted(rec[k]) \in Records
  <2>. rec[k] \in Records
    OBVIOUS
  <2>. QED  BY DEF Evicted, Records, States
<1>3. SweptRecs(D) \in [Keys -> Records]
  BY <1>1, <1>2 DEF SweptRecs
<1>4. ASSUME NEW k \in Keys, Deletable(rec[k]) PROVE Old(rec[k])
  <2>1. rec[k].created \in Nat
    BY DEF Records
  <2>. QED  BY <1>4, <2>1, GuardBounds, TimesAssumption DEF Deletable, Old
<1>5. Keeps(rec, SweptRecs(D), live)
  BY <1>4 DEF Keeps, SweptRecs, PastRetention
<1>6. ASSUME NEW d, d \notin D PROVE RecordsOf(SweptRecs(D), d) = RecordsOf(rec, d)
  BY <1>6 DEF RecordsOf, SweptRecs
<1>. QED  BY <1>3, <1>5, <1>6

-----------------------------------------------------------------------------
(* Spools. *)

SpoolsType == [Keys -> [Nonces -> Files]]

\* Removing the spools of E leaves those of every other run alone.
LEMMA RemoveKeeps ==
  ASSUME NEW r, NEW s \in SpoolsType, NEW E
  PROVE  /\ RemoveSpools(r, s, E) \in SpoolsType
         /\ \A k \in Keys : k \notin E => RemoveSpools(r, s, E)[k] = s[k]
<1>1. NoFile \in Files
  BY DEF NoFile, Files
<1>2. RemoveSpools(r, s, E) \in SpoolsType
  BY <1>1 DEF RemoveSpools, SpoolsType
<1>3. ASSUME NEW k \in Keys, k \notin E
      PROVE  RemoveSpools(r, s, E)[k] = s[k]
  BY <1>3 DEF RemoveSpools, SpoolsType
<1>. QED  BY <1>2, <1>3

\* A sweep removes no spool that a live run's record names.
LEMMA SweepSpoolsKeep ==
  ASSUME NEW D, spool \in SpoolsType
  PROVE  /\ SweptSpools(D) \in SpoolsType
         /\ \A k \in live \cap Keys : rec[k].frames \in Nonces =>
              SweptSpools(D)[k][rec[k].frames] = spool[k][rec[k].frames]
<1>1. NoFile \in Files
  BY DEF NoFile, Files
<1>2. SweptSpools(D) \in SpoolsType
  BY <1>1 DEF SweptSpools, SpoolsType
<1>3. ASSUME NEW k \in live \cap Keys PROVE SweptRecs(D)[k] = rec[k]
  BY DEF SweptRecs
<1>4. ASSUME NEW k \in live \cap Keys, rec[k].frames \in Nonces
      PROVE  SweptSpools(D)[k][rec[k].frames] = spool[k][rec[k].frames]
  BY <1>3, <1>4 DEF SweptSpools
<1>. QED  BY <1>2, <1>4

-----------------------------------------------------------------------------
(* The inductive invariant.  The counts alone are not inductive: a count    *)
(* falls by the number of records deleted, so its type needs the records it *)
(* counts; and that an ID is remembered needs to be known of each state a   *)
(* record can be in, not only of the recent ones.                           *)

\* The record files themselves respect the limit, counted or not.
RecordsBounded == \A d \in Devices : Cardinality(RecordsOf(rec, d)) <= RunRecords

\* What record c says of a run last started at "at" and refused at "tomb".
Guarded(c, at, tomb) ==
  /\ at <= now /\ tomb <= now
  /\ at # 0 /\ now <= at + GuardWindow =>
       c.state \in {"running", "finished", "evicted"}
  /\ tomb # 0 /\ now <= tomb + CancelTombstoneTTL => c.state = "cancelled"
  /\ c.state \in {"running", "finished", "evicted"} => at # 0 /\ c.created = at
  /\ c.state = "cancelled" => tomb # 0 /\ c.created = tomb

AllGuarded == \A k \in Keys : Guarded(rec[k], startedAt[k], tombAt[k])

IInv ==
  /\ TypeOK /\ SlotsMatchLive /\ RecordsBounded
  /\ CountMatchesDisk /\ LiveRunIntact /\ AllGuarded

\* The claim invariants are what AllGuarded says of recent claims.
LEMMA GuardedClaims ==
  ASSUME IInv PROVE ClaimRemembered /\ TombstoneHolds
BY DEF IInv, TypeOK, AllGuarded, Guarded, ClaimRemembered, TombstoneHolds

\* Records that stay, age out or are evicted stay guarded.
LEMMA KeepsGuarded ==
  ASSUME IInv, NEW r \in [Keys -> Records], NEW l, Keeps(rec, r, l)
  PROVE  \A k \in Keys : Guarded(r[k], startedAt[k], tombAt[k])
<1>. SUFFICES ASSUME NEW k \in Keys
              PROVE  Guarded(r[k], startedAt[k], tombAt[k])
  OBVIOUS
<1>1. /\ Guarded(rec[k], startedAt[k], tombAt[k])
      /\ rec[k] \in Records
      /\ now \in Nat /\ startedAt[k] \in Nat /\ tombAt[k] \in Nat
  BY DEF IInv, AllGuarded, TypeOK
<1>2. CASE r[k] = rec[k]
  BY <1>1, <1>2
<1>3. CASE r[k] = NoRecord /\ Old(rec[k])
  BY <1>1, <1>3, GuardBounds, TimesAssumption DEF Guarded, Old, NoRecord, Records
<1>4. CASE rec[k].state = "finished" /\ r[k] = Evicted(rec[k])
  BY <1>1, <1>4 DEF Guarded, Evicted
<1>. QED  BY <1>2, <1>3, <1>4 DEF Keeps

\* A step that claims nothing, as far as the disk is concerned.
LEMMA DiskStep ==
  ASSUME IInv,
         rec' \in [Keys -> Records], Keeps(rec, rec', live'),
         live' \subseteq live, done \cap live' \subseteq done',
         \A k \in live' : spool'[k][rec[k].frames].exists,
         UNCHANGED <<now, startedAt, tombAt>>
  PROVE  LiveRunIntact' /\ AllGuarded' /\ RecordsBounded'
<1>1. live \subseteq Keys /\ rec \in [Keys -> Records]
  BY DEF IInv, TypeOK
<1>2. ASSUME NEW k \in live' PROVE rec'[k] = rec[k]
  BY <1>1 DEF Keeps
<1>3. LiveRunIntact'
  BY <1>2 DEF IInv, LiveRunIntact
<1>4. AllGuarded'
  BY KeepsGuarded DEF AllGuarded, Guarded, GuardWindow
<1>5. RecordsBounded'
  <2>. SUFFICES ASSUME NEW d \in Devices
                PROVE  Cardinality(RecordsOf(rec', d)) <= RunRecords
    BY DEF RecordsBounded, RecordsOf
  <2>1. Cardinality(RecordsOf(rec', d)) <= Cardinality(RecordsOf(rec, d))
    BY <1>1, KeepsCounts
  <2>2. Cardinality(RecordsOf(rec, d)) <= RunRecords
    BY DEF IInv, RecordsBounded
  <2>. QED  BY <2>1, <2>2, RecordsOfFinite, LimitsAssumption
<1>. QED  BY <1>3, <1>4, <1>5

\* A step that leaves the disk and the caches alone.
LEMMA CountStep ==
  ASSUME IInv, UNCHANGED <<counted, count>>,
         \A d : RecordsOf(rec', d) = RecordsOf(rec, d)
  PROVE  CountMatchesDisk'
BY DEF IInv, CountMatchesDisk, RecordsOf

-----------------------------------------------------------------------------
(* One lemma for each action: it preserves the inductive invariant.         *)

\* What admitLocked leaves behind, whether it then admits or refuses.
LEMMA Admission ==
  ASSUME IInv, NEW d \in Devices,
         NEW R \in Reclaims(AdmitRecs(d), AdmitCount(d), d)
  PROVE  LET r == DeleteRecs(AdmitRecs(d), R)
             s == RemoveSpools(AdmitRecs(d), AdmitSpools(d), R)
             c == AdmitCount(d) - Cardinality(R)
         IN /\ r \in [Keys -> Records]
            /\ s \in SpoolsType
            /\ Keeps(rec, r, live)
            /\ \A k \in live : s[k][rec[k].frames].exists
            /\ c \in Nat /\ c = Cardinality(RecordsOf(r, d)) /\ c <= RunRecords
            /\ \A e : e # d => RecordsOf(r, e) = RecordsOf(rec, e)
<1>. DEFINE r0 == AdmitRecs(d)
            s0 == AdmitSpools(d)
            r == DeleteRecs(r0, R)
            s == RemoveSpools(r0, s0, R)
<1>1. /\ rec \in [Keys -> Records] /\ spool \in SpoolsType /\ now \in Nat
      /\ live \subseteq Keys /\ count \in [Devices -> Nat]
  BY DEF IInv, TypeOK, SpoolsType
<1>2. /\ r0 \in [Keys -> Records] /\ Keeps(rec, r0, live)
      /\ \A e : e # d => RecordsOf(r0, e) = RecordsOf(rec, e)
  <2>1. Keeps(rec, rec, live)
    BY DEF Keeps
  <2>2. \A e : e # d => e \notin {d}
    OBVIOUS
  <2>. QED  BY <1>1, <2>1, <2>2, SweepKeeps DEF AdmitRecs
<1>3. AdmitCount(d) = Cardinality(RecordsOf(r0, d))
  BY DEF AdmitCount, AdmitRecs, SweepDue, IInv, CountMatchesDisk
<1>4. R \in SUBSET Reclaimable(r0, d)
  BY DEF Reclaims
<1>5. /\ r \in [Keys -> Records] /\ Keeps(r0, r, live)
      /\ R \in SUBSET RecordsOf(r0, d) /\ R \cap live = {}
  BY <1>1, <1>2, <1>4, ReclaimKeeps
<1>6. Keeps(rec, r, live)
  BY <1>1, <1>2, <1>5, KeepsTrans
<1>7. ASSUME NEW k \in live PROVE s[k][rec[k].frames].exists
  <2>1. /\ rec[k].frames \in Nonces /\ k \in Keys /\ k \notin R
        /\ spool[k][rec[k].frames].exists
    BY <1>1, <1>5 DEF IInv, LiveRunIntact, Records
  <2>2. s0 \in SpoolsType /\ s0[k][rec[k].frames].exists
    BY <1>1, <2>1, SweepSpoolsKeep DEF AdmitSpools
  <2>3. s[k] = s0[k]
    BY <2>1, <2>2, RemoveKeeps
  <2>. QED  BY <2>2, <2>3
<1>8. s \in SpoolsType
  <2>1. s0 \in SpoolsType
    BY <1>1, SweepSpoolsKeep DEF AdmitSpools
  <2>. QED  BY <2>1, RemoveKeeps
<1>9. /\ Cardinality(RecordsOf(r, d)) = Cardinality(RecordsOf(r0, d)) - Cardinality(R)
      /\ \A e : e # d => RecordsOf(r, e) = RecordsOf(r0, e)
  BY <1>2, <1>5, DeleteCounts
<1>10. Cardinality(RecordsOf(r, d)) <= RunRecords
  <2>1. Cardinality(RecordsOf(r, d)) <= Cardinality(RecordsOf(rec, d))
    BY <1>1, <1>5, <1>6, KeepsCounts
  <2>. QED  BY <2>1, RecordsOfFinite, LimitsAssumption DEF IInv, RecordsBounded
<1>. QED
  BY <1>2, <1>3, <1>5, <1>6, <1>7, <1>8, <1>9, <1>10, RecordsOfFinite

\* A handler at work holds a key and a request.
LEMMA HandlerHolds ==
  ASSUME IInv, NEW h \in Handlers, handler[h].pc # "idle"
  PROVE  /\ handler[h].key \in Keys /\ handler[h].req \in Requests
         /\ handler[h].key[1] \in Devices
         /\ handler' = [handler EXCEPT ![h] = Idle] => handler' \in [Handlers -> HandlerStates]
<1>1. handler[h] \in HandlerStates /\ handler[h] # Idle
  BY DEF IInv, TypeOK, Idle
<1>2. handler[h].key \in Keys /\ handler[h].req \in Requests
  BY <1>1 DEF HandlerStates
<1>. QED  BY <1>2 DEF IInv, TypeOK, HandlerStates, Keys

\* What admission recounts is typed and right.
LEMMA RecountStep ==
  ASSUME IInv, NEW d \in Devices, NEW c \in Nat, Recount(d, c),
         c = Cardinality(RecordsOf(rec', d)), c <= RunRecords,
         \A e : e # d => RecordsOf(rec', e) = RecordsOf(rec, e)
  PROVE  /\ counted' \in SUBSET Devices /\ count' \in [Devices -> Nat]
         /\ devSweep' \in [Devices -> Nat]
         /\ CountMatchesDisk'
<1>1. /\ counted' = counted \cup {d} /\ count' = [count EXCEPT ![d] = c]
      /\ counted \in SUBSET Devices /\ count \in [Devices -> Nat]
  BY DEF Recount, IInv, TypeOK
<1>2. CountMatchesDisk'
  <2>. SUFFICES ASSUME NEW e \in counted'
                PROVE  /\ count'[e] = Cardinality(RecordsOf(rec', e))
                       /\ count'[e] <= RunRecords
    BY DEF CountMatchesDisk, RecordsOf
  <2>1. CASE e = d
    BY <1>1, <2>1
  <2>2. CASE e # d
    BY <1>1, <2>2 DEF IInv, CountMatchesDisk
  <2>. QED  BY <2>1, <2>2
<1>3. devSweep' \in [Devices -> Nat]
  BY TimesAssumption DEF Recount, IInv, TypeOK
<1>. QED  BY <1>1, <1>2, <1>3

\* Steps that leave memory alone: whether typed, and with which slots.
LEMMA MemoryStep ==
  ASSUME IInv, UNCHANGED <<live, done, cancelled, running>>
  PROVE  /\ live' \in SUBSET Keys /\ done' \in SUBSET live' /\ cancelled' \in SUBSET live'
         /\ running' \in [Devices -> Nat]
         /\ SlotsMatchLive'
BY DEF IInv, TypeOK, SlotsMatchLive

\* The lookup of a run, whoever makes it.
LEMMA LookupStep ==
  ASSUME IInv, NEW k \in Keys, LookupRun(k),
         UNCHANGED <<memory, now, crashes, ghosts>>,
         handler' \in [Handlers -> HandlerStates]
  PROVE  IInv'
<1>. DEFINE expired == k \notin live /\ PastRetention(rec[k])
            E == IF expired THEN {k} ELSE {}
<1>1. /\ rec \in [Keys -> Records] /\ spool \in SpoolsType /\ live \subseteq Keys
  BY DEF IInv, TypeOK, SpoolsType
<1>2. /\ rec' \in [Keys -> Records] /\ Keeps(rec, rec', live)
      /\ \A d : RecordsOf(rec', d) = RecordsOf(rec, d)
  <2>1. CASE expired
    <3>1. rec' = EvictRecs(rec, {k})
      BY <2>1 DEF LookupRun
    <3>2. k \notin live /\ rec[k].state = "finished"
      BY <2>1 DEF PastRetention
    <3>3. {k} \in SUBSET Keys /\ \A j \in {k} : j \notin live /\ rec[j].state = "finished"
      BY <3>2
    <3>. QED  BY <1>1, <3>1, <3>3, EvictKeeps
  <2>2. CASE ~expired
    BY <1>1, <2>2 DEF LookupRun, Keeps
  <2>. QED  BY <2>1, <2>2
<1>3. spool' \in SpoolsType /\ \A j \in live : spool'[j] = spool[j]
  <2>1. CASE expired
    <3>1. spool' = RemoveSpools(rec, spool, {k})
      BY <2>1 DEF LookupRun
    <3>. QED  BY <1>1, <2>1, <3>1, RemoveKeeps
  <2>2. CASE ~expired
    BY <1>1, <2>2 DEF LookupRun
  <2>. QED  BY <2>1, <2>2
<1>4. \A j \in live : spool'[j][rec[j].frames].exists
  BY <1>3 DEF IInv, LiveRunIntact
<1>5. UNCHANGED <<live, done, cancelled, running, counted, count, devSweep, nextSweep>>
  BY DEF memory
<1>6. UNCHANGED <<startedAt, tombAt>>
  BY DEF ghosts
<1>7. LiveRunIntact' /\ AllGuarded' /\ RecordsBounded'
  BY <1>2, <1>4, <1>5, <1>6, DiskStep
<1>8. CountMatchesDisk'
  BY <1>2, <1>5, CountStep
<1>9. SlotsMatchLive'
  BY <1>5, MemoryStep
<1>10. TypeOK'
  BY <1>2, <1>3, <1>5, <1>6 DEF IInv, TypeOK, SpoolsType
<1>. QED  BY <1>7, <1>8, <1>9, <1>10 DEF IInv

LEMMA ExecLookupPreserves ==
  ASSUME IInv, NEW h \in Handlers, NEW k \in Keys, NEW q \in Requests,
         ExecLookup(h, k, q)
  PROVE  IInv'
<1>1. handler' \in [Handlers -> HandlerStates]
  BY DEF ExecLookup, IInv, TypeOK, HandlerStates
<1>. QED  BY <1>1, LookupStep DEF ExecLookup

LEMMA RejoinPreserves ==
  ASSUME IInv, NEW h \in Handlers, Rejoin(h)
  PROVE  IInv'
<1>1. handler[h].key \in Keys /\ handler' \in [Handlers -> HandlerStates]
  BY HandlerHolds DEF Rejoin, Answer
<1>. QED  BY <1>1, LookupStep DEF Rejoin

\* The sweep of every device, by a starting or an attaching handler.
LEMMA SweepStep ==
  ASSUME IInv, SweepAll,
         UNCHANGED <<live, done, cancelled, running, now, crashes, ghosts>>,
         handler' \in [Handlers -> HandlerStates]
  PROVE  IInv'
<1>1. /\ rec \in [Keys -> Records] /\ spool \in SpoolsType /\ live \subseteq Keys
      /\ now \in Nat
  BY DEF IInv, TypeOK, SpoolsType
<1>2. UNCHANGED <<startedAt, tombAt>>
  BY DEF ghosts
<1>3. CASE now < nextSweep
  <2>1. UNCHANGED <<rec, spool, counted, count, devSweep, nextSweep>>
    BY <1>3 DEF SweepAll, disk
  <2>2. Keeps(rec, rec', live')
    BY <2>1 DEF Keeps
  <2>3. LiveRunIntact' /\ AllGuarded' /\ RecordsBounded'
    <3>1. \A j \in live' : spool'[j][rec[j].frames].exists
      BY <2>1 DEF IInv, LiveRunIntact
    <3>. QED  BY <1>1, <1>2, <2>1, <2>2, <3>1, DiskStep
  <2>4. CountMatchesDisk'
    BY <2>1, CountStep
  <2>5. TypeOK'
    BY <1>2, <2>1 DEF IInv, TypeOK
  <2>. QED  BY <2>3, <2>4, <2>5, MemoryStep DEF IInv
<1>4. CASE ~(now < nextSweep)
  <2>1. /\ rec' = SweptRecs(Devices) /\ spool' = SweptSpools(Devices)
        /\ counted' = Devices
        /\ count' = [d \in Devices |-> Cardinality(RecordsOf(SweptRecs(Devices), d))]
        /\ devSweep' = [d \in Devices |-> now + SweepEvery]
        /\ nextSweep' = now + SweepEvery
    BY <1>4 DEF SweepAll
  <2>2. /\ rec' \in [Keys -> Records] /\ Keeps(rec, rec', live')
    BY <1>1, <2>1, SweepKeeps
  <2>3. LiveRunIntact' /\ AllGuarded' /\ RecordsBounded'
    <3>1. \A j \in live' : spool'[j][rec[j].frames].exists
      <4>. SUFFICES ASSUME NEW j \in live PROVE spool'[j][rec[j].frames].exists
        OBVIOUS
      <4>1. /\ rec[j].frames \in Nonces /\ j \in live \cap Keys
            /\ spool[j][rec[j].frames].exists
        BY <1>1 DEF IInv, LiveRunIntact, Records
      <4>. QED  BY <1>1, <2>1, <4>1, SweepSpoolsKeep
    <3>. QED  BY <1>1, <1>2, <2>2, <3>1, DiskStep
  <2>4. CountMatchesDisk'
    <3>. SUFFICES ASSUME NEW d \in Devices
                  PROVE  /\ count'[d] = Cardinality(RecordsOf(rec', d))
                         /\ count'[d] <= RunRecords
      BY <2>1 DEF CountMatchesDisk, RecordsOf
    <3>. QED  BY <2>1, <2>3 DEF RecordsBounded, RecordsOf
  <2>5. TypeOK'
    <3>1. spool' \in SpoolsType
      BY <1>1, <2>1, SweepSpoolsKeep
    <3>2. count' \in [Devices -> Nat]
      BY <2>1, RecordsOfFinite
    <3>3. devSweep' \in [Devices -> Nat] /\ nextSweep' \in Nat
      BY <1>1, <2>1, TimesAssumption
    <3>. QED  BY <1>2, <2>1, <2>2, <3>1, <3>2, <3>3 DEF IInv, TypeOK, SpoolsType
  <2>. QED  BY <2>3, <2>4, <2>5, MemoryStep DEF IInv
<1>. QED  BY <1>3, <1>4

LEMMA StartSweepPreserves ==
  ASSUME IInv, NEW h \in Handlers, StartSweep(h)
  PROVE  IInv'
<1>1. handler[h] \in HandlerStates /\ handler[h] # Idle
  BY DEF IInv, TypeOK, Idle, StartSweep
<1>2. handler' \in [Handlers -> HandlerStates]
  BY <1>1 DEF StartSweep, Goto, IInv, TypeOK, HandlerStates
<1>. QED  BY <1>2, SweepStep DEF StartSweep

LEMMA AttachPreserves ==
  ASSUME IInv, NEW k \in Keys, Attach(k)
  PROVE  IInv'
<1>1. handler' \in [Handlers -> HandlerStates]
  BY DEF Attach, IInv, TypeOK
<1>. QED  BY <1>1, SweepStep, LookupStep DEF Attach

LEMMA StartRefusedPreserves ==
  ASSUME IInv, NEW h \in Handlers, StartRefused(h)
  PROVE  IInv'
<1>1. handler[h] \in HandlerStates /\ handler[h] # Idle
  BY DEF IInv, TypeOK, Idle, StartRefused
<1>2. handler' \in [Handlers -> HandlerStates]
  <2>1. CASE Goto(h, "rejoin")
    BY <1>1, <2>1 DEF Goto, IInv, TypeOK, HandlerStates
  <2>2. CASE Answer(h)
    BY <2>2, HandlerHolds DEF Answer, StartRefused
  <2>. QED  BY <2>1, <2>2 DEF StartRefused
<1>3. UNCHANGED <<rec, spool, live, done, cancelled, running, counted, count,
                  devSweep, nextSweep, now, crashes, startedAt, tombAt>>
  BY DEF StartRefused, disk, memory, ghosts
<1>4. TypeOK'
  BY <1>2, <1>3 DEF IInv, TypeOK
<1>5. SlotsMatchLive' /\ RecordsBounded' /\ CountMatchesDisk' /\ LiveRunIntact' /\ AllGuarded'
  BY <1>3 DEF IInv, SlotsMatchLive, RecordsBounded, CountMatchesDisk, LiveRunIntact,
              AllGuarded, Guarded, RecordsOf
<1>. QED  BY <1>4, <1>5 DEF IInv

\* A start that admission swept and reclaimed for, and that then fails.
LEMMA FailedStart ==
  ASSUME IInv, NEW h \in Handlers, handler[h].pc = "start", Answer(h),
         NEW R \in Reclaims(AdmitRecs(handler[h].key[1]),
                            AdmitCount(handler[h].key[1]), handler[h].key[1]),
         rec' = DeleteRecs(AdmitRecs(handler[h].key[1]), R),
         spool' = RemoveSpools(AdmitRecs(handler[h].key[1]),
                               AdmitSpools(handler[h].key[1]), R),
         Recount(handler[h].key[1], AdmitCount(handler[h].key[1]) - Cardinality(R)),
         UNCHANGED <<live, done, cancelled, running, nextSweep, now, crashes, ghosts>>
  PROVE  IInv'
<1>. DEFINE d == handler[h].key[1]
<1>1. d \in Devices /\ handler' \in [Handlers -> HandlerStates]
  BY HandlerHolds DEF Answer
<1>2. /\ rec' \in [Keys -> Records] /\ spool' \in SpoolsType /\ Keeps(rec, rec', live')
      /\ \A k \in live' : spool'[k][rec[k].frames].exists
  BY <1>1, Admission
<1>3. /\ counted' \in SUBSET Devices /\ count' \in [Devices -> Nat]
      /\ devSweep' \in [Devices -> Nat] /\ CountMatchesDisk'
  BY <1>1, Admission, RecountStep
<1>4. UNCHANGED <<startedAt, tombAt>>
  BY DEF ghosts
<1>5. LiveRunIntact' /\ AllGuarded' /\ RecordsBounded'
  BY <1>2, <1>4, DiskStep
<1>6. TypeOK'
  BY <1>1, <1>2, <1>3, <1>4 DEF IInv, TypeOK, SpoolsType
<1>. QED  BY <1>3, <1>5, <1>6, MemoryStep DEF IInv

LEMMA StartUnadmittedPreserves ==
  ASSUME IInv, NEW h \in Handlers, StartUnadmitted(h) PROVE IInv'
BY FailedStart DEF StartUnadmitted

LEMMA StartFailsPreserves ==
  ASSUME IInv, NEW h \in Handlers, StartFails(h) PROVE IInv'
BY FailedStart DEF StartFails

\* The slots of a device when a run joins or leaves the live ones.
LEMMA LiveCounts ==
  ASSUME IInv, NEW k \in Keys, NEW d
  PROVE  /\ Cardinality({j \in live : j[1] = d}) \in Nat
         /\ k \notin live =>
              Cardinality({j \in live \cup {k} : j[1] = d})
                = Cardinality({j \in live : j[1] = d}) + (IF k[1] = d THEN 1 ELSE 0)
         /\ k \in live =>
              Cardinality({j \in live \ {k} : j[1] = d})
                = Cardinality({j \in live : j[1] = d}) - (IF k[1] = d THEN 1 ELSE 0)
<1>. DEFINE L == {j \in live : j[1] = d}
<1>1. L \in SUBSET Keys
  BY DEF IInv, TypeOK
<1>2. IsFiniteSet(L) /\ Cardinality(L) \in Nat
  BY <1>1, KeysFinite
<1>3. ASSUME k \notin live
      PROVE  Cardinality({j \in live \cup {k} : j[1] = d})
               = Cardinality(L) + (IF k[1] = d THEN 1 ELSE 0)
  <2>1. {j \in live \cup {k} : j[1] = d} = IF k[1] = d THEN L \cup {k} ELSE L
    OBVIOUS
  <2>2. k \notin L
    BY <1>3
  <2>3. Cardinality(L \cup {k}) = Cardinality(L) + 1
    BY <1>2, <2>2, FS_AddElement
  <2>. HIDE DEF L
  <2>4. CASE k[1] = d
    BY <2>1, <2>3, <2>4
  <2>5. CASE k[1] # d
    BY <1>2, <2>1, <2>5
  <2>. QED  BY <2>4, <2>5
<1>4. ASSUME k \in live
      PROVE  Cardinality({j \in live \ {k} : j[1] = d})
               = Cardinality(L) - (IF k[1] = d THEN 1 ELSE 0)
  <2>2. k[1] = d => k \in L
    BY <1>4
  <2>3. k \in L => Cardinality(L \ {k}) = Cardinality(L) - 1
    BY <1>2, FS_RemoveElement
  <2>4. CASE k[1] = d
    <3>1. {j \in live \ {k} : j[1] = d} = L \ {k}
      BY <2>4
    <3>. QED  BY <1>2, <2>2, <2>3, <2>4, <3>1
  <2>5. CASE k[1] # d
    <3>1. {j \in live \ {k} : j[1] = d} = L
      BY <2>5
    <3>2. Cardinality(L) - 0 = Cardinality(L)
      BY <1>2
    <3>3. (IF k[1] = d THEN 1 ELSE 0) = 0
      BY <2>5
    <3>. QED  BY <3>1, <3>2, <3>3, Zenon
  <2>. QED  BY <2>4, <2>5
<1>. QED  BY <1>2, <1>3, <1>4

LEMMA WritePreserves ==
  ASSUME IInv, NEW k \in Keys, Write(k) PROVE IInv'
<1>. DEFINE n == rec[k].frames
<1>1. UNCHANGED <<rec, live, done, cancelled, running, counted, count,
                  devSweep, nextSweep, handler, now, crashes, startedAt, tombAt>>
  BY DEF Write, memory, ghosts
<1>2. n \in Nonces /\ spool \in SpoolsType
  BY DEF Write, IInv, TypeOK, LiveRunIntact, Records, SpoolsType
<1>3. spool[k][n] \in Files
  BY <1>2 DEF SpoolsType
<1>4. [exists |-> TRUE, mtime |-> now, bytes |-> spool[k][n].bytes + 1] \in Files
  BY <1>3 DEF Files, IInv, TypeOK
<1>5. spool' = [spool EXCEPT ![k] = [spool[k] EXCEPT ![n] =
                  [exists |-> TRUE, mtime |-> now, bytes |-> spool[k][n].bytes + 1]]]
  BY <1>2 DEF Write, SpoolsType
<1>6. spool' \in SpoolsType
  BY <1>2, <1>4, <1>5 DEF SpoolsType
<1>7. LiveRunIntact'
  BY <1>1, <1>2, <1>5 DEF IInv, LiveRunIntact, SpoolsType, TypeOK
<1>8. TypeOK'
  BY <1>1, <1>6 DEF IInv, TypeOK, SpoolsType
<1>9. SlotsMatchLive' /\ RecordsBounded' /\ CountMatchesDisk' /\ AllGuarded'
  BY <1>1 DEF IInv, SlotsMatchLive, RecordsBounded, CountMatchesDisk, AllGuarded,
              Guarded, RecordsOf
<1>. QED  BY <1>7, <1>8, <1>9 DEF IInv

\* The claim of run k by record c, after an admission that left r.
LEMMA ClaimedRecords ==
  ASSUME IInv, NEW k \in Keys, NEW r \in [Keys -> Records], Keeps(rec, r, live),
         rec[k].state = "none", NEW c \in Records, c.state # "none",
         Cardinality(RecordsOf(r, k[1])) < RunRecords,
         \A e : e # k[1] => RecordsOf(r, e) = RecordsOf(rec, e)
  PROVE  /\ r[k].state = "none"
         /\ [r EXCEPT ![k] = c] \in [Keys -> Records]
         /\ Cardinality(RecordsOf([r EXCEPT ![k] = c], k[1]))
              = Cardinality(RecordsOf(r, k[1])) + 1
         /\ \A e : e # k[1] =>
              RecordsOf([r EXCEPT ![k] = c], e) = RecordsOf(rec, e)
         /\ \A d \in Devices :
              Cardinality(RecordsOf([r EXCEPT ![k] = c], d)) <= RunRecords
<1>1. r[k].state = "none"
  BY DEF Keeps, NoRecord
<1>2. /\ Cardinality(RecordsOf([r EXCEPT ![k] = c], k[1]))
           = Cardinality(RecordsOf(r, k[1])) + 1
      /\ \A e : e # k[1] => RecordsOf([r EXCEPT ![k] = c], e) = RecordsOf(rec, e)
  <2>1. /\ Cardinality(RecordsOf([r EXCEPT ![k] = c], k[1]))
             = Cardinality(RecordsOf(r, k[1])) + 1
        /\ \A e : e # k[1] => RecordsOf([r EXCEPT ![k] = c], e) = RecordsOf(r, e)
    BY <1>1, ClaimCounts, Zenon
  <2>. QED  BY <2>1, Zenon
<1>3. ASSUME NEW d \in Devices
      PROVE  Cardinality(RecordsOf([r EXCEPT ![k] = c], d)) <= RunRecords
  <2>1. CASE d = k[1]
    BY <1>2, <2>1, RecordsOfFinite, LimitsAssumption
  <2>2. CASE d # k[1]
    BY <1>2, <2>2 DEF IInv, RecordsBounded
  <2>. QED  BY <2>1, <2>2
<1>. QED  BY <1>1, <1>2, <1>3

LEMMA CancelEarlyPreserves ==
  ASSUME IInv, NEW k \in Keys, CancelEarly(k) PROVE IInv'
<1>. DEFINE d == k[1]
<1>1. d \in Devices
  BY DEF Keys
<1>2. PICK R \in Reclaims(AdmitRecs(d), AdmitCount(d), d) :
        LET c      == AdmitCount(d) - Cardinality(R)
            claims == c < RunRecords
        IN /\ rec' = IF claims
                     THEN [DeleteRecs(AdmitRecs(d), R) EXCEPT ![k] = Tombstone]
                     ELSE DeleteRecs(AdmitRecs(d), R)
           /\ spool' = RemoveSpools(AdmitRecs(d), AdmitSpools(d), R)
           /\ Recount(d, IF claims THEN c + 1 ELSE c)
           /\ tombAt' = IF claims THEN [tombAt EXCEPT ![k] = now] ELSE tombAt
  BY DEF CancelEarly
<1>. DEFINE r == DeleteRecs(AdmitRecs(d), R)
            s == RemoveSpools(AdmitRecs(d), AdmitSpools(d), R)
            c == AdmitCount(d) - Cardinality(R)
<1>3. /\ r \in [Keys -> Records] /\ s \in SpoolsType /\ Keeps(rec, r, live)
      /\ \A j \in live : s[j][rec[j].frames].exists
      /\ c \in Nat /\ c = Cardinality(RecordsOf(r, d)) /\ c <= RunRecords
      /\ \A e : e # d => RecordsOf(r, e) = RecordsOf(rec, e)
  BY <1>1, Admission
<1>4. /\ UNCHANGED <<live, done, cancelled, running, nextSweep, handler, now, crashes, startedAt>>
      /\ k \notin live /\ rec[k].state = "none"
      /\ spool' = s /\ s \in SpoolsType
  BY <1>2, <1>3 DEF CancelEarly
<1>. HIDE DEF r, s, c
<1>5. CASE c < RunRecords
  <2>1. /\ rec' = [r EXCEPT ![k] = Tombstone] /\ Recount(d, c + 1)
        /\ tombAt' = [tombAt EXCEPT ![k] = now]
    BY <1>2, <1>5 DEF r, c
  <2>2. Tombstone \in Records /\ Tombstone.state = "cancelled" /\ Tombstone.created = now
    BY DEF Tombstone, Records, States, IInv, TypeOK
  <2>3. /\ r[k].state = "none" /\ rec' \in [Keys -> Records]
        /\ c + 1 = Cardinality(RecordsOf(rec', d))
        /\ \A e : e # d => RecordsOf(rec', e) = RecordsOf(rec, e)
        /\ RecordsBounded'
    <3>1. Tombstone.state # "none" /\ Cardinality(RecordsOf(r, d)) < RunRecords
      BY <1>3, <1>5, <2>2
    <3>2. LET q == [r EXCEPT ![k] = Tombstone]
          IN /\ r[k].state = "none" /\ q \in [Keys -> Records]
             /\ Cardinality(RecordsOf(q, k[1])) = Cardinality(RecordsOf(r, k[1])) + 1
             /\ \A e : e # k[1] => RecordsOf(q, e) = RecordsOf(rec, e)
             /\ \A e \in Devices : Cardinality(RecordsOf(q, e)) <= RunRecords
      BY <1>3, <1>4, <2>2, <3>1, ClaimedRecords
    <3>. QED  BY <1>3, <2>1, <3>2 DEF RecordsBounded, RecordsOf
  <2>4. /\ counted' \in SUBSET Devices /\ count' \in [Devices -> Nat]
        /\ devSweep' \in [Devices -> Nat] /\ CountMatchesDisk'
    <3>1. c + 1 \in Nat /\ c + 1 <= RunRecords
      BY <1>3, <1>5, LimitsAssumption
    <3>. QED  BY <1>1, <2>1, <2>3, <3>1, RecountStep
  <2>5. AllGuarded'
    <3>. SUFFICES ASSUME NEW j \in Keys
                  PROVE  Guarded(rec[j], startedAt[j], tombAt[j])'
      BY DEF AllGuarded
    <3>1. CASE j = k
      <4>1. Guarded(rec[k], startedAt[k], tombAt[k])
        BY DEF IInv, AllGuarded
      <4>2. rec'[k] = Tombstone /\ tombAt'[k] = now
        BY <1>3, <2>1 DEF IInv, TypeOK
      <4>3. now \in Nat \ {0} /\ startedAt[k] \in Nat
        BY LimitsAssumption DEF IInv, TypeOK
      <4>. QED  BY <1>4, <2>2, <3>1, <4>1, <4>2, <4>3 DEF Guarded, GuardWindow
    <3>2. CASE j # k
      <4>1. Guarded(r[j], startedAt[j], tombAt[j])
        BY <1>3, KeepsGuarded
      <4>2. rec'[j] = r[j] /\ tombAt'[j] = tombAt[j]
        BY <1>3, <2>1, <3>2 DEF IInv, TypeOK
      <4>. QED  BY <1>4, <4>1, <4>2 DEF Guarded, GuardWindow
    <3>. QED  BY <3>1, <3>2
  <2>6. LiveRunIntact'
    <3>1. ASSUME NEW j \in live PROVE rec'[j] = rec[j]
      BY <1>3, <1>4, <2>1 DEF Keeps, IInv, TypeOK
    <3>. QED  BY <1>3, <1>4, <3>1 DEF IInv, LiveRunIntact
  <2>7. TypeOK'
    BY <1>4, <2>1, <2>3, <2>4 DEF IInv, TypeOK, SpoolsType
  <2>. QED  BY <1>4, <2>3, <2>4, <2>5, <2>6, <2>7, MemoryStep DEF IInv
<1>6. CASE ~(c < RunRecords)
  <2>1. rec' = r /\ Recount(d, c) /\ tombAt' = tombAt
    BY <1>2, <1>6 DEF r, c
  <2>2. /\ counted' \in SUBSET Devices /\ count' \in [Devices -> Nat]
        /\ devSweep' \in [Devices -> Nat] /\ CountMatchesDisk'
    BY <1>1, <1>3, <2>1, RecountStep
  <2>3. LiveRunIntact' /\ AllGuarded' /\ RecordsBounded'
    BY <1>3, <1>4, <2>1, DiskStep
  <2>4. TypeOK'
    BY <1>3, <1>4, <2>1, <2>2 DEF IInv, TypeOK, SpoolsType
  <2>. QED  BY <1>4, <2>2, <2>3, <2>4, MemoryStep DEF IInv
<1>. QED  BY <1>5, <1>6

LEMMA StartCommitsPreserves ==
  ASSUME IInv, NEW h \in Handlers, StartCommits(h) PROVE IInv'
<1>. DEFINE k == handler[h].key
            d == k[1]
            q == handler[h].req
<1>1. /\ k \in Keys /\ d \in Devices /\ q \in Requests
      /\ handler' \in [Handlers -> HandlerStates]
  BY HandlerHolds DEF StartCommits, Answer
<1>2. PICK R \in Reclaims(AdmitRecs(d), AdmitCount(d), d), n \in Nonces :
        LET s1 == RemoveSpools(AdmitRecs(d), AdmitSpools(d), R)
            r1 == [DeleteRecs(AdmitRecs(d), R) EXCEPT ![k] = NewRecord(q, n)]
            s2 == [s1 EXCEPT ![k][n] = NewFile]
        IN /\ AdmitCount(d) - Cardinality(R) < RunRecords
           /\ \E E \in Evictions(r1, s2, live \cup {k}, d, RunMaxBytes) :
                /\ rec' = EvictRecs(r1, E)
                /\ spool' = RemoveSpools(r1, s2, E)
           /\ Recount(d, AdmitCount(d) - Cardinality(R) + 1)
  BY Zenon DEF StartCommits
<1>. DEFINE r == DeleteRecs(AdmitRecs(d), R)
            s == RemoveSpools(AdmitRecs(d), AdmitSpools(d), R)
            c == AdmitCount(d) - Cardinality(R)
            r1 == [r EXCEPT ![k] = NewRecord(q, n)]
            s2 == [s EXCEPT ![k][n] = NewFile]
<1>3. /\ r \in [Keys -> Records] /\ s \in SpoolsType /\ Keeps(rec, r, live)
      /\ \A j \in live : s[j][rec[j].frames].exists
      /\ c \in Nat /\ c = Cardinality(RecordsOf(r, d)) /\ c <= RunRecords
      /\ \A e : e # d => RecordsOf(r, e) = RecordsOf(rec, e)
  BY <1>1, Admission
<1>4. PICK E \in Evictions(r1, s2, live \cup {k}, d, RunMaxBytes) :
        rec' = EvictRecs(r1, E) /\ spool' = RemoveSpools(r1, s2, E)
  BY <1>2
<1>5. c < RunRecords /\ Recount(d, c + 1)
  BY <1>2
<1>6. /\ UNCHANGED <<done, cancelled, nextSweep, now, crashes, tombAt>>
      /\ rec[k].state = "none" /\ running[d] < MaxConcurrent
      /\ live' = live \cup {k}
      /\ running' = [running EXCEPT ![d] = @ + 1]
      /\ startedAt' = [startedAt EXCEPT ![k] = now]
  BY DEF StartCommits
<1>7. k \notin live
  BY <1>6 DEF IInv, LiveRunIntact
<1>. HIDE DEF r, s, c, r1, s2
<1>8. /\ NewRecord(q, n) \in Records /\ NewRecord(q, n).state # "none"
  BY <1>1 DEF NewRecord, Records, States, IInv, TypeOK
<1>9. /\ r1 \in [Keys -> Records]
      /\ Cardinality(RecordsOf(r1, k[1])) = Cardinality(RecordsOf(r, k[1])) + 1
      /\ \A e : e # k[1] => RecordsOf(r1, e) = RecordsOf(rec, e)
      /\ \A e \in Devices : Cardinality(RecordsOf(r1, e)) <= RunRecords
  BY <1>1, <1>3, <1>5, <1>6, <1>8, ClaimedRecords DEF r1
<1>10. /\ rec' \in [Keys -> Records] /\ Keeps(r1, rec', live \cup {k})
       /\ \A e : RecordsOf(rec', e) = RecordsOf(r1, e)
       /\ E \cap (live \cup {k}) = {}
  <2>1. E \in SUBSET Keys /\ \A j \in E : j \notin live \cup {k} /\ r1[j].state = "finished"
    BY <1>9, EvictionsKeep
  <2>. QED  BY <1>4, <1>9, <2>1, EvictKeeps
<1>11. RecordsBounded'
  BY <1>9, <1>10 DEF RecordsBounded, RecordsOf
<1>12. /\ counted' \in SUBSET Devices /\ count' \in [Devices -> Nat]
       /\ devSweep' \in [Devices -> Nat] /\ CountMatchesDisk'
  <2>1. c + 1 \in Nat /\ c + 1 <= RunRecords
    BY <1>3, <1>5, LimitsAssumption
  <2>2. /\ c + 1 = Cardinality(RecordsOf(rec', d))
        /\ \A e : e # d => RecordsOf(rec', e) = RecordsOf(rec, e)
    BY <1>3, <1>9, <1>10
  <2>. QED  BY <1>1, <1>5, <2>1, <2>2, RecountStep
<1>13. s2 \in SpoolsType /\ s2[k][n].exists /\ \A j \in live : s2[j] = s[j]
  <2>1. NewFile \in Files /\ NewFile.exists
    BY DEF NewFile, Files, IInv, TypeOK
  <2>. QED  BY <1>1, <1>3, <1>7, <2>1 DEF SpoolsType, IInv, TypeOK, s2
<1>14. spool' \in SpoolsType /\ \A j \in live \cup {k} : spool'[j] = s2[j]
  <2>1. live \cup {k} \subseteq Keys
    BY <1>1 DEF IInv, TypeOK
  <2>. QED  BY <1>4, <1>10, <1>13, <2>1, RemoveKeeps
<1>15. rec'[k] = NewRecord(q, n) /\ \A j \in live : rec'[j] = rec[j]
  BY <1>1, <1>3, <1>7, <1>10 DEF Keeps, IInv, TypeOK, r1
<1>16. LiveRunIntact'
  <2>. SUFFICES ASSUME NEW j \in live'
                PROVE  /\ rec'[j].state \in {"running", "finished"}
                       /\ rec'[j].state = "finished" => j \in done'
                       /\ rec'[j].frames # 0
                       /\ spool'[j][rec'[j].frames].exists
    BY DEF LiveRunIntact
  <2>1. CASE j = k
    <3>1. n # 0
      BY NamesAssumption
    <3>2. rec'[k].state = "running" /\ rec'[k].frames = n
      BY <1>15 DEF NewRecord
    <3>. QED  BY <1>13, <1>14, <2>1, <3>1, <3>2
  <2>2. CASE j \in live
    BY <1>3, <1>6, <1>13, <1>14, <1>15, <2>2 DEF IInv, LiveRunIntact
  <2>. QED  BY <1>6, <2>1, <2>2
<1>17. AllGuarded'
  <2>. SUFFICES ASSUME NEW j \in Keys
                PROVE  Guarded(rec[j], startedAt[j], tombAt[j])'
    BY DEF AllGuarded
  <2>1. CASE j = k
    <3>1. Guarded(rec[k], startedAt[k], tombAt[k])
      BY <1>1 DEF IInv, AllGuarded
    <3>2. rec'[k].state = "running" /\ rec'[k].created = now /\ startedAt'[k] = now
      BY <1>1, <1>6, <1>15 DEF NewRecord, IInv, TypeOK
    <3>3. now \in Nat \ {0} /\ tombAt[k] \in Nat
      BY <1>1, LimitsAssumption DEF IInv, TypeOK
    <3>. QED  BY <1>6, <2>1, <3>1, <3>2, <3>3 DEF Guarded, GuardWindow
  <2>2. CASE j # k
    <3>1. Guarded(r[j], startedAt[j], tombAt[j])
      BY <1>3, KeepsGuarded
    <3>2. r1[j] = r[j] /\ startedAt'[j] = startedAt[j] /\ tombAt'[j] = tombAt[j] /\ now' = now
      BY <1>1, <1>3, <1>6, <2>2 DEF IInv, TypeOK, r1
    <3>3. rec'[j] = r[j] \/ (r[j].state = "finished" /\ rec'[j] = Evicted(r[j]))
      <4>1. rec'[j] = r1[j] \/ (r1[j].state = "finished" /\ rec'[j] = Evicted(r1[j]))
        <5>1. j \in E => r1[j].state = "finished"
          BY <1>9, EvictionsKeep
        <5>. QED  BY <1>4, <5>1 DEF EvictRecs
      <4>. QED  BY <3>2, <4>1
    <3>. QED  BY <3>1, <3>2, <3>3 DEF Guarded, GuardWindow, Evicted
  <2>. QED  BY <2>1, <2>2
<1>18. SlotsMatchLive' /\ running' \in [Devices -> Nat]
  <2>1. running' \in [Devices -> Nat]
    BY <1>1, <1>6 DEF IInv, TypeOK
  <2>2. ASSUME NEW e \in Devices
        PROVE  /\ running'[e] = Cardinality({j \in live' : j[1] = e})
               /\ running'[e] <= MaxConcurrent
    <3>1. /\ running[e] = Cardinality({j \in live : j[1] = e})
          /\ running[e] <= MaxConcurrent /\ running \in [Devices -> Nat]
      BY DEF IInv, SlotsMatchLive, TypeOK
    <3>2. Cardinality({j \in live' : j[1] = e})
            = Cardinality({j \in live : j[1] = e}) + (IF k[1] = e THEN 1 ELSE 0)
      BY <1>1, <1>6, <1>7, LiveCounts
    <3>3. running'[e] = running[e] + (IF k[1] = e THEN 1 ELSE 0)
      BY <1>1, <1>6, <3>1
    <3>4. running[e] + (IF k[1] = e THEN 1 ELSE 0) <= MaxConcurrent
      BY <1>1, <1>6, <3>1, LimitsAssumption
    <3>. QED  BY <3>1, <3>2, <3>3, <3>4
  <2>. QED  BY <2>1, <2>2 DEF SlotsMatchLive
<1>19. TypeOK'
  <2>1. /\ live' \in SUBSET Keys /\ done' \in SUBSET live' /\ cancelled' \in SUBSET live'
        /\ startedAt' \in [Keys -> Nat] /\ tombAt' \in [Keys -> Nat]
        /\ nextSweep' \in Nat /\ now' \in 1..MaxTime /\ crashes' \in 0..MaxCrashes
    BY <1>1, <1>6 DEF IInv, TypeOK
  <2>. QED  BY <1>1, <1>10, <1>12, <1>14, <1>18, <2>1 DEF TypeOK, SpoolsType
<1>. QED  BY <1>11, <1>12, <1>16, <1>17, <1>18, <1>19 DEF IInv

LEMMA FinishPreserves ==
  ASSUME IInv, NEW k \in Keys, Finish(k) PROVE IInv'
<1>1. /\ UNCHANGED <<spool, live, cancelled, running, counted, count, devSweep,
                     nextSweep, handler, now, crashes, startedAt, tombAt>>
      /\ k \in live \ done /\ done' = done \cup {k}
      /\ rec' = [rec EXCEPT ![k] = Finished(rec[k])] \/ rec' = rec
  BY DEF Finish, ghosts
<1>2. /\ rec[k] \in Records /\ rec[k].state = "running"
  BY <1>1 DEF IInv, TypeOK, LiveRunIntact
<1>3. Finished(rec[k]) \in Records
  BY <1>2 DEF Finished, Records, States, IInv, TypeOK
<1>4. /\ rec' \in [Keys -> Records] /\ \A j \in Keys \ {k} : rec'[j] = rec[j]
      /\ rec'[k].state \in {"running", "finished"}
      /\ rec'[k].created = rec[k].created /\ rec'[k].frames = rec[k].frames
  BY <1>1, <1>2, <1>3 DEF Finished, IInv, TypeOK
<1>5. ASSUME NEW d PROVE RecordsOf(rec', d) = RecordsOf(rec, d)
  <2>1. \A j \in Keys : rec'[j].state # "none" <=> rec[j].state # "none"
    BY <1>2, <1>4
  <2>. QED  BY <2>1 DEF RecordsOf
<1>6. RecordsBounded'
  BY <1>5 DEF IInv, RecordsBounded, RecordsOf
<1>7. CountMatchesDisk'
  BY <1>1, <1>5, CountStep
<1>8. LiveRunIntact'
  BY <1>1, <1>4 DEF IInv, LiveRunIntact, TypeOK
<1>9. AllGuarded'
  <2>. SUFFICES ASSUME NEW j \in Keys
                PROVE  Guarded(rec[j], startedAt[j], tombAt[j])'
    BY DEF AllGuarded
  <2>1. Guarded(rec[j], startedAt[j], tombAt[j])
    BY DEF IInv, AllGuarded
  <2>. QED  BY <1>1, <1>2, <1>4, <2>1 DEF Guarded, GuardWindow
<1>10. TypeOK'
  BY <1>1, <1>4 DEF IInv, TypeOK
<1>11. SlotsMatchLive'
  BY <1>1 DEF IInv, SlotsMatchLive
<1>. QED  BY <1>6, <1>7, <1>8, <1>9, <1>10, <1>11 DEF IInv

LEMMA EndRunPreserves ==
  ASSUME IInv, NEW k \in Keys, EndRun(k) PROVE IInv'
<1>1. /\ UNCHANGED <<counted, count, devSweep, nextSweep, handler, now, crashes,
                     startedAt, tombAt>>
      /\ k \in done /\ live' = live \ {k} /\ done' = done \ {k}
      /\ cancelled' = cancelled \ {k}
      /\ running' = [running EXCEPT ![k[1]] = @ - 1]
  BY DEF EndRun, Release, ghosts
<1>2. PICK E \in Evictions(rec, spool, live \ {k}, k[1], 0) :
        rec' = EvictRecs(rec, E) /\ spool' = RemoveSpools(rec, spool, E)
  BY DEF EndRun
<1>3. /\ rec \in [Keys -> Records] /\ spool \in SpoolsType /\ live \subseteq Keys
      /\ k \in live /\ k[1] \in Devices
  BY <1>1 DEF IInv, TypeOK, SpoolsType, Keys
<1>4. E \in SUBSET Keys /\ \A j \in E : j \notin live \ {k} /\ rec[j].state = "finished"
  BY <1>3, EvictionsKeep
<1>5. /\ rec' \in [Keys -> Records] /\ Keeps(rec, rec', live')
      /\ \A d : RecordsOf(rec', d) = RecordsOf(rec, d)
  BY <1>1, <1>2, <1>3, <1>4, EvictKeeps
<1>6. spool' \in SpoolsType /\ \A j \in live' : spool'[j] = spool[j]
  BY <1>1, <1>2, <1>3, <1>4, RemoveKeeps
<1>7. \A j \in live' : spool'[j][rec[j].frames].exists
  BY <1>1, <1>6 DEF IInv, LiveRunIntact
<1>8. LiveRunIntact' /\ AllGuarded' /\ RecordsBounded'
  BY <1>1, <1>5, <1>7, DiskStep
<1>9. CountMatchesDisk'
  BY <1>1, <1>5, CountStep
<1>10. SlotsMatchLive' /\ running' \in [Devices -> Nat]
  <2>1. ASSUME NEW e \in Devices
        PROVE  /\ running'[e] = Cardinality({j \in live' : j[1] = e})
               /\ running'[e] <= MaxConcurrent /\ running'[e] \in Nat
    <3>1. /\ running[e] = Cardinality({j \in live : j[1] = e})
          /\ running[e] <= MaxConcurrent /\ running \in [Devices -> Nat]
      BY DEF IInv, SlotsMatchLive, TypeOK
    <3>2. Cardinality({j \in live' : j[1] = e})
            = Cardinality({j \in live : j[1] = e}) - (IF k[1] = e THEN 1 ELSE 0)
      BY <1>1, <1>3, LiveCounts
    <3>3. running'[e] = running[e] - (IF k[1] = e THEN 1 ELSE 0)
      BY <1>1, <1>3, <3>1
    <3>4. Cardinality({j \in live' : j[1] = e}) \in Nat
      BY <1>1, <1>3, KeysFinite
    <3>. QED  BY <3>1, <3>2, <3>3, <3>4, LimitsAssumption
  <2>2. running' = [e \in Devices |-> running'[e]]
    BY <1>1 DEF IInv, TypeOK
  <2>. QED  BY <2>1, <2>2 DEF SlotsMatchLive
<1>11. TypeOK'
  <2>1. /\ live' \in SUBSET Keys /\ done' \in SUBSET live' /\ cancelled' \in SUBSET live'
    BY <1>1 DEF IInv, TypeOK
  <2>. QED  BY <1>1, <1>5, <1>6, <1>10, <2>1 DEF IInv, TypeOK, SpoolsType
<1>. QED  BY <1>8, <1>9, <1>10, <1>11 DEF IInv

\* A cancel or a timeout of a live run only cancels its context.
LEMMA CancelPreserves ==
  ASSUME IInv, NEW k \in Keys, CancelLive(k) \/ TimerFires(k) PROVE IInv'
<1>1. /\ UNCHANGED <<rec, spool, live, done, running, counted, count, devSweep,
                     nextSweep, handler, now, crashes, startedAt, tombAt>>
      /\ cancelled' \in SUBSET live
  BY DEF CancelLive, TimerFires, disk, ghosts, IInv, TypeOK
<1>2. TypeOK'
  BY <1>1 DEF IInv, TypeOK
<1>3. SlotsMatchLive' /\ CountMatchesDisk' /\ LiveRunIntact'
  BY <1>1 DEF IInv, SlotsMatchLive, CountMatchesDisk, LiveRunIntact, RecordsOf
<1>4. RecordsBounded' /\ AllGuarded'
  BY <1>1 DEF IInv, RecordsBounded, AllGuarded, Guarded, GuardWindow, RecordsOf
<1>. QED  BY <1>2, <1>3, <1>4 DEF IInv

LEMMA TickPreserves ==
  ASSUME IInv, Tick PROVE IInv'
<1>1. UNCHANGED <<rec, spool, live, done, cancelled, running, counted, count,
                  devSweep, nextSweep, handler, crashes, startedAt, tombAt>>
  BY DEF Tick, disk, memory, ghosts
<1>2. now' = now + 1 /\ now \in Nat /\ now' \in 1..MaxTime
  BY LimitsAssumption DEF Tick, IInv, TypeOK
<1>3. TypeOK'
  BY <1>1, <1>2 DEF IInv, TypeOK
<1>4. AllGuarded'
  <2>. SUFFICES ASSUME NEW j \in Keys
                PROVE  Guarded(rec[j], startedAt[j], tombAt[j])'
    BY DEF AllGuarded
  <2>1. /\ Guarded(rec[j], startedAt[j], tombAt[j])
        /\ startedAt[j] \in Nat /\ tombAt[j] \in Nat
    BY DEF IInv, AllGuarded, TypeOK
  <2>. QED
    BY <1>1, <1>2, <2>1, GuardBounds, TimesAssumption DEF Guarded, GuardWindow
<1>5. SlotsMatchLive' /\ RecordsBounded' /\ CountMatchesDisk' /\ LiveRunIntact'
  BY <1>1 DEF IInv, SlotsMatchLive, RecordsBounded, CountMatchesDisk,
              LiveRunIntact, RecordsOf
<1>. QED  BY <1>3, <1>4, <1>5 DEF IInv

\* A crash wherever it happens: only the disk is left, and no live run.
LEMMA LoseMemoryStep ==
  ASSUME IInv, LoseMemory, rec' = rec, spool' \in SpoolsType PROVE IInv'
<1>1. /\ live' = {} /\ done' = {} /\ cancelled' = {} /\ counted' = {}
      /\ running' = [d \in Devices |-> 0] /\ count' = [d \in Devices |-> 0]
      /\ devSweep' = [d \in Devices |-> 0] /\ nextSweep' = 0
      /\ handler' = [h \in Handlers |-> Idle]
      /\ UNCHANGED <<now, startedAt, tombAt>>
  BY DEF LoseMemory, ghosts
<1>2. crashes' \in 0..MaxCrashes
  BY LimitsAssumption DEF LoseMemory, IInv, TypeOK
<1>3. TypeOK'
  BY <1>1, <1>2 DEF IInv, TypeOK, SpoolsType, HandlerStates
<1>4. SlotsMatchLive'
  <2>1. \A d : {j \in live' : j[1] = d} = {}
    BY <1>1
  <2>. QED  BY <1>1, <2>1, FS_EmptySet, LimitsAssumption DEF SlotsMatchLive
<1>5. CountMatchesDisk' /\ LiveRunIntact'
  BY <1>1 DEF CountMatchesDisk, LiveRunIntact
<1>6. RecordsBounded' /\ AllGuarded'
  BY <1>1 DEF IInv, RecordsBounded, AllGuarded, Guarded, RecordsOf, GuardWindow
<1>. QED  BY <1>3, <1>4, <1>5, <1>6 DEF IInv

LEMMA CrashPreserves ==
  ASSUME IInv, Crash PROVE IInv'
BY LoseMemoryStep DEF Crash, disk, IInv, TypeOK, SpoolsType

LEMMA CrashInStartPreserves ==
  ASSUME IInv, NEW h \in Handlers, CrashInStart(h) PROVE IInv'
<1>1. handler[h].key \in Keys
  BY HandlerHolds DEF CrashInStart
<1>2. NewFile \in Files
  BY DEF NewFile, Files, IInv, TypeOK
<1>3. spool' \in SpoolsType
  BY <1>1, <1>2 DEF CrashInStart, IInv, TypeOK, SpoolsType
<1>. QED  BY <1>3, LoseMemoryStep DEF CrashInStart

LEMMA CrashInEvictPreserves ==
  ASSUME IInv, NEW k \in Keys, CrashInEvict(k) PROVE IInv'
<1>1. spool \in SpoolsType
  BY DEF IInv, TypeOK, SpoolsType
<1>2. spool' \in SpoolsType
  BY <1>1, RemoveKeeps DEF CrashInEvict
<1>. QED  BY <1>2, LoseMemoryStep DEF CrashInEvict

-----------------------------------------------------------------------------
(* The theorems. *)

LEMMA InitIInv == Init => IInv
<1>. SUFFICES ASSUME Init PROVE IInv
  OBVIOUS
<1>1. NoRecord \in Records /\ NoFile \in Files
  BY DEF NoRecord, Records, States, NoFile, Files
<1>2. TypeOK
  BY <1>1, LimitsAssumption DEF Init, TypeOK, HandlerStates
<1>3. SlotsMatchLive
  <2>1. \A d : {j \in live : j[1] = d} = {}
    BY DEF Init
  <2>. QED  BY <2>1, FS_EmptySet, LimitsAssumption DEF Init, SlotsMatchLive
<1>4. RecordsBounded
  <2>1. \A d : RecordsOf(rec, d) = {}
    BY DEF Init, RecordsOf, NoRecord
  <2>. QED  BY <2>1, FS_EmptySet, LimitsAssumption DEF RecordsBounded
<1>5. CountMatchesDisk /\ LiveRunIntact
  BY DEF Init, CountMatchesDisk, LiveRunIntact
<1>6. AllGuarded
  BY DEF Init, AllGuarded, Guarded, NoRecord
<1>. QED  BY <1>2, <1>3, <1>4, <1>5, <1>6 DEF IInv

\* A stuttering step.
LEMMA StutterPreserves ==
  ASSUME IInv, UNCHANGED vars PROVE IInv'
<1>1. UNCHANGED <<rec, spool, live, done, cancelled, running, counted, count,
                  devSweep, nextSweep, handler, now, crashes, startedAt, tombAt>>
  BY DEF vars, disk, memory, ghosts
<1>2. TypeOK'
  BY <1>1 DEF IInv, TypeOK
<1>3. SlotsMatchLive' /\ CountMatchesDisk' /\ LiveRunIntact'
  BY <1>1 DEF IInv, SlotsMatchLive, CountMatchesDisk, LiveRunIntact, RecordsOf
<1>4. RecordsBounded' /\ AllGuarded'
  BY <1>1 DEF IInv, RecordsBounded, AllGuarded, Guarded, GuardWindow, RecordsOf
<1>. QED  BY <1>2, <1>3, <1>4 DEF IInv

LEMMA NextIInv == IInv /\ [Next]_vars => IInv'
<1>. SUFFICES ASSUME IInv, [Next]_vars PROVE IInv'
  OBVIOUS
<1>1. ASSUME NEW h \in Handlers, HandlerStep(h) PROVE IInv'
  BY <1>1, ExecLookupPreserves, StartSweepPreserves, StartRefusedPreserves,
     StartUnadmittedPreserves, StartFailsPreserves, StartCommitsPreserves,
     RejoinPreserves, CrashInStartPreserves DEF HandlerStep
<1>2. ASSUME NEW k \in Keys, RunStep(k) PROVE IInv'
  BY <1>2, AttachPreserves, WritePreserves, FinishPreserves, EndRunPreserves,
     CancelPreserves, CancelEarlyPreserves, CrashInEvictPreserves DEF RunStep
<1>. QED
  BY <1>1, <1>2, TickPreserves, CrashPreserves, StutterPreserves DEF Next

\* The inductive invariant holds in every reachable state.
THEOREM Inductive == Spec => []IInv
BY InitIInv, NextIInv, PTL DEF Spec

\* Every variable keeps its type.
THEOREM TypeCorrect == Spec => []TypeOK
<1>1. IInv => TypeOK
  BY DEF IInv
<1>. QED  BY <1>1, Inductive, PTL

\* startRun and endRun keep s.running and s.runs in step, under the limit.
THEOREM SlotsCorrect == Spec => []SlotsMatchLive
<1>1. IInv => SlotsMatchLive
  BY DEF IInv
<1>. QED  BY <1>1, Inductive, PTL

\* The cached record count of admitLocked is the number of record files.
THEOREM CountsCorrect == Spec => []CountMatchesDisk
<1>1. IInv => CountMatchesDisk
  BY DEF IInv
<1>. QED  BY <1>1, Inductive, PTL

\* No sweep, eviction or reclamation takes a live run's record or spool.
THEOREM LiveRunsIntact == Spec => []LiveRunIntact
<1>1. IInv => LiveRunIntact
  BY DEF IInv
<1>. QED  BY <1>1, Inductive, PTL

\* A started run's ID stays claimed through the guard window.
THEOREM ClaimsRemembered == Spec => []ClaimRemembered
<1>1. IInv => ClaimRemembered
  BY GuardedClaims
<1>. QED  BY <1>1, Inductive, PTL

\* A cancel that overtook its request refuses it for the tombstone's TTL.
THEOREM TombstonesHold == Spec => []TombstoneHolds
<1>1. IInv => TombstoneHolds
  BY GuardedClaims
<1>. QED  BY <1>1, Inductive, PTL


-----------------------------------------------------------------------------
(* Which steps may cost a stored run its output *)


LEMMA KeptNamed ==
  ASSUME TypeOK, NEW k \in Keys, Kept(rec, spool, k)
  PROVE  rec[k] \in Records /\ rec[k].frames \in Nonces /\ rec[k].state = "finished"
BY DEF Kept, TypeOK, Records

\* A look-up evicts only the output it finds past its retention.
LEMMA LookupSpares ==
  ASSUME TypeOK, NEW j \in Keys, LookupRun(j), NEW k \in Keys, Kept(rec, spool, k)
  PROVE  PastRetention(rec[k]) \/ Kept(rec', spool', k)
<1>1. CASE k = j /\ PastRetention(rec[j])
  BY <1>1
<1>2. CASE k # j \/ ~PastRetention(rec[j])
  <2>1. rec'[k] = rec[k] /\ spool'[k][rec[k].frames] = spool[k][rec[k].frames]
    BY <1>2, KeptNamed DEF LookupRun, EvictRecs, RemoveSpools, TypeOK
  <2>. QED  BY <2>1 DEF Kept
<1>. QED  BY <1>1, <1>2

\* A sweep of the devices D spares output within its retention.
LEMMA SweepSpares ==
  ASSUME TypeOK, NEW D, NEW k \in Keys \ live, Kept(rec, spool, k)
  PROVE  \/ PastRetention(rec[k])
         \/ SweptRecs(D)[k] = rec[k] /\ Kept(SweptRecs(D), SweptSpools(D), k)
<1>1. SUFFICES ASSUME ~PastRetention(rec[k])
               PROVE  SweptRecs(D)[k] = rec[k] /\ Kept(SweptRecs(D), SweptSpools(D), k)
  OBVIOUS
<1>2. rec[k] \in Records /\ rec[k].frames \in Nonces /\ rec[k].state = "finished"
  BY KeptNamed
<1>3. SweptRecs(D)[k] = rec[k]
  BY <1>1, <1>2 DEF SweptRecs, Deletable
<1>4. SweptSpools(D)[k][rec[k].frames] = spool[k][rec[k].frames]
  BY <1>2, <1>3 DEF SweptSpools
<1>. QED  BY <1>3, <1>4 DEF Kept

\* Admission sweeps and reclaims at most: another device's runs stay as they
\* are, and so does output within its retention and its record's window.
LEMMA AdmissionSpares ==
  ASSUME TypeOK, NEW d, NEW R \in Reclaims(AdmitRecs(d), AdmitCount(d), d),
         NEW k \in Keys \ live, Kept(rec, spool, k)
  PROVE  LET r == AdmitRecs(d)
             r2 == DeleteRecs(r, R)
             s2 == RemoveSpools(r, AdmitSpools(d), R)
         IN \/ PastRetention(rec[k])
            \/ r2[k].state = "none" /\ now > rec[k].created + IdempotencyWindow
            \/ Kept(r2, s2, k)
<1> DEFINE r == AdmitRecs(d)
           s == AdmitSpools(d)
<1>1. SUFFICES ASSUME ~PastRetention(rec[k])
               PROVE  \/ /\ DeleteRecs(r, R)[k].state = "none"
                         /\ now > rec[k].created + IdempotencyWindow
                      \/ Kept(DeleteRecs(r, R), RemoveSpools(r, s, R), k)
  OBVIOUS
<1>2. r[k] = rec[k] /\ Kept(r, s, k)
  BY <1>1, SweepSpares DEF AdmitRecs, AdmitSpools
<1>3. R \subseteq Reclaimable(r, d)
  BY DEF Reclaims
<1> HIDE DEF r, s
<1>4. CASE k \in R
  BY <1>2, <1>3, <1>4 DEF Reclaimable, DeleteRecs, NoRecord
<1>5. CASE k \notin R
  <2>1. DeleteRecs(r, R)[k] = r[k]
    BY <1>5 DEF DeleteRecs
  <2>2. RemoveSpools(r, s, R)[k][r[k].frames] = s[k][r[k].frames]
    BY <1>2, <1>5, KeptNamed DEF RemoveSpools
  <2>. QED  BY <1>2, <2>1, <2>2 DEF Kept
<1>. QED  BY <1>4, <1>5

LEMMA AdmissionSparesOthers ==
  ASSUME TypeOK, NEW d, NEW R \in Reclaims(AdmitRecs(d), AdmitCount(d), d),
         NEW k \in Keys, k[1] # d, Kept(rec, spool, k)
  PROVE  LET r == AdmitRecs(d)
             r2 == DeleteRecs(r, R)
             s2 == RemoveSpools(r, AdmitSpools(d), R)
         IN r2[k] = rec[k] /\ s2[k][rec[k].frames] = spool[k][rec[k].frames]
<1> DEFINE r == AdmitRecs(d)
           s == AdmitSpools(d)
<1>1. rec[k].frames \in Nonces
  BY KeptNamed
<1>2. r[k] = rec[k] /\ s[k][rec[k].frames] = spool[k][rec[k].frames]
  BY <1>1 DEF AdmitRecs, AdmitSpools, SweptRecs, SweptSpools
<1>3. k \notin R
  BY DEF Reclaims, Reclaimable, Stored
<1>. QED  BY <1>1, <1>2, <1>3 DEF DeleteRecs, RemoveSpools

\* Evictions concern one device's runs.
LEMMA EvictionsOfDevice ==
  ASSUME NEW r, NEW s, NEW l, NEW d, NEW reserve, NEW E \in Evictions(r, s, l, d, reserve)
  PROVE  E \subseteq Keys /\ \A k \in E : k[1] = d
BY DEF Evictions, Stored

\* What may have happened to the output of a run that is not live.
Lost(k) ==
  \/ PastRetention(rec[k])
  \/ rec'[k].state = "none" /\ now > rec[k].created + IdempotencyWindow
  \/ \E j \in Keys : j[1] = k[1] /\ (j \in live) # (j \in live')
  \/ crashes' # crashes

\* A sweep of all devices, if one is due.
LEMMA SweepAllSpares ==
  ASSUME TypeOK, SweepAll, NEW k \in Keys \ live, Kept(rec, spool, k)
  PROVE  PastRetention(rec[k]) \/ Kept(rec', spool', k)
<1>1. CASE now < nextSweep
  BY <1>1 DEF SweepAll, disk
<1>2. CASE ~(now < nextSweep)
  <2>1. rec' = SweptRecs(Devices) /\ spool' = SweptSpools(Devices)
    BY <1>2 DEF SweepAll
  <2>. QED  BY <2>1, SweepSpares
<1>. QED  BY <1>1, <1>2

LEMMA StartCommitsSpares ==
  ASSUME IInv, NEW h \in Handlers, StartCommits(h), NEW k \in Keys \ live, Kept(rec, spool, k)
  PROVE  Lost(k) \/ Kept(rec', spool', k)
<1> DEFINE j == handler[h].key
           d == j[1]
           r == AdmitRecs(d)
<1>0. TypeOK /\ j \in Keys /\ j \notin live /\ live' = live \cup {j}
  BY HandlerHolds DEF IInv, StartCommits, LiveRunIntact
<1>1. CASE k[1] = d
  BY <1>0, <1>1 DEF Lost
<1>2. CASE k[1] # d
  <2>1. PICK R \in Reclaims(r, AdmitCount(d), d), n \in Nonces :
          LET s1 == RemoveSpools(r, AdmitSpools(d), R)
              r1 == [DeleteRecs(r, R) EXCEPT ![j] = NewRecord(handler[h].req, n)]
              s2 == [s1 EXCEPT ![j][n] = NewFile]
          IN \E E \in Evictions(r1, s2, live \cup {j}, d, RunMaxBytes) :
               /\ rec' = EvictRecs(r1, E)
               /\ spool' = RemoveSpools(r1, s2, E)
    BY DEF StartCommits
  <2> DEFINE s1 == RemoveSpools(r, AdmitSpools(d), R)
             r1 == [DeleteRecs(r, R) EXCEPT ![j] = NewRecord(handler[h].req, n)]
             s2 == [s1 EXCEPT ![j][n] = NewFile]
  <2>2. PICK E \in Evictions(r1, s2, live \cup {j}, d, RunMaxBytes) :
          /\ rec' = EvictRecs(r1, E)
          /\ spool' = RemoveSpools(r1, s2, E)
    BY <2>1
  <2>3. DeleteRecs(r, R)[k] = rec[k] /\ s1[k][rec[k].frames] = spool[k][rec[k].frames]
    BY <1>0, <1>2, AdmissionSparesOthers
  <2>4. k # j /\ k \notin E
    BY <1>2, EvictionsOfDevice
  <2>5. r1[k] = rec[k] /\ s2[k] = s1[k]
    BY <2>3, <2>4 DEF DeleteRecs, RemoveSpools
  <2> HIDE DEF r1, s2, s1
  <2>6. rec'[k] = rec[k] /\ spool'[k][rec[k].frames] = spool[k][rec[k].frames]
    BY <1>0, <2>2, <2>3, <2>4, <2>5, KeptNamed DEF EvictRecs, RemoveSpools
  <2>. QED  BY <2>6 DEF Kept
<1>. QED  BY <1>1, <1>2

LEMMA EndRunSpares ==
  ASSUME IInv, NEW j \in Keys, EndRun(j), NEW k \in Keys \ live, Kept(rec, spool, k)
  PROVE  Lost(k) \/ Kept(rec', spool', k)
<1>0. TypeOK /\ j \in live /\ live' = live \ {j}
  BY DEF IInv, TypeOK, EndRun, Release
<1>1. CASE k[1] = j[1]
  BY <1>0, <1>1 DEF Lost
<1>2. CASE k[1] # j[1]
  <2>1. PICK E \in Evictions(rec, spool, live \ {j}, j[1], 0) :
          rec' = EvictRecs(rec, E) /\ spool' = RemoveSpools(rec, spool, E)
    BY DEF EndRun
  <2>2. k \notin E
    BY <1>2, EvictionsOfDevice
  <2>3. rec'[k] = rec[k] /\ spool'[k][rec[k].frames] = spool[k][rec[k].frames]
    BY <1>0, <2>1, <2>2, KeptNamed DEF EvictRecs, RemoveSpools
  <2>. QED  BY <2>3 DEF Kept
<1>. QED  BY <1>1, <1>2

LEMMA CancelEarlySpares ==
  ASSUME IInv, NEW j \in Keys, CancelEarly(j), NEW k \in Keys \ live, Kept(rec, spool, k)
  PROVE  Lost(k) \/ Kept(rec', spool', k)
<1> DEFINE d == j[1]
           r == AdmitRecs(d)
<1>1. PICK R \in Reclaims(r, AdmitCount(d), d) :
        /\ spool' = RemoveSpools(r, AdmitSpools(d), R)
        /\ \/ rec' = DeleteRecs(r, R)
           \/ rec' = [DeleteRecs(r, R) EXCEPT ![j] = Tombstone]
  BY DEF CancelEarly
<1>2. k # j
  BY KeptNamed DEF CancelEarly, IInv
<1>3. rec'[k] = DeleteRecs(r, R)[k]
  BY <1>1, <1>2 DEF DeleteRecs
<1>4. \/ PastRetention(rec[k])
      \/ DeleteRecs(r, R)[k].state = "none" /\ now > rec[k].created + IdempotencyWindow
      \/ Kept(DeleteRecs(r, R), RemoveSpools(r, AdmitSpools(d), R), k)
  BY AdmissionSpares DEF IInv
<1>. QED  BY <1>1, <1>3, <1>4 DEF Lost, Kept

LEMMA FailedStartSpares ==
  ASSUME IInv, NEW h \in Handlers, StartUnadmitted(h) \/ StartFails(h),
         NEW k \in Keys \ live, Kept(rec, spool, k)
  PROVE  Lost(k) \/ Kept(rec', spool', k)
<1> DEFINE d == handler[h].key[1]
           r == AdmitRecs(d)
<1>1. PICK R \in Reclaims(r, AdmitCount(d), d) :
        rec' = DeleteRecs(r, R) /\ spool' = RemoveSpools(r, AdmitSpools(d), R)
  BY DEF StartUnadmitted, StartFails
<1>2. \/ PastRetention(rec[k])
      \/ DeleteRecs(r, R)[k].state = "none" /\ now > rec[k].created + IdempotencyWindow
      \/ Kept(DeleteRecs(r, R), RemoveSpools(r, AdmitSpools(d), R), k)
  BY AdmissionSpares DEF IInv
<1>. QED  BY <1>1, <1>2 DEF Lost

\* A request that is refused or joins a run costs no other run its output
\* (runstore.go, lookupRun, sweepDeviceLocked, admitLocked, makeRoomLocked).
THEOREM OutputLossesJustified == Spec => OutputLossJustified
<1>1. ASSUME IInv, [Next]_vars, NEW k \in Keys \ live, Kept(rec, spool, k)
      PROVE  Lost(k) \/ Kept(rec', spool', k)
  <2>0. TypeOK /\ k \in Keys
    BY <1>1 DEF IInv
  <2>1. CASE rec' = rec /\ spool' = spool
    BY <1>1, <2>1
  <2>2. ASSUME NEW h \in Handlers, HandlerStep(h) PROVE Lost(k) \/ Kept(rec', spool', k)
    <3>1. ASSUME NEW j \in Keys, NEW q \in Requests, ExecLookup(h, j, q)
          PROVE  Lost(k) \/ Kept(rec', spool', k)
      BY <1>1, <2>0, <3>1, LookupSpares DEF ExecLookup, Lost
    <3>2. CASE StartSweep(h)
      BY <1>1, <2>0, <3>2, SweepAllSpares DEF StartSweep, Lost
    <3>3. CASE StartRefused(h)
      BY <2>1, <3>3 DEF StartRefused, disk
    <3>4. CASE StartUnadmitted(h) \/ StartFails(h)
      BY <1>1, <3>4, FailedStartSpares
    <3>5. CASE StartCommits(h)
      BY <1>1, <3>5, StartCommitsSpares
    <3>6. CASE Rejoin(h)
      <4>1. handler[h].key \in Keys
        BY <1>1, <3>6, HandlerHolds DEF Rejoin, IInv
      <4>. QED  BY <1>1, <2>0, <3>6, <4>1, LookupSpares DEF Rejoin, Lost
    <3>7. CASE CrashInStart(h)
      BY <2>0, <3>7 DEF CrashInStart, LoseMemory, Lost, TypeOK
    <3>. QED  BY <2>2, <3>1, <3>2, <3>3, <3>4, <3>5, <3>6, <3>7 DEF HandlerStep
  <2>3. ASSUME NEW j \in Keys, RunStep(j) PROVE Lost(k) \/ Kept(rec', spool', k)
    <3>1. CASE Attach(j)
      BY <1>1, <2>0, <3>1, LookupSpares, SweepAllSpares DEF Attach, Lost
    <3>2. CASE Write(j)
      <4>1. rec' = rec /\ spool'[k] = spool[k]
        BY <1>1, <2>0, <3>2 DEF Write, TypeOK
      <4>. QED  BY <1>1, <4>1 DEF Kept
    <3>3. CASE Finish(j)
      <4>1. rec'[k] = rec[k] /\ spool' = spool
        BY <1>1, <2>0, <3>3 DEF Finish, TypeOK
      <4>. QED  BY <1>1, <4>1 DEF Kept
    <3>4. CASE EndRun(j)
      BY <1>1, <3>4, EndRunSpares
    <3>5. CASE CancelLive(j) \/ TimerFires(j)
      BY <2>1, <3>5 DEF CancelLive, TimerFires, disk
    <3>6. CASE CancelEarly(j)
      BY <1>1, <3>6, CancelEarlySpares
    <3>7. CASE CrashInEvict(j)
      BY <2>0, <3>7 DEF CrashInEvict, LoseMemory, Lost, TypeOK
    <3>. QED  BY <2>3, <3>1, <3>2, <3>3, <3>4, <3>5, <3>6, <3>7 DEF RunStep
  <2>4. CASE Tick \/ Crash \/ UNCHANGED vars
    BY <2>1, <2>4 DEF Tick, Crash, vars, disk
  <2>. QED  BY <1>1, <2>2, <2>3, <2>4 DEF Next
<1>2. IInv /\ [Next]_vars =>
        [\A k \in Keys \ live : Kept(rec, spool, k) /\ ~Kept(rec', spool', k) =>
           \/ PastRetention(rec[k])
           \/ rec'[k].state = "none" /\ now > rec[k].created + IdempotencyWindow
           \/ \E j \in Keys : j[1] = k[1] /\ (j \in live) # (j \in live')
           \/ crashes' # crashes]_vars
  BY <1>1 DEF Lost
<1>. QED  BY <1>2, Inductive, PTL DEF Spec, OutputLossJustified

(***************************************************************************)
(* Refinement.  The run store implements RunClaims: its steps, mapped      *)
(* through Phase, start, end, refuse and forget runs only as RunClaims     *)
(* allows.  The inductive invariant says what a record in each state means *)
(* for the run it names.                                                   *)
(***************************************************************************)
phases == [k \in Keys |-> Phase(k)]

\* A live run has a record of a started run.
LEMMA LiveStarted ==
  ASSUME IInv, NEW k \in live
  PROVE  k \in Keys /\ rec[k].state \notin {"none", "cancelled"}
BY DEF IInv, LiveRunIntact, TypeOK

\* What each phase means, before and after a step.
LEMMA PhaseMeaning ==
  ASSUME IInv, NEW k \in Keys
  PROVE  /\ phases[k] \in Claims!Phases
         /\ phases[k] = "free" <=> rec[k].state = "none"
         /\ phases[k] = "refused" <=> rec[k].state = "cancelled"
         /\ rec[k].state \notin {"none", "cancelled"} =>
              phases[k] = IF k \in live THEN "running" ELSE "over"
<1>1. k \in live => rec[k].state \notin {"none", "cancelled"}
  BY LiveStarted
<1>2. CASE rec[k].state = "none"
  BY <1>1, <1>2 DEF phases, Phase, Claims!Phases
<1>3. CASE rec[k].state = "cancelled"
  BY <1>1, <1>3 DEF phases, Phase, Claims!Phases
<1>4. CASE rec[k].state \notin {"none", "cancelled"}
  BY <1>4 DEF phases, Phase, Claims!Phases
<1>. QED  BY <1>2, <1>3, <1>4

LEMMA PhaseMeaningNext ==
  ASSUME IInv', NEW k \in Keys
  PROVE  /\ phases'[k] \in Claims!Phases
         /\ phases'[k] = "free" <=> rec'[k].state = "none"
         /\ phases'[k] = "refused" <=> rec'[k].state = "cancelled"
         /\ rec'[k].state \notin {"none", "cancelled"} =>
              phases'[k] = IF k \in live' THEN "running" ELSE "over"
<1>1. k \in live' => rec'[k].state \notin {"none", "cancelled"}
  BY DEF IInv, LiveRunIntact
<1>2. CASE rec'[k].state = "none"
  BY <1>1, <1>2 DEF phases, Phase, Claims!Phases
<1>3. CASE rec'[k].state = "cancelled"
  BY <1>1, <1>3 DEF phases, Phase, Claims!Phases
<1>4. CASE rec'[k].state \notin {"none", "cancelled"}
  BY <1>4 DEF phases, Phase, Claims!Phases
<1>. QED  BY <1>2, <1>3, <1>4

ClaimStep(k) ==
  Claims!Start(k) \/ Claims!Refuse(k) \/ Claims!End(k) \/ Claims!Forget(k) \/ Claims!Keep(k)

\* A run the step does not claim is kept, ends, or is forgotten.
LEMMA UnclaimedStep ==
  ASSUME IInv, IInv', NEW k \in Keys, k \in live' => k \in live,
         \/ rec'[k] = rec[k]
         \/ k \notin live /\ rec'[k] = NoRecord /\ Old(rec[k])
         \/ rec[k].state = "finished" /\ rec'[k] = Evicted(rec[k]),
         startedAt'[k] = startedAt[k], tombAt'[k] = tombAt[k]
  PROVE  ClaimStep(k)
<1>1. /\ Guarded(rec[k], startedAt[k], tombAt[k])
      /\ k \in live => rec[k].state \notin {"none", "cancelled"}
      /\ k \in live' => k \in live
  BY LiveStarted DEF IInv, AllGuarded
<1>2. CASE rec'[k].state \notin {"none", "cancelled"} /\ rec[k].state \notin {"none", "cancelled"}
  <2>1. \/ phases[k] = "running" /\ phases'[k] = "over"
        \/ phases'[k] = phases[k]
    BY <1>1, <1>2, PhaseMeaning, PhaseMeaningNext
  <2>. QED  BY <2>1 DEF ClaimStep, Claims!End, Claims!Keep, phases
<1>3. CASE rec'[k] = rec[k] /\ rec[k].state \in {"none", "cancelled"}
  <2>1. phases'[k] = phases[k]
    BY <1>3, PhaseMeaning, PhaseMeaningNext
  <2>. QED  BY <2>1 DEF ClaimStep, Claims!Keep, phases
<1>4. CASE k \notin live /\ rec'[k] = NoRecord /\ Old(rec[k])
  <2>1. phases'[k] = "free"
    BY <1>4, PhaseMeaningNext DEF NoRecord
  <2>2. CASE rec[k].state = "cancelled"
    <3>1. phases[k] = "refused" /\ now > tombAt[k] + CancelTombstoneTTL
      BY <1>1, <1>4, <2>2, PhaseMeaning DEF Guarded, Old
    <3>. QED  BY <2>1, <3>1 DEF ClaimStep, Claims!Forget, Claims!Forgotten, phases
  <2>3. CASE rec[k].state \in {"running", "finished", "evicted"}
    <3>1. phases[k] = "over" /\ now > startedAt[k] + GuardWindow
      BY <1>1, <1>4, <2>3, PhaseMeaning DEF Guarded, Old
    <3>. QED  BY <2>1, <3>1 DEF ClaimStep, Claims!Forget, Claims!Forgotten, phases
  <2>. QED  BY <1>4, <2>2, <2>3 DEF Old
<1>. QED  BY <1>2, <1>3, <1>4 DEF Evicted

\* Every run takes a step of RunClaims, so the step is one of its changes.
LEMMA ChangeStep ==
  ASSUME IInv', now' = now, \A k \in Keys : ClaimStep(k)
  PROVE  Claims!Next
<1>1. phases' \in [Keys -> Claims!Phases]
  BY PhaseMeaningNext DEF phases
<1>2. DOMAIN startedAt' = Keys /\ DOMAIN tombAt' = Keys
  BY DEF IInv, TypeOK
<1>. QED  BY <1>1, <1>2 DEF Claims!Next, Claims!Change, ClaimStep, phases

\* Steps that claim no run.
LEMMA UnclaimingStep ==
  ASSUME IInv, IInv', Keeps(rec, rec', live), live' \subseteq live,
         UNCHANGED <<now, startedAt, tombAt>>
  PROVE  Claims!Next
<1>1. ASSUME NEW k \in Keys PROVE ClaimStep(k)
  BY UnclaimedStep DEF Keeps
<1>. QED  BY <1>1, ChangeStep

-----------------------------------------------------------------------------
(* One lemma for each action that is not a plain UnclaimingStep. *)

LEMMA LookupChange ==
  ASSUME IInv, IInv', NEW k \in Keys, LookupRun(k), UNCHANGED <<memory, now, ghosts>>
  PROVE  Claims!Next
<1>1. rec \in [Keys -> Records]
  BY DEF IInv, TypeOK
<1>2. CASE k \notin live /\ PastRetention(rec[k])
  BY <1>1, <1>2, UnclaimingStep DEF LookupRun, Keeps, EvictRecs, PastRetention, memory, ghosts
<1>3. CASE ~(k \notin live /\ PastRetention(rec[k]))
  BY <1>3, UnclaimingStep DEF LookupRun, Keeps, memory, ghosts
<1>. QED  BY <1>2, <1>3

LEMMA SweepChange ==
  ASSUME IInv, IInv', SweepAll, UNCHANGED <<live, now, ghosts>>
  PROVE  Claims!Next
<1>1. Keeps(rec, rec', live)
  <2>1. Keeps(rec, rec, live)
    BY DEF Keeps
  <2>. QED  BY <2>1, SweepKeeps DEF SweepAll, disk, IInv, TypeOK
<1>. QED  BY <1>1, UnclaimingStep DEF ghosts

LEMMA FailedStartChange ==
  ASSUME IInv, IInv', NEW h \in Handlers, StartUnadmitted(h) \/ StartFails(h)
  PROVE  Claims!Next
<1>. DEFINE d == handler[h].key[1]
<1>1. d \in Devices
  BY HandlerHolds DEF StartUnadmitted, StartFails
<1>2. PICK R \in Reclaims(AdmitRecs(d), AdmitCount(d), d) :
        rec' = DeleteRecs(AdmitRecs(d), R)
  BY DEF StartUnadmitted, StartFails
<1>3. Keeps(rec, rec', live)
  BY <1>1, <1>2, Admission
<1>. QED  BY <1>3, UnclaimingStep DEF StartUnadmitted, StartFails, ghosts

LEMMA StartCommitsChange ==
  ASSUME IInv, IInv', NEW h \in Handlers, StartCommits(h)
  PROVE  Claims!Next
<1>. DEFINE k == handler[h].key
            d == k[1]
<1>1. k \in Keys /\ d \in Devices
  BY HandlerHolds DEF StartCommits
<1>2. PICK R \in Reclaims(AdmitRecs(d), AdmitCount(d), d), n \in Nonces :
        LET s1 == RemoveSpools(AdmitRecs(d), AdmitSpools(d), R)
            r1 == [DeleteRecs(AdmitRecs(d), R) EXCEPT ![k] = NewRecord(handler[h].req, n)]
            s2 == [s1 EXCEPT ![k][n] = NewFile]
        IN \E E \in Evictions(r1, s2, live \cup {k}, d, RunMaxBytes) :
             rec' = EvictRecs(r1, E)
  BY Zenon DEF StartCommits
<1>. DEFINE r == DeleteRecs(AdmitRecs(d), R)
            r1 == [r EXCEPT ![k] = NewRecord(handler[h].req, n)]
            s2 == [RemoveSpools(AdmitRecs(d), AdmitSpools(d), R) EXCEPT ![k][n] = NewFile]
<1>3. PICK E \in Evictions(r1, s2, live \cup {k}, d, RunMaxBytes) :
        rec' = EvictRecs(r1, E)
  BY <1>2
<1>4. r \in [Keys -> Records] /\ Keeps(rec, r, live)
  BY <1>1, Admission
<1>5. /\ now' = now /\ tombAt' = tombAt /\ live' = live \cup {k}
      /\ startedAt' = [startedAt EXCEPT ![k] = now]
      /\ rec[k].state = "none"
  BY DEF StartCommits
<1>. HIDE DEF r, s2
<1>6. r1 \in [Keys -> Records]
  BY <1>1, <1>4, HandlerHolds DEF NewRecord, Records, States, IInv, TypeOK, StartCommits
<1>7. E \in SUBSET Keys /\ \A j \in E : j \notin live \cup {k} /\ r1[j].state = "finished"
  <2>. HIDE DEF r1
  <2>. QED  BY <1>6, EvictionsKeep
<1>8. ClaimStep(k)
  <2>1. rec'[k].state = "running"
    BY <1>1, <1>3, <1>4, <1>7 DEF EvictRecs, NewRecord
  <2>2. phases[k] = "free" /\ phases'[k] = "running"
    BY <1>1, <1>5, <2>1, PhaseMeaning, PhaseMeaningNext
  <2>3. Claims!Forgotten(startedAt[k], GuardWindow) /\ Claims!Forgotten(tombAt[k], CancelTombstoneTTL)
    <3>1. /\ Guarded(rec[k], startedAt[k], tombAt[k])
          /\ now \in Nat /\ startedAt[k] \in Nat /\ tombAt[k] \in Nat
      BY <1>1 DEF IInv, AllGuarded, TypeOK
    <3>. QED  BY <1>5, <3>1, GuardBounds, TimesAssumption DEF Guarded, Claims!Forgotten
  <2>4. startedAt'[k] = now /\ tombAt'[k] = tombAt[k]
    BY <1>1, <1>5 DEF IInv, TypeOK
  <2>. QED  BY <2>2, <2>3, <2>4 DEF ClaimStep, Claims!Start, phases
<1>9. ASSUME NEW j \in Keys, j # k PROVE ClaimStep(j)
  <2>1. r1[j] = r[j] /\ startedAt'[j] = startedAt[j] /\ tombAt'[j] = tombAt[j]
    BY <1>1, <1>4, <1>5, <1>9 DEF IInv, TypeOK
  <2>2. rec'[j] = r[j] \/ (r[j].state = "finished" /\ rec'[j] = Evicted(r[j]))
    BY <1>3, <1>7, <2>1 DEF EvictRecs
  <2>3. \/ r[j] = rec[j]
        \/ j \notin live /\ r[j] = NoRecord /\ Old(rec[j])
        \/ rec[j].state = "finished" /\ r[j] = Evicted(rec[j])
    BY <1>4 DEF Keeps
  <2>4. \/ rec'[j] = rec[j]
        \/ j \notin live /\ rec'[j] = NoRecord /\ Old(rec[j])
        \/ rec[j].state = "finished" /\ rec'[j] = Evicted(rec[j])
    BY <2>2, <2>3 DEF NoRecord, Evicted
  <2>. QED  BY <1>5, <1>9, <2>1, <2>4, UnclaimedStep
<1>. QED  BY <1>5, <1>8, <1>9, ChangeStep

LEMMA CancelEarlyChange ==
  ASSUME IInv, IInv', NEW k \in Keys, CancelEarly(k)
  PROVE  Claims!Next
<1>. DEFINE d == k[1]
<1>1. d \in Devices
  BY DEF Keys
<1>2. PICK R \in Reclaims(AdmitRecs(d), AdmitCount(d), d) :
        LET claims == AdmitCount(d) - Cardinality(R) < RunRecords
        IN /\ rec' = IF claims
                     THEN [DeleteRecs(AdmitRecs(d), R) EXCEPT ![k] = Tombstone]
                     ELSE DeleteRecs(AdmitRecs(d), R)
           /\ tombAt' = IF claims THEN [tombAt EXCEPT ![k] = now] ELSE tombAt
  BY DEF CancelEarly
<1>. DEFINE r == DeleteRecs(AdmitRecs(d), R)
<1>3. r \in [Keys -> Records] /\ Keeps(rec, r, live)
  BY <1>1, Admission
<1>4. /\ now' = now /\ live' = live /\ startedAt' = startedAt
      /\ k \notin live /\ rec[k].state = "none"
  BY DEF CancelEarly
<1>. HIDE DEF r
<1>5. CASE rec' = r /\ tombAt' = tombAt
  BY <1>3, <1>4, <1>5, UnclaimingStep
<1>6. CASE rec' = [r EXCEPT ![k] = Tombstone] /\ tombAt' = [tombAt EXCEPT ![k] = now]
  <2>1. ClaimStep(k)
    <3>1. rec'[k].state = "cancelled" /\ tombAt'[k] = now
      BY <1>3, <1>6 DEF Tombstone, IInv, TypeOK
    <3>2. phases[k] = "free" /\ phases'[k] = "refused"
      BY <1>4, <3>1, PhaseMeaning, PhaseMeaningNext
    <3>. QED  BY <1>4, <3>1, <3>2 DEF ClaimStep, Claims!Refuse, phases
  <2>2. ASSUME NEW j \in Keys, j # k PROVE ClaimStep(j)
    <3>1. rec'[j] = r[j] /\ startedAt'[j] = startedAt[j] /\ tombAt'[j] = tombAt[j]
      BY <1>3, <1>4, <1>6, <2>2 DEF IInv, TypeOK
    <3>. QED  BY <1>3, <1>4, <3>1, UnclaimedStep DEF Keeps
  <2>. QED  BY <1>4, <2>1, <2>2, ChangeStep
<1>. QED  BY <1>2, <1>5, <1>6 DEF r

LEMMA FinishChange ==
  ASSUME IInv, IInv', NEW k \in Keys, Finish(k)
  PROVE  Claims!Next
<1>1. /\ UNCHANGED <<live, now, startedAt, tombAt>> /\ k \in live
      /\ \A j \in Keys \ {k} : rec'[j] = rec[j]
  BY DEF Finish, ghosts, IInv, TypeOK
<1>2. ClaimStep(k)
  <2>1. rec'[k].state \notin {"none", "cancelled"} /\ rec[k].state \notin {"none", "cancelled"}
    BY <1>1 DEF IInv, LiveRunIntact
  <2>2. phases'[k] = phases[k]
    BY <1>1, <2>1, PhaseMeaning, PhaseMeaningNext
  <2>. QED  BY <1>1, <2>2 DEF ClaimStep, Claims!Keep, phases
<1>3. ASSUME NEW j \in Keys, j # k PROVE ClaimStep(j)
  BY <1>1, <1>3, UnclaimedStep
<1>. QED  BY <1>1, <1>2, <1>3, ChangeStep

LEMMA EndRunChange ==
  ASSUME IInv, IInv', NEW k \in Keys, EndRun(k)
  PROVE  Claims!Next
<1>1. /\ UNCHANGED <<now, startedAt, tombAt>> /\ live' = live \ {k}
  BY DEF EndRun, Release, ghosts
<1>2. PICK E \in Evictions(rec, spool, live \ {k}, k[1], 0) : rec' = EvictRecs(rec, E)
  BY DEF EndRun
<1>3. rec \in [Keys -> Records]
  BY DEF IInv, TypeOK
<1>4. \A j \in E : rec[j].state = "finished"
  BY <1>3, EvictionsKeep
<1>5. ASSUME NEW j \in Keys PROVE ClaimStep(j)
  <2>1. rec'[j] = rec[j] \/ (rec[j].state = "finished" /\ rec'[j] = Evicted(rec[j]))
    BY <1>2, <1>4 DEF EvictRecs
  <2>. QED  BY <1>1, <2>1, UnclaimedStep
<1>. QED  BY <1>1, <1>5, ChangeStep

\* Steps that leave the records, or lose no more than the memory.
LEMMA SameRecordsChange ==
  ASSUME IInv, IInv', rec' = rec, live' \subseteq live,
         UNCHANGED <<now, startedAt, tombAt>>
  PROVE  Claims!Next
BY UnclaimingStep DEF Keeps

LEMMA TickChange ==
  ASSUME Tick PROVE Claims!Next
<1>1. phases' = phases
  BY DEF phases, Phase, Tick, disk, memory
<1>. QED  BY <1>1 DEF Tick, Claims!Next, Claims!Tick, ghosts, phases

LEMMA NextRefines ==
  ASSUME IInv, IInv', [Next]_vars
  PROVE  [Claims!Next]_(Claims!vars)
<1>1. ASSUME NEW h \in Handlers, HandlerStep(h) PROVE Claims!Next
  <2>1. ASSUME NEW k \in Keys, NEW q \in Requests, ExecLookup(h, k, q) PROVE Claims!Next
    BY <2>1, LookupChange DEF ExecLookup
  <2>2. CASE StartSweep(h)
    BY <2>2, SweepChange DEF StartSweep
  <2>3. CASE StartRefused(h)
    BY <2>3, SameRecordsChange DEF StartRefused, disk, memory, ghosts
  <2>4. CASE Rejoin(h)
    BY <2>4, HandlerHolds, LookupChange DEF Rejoin
  <2>5. CASE CrashInStart(h)
    BY <2>5, SameRecordsChange DEF CrashInStart, LoseMemory, ghosts
  <2>. QED
    BY <1>1, <2>1, <2>2, <2>3, <2>4, <2>5, FailedStartChange, StartCommitsChange
    DEF HandlerStep
<1>2. ASSUME NEW k \in Keys, RunStep(k) PROVE Claims!Next
  <2>1. CASE Attach(k)
    BY <2>1, SweepChange, LookupChange DEF Attach
  <2>2. CASE Write(k)
    BY <2>2, SameRecordsChange DEF Write, memory, ghosts
  <2>3. CASE CancelLive(k)
    BY <2>3, SameRecordsChange DEF CancelLive, disk, ghosts
  <2>4. CASE TimerFires(k)
    BY <2>4, SameRecordsChange DEF TimerFires, disk, ghosts
  <2>5. CASE CrashInEvict(k)
    BY <2>5, SameRecordsChange DEF CrashInEvict, LoseMemory, ghosts
  <2>. QED
    BY <1>2, <2>1, <2>2, <2>3, <2>4, <2>5, FinishChange, EndRunChange, CancelEarlyChange
    DEF RunStep
<1>3. CASE Crash
  BY <1>3, SameRecordsChange DEF Crash, LoseMemory, disk, ghosts
<1>4. CASE UNCHANGED vars
  <2>1. phases' = phases /\ UNCHANGED <<startedAt, tombAt, now>>
    BY <1>4 DEF phases, Phase, vars, disk, memory, ghosts
  <2>. QED  BY <2>1 DEF Claims!vars, phases
<1>. QED  BY <1>1, <1>2, <1>3, <1>4, TickChange DEF Next

LEMMA InitRefines ==
  ASSUME Init PROVE Claims!Init
BY DEF Init, Claims!Init, Phase, NoRecord

\* The run store keeps the promises of RunClaims in every behaviour.
THEOREM StoreImplementsClaims == Spec => ImplementsClaims
<1>1. Init => Claims!Init
  BY InitRefines
<1>2. IInv /\ IInv' /\ [Next]_vars => [Claims!Next]_(Claims!vars)
  BY NextRefines
<1>. QED
  BY <1>1, <1>2, Inductive, PTL DEF Spec, ImplementsClaims, Claims!Spec
-----------------------------------------------------------------------------
(* The quota.  The stored output of a device fits the quota and one spool   *)
(* for each slot that is not in use: a run that starts evicts until there   *)
(* is room for its own spool, one that ends evicts until the quota holds,   *)
(* and a restart makes stored output of at most one spool for each slot     *)
(* that was in use.  Before that, the sum of weights over a finite set.     *)

(* Sums *)

\* Every nonempty set of naturals has a least element.
LEMMA LeastExists ==
  ASSUME NEW S, S \subseteq Nat, S # {}
  PROVE  \E x \in S : \A y \in S : x <= y
<1> DEFINE Below == {ss \in Nat \X Nat : ss[1] < ss[2]}
<1>1. IsWellFoundedOn(Below, Nat)
  BY NatLessThanWellFounded DEF OpToRel
<1> HIDE DEF Below
<1>2. PICK x \in S : \A y \in S : ~(<<y, x>> \in Below)
  BY <1>1, WFMin
<1>3. ASSUME NEW y \in S PROVE x <= y
  <2>1. ~(<<y, x>> \in Below)
    BY <1>2
  <2>2. x \in Nat /\ y \in Nat
    OBVIOUS
  <2>. QED  BY <2>1, <2>2 DEF Below
<1>. QED  BY <1>3

First(s) == CHOOSE x \in s : TRUE

\* g adds up the weights w over each set of D, which has the parts of its sets.
AddsUp(g, w, D) ==
  g = [s \in D |-> IF s = {} THEN 0 ELSE w[First(s)] + g[s \ {First(s)}]]

LEMMA TotalIs ==
  ASSUME NEW w, NEW S PROVE Total(w, S) = (CHOOSE g : AddsUp(g, w, SUBSET S))[S]
BY DEF Total, MapThenSumSet, MapThenFoldSet, AddsUp, First

LEMMA FirstIn == ASSUME NEW s, s # {} PROVE First(s) \in s
BY DEF First

Small(S, n) == {s \in SUBSET S : Cardinality(s) <= n}

LEMMA SmallerRest ==
  ASSUME NEW s, IsFiniteSet(s), NEW x \in s
  PROVE  /\ IsFiniteSet(s \ {x}) /\ Cardinality(s \ {x}) = Cardinality(s) - 1
         /\ Cardinality(s) \in Nat \ {0} /\ Cardinality(s \ {x}) \in Nat
<1>1. IsFiniteSet(s \ {x}) /\ Cardinality(s \ {x}) = Cardinality(s) - 1
  BY FS_RemoveElement
<1>2. Cardinality(s) \in Nat /\ Cardinality(s \ {x}) \in Nat
  BY <1>1, FS_CardinalityType
<1>. QED  BY <1>1, <1>2

\* What adds up over two collections closed under parts agrees on both.
LEMMA AddsAgree ==
  ASSUME NEW w, NEW A, NEW B, IsFiniteSet(A), IsFiniteSet(B), NEW g, NEW h,
         AddsUp(g, w, SUBSET A), AddsUp(h, w, SUBSET B), NEW s, s \subseteq A, s \subseteq B
  PROVE  g[s] = h[s]
<1> DEFINE Bad == {t \in SUBSET s : g[t] # h[t]}
           sizes == {Cardinality(t) : t \in Bad}
<1>1. IsFiniteSet(s)
  BY FS_Subset
<1>2. sizes \subseteq Nat
  BY <1>1, FS_Subset, FS_CardinalityType
<1>3. SUFFICES ASSUME Bad # {} PROVE FALSE
  OBVIOUS
<1>4. PICK m \in sizes : \A n \in sizes : m <= n
  <2>1. sizes # {}
    BY <1>3
  <2> HIDE DEF sizes
  <2>. QED  BY <1>2, <2>1, LeastExists
<1>5. PICK t \in Bad : m = Cardinality(t)
  OBVIOUS
<1>6. t \in SUBSET A /\ t \in SUBSET B /\ IsFiniteSet(t)
  BY <1>1, FS_Subset
<1>7. t # {}
  BY <1>6 DEF AddsUp
<1> DEFINE x == First(t)
<1>8. x \in t
  BY <1>7, FirstIn
<1>9. g[t] = w[x] + g[t \ {x}] /\ h[t] = w[x] + h[t \ {x}]
  BY <1>6, <1>7 DEF AddsUp
<1>10. t \ {x} \notin Bad
  <2> HIDE DEF x
  <2>1. Cardinality(t \ {x}) = Cardinality(t) - 1 /\ Cardinality(t) \in Nat
    BY <1>6, <1>8, SmallerRest
  <2>2. t \ {x} \in Bad => m <= Cardinality(t \ {x})
    BY <1>4
  <2>. QED  BY <1>5, <2>1, <2>2
<1>. QED  BY <1>5, <1>9, <1>10

\* A finite set's parts can be added up.
LEMMA AddsExists ==
  ASSUME NEW w, NEW S, IsFiniteSet(S)
  PROVE  \E g : AddsUp(g, w, SUBSET S)
<1> DEFINE Fails == {n \in Nat : ~ \E g : AddsUp(g, w, Small(S, n))}
<1>1. Fails = {}
  <2>1. SUFFICES ASSUME Fails # {} PROVE FALSE
    OBVIOUS
  <2>2. PICK n \in Fails : \A m \in Fails : n <= m
    <3>1. Fails \subseteq Nat
      OBVIOUS
    <3> HIDE DEF Fails
    <3>. QED  BY <2>1, <3>1, LeastExists
  <2>3. \A s \in SUBSET S : IsFiniteSet(s) /\ Cardinality(s) \in Nat
    BY FS_Subset, FS_CardinalityType
  <2>4. PICK g : n # 0 => AddsUp(g, w, Small(S, n - 1))
    BY <2>2
  <2> DEFINE h == [s \in Small(S, n) |-> IF s = {} THEN 0 ELSE w[First(s)] + g[s \ {First(s)}]]
  <2>5. ASSUME NEW s \in Small(S, n), s # {} PROVE h[s \ {First(s)}] = g[s \ {First(s)}]
    <3> DEFINE t == s \ {First(s)}
    <3>1. First(s) \in s /\ s \subseteq S
      BY <2>5, FirstIn DEF Small
    <3>2. Cardinality(t) = Cardinality(s) - 1 /\ Cardinality(s) \in Nat \ {0}
          /\ Cardinality(t) \in Nat
      BY <2>3, <3>1, SmallerRest
    <3>3. n # 0 /\ t \in Small(S, n - 1) /\ t \in Small(S, n)
      BY <3>1, <3>2 DEF Small
    <3>4. g[t] = IF t = {} THEN 0 ELSE w[First(t)] + g[t \ {First(t)}]
      BY <2>4, <3>3 DEF AddsUp
    <3>5. h[t] = IF t = {} THEN 0 ELSE w[First(t)] + g[t \ {First(t)}]
      BY <3>3
    <3>. QED  BY <3>4, <3>5
  <2>6. AddsUp(h, w, Small(S, n))
    <3>1. \A s \in Small(S, n) :
            (IF s = {} THEN 0 ELSE w[First(s)] + g[s \ {First(s)}])
              = (IF s = {} THEN 0 ELSE w[First(s)] + h[s \ {First(s)}])
      <4> HIDE DEF h
      <4>. QED  BY <2>5
    <3>2. h = [s \in Small(S, n) |-> IF s = {} THEN 0 ELSE w[First(s)] + h[s \ {First(s)}]]
      BY <3>1, Zenon
    <3> HIDE DEF h
    <3>. QED  BY <3>2 DEF AddsUp
  <2>. QED  BY <2>2, <2>6
<1>2. Cardinality(S) \in Nat
  BY FS_CardinalityType
<1>3. Small(S, Cardinality(S)) = SUBSET S
  BY FS_Subset DEF Small
<1>4. \E g : AddsUp(g, w, Small(S, Cardinality(S)))
  BY <1>1, <1>2
<1>. QED  BY <1>3, <1>4

LEMMA TotalAdds ==
  ASSUME NEW w, NEW S, IsFiniteSet(S)
  PROVE  \E g : AddsUp(g, w, SUBSET S) /\ \A s \in SUBSET S : Total(w, s) = g[s]
<1> DEFINE Sums(s) == CHOOSE g : AddsUp(g, w, SUBSET s)
<1>1. ASSUME NEW s \in SUBSET S PROVE AddsUp(Sums(s), w, SUBSET s)
  <2>1. \E g : AddsUp(g, w, SUBSET s)
    BY AddsExists, FS_Subset
  <2>. QED  BY <2>1, Zenon
<1>2. ASSUME NEW s \in SUBSET S PROVE Total(w, s) = Sums(S)[s]
  <2>1. Total(w, s) = Sums(s)[s]
    BY TotalIs
  <2>2. AddsUp(Sums(s), w, SUBSET s) /\ AddsUp(Sums(S), w, SUBSET S)
    BY <1>1
  <2>3. IsFiniteSet(s)
    BY FS_Subset
  <2> HIDE DEF Sums
  <2>. QED  BY <2>1, <2>2, <2>3, AddsAgree
<1>. QED  BY <1>1, <1>2

LEMMA TotalEmpty == ASSUME NEW w PROVE Total(w, {}) = 0
<1>1. PICK g : AddsUp(g, w, SUBSET {}) /\ \A s \in SUBSET {} : Total(w, s) = g[s]
  BY TotalAdds, FS_EmptySet
<1>. QED  BY <1>1 DEF AddsUp

LEMMA TotalStep ==
  ASSUME NEW w, NEW S, IsFiniteSet(S), S # {}
  PROVE  Total(w, S) = w[First(S)] + Total(w, S \ {First(S)})
<1>1. PICK g : AddsUp(g, w, SUBSET S) /\ \A s \in SUBSET S : Total(w, s) = g[s]
  BY TotalAdds
<1>2. S \in SUBSET S /\ S \ {First(S)} \in SUBSET S
  OBVIOUS
<1>3. g[S] = w[First(S)] + g[S \ {First(S)}]
  BY <1>1, <1>2 DEF AddsUp
<1>. QED  BY <1>1, <1>2, <1>3

\* Induction over the parts of a finite set.
LEMMA PartsInduction ==
  ASSUME NEW S, IsFiniteSet(S), NEW G, {} \in G,
         \A T \in SUBSET S : T # {} /\ (\A x \in T : T \ {x} \in G) => T \in G
  PROVE  \A T \in SUBSET S : T \in G
<1> DEFINE Bad == {T \in SUBSET S : T \notin G}
           sizes == {Cardinality(T) : T \in Bad}
<1>1. \A T \in SUBSET S : IsFiniteSet(T) /\ Cardinality(T) \in Nat
  BY FS_Subset, FS_CardinalityType
<1>2. SUFFICES ASSUME Bad # {} PROVE FALSE
  OBVIOUS
<1>3. PICK m \in sizes : \A n \in sizes : m <= n
  <2>1. sizes # {} /\ sizes \subseteq Nat
    BY <1>1, <1>2
  <2> HIDE DEF sizes
  <2>. QED  BY <2>1, LeastExists
<1>4. PICK T \in Bad : m = Cardinality(T)
  OBVIOUS
<1>5. PICK x \in T : T \ {x} \notin G
  BY <1>4
<1>6. Cardinality(T \ {x}) = m - 1 /\ m \in Nat
  BY <1>1, <1>4, SmallerRest
<1>7. T \ {x} \in Bad
  BY <1>4, <1>5
<1>8. m <= Cardinality(T \ {x})
  BY <1>3, <1>7
<1>. QED  BY <1>6, <1>8

LEMMA TotalNat ==
  ASSUME NEW w, NEW S, IsFiniteSet(S), \A y \in S : w[y] \in Nat
  PROVE  \A T \in SUBSET S : Total(w, T) \in Nat
<1> DEFINE G == {T \in SUBSET S : Total(w, T) \in Nat}
<1>1. {} \in G
  BY TotalEmpty
<1>2. ASSUME NEW T \in SUBSET S, T # {}, \A x \in T : T \ {x} \in G PROVE T \in G
  <2>1. First(T) \in T /\ IsFiniteSet(T)
    BY <1>2, FirstIn, FS_Subset
  <2>2. Total(w, T) = w[First(T)] + Total(w, T \ {First(T)})
    BY <1>2, <2>1, TotalStep
  <2>. QED  BY <1>2, <2>1, <2>2
<1>3. \A T \in SUBSET S : T \in G
  <2> HIDE DEF G
  <2>. QED  BY <1>1, <1>2, PartsInduction
<1>. QED  BY <1>3

\* The order in which weights are added does not matter.
LEMMA TotalRemove ==
  ASSUME NEW w, NEW S, IsFiniteSet(S), \A y \in S : w[y] \in Nat
  PROVE  /\ Total(w, S) \in Nat
         /\ \A x \in S : Total(w, S) = w[x] + Total(w, S \ {x})
<1> DEFINE G == {T \in SUBSET S : /\ Total(w, T) \in Nat
                                  /\ \A x \in T : Total(w, T) = w[x] + Total(w, T \ {x})}
<1>1. {} \in G
  BY TotalEmpty
<1>2. ASSUME NEW T \in SUBSET S, T # {}, \A x \in T : T \ {x} \in G PROVE T \in G
  <2> DEFINE c == First(T)
  <2>1. c \in T /\ IsFiniteSet(T)
    BY <1>2, FirstIn, FS_Subset
  <2>2. Total(w, T) = w[c] + Total(w, T \ {c})
    BY <1>2, <2>1, TotalStep
  <2>3. \A x \in T : Total(w, T \ {x}) \in Nat
    BY <1>2
  <2> HIDE DEF c
  <2>4. ASSUME NEW x \in T, x # c PROVE Total(w, T) = w[x] + Total(w, T \ {x})
    <3>1. (T \ {c}) \ {x} = (T \ {x}) \ {c} /\ x \in T \ {c} /\ c \in T \ {x}
      BY <2>1, <2>4
    <3>2. Total(w, T \ {c}) = w[x] + Total(w, (T \ {c}) \ {x})
          /\ Total(w, (T \ {c}) \ {x}) \in Nat
      <4>1. T \ {c} \in G
        BY <1>2, <2>1
      <4>2. (T \ {c}) \ {x} \in SUBSET S
        OBVIOUS
      <4>3. Total(w, T \ {c}) = w[x] + Total(w, (T \ {c}) \ {x})
        BY <3>1, <4>1
      <4>4. Total(w, (T \ {c}) \ {x}) \in Nat
        BY <4>2, TotalNat
      <4>. QED  BY <4>3, <4>4
    <3>3. Total(w, T \ {x}) = w[c] + Total(w, (T \ {x}) \ {c})
      BY <1>2, <3>1
    <3>4. w[x] \in Nat /\ w[c] \in Nat
      BY <2>1
    <3>. QED  BY <2>2, <3>1, <3>2, <3>3, <3>4
  <2>5. Total(w, T) \in Nat
    BY <2>1, <2>2, <2>3
  <2>. QED  BY <2>2, <2>4, <2>5
<1>3. \A T \in SUBSET S : T \in G
  <2> HIDE DEF G
  <2>. QED  BY <1>1, <1>2, PartsInduction
<1>. QED  BY <1>3
\* Weights may be compared, split and bounded element by element.
LEMMA TotalLe ==
  ASSUME NEW v, NEW w, NEW S, IsFiniteSet(S),
         \A x \in S : v[x] \in Nat /\ w[x] \in Nat /\ v[x] <= w[x]
  PROVE  Total(v, S) <= Total(w, S)
<1> DEFINE G == {T \in SUBSET S : Total(v, T) <= Total(w, T)}
<1>1. {} \in G
  BY TotalEmpty
<1>2. ASSUME NEW T \in SUBSET S, T # {}, \A x \in T : T \ {x} \in G PROVE T \in G
  <2> DEFINE c == First(T)
  <2>1. c \in T /\ IsFiniteSet(T)
    BY <1>2, FirstIn, FS_Subset
  <2>2. Total(w, T) = w[c] + Total(w, T \ {c}) /\ Total(v, T) = v[c] + Total(v, T \ {c})
    BY <1>2, <2>1, TotalStep
  <2>3. /\ Total(w, T \ {c}) \in Nat /\ Total(v, T \ {c}) \in Nat
        /\ Total(v, T \ {c}) <= Total(w, T \ {c})
    <3>1. T \ {c} \in SUBSET S /\ T \ {c} \in G
      BY <1>2, <2>1
    <3>. QED  BY <3>1, TotalNat
  <2> HIDE DEF c
  <2>. QED  BY <2>1, <2>2, <2>3
<1>3. \A T \in SUBSET S : T \in G
  <2> HIDE DEF G
  <2>. QED  BY <1>1, <1>2, PartsInduction
<1>. QED  BY <1>3

LEMMA TotalSum ==
  ASSUME NEW u, NEW v, NEW w, NEW S, IsFiniteSet(S),
         \A x \in S : u[x] \in Nat /\ v[x] \in Nat /\ w[x] = u[x] + v[x]
  PROVE  Total(w, S) = Total(u, S) + Total(v, S)
<1> DEFINE G == {T \in SUBSET S : Total(w, T) = Total(u, T) + Total(v, T)}
<1>1. {} \in G
  BY TotalEmpty
<1>2. ASSUME NEW T \in SUBSET S, T # {}, \A x \in T : T \ {x} \in G PROVE T \in G
  <2> DEFINE c == First(T)
  <2>1. c \in T /\ IsFiniteSet(T)
    BY <1>2, FirstIn, FS_Subset
  <2>2. /\ Total(w, T) = w[c] + Total(w, T \ {c}) /\ Total(v, T) = v[c] + Total(v, T \ {c})
        /\ Total(u, T) = u[c] + Total(u, T \ {c})
    BY <1>2, <2>1, TotalStep
  <2>3. /\ Total(u, T \ {c}) \in Nat /\ Total(v, T \ {c}) \in Nat
        /\ Total(w, T \ {c}) = Total(u, T \ {c}) + Total(v, T \ {c})
    <3>1. T \ {c} \in SUBSET S /\ T \ {c} \in G
      BY <1>2, <2>1
    <3>. QED  BY <3>1, TotalNat
  <2> HIDE DEF c
  <2>. QED  BY <2>1, <2>2, <2>3
<1>3. \A T \in SUBSET S : T \in G
  <2> HIDE DEF G
  <2>. QED  BY <1>1, <1>2, PartsInduction
<1>. QED  BY <1>3

LEMMA TotalBound ==
  ASSUME NEW w, NEW m \in Nat, NEW S, IsFiniteSet(S), \A x \in S : w[x] \in Nat /\ w[x] <= m
  PROVE  Total(w, S) <= Cardinality(S) * m
<1> DEFINE G == {T \in SUBSET S : Total(w, T) <= Cardinality(T) * m}
<1>1. {} \in G
  BY TotalEmpty, FS_EmptySet
<1>2. ASSUME NEW T \in SUBSET S, T # {}, \A x \in T : T \ {x} \in G PROVE T \in G
  <2> DEFINE c == First(T)
  <2>1. c \in T /\ IsFiniteSet(T)
    BY <1>2, FirstIn, FS_Subset
  <2>2. Total(w, T) = w[c] + Total(w, T \ {c})
    BY <1>2, <2>1, TotalStep
  <2>3. Total(w, T \ {c}) \in Nat /\ Total(w, T \ {c}) <= Cardinality(T \ {c}) * m
    <3>1. T \ {c} \in SUBSET S /\ T \ {c} \in G
      BY <1>2, <2>1
    <3>. QED  BY <3>1, TotalNat
  <2>4. w[c] \in Nat /\ w[c] <= m
    BY <2>1
  <2> HIDE DEF c
  <2>5. Cardinality(T \ {c}) = Cardinality(T) - 1 /\ Cardinality(T) \in Nat
    BY <2>1, SmallerRest
  <2> DEFINE n == Cardinality(T)
  <2>6. (n - 1) * m + m = n * m
    BY <2>5
  <2>7. (n - 1) * m \in Int /\ n * m \in Int
    BY <2>5
  <2>8. Total(w, T) <= n * m
    BY <2>2, <2>3, <2>4, <2>5, <2>6, <2>7
  <2>. QED  BY <2>8
<1>3. \A T \in SUBSET S : T \in G
  <2> HIDE DEF G
  <2>. QED  BY <1>1, <1>2, PartsInduction
<1>. QED  BY <1>3

\* What weighs nothing may be left out.
LEMMA TotalZeros ==
  ASSUME NEW v, NEW w, NEW S, NEW R, IsFiniteSet(S), R \subseteq S,
         \A x \in S : w[x] \in Nat /\ (x \in R => v[x] = w[x]) /\ (x \notin R => w[x] = 0)
  PROVE  Total(w, S) = Total(v, R)
<1> DEFINE G == {T \in SUBSET S : Total(w, T) = Total(v, T \cap R)}
<1>1. {} \in G
  <2>1. {} \cap R = {}
    OBVIOUS
  <2>. QED  BY <2>1, TotalEmpty
<1>2. ASSUME NEW T \in SUBSET S, T # {}, \A x \in T : T \ {x} \in G PROVE T \in G
  <2> DEFINE c == First(T)
  <2>1. c \in T /\ IsFiniteSet(T) /\ IsFiniteSet(T \cap R) /\ c \in S
    BY <1>2, FirstIn, FS_Subset
  <2>2. Total(w, T) = w[c] + Total(w, T \ {c})
    BY <1>2, <2>1, TotalStep
  <2>3. Total(w, T \ {c}) = Total(v, (T \ {c}) \cap R) /\ Total(w, T \ {c}) \in Nat
    <3>1. T \ {c} \in SUBSET S /\ T \ {c} \in G
      BY <1>2, <2>1
    <3>. QED  BY <3>1, TotalNat
  <2> HIDE DEF c
  <2>4. CASE c \notin R
    <3>1. (T \ {c}) \cap R = T \cap R
      BY <2>4
    <3>2. w[c] = 0
      BY <2>1, <2>4
    <3>3. Total(w, T) = Total(w, T \ {c})
      BY <2>2, <2>3, <3>2
    <3>4. Total(w, T) = Total(v, T \cap R)
      BY <2>3, <3>1, <3>3
    <3>. QED  BY <3>4
  <2>5. CASE c \in R
    <3>1. (T \ {c}) \cap R = (T \cap R) \ {c} /\ c \in T \cap R
      BY <2>1, <2>5
    <3>2. Total(v, T \cap R) = v[c] + Total(v, (T \cap R) \ {c})
      <4>1. \A y \in T \cap R : v[y] \in Nat
        OBVIOUS
      <4>. QED  BY <2>1, <3>1, <4>1, TotalRemove
    <3>. QED  BY <2>1, <2>2, <2>3, <2>5, <3>1, <3>2
  <2>. QED  BY <2>4, <2>5
<1>3. \A T \in SUBSET S : T \in G
  <2> HIDE DEF G
  <2>. QED  BY <1>1, <1>2, PartsInduction
<1>4. S \cap R = R
  OBVIOUS
<1>. QED  BY <1>3, <1>4

\* Weights may be read through a one-to-one map.
LEMMA TotalImage ==
  ASSUME NEW v, NEW w, NEW m, NEW S, IsFiniteSet(S),
         \A x \in S : w[x] \in Nat /\ v[m[x]] = w[x],
         \A x, y \in S : m[x] = m[y] => x = y
  PROVE  Total(v, {m[x] : x \in S}) = Total(w, S)
<1> DEFINE Im(T) == {m[x] : x \in T}
           G == {T \in SUBSET S : IsFiniteSet(Im(T)) /\ Total(v, Im(T)) = Total(w, T)}
<1>1. {} \in G
  <2>1. Im({}) = {}
    OBVIOUS
  <2>. QED  BY <2>1, TotalEmpty, FS_EmptySet
<1>2. ASSUME NEW T \in SUBSET S, T # {}, \A x \in T : T \ {x} \in G PROVE T \in G
  <2> DEFINE c == First(T)
  <2>1. c \in T /\ IsFiniteSet(T) /\ c \in S
    BY <1>2, FirstIn, FS_Subset
  <2>2. Total(w, T) = w[c] + Total(w, T \ {c})
    BY <1>2, <2>1, TotalStep
  <2>3. IsFiniteSet(Im(T \ {c})) /\ Total(w, T \ {c}) = Total(v, Im(T \ {c}))
    BY <1>2, <2>1
  <2> HIDE DEF c
  <2>4. Im(T \ {c}) = Im(T) \ {m[c]} /\ m[c] \in Im(T)
    BY <2>1
  <2>5. IsFiniteSet(Im(T)) /\ \A y \in Im(T) : v[y] \in Nat
    <3>1. Im(T) = Im(T \ {c}) \cup {m[c]}
      BY <2>1
    <3>2. IsFiniteSet(Im(T \ {c}) \cup {m[c]})
      BY <2>3, FS_AddElement
    <3>3. \A y \in Im(T) : v[y] \in Nat
      OBVIOUS
    <3>. QED  BY <3>1, <3>2, <3>3
  <2>6. Total(v, Im(T)) = v[m[c]] + Total(v, Im(T) \ {m[c]})
    BY <2>4, <2>5, TotalRemove
  <2>7. Total(v, Im(T)) = Total(w, T)
    BY <2>1, <2>2, <2>3, <2>4, <2>6
  <2>. QED  BY <2>5, <2>7
<1>3. \A T \in SUBSET S : T \in G
  <2> HIDE DEF G
  <2>. QED  BY <1>1, <1>2, PartsInduction
<1>. QED  BY <1>3

-----------------------------------------------------------------------------
(* What a step may do to a device's files *)

\* Output is only in the spool that a running or finished run's record names.
FileValid(r, s, k) ==
  \A n \in Nonces :
    /\ s[k][n].bytes <= RunMaxBytes
    /\ s[k][n].bytes > 0 => /\ r[k].frames = n /\ s[k][n].exists
                            /\ r[k].state \in {"running", "finished"}

AllValid(r, s) == \A k \in Keys : FileValid(r, s, k)

FilesValid == AllValid(rec, spool)

\* The stored output of device d, the runs of l being live.
Weights(r, s, l, d) ==
  [k \in Keys |-> IF k[1] = d /\ k \notin l THEN StoredBytes(r, s, k) ELSE 0]

Held(r, s, l, d) == Total(Weights(r, s, l, d), Keys)

HeldFits ==
  \A d \in Devices :
    Held(rec, spool, live, d) <= QuotaBytes + (MaxConcurrent - running[d]) * RunMaxBytes

QInv == IInv /\ FilesValid /\ HeldFits

Disks == [Keys -> Records] \X [Keys -> [Nonces -> Files]]

\* Spools go, and with them the output of each record that changes.
Thins(r, s, r2, s2) ==
  \A k \in Keys :
    /\ \A n \in Nonces : s2[k][n] \in {s[k][n], NoFile}
    /\ r2[k] = r[k] \/ \A n \in Nonces : s2[k][n].bytes = 0

LEMMA StoredTyped ==
  ASSUME NEW r, NEW s, <<r, s>> \in Disks, NEW k \in Keys
  PROVE  /\ StoredBytes(r, s, k) \in Nat
         /\ AllValid(r, s) => StoredBytes(r, s, k) <= RunMaxBytes
<1>1. r[k] \in Records /\ s[k] \in [Nonces -> Files] /\ RunMaxBytes \in Nat
  BY LimitsAssumption DEF Disks
<1>2. CASE r[k].frames \in Nonces
  <2>1. s[k][r[k].frames] \in Files
    BY <1>1, <1>2
  <2>. QED  BY <1>1, <1>2, <2>1 DEF StoredBytes, Files, AllValid, FileValid
<1>3. CASE r[k].frames \notin Nonces
  <2>1. r[k].frames = 0
    BY <1>1, <1>3 DEF Records
  <2>. QED  BY <1>1, <2>1 DEF StoredBytes
<1>. QED  BY <1>2, <1>3

LEMMA ThinsTrans ==
  ASSUME NEW r, NEW s, NEW r1, NEW s1, NEW r2, NEW s2,
         Thins(r, s, r1, s1), Thins(r1, s1, r2, s2)
  PROVE  Thins(r, s, r2, s2)
BY DEF Thins, NoFile

LEMMA ThinsTyped ==
  ASSUME NEW r, NEW s, NEW r2, NEW s2, <<r, s>> \in Disks, Thins(r, s, r2, s2),
         r2 \in [Keys -> Records], s2 = [k \in Keys |-> [n \in Nonces |-> s2[k][n]]]
  PROVE  <<r2, s2>> \in Disks
<1>1. ASSUME NEW k \in Keys, NEW n \in Nonces PROVE s2[k][n] \in Files
  <2>1. s2[k][n] \in {s[k][n], NoFile}
    BY DEF Thins
  <2>2. s[k][n] \in Files
    BY DEF Disks
  <2>3. NoFile \in Files
    BY DEF NoFile, Files
  <2>. QED  BY <2>1, <2>2, <2>3, Zenon
<1>2. [k \in Keys |-> [n \in Nonces |-> s2[k][n]]] \in [Keys -> [Nonces -> Files]]
  <2> HIDE DEF Disks, Thins
  <2>1. ASSUME NEW k \in Keys PROVE [n \in Nonces |-> s2[k][n]] \in [Nonces -> Files]
    BY <1>1
  <2>. QED  BY <2>1
<1>3. s2 \in [Keys -> [Nonces -> Files]]
  BY <1>2, Zenon
<1>. QED  BY <1>3 DEF Disks

LEMMA ThinsStored ==
  ASSUME NEW r, NEW s, NEW r2, NEW s2, <<r, s>> \in Disks, <<r2, s2>> \in Disks,
         AllValid(r, s), Thins(r, s, r2, s2)
  PROVE  /\ AllValid(r2, s2)
         /\ \A k \in Keys : StoredBytes(r2, s2, k) <= StoredBytes(r, s, k)
<1>1. ASSUME NEW k \in Keys
      PROVE  FileValid(r2, s2, k) /\ StoredBytes(r2, s2, k) <= StoredBytes(r, s, k)
  <2>1. /\ r2[k] \in Records /\ StoredBytes(r, s, k) \in Nat /\ FileValid(r, s, k)
        /\ \A n \in Nonces : s[k][n].bytes \in Nat
    BY StoredTyped DEF Disks, AllValid, Files
  <2>2. CASE \A n \in Nonces : s2[k][n].bytes = 0
    <3>1. StoredBytes(r2, s2, k) = 0
      BY <2>1, <2>2 DEF StoredBytes, Records
    <3>. QED  BY <2>1, <2>2, <3>1, LimitsAssumption DEF FileValid
  <2>3. CASE r2[k] = r[k]
    <3>1. FileValid(r2, s2, k)
      BY <2>1, <2>3, LimitsAssumption DEF FileValid, Thins, NoFile
    <3>2. CASE r[k].frames \in Nonces
      <4>1. s2[k][r[k].frames] \in {s[k][r[k].frames], NoFile}
        BY <3>2 DEF Thins
      <4>. QED  BY <2>1, <2>3, <3>1, <4>1 DEF StoredBytes, NoFile
    <3>3. CASE r[k].frames \notin Nonces
      BY <2>1, <2>3, <3>1, <3>3 DEF StoredBytes, Records
    <3>. QED  BY <3>1, <3>2, <3>3
  <2>. QED  BY <2>2, <2>3 DEF Thins
<1>. QED  BY <1>1 DEF AllValid

\* Less of each run is less of the device.
LEMMA HeldLe ==
  ASSUME NEW r, NEW s, NEW r2, NEW s2, <<r, s>> \in Disks, <<r2, s2>> \in Disks, NEW l, NEW d,
         \A k \in Keys : k[1] = d /\ k \notin l => StoredBytes(r2, s2, k) <= StoredBytes(r, s, k)
  PROVE  Held(r2, s2, l, d) <= Held(r, s, l, d)
<1> DEFINE v == Weights(r2, s2, l, d)
           w == Weights(r, s, l, d)
<1>1. \A k \in Keys : v[k] \in Nat /\ w[k] \in Nat /\ v[k] <= w[k]
  BY StoredTyped DEF Weights
<1> HIDE DEF v, w
<1>2. Total(v, Keys) <= Total(w, Keys)
  BY <1>1, KeysFinite, TotalLe
<1>. QED  BY <1>2 DEF v, w, Held

LEMMA HeldTyped ==
  ASSUME NEW r, NEW s, <<r, s>> \in Disks, NEW l, NEW d
  PROVE  Held(r, s, l, d) \in Nat
<1> DEFINE w == Weights(r, s, l, d)
<1>1. \A k \in Keys : w[k] \in Nat
  BY StoredTyped DEF Weights
<1> HIDE DEF w
<1>2. Total(w, Keys) \in Nat
  BY <1>1, KeysFinite, TotalRemove
<1>. QED  BY <1>2 DEF w, Held

\* Eviction, deletion and sweeps remove the output of the records they change.
LEMMA EvictThins ==
  ASSUME NEW r, NEW s, <<r, s>> \in Disks, AllValid(r, s), NEW E \in SUBSET Keys,
         \A k \in E : r[k].state = "finished"
  PROVE  LET r2 == EvictRecs(r, E)
             s2 == RemoveSpools(r, s, E)
         IN Thins(r, s, r2, s2) /\ <<r2, s2>> \in Disks
<1> DEFINE r2 == EvictRecs(r, E)
           s2 == RemoveSpools(r, s, E)
<1>1. Thins(r, s, r2, s2)
  <2>1. ASSUME NEW k \in Keys
        PROVE  /\ \A n \in Nonces : s2[k][n] \in {s[k][n], NoFile}
               /\ r2[k] = r[k] \/ \A n \in Nonces : s2[k][n].bytes = 0
    BY DEF RemoveSpools, EvictRecs, AllValid, FileValid, Disks, Files, NoFile
  <2>. QED  BY <2>1 DEF Thins
<1>2. r2 \in [Keys -> Records]
  BY DEF EvictRecs, Evicted, Records, States, Disks
<1>3. s2 = [k \in Keys |-> [n \in Nonces |-> s2[k][n]]]
  BY DEF RemoveSpools
<1> HIDE DEF r2, s2
<1>4. <<r2, s2>> \in Disks
  BY <1>1, <1>2, <1>3, ThinsTyped
<1>. QED  BY <1>1, <1>4 DEF r2, s2

LEMMA DeleteThins ==
  ASSUME NEW r, NEW s, <<r, s>> \in Disks, AllValid(r, s), NEW R \in SUBSET Keys
  PROVE  LET r2 == DeleteRecs(r, R)
             s2 == RemoveSpools(r, s, R)
         IN Thins(r, s, r2, s2) /\ <<r2, s2>> \in Disks
<1> DEFINE r2 == DeleteRecs(r, R)
           s2 == RemoveSpools(r, s, R)
<1>1. Thins(r, s, r2, s2)
  <2>1. ASSUME NEW k \in Keys
        PROVE  /\ \A n \in Nonces : s2[k][n] \in {s[k][n], NoFile}
               /\ r2[k] = r[k] \/ \A n \in Nonces : s2[k][n].bytes = 0
    BY DEF RemoveSpools, DeleteRecs, AllValid, FileValid, Disks, Files, NoFile
  <2>. QED  BY <2>1 DEF Thins
<1>2. r2 \in [Keys -> Records]
  BY DEF DeleteRecs, NoRecord, Records, States, Disks
<1>3. s2 = [k \in Keys |-> [n \in Nonces |-> s2[k][n]]]
  BY DEF RemoveSpools
<1> HIDE DEF r2, s2
<1>4. <<r2, s2>> \in Disks
  BY <1>1, <1>2, <1>3, ThinsTyped
<1>. QED  BY <1>1, <1>4 DEF r2, s2

LEMMA SweepThins ==
  ASSUME <<rec, spool>> \in Disks, FilesValid, NEW D
  PROVE  /\ Thins(rec, spool, SweptRecs(D), SweptSpools(D))
         /\ <<SweptRecs(D), SweptSpools(D)>> \in Disks
<1> DEFINE r2 == SweptRecs(D)
           s2 == SweptSpools(D)
<1>1. \A k \in Keys : r2[k] \in {rec[k], NoRecord, Evicted(rec[k])}
  BY DEF SweptRecs
<1>2. \A k \in Keys : \A n \in Nonces : s2[k][n] \in {spool[k][n], NoFile}
  BY DEF SweptSpools
<1>3. ASSUME NEW k \in Keys, r2[k] # rec[k], NEW n \in Nonces PROVE s2[k][n].bytes = 0
  <2>1. r2[k].frames # n /\ k[1] \in D
    BY <1>1, <1>3, NamesAssumption DEF NoRecord, Evicted, SweptRecs
  <2>2. spool[k][n].bytes \in Nat /\ (spool[k][n].bytes > 0 => rec[k].frames = n)
    BY DEF FilesValid, AllValid, FileValid, Disks, Files
  <2>3. rec[k].frames = n => s2[k][n] = NoFile
    BY <2>1 DEF SweptSpools
  <2>. QED  BY <1>2, <2>2, <2>3 DEF NoFile
<1>4. Thins(rec, spool, r2, s2)
  BY <1>2, <1>3 DEF Thins
<1>5. r2 \in [Keys -> Records]
  <2>1. \A k \in Keys : r2[k] \in Records
    BY <1>1 DEF NoRecord, Evicted, Records, States, Disks
  <2>. QED  BY <2>1 DEF SweptRecs
<1>6. s2 = [k \in Keys |-> [n \in Nonces |-> s2[k][n]]]
  BY DEF SweptSpools
<1> HIDE DEF r2, s2
<1>7. <<r2, s2>> \in Disks
  BY <1>4, <1>5, <1>6, ThinsTyped
<1>. QED  BY <1>4, <1>7 DEF r2, s2

LEMMA AdmitThins ==
  ASSUME QInv, NEW d, NEW R \in Reclaims(AdmitRecs(d), AdmitCount(d), d)
  PROVE  LET r2 == DeleteRecs(AdmitRecs(d), R)
             s2 == RemoveSpools(AdmitRecs(d), AdmitSpools(d), R)
         IN Thins(rec, spool, r2, s2) /\ <<r2, s2>> \in Disks /\ AllValid(r2, s2)
<1> DEFINE r  == AdmitRecs(d)
           s  == AdmitSpools(d)
           r2 == DeleteRecs(r, R)
           s2 == RemoveSpools(r, s, R)
<1>1. <<rec, spool>> \in Disks /\ AllValid(rec, spool)
  BY DEF QInv, IInv, TypeOK, Disks, FilesValid
<1>2. Thins(rec, spool, rec, spool)
  BY DEF Thins
<1>3. Thins(rec, spool, r, s) /\ <<r, s>> \in Disks
  BY <1>1, <1>2, SweepThins DEF AdmitRecs, AdmitSpools, FilesValid
<1>4. R \in SUBSET Keys
  BY DEF Reclaims, Reclaimable, Stored
<1> HIDE DEF r, s
<1>5. AllValid(r, s)
  BY <1>1, <1>3, ThinsStored
<1>6. Thins(r, s, r2, s2) /\ <<r2, s2>> \in Disks
  BY <1>3, <1>4, <1>5, DeleteThins
<1>7. AllValid(r2, s2)
  BY <1>3, <1>5, <1>6, ThinsStored
<1>8. Thins(rec, spool, r2, s2)
  <2> HIDE DEF r2, s2
  <2>. QED  BY <1>3, <1>6, ThinsTrans
<1>. QED  BY <1>6, <1>7, <1>8 DEF r, s

\* evictLocked leaves the device within its quota, the reserve included, or
\* with no stored output at all.
LEMMA EvictionsFit ==
  ASSUME NEW r, NEW s, <<r, s>> \in Disks, AllValid(r, s), NEW l, NEW d,
         NEW reserve, NEW E \in Evictions(r, s, l, d, reserve)
  PROVE  LET r2 == EvictRecs(r, E)
             s2 == RemoveSpools(r, s, E)
         IN /\ Thins(r, s, r2, s2) /\ <<r2, s2>> \in Disks /\ AllValid(r2, s2)
            /\ Held(r2, s2, l, d) = 0 \/ Fits(Held(r2, s2, l, d), reserve)
<1> DEFINE r2 == EvictRecs(r, E)
           s2 == RemoveSpools(r, s, E)
           sized == {k \in Stored(r, l, d) : StoredBytes(r, s, k) > 0}
           W == [k \in sized |-> StoredBytes(r, s, k)]
           w == Weights(r2, s2, l, d)
<1>1. /\ E \in SUBSET sized
      /\ Fits(Total(W, sized \ E), reserve) \/ E = sized
  BY DEF Evictions
<1>2. sized \subseteq Keys /\ \A k \in sized : k[1] = d /\ k \notin l
  BY DEF Stored
<1>3. r \in [Keys -> Records] /\ s \in [Keys -> [Nonces -> Files]]
  BY DEF Disks
<1>4. \A k \in E : r[k].state = "finished"
  BY <1>3, EvictionsKeep
<1>5. Thins(r, s, r2, s2) /\ <<r2, s2>> \in Disks
  BY <1>1, <1>2, <1>4, EvictThins
<1>6. AllValid(r2, s2)
  <2> HIDE DEF r2, s2
  <2>. QED  BY <1>5, ThinsStored
<1>7. ASSUME NEW k \in Keys, k \notin E
      PROVE  StoredBytes(r2, s2, k) = StoredBytes(r, s, k)
  <2>1. r2[k] = r[k] /\ r[k].frames \in Nonces \cup {0}
    BY <1>3, <1>7 DEF EvictRecs, Records
  <2>2. r[k].frames \in Nonces => s2[k][r[k].frames] = s[k][r[k].frames]
    BY <1>7 DEF RemoveSpools
  <2> HIDE DEF r2, s2
  <2>. QED  BY <2>1, <2>2 DEF StoredBytes
<1>8. ASSUME NEW k \in Keys, k \in E PROVE StoredBytes(r2, s2, k) = 0
  <2>1. r2[k].state = "evicted"
    BY <1>8 DEF EvictRecs, Evicted
  <2>. QED  BY <2>1 DEF StoredBytes
<1>9. ASSUME NEW k \in Keys, k \notin sized, k[1] = d, k \notin l
      PROVE  StoredBytes(r, s, k) = 0
  <2>1. StoredBytes(r, s, k) \in Nat
    BY StoredTyped
  <2>2. r[k].state = "none" => StoredBytes(r, s, k) = 0
    BY DEF StoredBytes
  <2>. QED  BY <1>9, <2>1, <2>2 DEF Stored
<1>10. ASSUME NEW k \in Keys
       PROVE  /\ w[k] \in Nat
              /\ k \in sized \ E => W[k] = w[k]
              /\ k \notin sized \ E => w[k] = 0
  <2>1. w[k] = IF k[1] = d /\ k \notin l THEN StoredBytes(r2, s2, k) ELSE 0
    BY DEF Weights
  <2>2. k \in sized => W[k] = StoredBytes(r, s, k)
    OBVIOUS
  <2>3. StoredBytes(r2, s2, k) \in Nat
    BY <1>5, StoredTyped
  <2> HIDE DEF r2, s2, sized, W, w
  <2>4. CASE k \in E
    BY <1>8, <2>1, <2>3, <2>4
  <2>5. CASE k \notin E
    BY <1>2, <1>7, <1>9, <2>1, <2>2, <2>3, <2>5
  <2>. QED  BY <2>4, <2>5
<1>11. Total(w, Keys) = Total(W, sized \ E)
  <2>1. sized \ E \subseteq Keys
    BY <1>2
  <2> HIDE DEF r2, s2, sized, W, w
  <2>. QED  BY <1>10, <2>1, KeysFinite, TotalZeros
<1>12. Held(r2, s2, l, d) = Total(W, sized \ E)
  <2> HIDE DEF r2, s2, W, sized
  <2>. QED  BY <1>11 DEF Held
<1>13. Held(r2, s2, l, d) = 0 \/ Fits(Held(r2, s2, l, d), reserve)
  <2> HIDE DEF r2, s2, W, sized
  <2>1. E = sized => Total(W, sized \ E) = 0
    <3>1. E = sized => sized \ E = {}
      OBVIOUS
    <3>. QED  BY <3>1, TotalEmpty
  <2>. QED  BY <1>1, <1>12, <2>1
<1>. QED  BY <1>5, <1>6, <1>13

\* A step under which no run's stored output grows keeps what a device may hold.
LEMMA LessFits ==
  ASSUME QInv, <<rec', spool'>> \in Disks, UNCHANGED <<live, running>>,
         \A k \in Keys \ live : StoredBytes(rec', spool', k) <= StoredBytes(rec, spool, k)
  PROVE  HeldFits'
<1>. SUFFICES ASSUME NEW d \in Devices
              PROVE  Held(rec', spool', live', d)
                       <= QuotaBytes + (MaxConcurrent - running'[d]) * RunMaxBytes
  BY DEF HeldFits
<1>1. <<rec, spool>> \in Disks
  BY DEF QInv, IInv, TypeOK, Disks
<1>2. Held(rec', spool', live, d) <= Held(rec, spool, live, d)
  BY <1>1, HeldLe
<1>3. Held(rec, spool, live, d) \in Nat /\ Held(rec', spool', live, d) \in Nat
  BY <1>1, HeldTyped
<1>4. Held(rec, spool, live, d) <= QuotaBytes + (MaxConcurrent - running[d]) * RunMaxBytes
  BY DEF QInv, HeldFits
<1>5. QuotaBytes \in Nat /\ MaxConcurrent - running[d] \in Int /\ RunMaxBytes \in Int
  BY LimitsAssumption DEF QInv, IInv, TypeOK
<1>6. (MaxConcurrent - running[d]) * RunMaxBytes \in Int
  BY <1>5
<1> DEFINE slack == (MaxConcurrent - running[d]) * RunMaxBytes
<1> HIDE DEF slack
<1>7. Held(rec', spool', live, d) <= QuotaBytes + slack
  BY <1>2, <1>3, <1>4, <1>5, <1>6 DEF slack
<1>. QED  BY <1>7 DEF slack

LEMMA QInvTyped ==
  ASSUME QInv
  PROVE  /\ <<rec, spool>> \in Disks /\ AllValid(rec, spool)
         /\ Thins(rec, spool, rec, spool)
         /\ running \in [Devices -> Nat] /\ live \subseteq Keys
BY DEF QInv, IInv, TypeOK, Disks, FilesValid, Thins

\* A step that only thins the disk.
LEMMA ThinStep ==
  ASSUME QInv, Thins(rec, spool, rec', spool'), <<rec', spool'>> \in Disks,
         UNCHANGED <<live, running>>
  PROVE  FilesValid' /\ HeldFits'
<1>1. /\ AllValid(rec', spool')
      /\ \A k \in Keys : StoredBytes(rec', spool', k) <= StoredBytes(rec, spool, k)
  BY QInvTyped, ThinsStored
<1>2. HeldFits'
  BY <1>1, LessFits
<1>. QED  BY <1>1, <1>2 DEF FilesValid

-----------------------------------------------------------------------------
(* One lemma for each action. *)

LEMMA LookupFits ==
  ASSUME QInv, NEW k \in Keys, LookupRun(k), UNCHANGED <<live, running>>
  PROVE  FilesValid' /\ HeldFits'
<1>1. CASE k \notin live /\ PastRetention(rec[k])
  <2>1. rec' = EvictRecs(rec, {k}) /\ spool' = RemoveSpools(rec, spool, {k})
    BY <1>1 DEF LookupRun
  <2>2. {k} \in SUBSET Keys /\ \A j \in {k} : rec[j].state = "finished"
    BY <1>1 DEF PastRetention
  <2>3. Thins(rec, spool, rec', spool') /\ <<rec', spool'>> \in Disks
    BY <2>1, <2>2, QInvTyped, EvictThins
  <2>. QED  BY <2>3, ThinStep
<1>2. CASE ~(k \notin live /\ PastRetention(rec[k]))
  <2>1. rec' = rec /\ spool' = spool
    BY <1>2 DEF LookupRun
  <2>. QED  BY <2>1, QInvTyped, ThinStep
<1>. QED  BY <1>1, <1>2

LEMMA SweepFits ==
  ASSUME QInv, SweepAll, UNCHANGED <<live, running>>
  PROVE  FilesValid' /\ HeldFits'
<1>1. \/ rec' = rec /\ spool' = spool
      \/ rec' = SweptRecs(Devices) /\ spool' = SweptSpools(Devices)
  BY DEF SweepAll, disk
<1>2. Thins(rec, spool, rec', spool') /\ <<rec', spool'>> \in Disks
  BY <1>1, QInvTyped, SweepThins DEF FilesValid
<1>. QED  BY <1>2, ThinStep

LEMMA StillFits ==
  ASSUME QInv, UNCHANGED <<rec, spool, live, running>>
  PROVE  FilesValid' /\ HeldFits'
BY QInvTyped, ThinStep

LEMMA FailedStartFits ==
  ASSUME QInv, NEW h \in Handlers, StartUnadmitted(h) \/ StartFails(h)
  PROVE  FilesValid' /\ HeldFits'
<1> DEFINE d == handler[h].key[1]
<1>1. PICK R \in Reclaims(AdmitRecs(d), AdmitCount(d), d) :
        /\ rec' = DeleteRecs(AdmitRecs(d), R)
        /\ spool' = RemoveSpools(AdmitRecs(d), AdmitSpools(d), R)
  BY DEF StartUnadmitted, StartFails
<1>2. UNCHANGED <<live, running>>
  BY DEF StartUnadmitted, StartFails
<1>3. Thins(rec, spool, rec', spool') /\ <<rec', spool'>> \in Disks
  BY <1>1, AdmitThins
<1>. QED  BY <1>2, <1>3, ThinStep

\* A record claimed where there was none has no output.
LEMMA NoOutput ==
  ASSUME QInv, NEW k \in Keys, rec[k].state = "none"
  PROVE  k \notin live /\ \A n \in Nonces : spool[k][n].bytes = 0
<1>1. k \notin live
  BY DEF QInv, IInv, LiveRunIntact
<1>2. \A n \in Nonces : spool[k][n].bytes \in Nat
  BY QInvTyped DEF Disks, Files
<1>. QED  BY <1>1, <1>2, QInvTyped DEF AllValid, FileValid

LEMMA CancelEarlyFits ==
  ASSUME QInv, NEW k \in Keys, CancelEarly(k)
  PROVE  FilesValid' /\ HeldFits'
<1> DEFINE d == k[1]
<1>1. PICK R \in Reclaims(AdmitRecs(d), AdmitCount(d), d) :
        /\ \/ rec' = [DeleteRecs(AdmitRecs(d), R) EXCEPT ![k] = Tombstone]
           \/ rec' = DeleteRecs(AdmitRecs(d), R)
        /\ spool' = RemoveSpools(AdmitRecs(d), AdmitSpools(d), R)
  BY DEF CancelEarly
<1>2. UNCHANGED <<live, running>> /\ rec[k].state = "none"
  BY DEF CancelEarly
<1> DEFINE r == DeleteRecs(AdmitRecs(d), R)
<1>3. Thins(rec, spool, r, spool') /\ <<r, spool'>> \in Disks
  BY <1>1, AdmitThins
<1>4. rec' = [r EXCEPT ![k] = Tombstone] \/ rec' = r
  BY <1>1
<1>5. \A n \in Nonces : spool'[k][n].bytes = 0
  BY <1>2, <1>3, NoOutput DEF Thins, NoFile
<1>6. Thins(rec, spool, rec', spool')
  <2> HIDE DEF r
  <2>. QED  BY <1>3, <1>4, <1>5 DEF Thins, Disks
<1>7. <<rec', spool'>> \in Disks
  <2>1. Tombstone \in Records
    BY DEF Tombstone, Records, States, QInv, IInv, TypeOK
  <2> HIDE DEF r
  <2>. QED  BY <1>3, <1>4, <2>1 DEF Disks
<1>. QED  BY <1>2, <1>6, <1>7, ThinStep

\* A live run's writes stay within --run-max-bytes and weigh nothing yet.
LEMMA WriteFits ==
  ASSUME QInv, NEW k \in Keys, Write(k)
  PROVE  FilesValid' /\ HeldFits'
<1> DEFINE n == rec[k].frames
           f == [exists |-> TRUE, mtime |-> now, bytes |-> spool[k][n].bytes + 1]
<1>1. /\ UNCHANGED <<rec, live, running>> /\ k \in live
      /\ spool[k][n].bytes < RunMaxBytes
      /\ spool' = [spool EXCEPT ![k][n] = f]
  BY DEF Write, memory
<1>2. /\ n \in Nonces /\ rec[k].state \in {"running", "finished"}
  BY <1>1, QInvTyped DEF QInv, IInv, LiveRunIntact, Disks, Records
<1>3. spool[k][n].bytes \in Nat /\ now \in Nat
  BY <1>2, QInvTyped DEF Disks, Files, QInv, IInv, TypeOK
<1>4. f \in Files /\ f.bytes <= RunMaxBytes /\ f.exists
  BY <1>1, <1>3, LimitsAssumption DEF Files
<1>5. /\ spool'[k][n] = f
      /\ \A j \in Keys, m \in Nonces : j # k \/ m # n => spool'[j][m] = spool[j][m]
      /\ spool' \in [Keys -> [Nonces -> Files]]
  <2> HIDE DEF f, n
  <2>. QED  BY <1>1, <1>2, <1>4, QInvTyped DEF Disks
<1> HIDE DEF f
<1>6. FilesValid'
  <2>1. ASSUME NEW j \in Keys PROVE FileValid(rec', spool', j)
    <3>1. FileValid(rec, spool, j)
      BY QInvTyped DEF AllValid
    <3>. QED  BY <1>1, <1>2, <1>4, <1>5, <3>1 DEF FileValid
  <2>2. AllValid(rec', spool')
    BY <2>1 DEF AllValid
  <2>. QED  BY <2>2 DEF FilesValid
<1>7. <<rec', spool'>> \in Disks
  BY <1>1, <1>5, QInvTyped DEF Disks
<1>8. ASSUME NEW j \in Keys \ live
      PROVE  StoredBytes(rec', spool', j) <= StoredBytes(rec, spool, j)
  <2>1. rec[j].frames \in Nonces \cup {0}
    BY QInvTyped DEF Disks, Records
  <2>2. rec[j].frames \in Nonces => spool'[j][rec[j].frames] = spool[j][rec[j].frames]
    BY <1>1, <1>5
  <2>3. StoredBytes(rec', spool', j) = StoredBytes(rec, spool, j)
    BY <1>1, <2>1, <2>2 DEF StoredBytes
  <2>4. StoredBytes(rec, spool, j) \in Nat
    BY QInvTyped, StoredTyped
  <2>. QED  BY <2>3, <2>4
<1>9. HeldFits'
  BY <1>1, <1>7, <1>8, LessFits
<1>. QED  BY <1>6, <1>9

LEMMA FinishFits ==
  ASSUME QInv, NEW k \in Keys, Finish(k)
  PROVE  FilesValid' /\ HeldFits'
<1>1. /\ UNCHANGED <<spool, live, running>> /\ k \in live
      /\ rec' = [rec EXCEPT ![k] = Finished(rec[k])] \/ rec' = rec
  BY DEF Finish
<1>2. Finished(rec[k]) \in Records
  BY QInvTyped DEF Disks, Finished, Records, States, QInv, IInv, TypeOK
<1>3. <<rec', spool'>> \in Disks
  BY <1>1, <1>2, QInvTyped DEF Disks
<1>4. \A j \in Keys : j # k => rec'[j] = rec[j]
  BY <1>1, QInvTyped DEF Disks
<1>5. FilesValid'
  <2>1. ASSUME NEW j \in Keys PROVE FileValid(rec', spool', j)
    <3>1. FileValid(rec, spool, j)
      BY QInvTyped DEF AllValid
    <3>2. rec'[j] = rec[j] \/ rec'[j] = Finished(rec[j])
      BY <1>1, QInvTyped DEF Disks
    <3>. QED  BY <1>1, <3>1, <3>2 DEF FileValid, Finished
  <2>2. AllValid(rec', spool')
    BY <2>1 DEF AllValid
  <2>. QED  BY <2>2 DEF FilesValid
<1>6. ASSUME NEW j \in Keys \ live
      PROVE  StoredBytes(rec', spool', j) <= StoredBytes(rec, spool, j)
  <2>1. StoredBytes(rec', spool', j) = StoredBytes(rec, spool, j)
    BY <1>1, <1>4 DEF StoredBytes
  <2>2. StoredBytes(rec, spool, j) \in Nat
    BY QInvTyped, StoredTyped
  <2>. QED  BY <2>1, <2>2
<1>7. HeldFits'
  BY <1>1, <1>3, <1>6, LessFits
<1>. QED  BY <1>5, <1>7

\* A step that makes room on device d and lets no other device's output grow.
LEMMA RoomMade ==
  ASSUME QInv, IInv', NEW d \in Devices, <<rec', spool'>> \in Disks,
         Held(rec', spool', live', d) <= QuotaBytes,
         \A e \in Devices : e # d => running'[e] = running[e],
         \A j \in Keys : j[1] # d =>
           /\ j \in live' <=> j \in live
           /\ StoredBytes(rec', spool', j) <= StoredBytes(rec, spool, j)
  PROVE  HeldFits'
<1>. SUFFICES ASSUME NEW e \in Devices
              PROVE  Held(rec', spool', live', e)
                       <= QuotaBytes + (MaxConcurrent - running'[e]) * RunMaxBytes
  BY DEF HeldFits
<1> DEFINE slack == (MaxConcurrent - running'[e]) * RunMaxBytes
<1>1. slack \in Nat
  <2>1. running'[e] \in Nat /\ running'[e] <= MaxConcurrent
    BY DEF IInv, TypeOK, SlotsMatchLive
  <2>2. MaxConcurrent - running'[e] \in Nat /\ RunMaxBytes \in Nat
    BY <2>1, LimitsAssumption
  <2>. QED  BY <2>2
<1>2. Held(rec', spool', live', e) \in Nat /\ QuotaBytes \in Nat
  BY HeldTyped, LimitsAssumption
<1>3. CASE e = d
  <2> HIDE DEF slack
  <2>1. Held(rec', spool', live', e) <= QuotaBytes + slack
    BY <1>1, <1>2, <1>3
  <2>. QED  BY <2>1 DEF slack
<1>4. CASE e # d
  <2>1. \A j \in Keys : j[1] = e =>
          /\ j \in live' <=> j \in live
          /\ StoredBytes(rec', spool', j) <= StoredBytes(rec, spool, j)
    BY <1>4
  <2>2. Weights(rec', spool', live', e) = Weights(rec', spool', live, e)
    BY <2>1 DEF Weights
  <2>3. Held(rec', spool', live', e) = Held(rec', spool', live, e)
    BY <2>2 DEF Held
  <2>4. Held(rec', spool', live, e) <= Held(rec, spool, live, e)
    BY <2>1, QInvTyped, HeldLe
  <2>5. Held(rec, spool, live, e) <= QuotaBytes + (MaxConcurrent - running[e]) * RunMaxBytes
    BY DEF QInv, HeldFits
  <2>6. Held(rec, spool, live, e) <= QuotaBytes + slack
    BY <1>4, <2>5
  <2>7. Held(rec, spool, live, e) \in Nat
    BY QInvTyped, HeldTyped
  <2> HIDE DEF slack
  <2>8. Held(rec', spool', live', e) <= QuotaBytes + slack
    BY <1>1, <1>2, <2>3, <2>4, <2>6, <2>7
  <2>. QED  BY <2>8 DEF slack
<1>. QED  BY <1>3, <1>4

LEMMA EndRunFits ==
  ASSUME QInv, IInv', NEW k \in Keys, EndRun(k)
  PROVE  FilesValid' /\ HeldFits'
<1> DEFINE d == k[1]
<1>1. /\ live' = live \ {k} /\ running' = [running EXCEPT ![d] = @ - 1]
      /\ d \in Devices
  BY DEF EndRun, Release, Keys
<1>2. PICK E \in Evictions(rec, spool, live \ {k}, d, 0) :
        rec' = EvictRecs(rec, E) /\ spool' = RemoveSpools(rec, spool, E)
  BY DEF EndRun
<1>3. /\ Thins(rec, spool, rec', spool') /\ <<rec', spool'>> \in Disks
      /\ AllValid(rec', spool')
      /\ Held(rec', spool', live', d) = 0 \/ Fits(Held(rec', spool', live', d), 0)
  BY <1>1, <1>2, QInvTyped, EvictionsFit
<1>4. Held(rec', spool', live', d) <= QuotaBytes
  BY <1>3, HeldTyped, LimitsAssumption DEF Fits
<1>5. \A j \in Keys : j[1] # d =>
        /\ j \in live' <=> j \in live
        /\ StoredBytes(rec', spool', j) <= StoredBytes(rec, spool, j)
  BY <1>1, <1>3, QInvTyped, ThinsStored
<1>6. \A e \in Devices : e # d => running'[e] = running[e]
  BY <1>1, QInvTyped
<1>7. HeldFits'
  BY <1>1, <1>3, <1>4, <1>5, <1>6, RoomMade
<1>. QED  BY <1>3, <1>7 DEF FilesValid

LEMMA StartCommitsFits ==
  ASSUME QInv, IInv', NEW h \in Handlers, StartCommits(h)
  PROVE  FilesValid' /\ HeldFits'
<1>. DEFINE k == handler[h].key
            d == k[1]
            q == handler[h].req
<1>1. k \in Keys /\ d \in Devices /\ q \in Requests
  BY HandlerHolds DEF StartCommits, QInv
<1>2. PICK R \in Reclaims(AdmitRecs(d), AdmitCount(d), d), n \in Nonces :
        LET s1 == RemoveSpools(AdmitRecs(d), AdmitSpools(d), R)
            r1 == [DeleteRecs(AdmitRecs(d), R) EXCEPT ![k] = NewRecord(q, n)]
            s2 == [s1 EXCEPT ![k][n] = NewFile]
        IN \E E \in Evictions(r1, s2, live \cup {k}, d, RunMaxBytes) :
             /\ rec' = EvictRecs(r1, E)
             /\ spool' = RemoveSpools(r1, s2, E)
  BY Zenon DEF StartCommits
<1>. DEFINE r == DeleteRecs(AdmitRecs(d), R)
            s == RemoveSpools(AdmitRecs(d), AdmitSpools(d), R)
            r1 == [r EXCEPT ![k] = NewRecord(q, n)]
            s2 == [s EXCEPT ![k][n] = NewFile]
<1>3. PICK E \in Evictions(r1, s2, live \cup {k}, d, RunMaxBytes) :
        rec' = EvictRecs(r1, E) /\ spool' = RemoveSpools(r1, s2, E)
  BY <1>2
<1>4. /\ live' = live \cup {k} /\ running' = [running EXCEPT ![d] = @ + 1]
      /\ rec[k].state = "none"
  BY DEF StartCommits
<1>5. Thins(rec, spool, r, s) /\ <<r, s>> \in Disks /\ AllValid(r, s)
  BY AdmitThins
<1>. HIDE DEF r, s, r1, s2
<1>6. \A m \in Nonces : s[k][m].bytes = 0
  BY <1>1, <1>4, <1>5, NoOutput DEF Thins, NoFile
<1>7. NewRecord(q, n) \in Records /\ NewFile \in Files
  BY <1>1 DEF NewRecord, NewFile, Records, Files, States, QInv, IInv, TypeOK
<1>8. /\ r1 \in [Keys -> Records] /\ s2 \in [Keys -> [Nonces -> Files]]
      /\ \A j \in Keys : j # k => r1[j] = r[j] /\ s2[j] = s[j]
      /\ \A m \in Nonces : s2[k][m] \in {s[k][m], NewFile}
  BY <1>1, <1>5, <1>7 DEF Disks, r1, s2
<1>9. AllValid(r1, s2)
  <2>1. \A m \in Nonces : s2[k][m].bytes = 0
    BY <1>6, <1>8 DEF NewFile
  <2>2. ASSUME NEW j \in Keys PROVE FileValid(r1, s2, j)
    <3>1. CASE j = k
      BY <2>1, <3>1, LimitsAssumption DEF FileValid
    <3>2. CASE j # k
      BY <1>5, <1>8, <3>2 DEF FileValid, AllValid
    <3>. QED  BY <3>1, <3>2
  <2>. QED  BY <2>2 DEF AllValid
<1>10. <<r1, s2>> \in Disks
  BY <1>8 DEF Disks
<1>11. /\ Thins(r1, s2, rec', spool') /\ <<rec', spool'>> \in Disks
       /\ AllValid(rec', spool')
       /\ \/ Held(rec', spool', live', d) = 0
          \/ Fits(Held(rec', spool', live', d), RunMaxBytes)
  BY <1>3, <1>4, <1>9, <1>10, EvictionsFit
<1>12. Held(rec', spool', live', d) <= QuotaBytes
  BY <1>11, HeldTyped, LimitsAssumption DEF Fits
<1>13. ASSUME NEW j \in Keys, j[1] # d
       PROVE  /\ j \in live' <=> j \in live
              /\ StoredBytes(rec', spool', j) <= StoredBytes(rec, spool, j)
  <2>1. j # k
    BY <1>13
  <2>2. StoredBytes(rec', spool', j) <= StoredBytes(r1, s2, j)
    BY <1>9, <1>10, <1>11, ThinsStored
  <2>3. StoredBytes(r1, s2, j) = StoredBytes(r, s, j)
    BY <1>8, <2>1 DEF StoredBytes
  <2>4. StoredBytes(r, s, j) <= StoredBytes(rec, spool, j)
    BY <1>5, QInvTyped, ThinsStored
  <2>5. /\ StoredBytes(rec', spool', j) \in Nat /\ StoredBytes(r, s, j) \in Nat
        /\ StoredBytes(rec, spool, j) \in Nat
    BY <1>5, <1>11, QInvTyped, StoredTyped
  <2>. QED  BY <1>4, <2>1, <2>2, <2>3, <2>4, <2>5
<1>14. \A e \in Devices : e # d => running'[e] = running[e]
  BY <1>4, QInvTyped
<1>15. HeldFits'
  BY <1>1, <1>11, <1>12, <1>13, <1>14, RoomMade
<1>. QED  BY <1>11, <1>15 DEF FilesValid

\* A restart stores what the live runs had finished, at most a spool each.
LEMMA LiveWeigh ==
  ASSUME QInv, NEW d \in Devices
  PROVE  Held(rec, spool, {}, d) <= Held(rec, spool, live, d) + running[d] * RunMaxBytes
<1> DEFINE u == Weights(rec, spool, live, d)
           w == Weights(rec, spool, {}, d)
           L == {k \in live : k[1] = d}
           v == [k \in Keys |-> IF k \in L THEN StoredBytes(rec, spool, k) ELSE 0]
<1>1. ASSUME NEW k \in Keys
      PROVE  /\ u[k] \in Nat /\ v[k] \in Nat /\ w[k] = u[k] + v[k]
             /\ v[k] <= RunMaxBytes
             /\ k \notin L => v[k] = 0
  <2>1. StoredBytes(rec, spool, k) \in Nat /\ StoredBytes(rec, spool, k) <= RunMaxBytes
    BY QInvTyped, StoredTyped
  <2>. QED  BY <2>1, LimitsAssumption DEF Weights
<1>2. L \in SUBSET Keys /\ IsFiniteSet(L) /\ running[d] = Cardinality(L)
  <2>1. L \in SUBSET Keys
    BY QInvTyped
  <2>2. running[d] = Cardinality(L)
    BY DEF QInv, IInv, SlotsMatchLive
  <2>3. IsFiniteSet(L)
    BY <2>1, KeysFinite
  <2>. QED  BY <2>1, <2>2, <2>3
<1>3. RunMaxBytes \in Nat
  BY LimitsAssumption
<1> HIDE DEF u, v, w, L
<1>4. Total(w, Keys) = Total(u, Keys) + Total(v, Keys)
  BY <1>1, KeysFinite, TotalSum
<1>5. Total(v, Keys) = Total(v, L)
  BY <1>1, <1>2, KeysFinite, TotalZeros
<1>6. Total(v, L) <= Cardinality(L) * RunMaxBytes
  BY <1>1, <1>2, <1>3, TotalBound
<1>7. Total(u, Keys) \in Nat /\ Total(v, L) \in Nat
  BY <1>1, <1>2, KeysFinite, TotalRemove
<1>8. running[d] * RunMaxBytes \in Nat
  BY <1>3, QInvTyped
<1>9. Total(w, Keys) <= Total(u, Keys) + running[d] * RunMaxBytes
  BY <1>2, <1>4, <1>5, <1>6, <1>7, <1>8
<1>. QED  BY <1>9 DEF u, w, Held

LEMMA RestartFits ==
  ASSUME QInv, LoseMemory, <<rec', spool'>> \in Disks,
         \A k \in Keys : StoredBytes(rec', spool', k) <= StoredBytes(rec, spool, k)
  PROVE  HeldFits'
<1>. SUFFICES ASSUME NEW d \in Devices
              PROVE  Held(rec', spool', live', d)
                       <= QuotaBytes + (MaxConcurrent - running'[d]) * RunMaxBytes
  BY DEF HeldFits
<1>1. live' = {} /\ running'[d] = 0
  BY DEF LoseMemory
<1>2. Held(rec', spool', {}, d) <= Held(rec, spool, {}, d)
  BY QInvTyped, HeldLe
<1>3. Held(rec, spool, {}, d) <= Held(rec, spool, live, d) + running[d] * RunMaxBytes
  BY LiveWeigh
<1>4. Held(rec, spool, live, d) <= QuotaBytes + (MaxConcurrent - running[d]) * RunMaxBytes
  BY DEF QInv, HeldFits
<1>5. /\ running[d] \in Int /\ MaxConcurrent \in Int /\ RunMaxBytes \in Int
      /\ QuotaBytes \in Int
  BY QInvTyped, LimitsAssumption
<1>6. (MaxConcurrent - running[d]) * RunMaxBytes + running[d] * RunMaxBytes
        = MaxConcurrent * RunMaxBytes
  BY <1>5
<1>7. /\ (MaxConcurrent - running[d]) * RunMaxBytes \in Int
      /\ running[d] * RunMaxBytes \in Int /\ MaxConcurrent * RunMaxBytes \in Int
  BY <1>5
<1>8. /\ Held(rec', spool', {}, d) \in Int /\ Held(rec, spool, {}, d) \in Int
      /\ Held(rec, spool, live, d) \in Int
  BY QInvTyped, HeldTyped
<1>9. Held(rec', spool', {}, d) <= QuotaBytes + MaxConcurrent * RunMaxBytes
  <2> DEFINE a == (MaxConcurrent - running[d]) * RunMaxBytes
             b == running[d] * RunMaxBytes
             c == MaxConcurrent * RunMaxBytes
  <2>1. a + b = c /\ a \in Int /\ b \in Int /\ c \in Int
    BY <1>6, <1>7
  <2>2. /\ Held(rec, spool, {}, d) <= Held(rec, spool, live, d) + b
        /\ Held(rec, spool, live, d) <= QuotaBytes + a
    BY <1>3, <1>4
  <2> HIDE DEF a, b, c
  <2>3. Held(rec', spool', {}, d) <= QuotaBytes + c
    BY <1>2, <1>5, <1>8, <2>1, <2>2
  <2>. QED  BY <2>3 DEF c
<1>10. MaxConcurrent - running'[d] = MaxConcurrent
  BY <1>1, <1>5
<1>. QED  BY <1>1, <1>9, <1>10

LEMMA CrashFits ==
  ASSUME QInv, Crash PROVE FilesValid' /\ HeldFits'
<1>1. rec' = rec /\ spool' = spool /\ LoseMemory
  BY DEF Crash, disk
<1>2. \A k \in Keys : StoredBytes(rec', spool', k) <= StoredBytes(rec, spool, k)
  BY <1>1, QInvTyped, StoredTyped
<1>3. HeldFits'
  BY <1>1, <1>2, QInvTyped, RestartFits
<1>4. AllValid(rec', spool')
  BY <1>1, QInvTyped
<1>. QED  BY <1>3, <1>4 DEF FilesValid

LEMMA CrashInEvictFits ==
  ASSUME QInv, NEW k \in Keys, CrashInEvict(k) PROVE FilesValid' /\ HeldFits'
<1>1. rec' = rec /\ spool' = RemoveSpools(rec, spool, {k}) /\ LoseMemory
  BY DEF CrashInEvict
<1>2. ASSUME NEW j \in Keys, NEW n \in Nonces
      PROVE  spool'[j][n] \in {spool[j][n], NoFile}
  BY <1>1 DEF RemoveSpools
<1>3. Thins(rec, spool, rec', spool')
  BY <1>1, <1>2 DEF Thins
<1>4. spool' = [j \in Keys |-> [n \in Nonces |-> spool'[j][n]]]
  BY <1>1 DEF RemoveSpools
<1>5. <<rec', spool'>> \in Disks
  <2>1. rec' \in [Keys -> Records]
    BY <1>1, QInvTyped DEF Disks
  <2>. QED  BY <1>3, <1>4, <2>1, QInvTyped, ThinsTyped
<1>6. /\ AllValid(rec', spool')
      /\ \A j \in Keys : StoredBytes(rec', spool', j) <= StoredBytes(rec, spool, j)
  BY <1>3, <1>5, QInvTyped, ThinsStored
<1>7. HeldFits'
  BY <1>1, <1>5, <1>6, RestartFits
<1>. QED  BY <1>6, <1>7 DEF FilesValid

LEMMA CrashInStartFits ==
  ASSUME QInv, NEW h \in Handlers, CrashInStart(h) PROVE FilesValid' /\ HeldFits'
<1> DEFINE k == handler[h].key
<1>1. k \in Keys
  BY HandlerHolds DEF CrashInStart, QInv
<1>2. PICK n \in Nonces : spool' = [spool EXCEPT ![k][n] = NewFile]
  BY DEF CrashInStart
<1>3. rec' = rec /\ LoseMemory /\ rec[k].state = "none"
  BY DEF CrashInStart
<1>4. NewFile \in Files /\ NewFile.bytes = 0
  BY DEF NewFile, Files, QInv, IInv, TypeOK
<1> HIDE DEF k
<1>5. /\ spool' \in [Keys -> [Nonces -> Files]]
      /\ \A j \in Keys : j # k => spool'[j] = spool[j]
      /\ \A m \in Nonces : spool'[k][m] \in {spool[k][m], NewFile}
  BY <1>1, <1>2, <1>4, QInvTyped DEF Disks
<1>6. <<rec', spool'>> \in Disks
  BY <1>3, <1>5, QInvTyped DEF Disks
<1>7. AllValid(rec', spool')
  <2>1. \A m \in Nonces : spool'[k][m].bytes = 0
    BY <1>1, <1>3, <1>4, <1>5, NoOutput
  <2>2. ASSUME NEW j \in Keys PROVE FileValid(rec', spool', j)
    <3>1. CASE j = k
      BY <2>1, <3>1, LimitsAssumption DEF FileValid
    <3>2. CASE j # k
      BY <1>3, <1>5, <3>2, QInvTyped DEF FileValid, AllValid
    <3>. QED  BY <3>1, <3>2
  <2>. QED  BY <2>2 DEF AllValid
<1>8. ASSUME NEW j \in Keys
      PROVE  StoredBytes(rec', spool', j) <= StoredBytes(rec, spool, j)
  <2>1. StoredBytes(rec, spool, j) \in Nat
    BY QInvTyped, StoredTyped
  <2>2. StoredBytes(rec', spool', j) = StoredBytes(rec, spool, j)
    BY <1>3, <1>5 DEF StoredBytes
  <2>. QED  BY <2>1, <2>2
<1>9. HeldFits'
  BY <1>3, <1>6, <1>8, RestartFits
<1>. QED  BY <1>7, <1>9 DEF FilesValid

-----------------------------------------------------------------------------
(* From what is stored to every file of the device *)

\* The files of a device that are not an interrupted run's weigh as much as
\* its stored runs and, at most, a full spool for each live one.
LEMMA FilesWeigh ==
  ASSUME QInv, NEW d \in Devices
  PROVE  Total([kn \in Keys \X Nonces |-> spool[kn[1]][kn[2]].bytes],
               {kn \in Keys \X Nonces : kn[1][1] = d /\ ~Interrupted(kn[1])})
           <= Held(rec, spool, live, d) + running[d] * RunMaxBytes
<1> DEFINE X == [kn \in Keys \X Nonces |-> spool[kn[1]][kn[2]].bytes]
           S == {kn \in Keys \X Nonces : kn[1][1] = d /\ ~Interrupted(kn[1])}
           P == {k \in Keys : k[1] = d /\ ~Interrupted(k) /\ rec[k].frames \in Nonces}
           m == [k \in P |-> <<k, rec[k].frames>>]
           named == {m[k] : k \in P}
           y == [k \in P |-> spool[k][rec[k].frames].bytes]
           z == [k \in Keys |-> IF k \in P THEN y[k] ELSE 0]
           L == {k \in live : k[1] = d}
           u == Weights(rec, spool, live, d)
           v == [k \in Keys |-> IF k \in L THEN RunMaxBytes ELSE 0]
           w == [k \in Keys |-> u[k] + v[k]]
<1>1. \A k \in Keys, n \in Nonces : spool[k][n].bytes \in Nat /\ FileValid(rec, spool, k)
  BY QInvTyped DEF Disks, Files, AllValid
<1>2. IsFiniteSet(S) /\ S \subseteq Keys \X Nonces
  <2>1. IsFiniteSet(Keys \X Nonces)
    BY KeysFinite, FiniteAssumption, FS_Product
  <2>. QED  BY <2>1, FS_Subset
<1>3. P \subseteq Keys /\ IsFiniteSet(P)
  <2>1. P \subseteq Keys
    OBVIOUS
  <2>. QED  BY <2>1, KeysFinite
<1>4. Total(X, S) = Total(X, named)
  <2>1. named \subseteq S
    <3>1. ASSUME NEW k \in P PROVE m[k] \in S
      <4>1. /\ m[k] = <<k, rec[k].frames>> /\ k \in Keys /\ rec[k].frames \in Nonces
            /\ k[1] = d /\ ~Interrupted(k)
        OBVIOUS
      <4>2. m[k] \in Keys \X Nonces /\ m[k][1] = k
        BY <4>1
      <4> HIDE DEF P, m
      <4>. QED  BY <4>1, <4>2
    <3> HIDE DEF S, P, m
    <3>. QED  BY <3>1
  <2>2. ASSUME NEW x \in S
        PROVE  X[x] \in Nat /\ (x \notin named => X[x] = 0)
    <3>1. PICK k \in Keys, n \in Nonces : x = <<k, n>>
      BY <1>2
    <3>2. X[x] = spool[k][n].bytes
      BY <3>1
    <3>3. spool[k][n].bytes > 0 => x = m[k] /\ k \in P
      BY <1>1, <3>1 DEF FileValid
    <3>4. x \notin named => ~(spool[k][n].bytes > 0)
      BY <3>3
    <3>. QED  BY <1>1, <3>2, <3>4
  <2> HIDE DEF X, S, named
  <2>. QED  BY <1>2, <2>1, <2>2, TotalZeros
<1>5. Total(X, named) = Total(y, P)
  <2>1. ASSUME NEW k \in P PROVE y[k] \in Nat /\ X[m[k]] = y[k]
    <3>1. m[k] = <<k, rec[k].frames>> /\ m[k] \in Keys \X Nonces
      OBVIOUS
    <3>. QED  BY <1>1, <3>1
  <2>2. ASSUME NEW k \in P, NEW j \in P, m[k] = m[j] PROVE k = j
    BY <2>2
  <2> HIDE DEF X, P, m, y
  <2>. QED  BY <1>3, <2>1, <2>2, TotalImage
<1>6. Total(z, Keys) = Total(y, P)
  <2>1. ASSUME NEW k \in Keys
        PROVE  /\ z[k] \in Nat
               /\ k \in P => y[k] = z[k]
               /\ k \notin P => z[k] = 0
    BY <1>1
  <2> HIDE DEF P, y, z
  <2>. QED  BY <1>3, <2>1, KeysFinite, TotalZeros
<1>7. ASSUME NEW k \in Keys
      PROVE  /\ u[k] \in Nat /\ v[k] \in Nat /\ z[k] \in Nat /\ z[k] <= u[k] + v[k]
  <2>1. StoredBytes(rec, spool, k) \in Nat
    BY QInvTyped, StoredTyped
  <2>2. u[k] = IF k[1] = d /\ k \notin live THEN StoredBytes(rec, spool, k) ELSE 0
    BY DEF Weights
  <2>3. v[k] = IF k \in live /\ k[1] = d THEN RunMaxBytes ELSE 0
    OBVIOUS
  <2> HIDE DEF u, v
  <2>4. u[k] \in Nat /\ v[k] \in Nat
    BY <2>1, <2>2, <2>3, LimitsAssumption
  <2>5. CASE k \notin P
    BY <2>4, <2>5
  <2>6. CASE k \in P
    <3> DEFINE b == spool[k][rec[k].frames].bytes
    <3>1. z[k] = b
      BY <2>6
    <3>2. /\ b \in Nat /\ b <= RunMaxBytes
          /\ b > 0 => /\ spool[k][rec[k].frames].exists
                      /\ rec[k].state \in {"running", "finished"}
      BY <1>1, <2>6 DEF FileValid
    <3>3. k \in live => v[k] = RunMaxBytes
      BY <2>3, <2>6
    <3>4. k \notin live /\ b > 0 => u[k] = b
      <4>1. rec[k].frames # 0
        BY <2>6, NamesAssumption
      <4>2. k \notin live => rec[k].state # "running"
        BY <2>6 DEF Interrupted
      <4>. QED  BY <2>2, <2>6, <3>2, <4>1, <4>2 DEF StoredBytes
    <3> HIDE DEF b, z
    <3>. QED  BY <2>4, <3>1, <3>2, <3>3, <3>4
  <2>. QED  BY <2>5, <2>6
<1>8. L \in SUBSET Keys /\ IsFiniteSet(L) /\ running[d] = Cardinality(L)
  <2>1. L \in SUBSET Keys
    BY QInvTyped
  <2>2. running[d] = Cardinality(L)
    BY DEF QInv, IInv, SlotsMatchLive
  <2>3. IsFiniteSet(L)
    BY <2>1, KeysFinite
  <2>. QED  BY <2>1, <2>2, <2>3
<1>9. \A k \in Keys : w[k] = u[k] + v[k]
  OBVIOUS
<1>10. /\ \A k \in Keys : k \notin L => v[k] = 0
       /\ \A k \in L : v[k] = RunMaxBytes
  BY <1>8
<1>11. RunMaxBytes \in Nat /\ running[d] * RunMaxBytes \in Nat
  <2>1. RunMaxBytes \in Nat /\ running[d] \in Nat
    BY LimitsAssumption, QInvTyped
  <2>. QED  BY <2>1
<1> HIDE DEF X, S, P, m, named, y, z, L, u, v, w
<1>12. Total(z, Keys) <= Total(w, Keys)
  <2>1. \A k \in Keys : z[k] \in Nat /\ w[k] \in Nat /\ z[k] <= w[k]
    BY <1>7, <1>9
  <2>. QED  BY <2>1, KeysFinite, TotalLe
<1>13. Total(w, Keys) = Total(u, Keys) + Total(v, Keys)
  BY <1>7, <1>9, KeysFinite, TotalSum
<1>14. Total(v, Keys) = Total(v, L)
  <2>1. \A k \in Keys : v[k] \in Nat /\ (k \in L => v[k] = v[k]) /\ (k \notin L => v[k] = 0)
    BY <1>7, <1>10
  <2>. QED  BY <1>8, <2>1, KeysFinite, TotalZeros
<1>15. Total(v, L) <= Cardinality(L) * RunMaxBytes
  <2>1. \A k \in L : v[k] \in Nat /\ v[k] <= RunMaxBytes
    BY <1>10, <1>11
  <2>. QED  BY <1>8, <1>11, <2>1, TotalBound
<1>16. /\ Total(u, Keys) \in Nat /\ Total(v, Keys) \in Nat /\ Total(z, Keys) \in Nat
  BY <1>7, KeysFinite, TotalRemove
<1>17. Total(z, Keys) <= Total(u, Keys) + running[d] * RunMaxBytes
  BY <1>8, <1>11, <1>12, <1>13, <1>14, <1>15, <1>16
<1>18. Total(X, S) <= Total(u, Keys) + running[d] * RunMaxBytes
  BY <1>4, <1>5, <1>6, <1>17
<1>. QED  BY <1>18 DEF X, S, u, Held

LEMMA QInvHolds == QInv => QuotaHolds
<1>. SUFFICES ASSUME QInv, NEW d \in Devices
              PROVE  Total([kn \in Keys \X Nonces |-> spool[kn[1]][kn[2]].bytes],
                           {kn \in Keys \X Nonces : kn[1][1] = d /\ ~Interrupted(kn[1])})
                       <= QuotaBytes + MaxConcurrent * RunMaxBytes
  BY DEF QuotaHolds
<1> DEFINE t == Total([kn \in Keys \X Nonces |-> spool[kn[1]][kn[2]].bytes],
                      {kn \in Keys \X Nonces : kn[1][1] = d /\ ~Interrupted(kn[1])})
           a == (MaxConcurrent - running[d]) * RunMaxBytes
           b == running[d] * RunMaxBytes
           c == MaxConcurrent * RunMaxBytes
<1>1. running[d] \in Int /\ MaxConcurrent \in Int /\ RunMaxBytes \in Int /\ QuotaBytes \in Int
  BY QInvTyped, LimitsAssumption
<1>2. a + b = c /\ a \in Int /\ b \in Int /\ c \in Int
  BY <1>1
<1>3. t <= Held(rec, spool, live, d) + b
  BY FilesWeigh
<1>4. Held(rec, spool, live, d) <= QuotaBytes + a
  BY DEF QInv, HeldFits
<1>5. t \in Nat
  <2> DEFINE X == [kn \in Keys \X Nonces |-> spool[kn[1]][kn[2]].bytes]
             S == {kn \in Keys \X Nonces : kn[1][1] = d /\ ~Interrupted(kn[1])}
  <2>1. IsFiniteSet(S)
    BY KeysFinite, FiniteAssumption, FS_Product, FS_Subset
  <2>2. \A k \in Keys, n \in Nonces : spool[k][n].bytes \in Nat
    BY QInvTyped DEF Disks, Files
  <2>3. \A x \in S : X[x] \in Nat
    BY <2>2
  <2> HIDE DEF X, S
  <2>4. Total(X, S) \in Nat
    BY <2>1, <2>3, TotalRemove
  <2>. QED  BY <2>4 DEF X, S
<1>6. Held(rec, spool, live, d) \in Nat
  BY QInvTyped, HeldTyped
<1> HIDE DEF t, a, b, c
<1>7. t <= QuotaBytes + c
  BY <1>1, <1>2, <1>3, <1>4, <1>5, <1>6
<1>. QED  BY <1>7 DEF t, c

-----------------------------------------------------------------------------
(* The theorem *)

LEMMA InitQInv == Init => QInv
<1>. SUFFICES ASSUME Init PROVE QInv
  OBVIOUS
<1>1. IInv
  BY InitIInv
<1>2. AllValid(rec, spool)
  <2>1. \A k \in Keys, n \in Nonces : spool[k][n].bytes = 0
    BY DEF Init, NoFile
  <2>. QED  BY <2>1, LimitsAssumption DEF AllValid, FileValid
<1>3. HeldFits
  <2>. SUFFICES ASSUME NEW d \in Devices
                PROVE  Held(rec, spool, live, d)
                         <= QuotaBytes + (MaxConcurrent - running[d]) * RunMaxBytes
    BY DEF HeldFits
  <2> DEFINE w == Weights(rec, spool, live, d)
             none == [k \in {} |-> 0]
  <2>1. \A k \in Keys : w[k] = 0
    BY DEF Weights, StoredBytes, Init, NoRecord
  <2> HIDE DEF w
  <2>2. Total(w, Keys) = Total(none, {})
    <3> HIDE DEF none
    <3>. QED  BY <2>1, KeysFinite, TotalZeros
  <2>3. Held(rec, spool, live, d) = 0
    <3> HIDE DEF none
    <3>. QED  BY <2>2, TotalEmpty DEF Held, w
  <2>4. running[d] = 0 /\ QuotaBytes \in Nat /\ MaxConcurrent \in Nat /\ RunMaxBytes \in Nat
    BY LimitsAssumption DEF Init
  <2>5. MaxConcurrent - running[d] = MaxConcurrent /\ MaxConcurrent * RunMaxBytes \in Nat
    BY <2>4
  <2>. QED  BY <2>3, <2>4, <2>5
<1>. QED  BY <1>1, <1>2, <1>3 DEF QInv, FilesValid

LEMMA NextQInv == QInv /\ [Next]_vars => QInv'
<1>. SUFFICES ASSUME QInv, [Next]_vars PROVE QInv'
  OBVIOUS
<1>1. IInv'
  BY NextIInv DEF QInv
<1>. SUFFICES FilesValid' /\ HeldFits'
  BY <1>1 DEF QInv
<1>2. ASSUME NEW h \in Handlers, HandlerStep(h) PROVE FilesValid' /\ HeldFits'
  <2>1. ASSUME NEW k \in Keys, NEW q \in Requests, ExecLookup(h, k, q)
        PROVE  FilesValid' /\ HeldFits'
    BY <2>1, LookupFits DEF ExecLookup, memory
  <2>2. CASE StartSweep(h)
    BY <2>2, SweepFits DEF StartSweep
  <2>3. CASE StartRefused(h)
    BY <2>3, StillFits DEF StartRefused, disk, memory
  <2>4. CASE Rejoin(h)
    <3>1. handler[h].key \in Keys
      BY <2>4, HandlerHolds DEF Rejoin, QInv
    <3>. QED  BY <2>4, <3>1, LookupFits DEF Rejoin, memory
  <2>. QED
    BY <1>1, <1>2, <2>1, <2>2, <2>3, <2>4, FailedStartFits, StartCommitsFits,
       CrashInStartFits DEF HandlerStep
<1>3. ASSUME NEW k \in Keys, RunStep(k) PROVE FilesValid' /\ HeldFits'
  <2>1. CASE Attach(k)
    BY <2>1, SweepFits, LookupFits DEF Attach, memory
  <2>2. CASE CancelLive(k) \/ TimerFires(k)
    BY <2>2, StillFits DEF CancelLive, TimerFires, disk
  <2>. QED
    BY <1>1, <1>3, <2>1, <2>2, WriteFits, FinishFits, EndRunFits, CancelEarlyFits,
       CrashInEvictFits DEF RunStep
<1>4. CASE Tick
  BY <1>4, StillFits DEF Tick, disk, memory
<1>5. CASE UNCHANGED vars
  BY <1>5, StillFits DEF vars, disk, memory
<1>. QED
  BY <1>2, <1>3, <1>4, <1>5, CrashFits DEF Next

\* makeRoomLocked, called for every run that starts and every run that ends,
\* keeps a device's files within its quota and one full spool for each slot,
\* through every interleaving of starts, ends, sweeps, failed record writes
\* and restarts, but for the output of runs that a restart interrupted.
THEOREM QuotaRespected == Spec => []QuotaHolds
BY InitQInv, NextQInv, QInvHolds, PTL DEF Spec
===============================================================================

--------------------------- MODULE ActivationProofs ---------------------------
(***************************************************************************)
(* Proofs about Activation.  An ended window is not forgotten because      *)
(* whoever takes its place in the row, or marks it as collected, puts the  *)
(* fact of its end into the outbox in the same transaction.  A window      *)
(* opens only on what its call read because no window comes back: the      *)
(* clock values calls begin with are distinct, and what happens to a       *)
(* window in its row only shortens it.                                     *)
(***************************************************************************)
EXTENDS Activation, TLAPS

Kinds == {"none", "activated", "expiry", "deactivation", "revocation"}

Windows == [until : Nat, setAt : Nat, deactivated : BOOLEAN]

Events == [kind : Kinds, device : Devices \cup {"none"}, setAt : Nat, at : Nat]

Steppings == {"idle", "collect", "publish", "mark", "audit", "commit", "deactivate"}

CallRecords ==
  [pc : Steppings, device : Devices \cup {"none"}, at : Nat, prev : Windows,
   length : Nat, event : Events, next : {"idle", "leave", "audit"}, seen : Nat]

\* The log is a bag of events.
LogType == /\ DOMAIN log \subseteq Events
           /\ log \in [DOMAIN log -> Nat \ {0}]

\* Every variable has its type.
TypeOK ==
  /\ revoked \in SUBSET Devices
  /\ row \in [Devices -> [window : Windows, endRecorded : BOOLEAN]]
  /\ outbox \in SUBSET Events /\ audited \in SUBSET Events
  /\ LogType
  /\ proc \in [All -> CallRecords]
  /\ now \in Nat \ {0} /\ failures \in Nat
  /\ opened \in SUBSET Events /\ extended \in SUBSET Events
  /\ restrictions \in [Devices -> Nat]

\* What the history says of an opened window: it had a length, and while it is
\* its device's uncollected window, the row tells its end.
OpenedValid ==
  \A o \in opened :
    /\ o.kind = "activated" /\ o.device \in Devices
    /\ o.at > 0 /\ o.setAt < now
    /\ LET r == row[o.device] IN
       r.window.setAt = o.setAt /\ ~r.endRecorded => r.window.until = o.at

\* A closed window needs no collecting.
ClosedCollected == \A d \in Devices : row[d].window.deactivated => row[d].endRecorded

\* Activations are logged directly, everything else through the outbox.
OutboxKinds == \A e \in outbox : e.kind # "activated"

LoggedOnce ==
  /\ \A e \in DOMAIN log : e.kind # "activated" => log[e] = 1
  /\ \A e \in audited : Logged(e)

\* A row's window was opened before, if it is one.
RowOpened ==
  \A d \in Devices : LET s == row[d].window.setAt IN
    s = 0 \/ \E o \in opened : o.setAt = s

Activating(c) == c.next = "audit"

\* What became of the window that activation c read: the row has another one,
\* or it was shortened since, or nothing restricted the device but a revocation.
ReadStands(c) ==
  LET w == row[c.device].window IN
  w.setAt = c.prev.setAt =>
    /\ w.until <= c.prev.until
    /\ w.until = c.prev.until =>
         c.device \in revoked \/ restrictions[c.device] = c.seen

CallValid(c) ==
  /\ c.pc \in {"collect", "audit", "commit", "deactivate"} => c.device \in Devices
  /\ c.pc \in {"audit", "commit"} => Activating(c)
  /\ c.pc = "commit" => Logged(Activated(c.device, NewWindow(c)))
  /\ c.pc = "mark" => Logged(c.event)
  /\ Activating(c) =>
       /\ c.device \in Devices /\ c.length > 0
       /\ c.at > 0 /\ c.at < now
       /\ c.prev.setAt < c.at
       /\ \A o \in opened : o.setAt # c.at
       /\ ReadStands(c)

CallsValid == \A p \in All : CallValid(proc[p])

\* Only operators activate, each at an instant of its own, and none has read
\* a window that is still to be opened.
InstantsDistinct ==
  /\ ~Activating(proc[Serve])
  /\ \A p, q \in All :
       Activating(proc[p]) /\ Activating(proc[q]) =>
         /\ p # q => proc[p].at # proc[q].at
         /\ proc[p].prev.setAt # proc[q].at

IInv ==
  /\ TypeOK /\ OpenedValid /\ ClosedCollected /\ OutboxKinds /\ LoggedOnce
  /\ RowOpened /\ CallsValid /\ InstantsDistinct /\ EndRemembered
-----------------------------------------------------------------------------

THEOREM Initially == ActivationInit => IInv
<1> SUFFICES ASSUME ActivationInit PROVE IInv
  OBVIOUS
<1>1. Idle \in CallRecords /\ Idle.pc = "idle" /\ Idle.next = "idle"
  BY DEF Idle, CallRecords, NoWindow, Windows, NoEvent, Event, Events, Kinds, Steppings
<1>2. LogType /\ DOMAIN log = {}
  BY DEF ActivationInit, EmptyBag, SetToBag, LogType
<1>3. TypeOK
  BY <1>1, <1>2, BoundsAssumption DEF ActivationInit, TypeOK, Empty, NoWindow, Windows
<1>4. OpenedValid /\ ClosedCollected /\ OutboxKinds /\ RowOpened /\ EndRemembered
  BY DEF ActivationInit, OpenedValid, ClosedCollected, OutboxKinds, RowOpened, EndRemembered,
         Empty, NoWindow
<1>5. LoggedOnce
  BY <1>2 DEF ActivationInit, LoggedOnce
<1>6. CallsValid /\ InstantsDistinct
  BY <1>1 DEF ActivationInit, CallsValid, CallValid, InstantsDistinct, Activating, All
<1>. QED  BY <1>3, <1>4, <1>5, <1>6 DEF IInv

-----------------------------------------------------------------------------
(* The log *)

\* An append adds one copy of its event.
LEMMA AppendAdds ==
  ASSUME LogType, NEW e \in Events, log' = log (+) SetToBag({e})
  PROVE  /\ LogType' /\ DOMAIN log' = DOMAIN log \cup {e}
         /\ \A x \in DOMAIN log \ {e} : log'[x] = log[x]
         /\ e \notin DOMAIN log => log'[e] = 1
<1>1. log' = [x \in DOMAIN log \cup {e} |->
                (IF x \in DOMAIN log THEN log[x] ELSE 0) + (IF x \in {e} THEN 1 ELSE 0)]
  BY DEF (+), SetToBag
<1>2. \A x \in DOMAIN log : log[x] \in Nat \ {0}
  BY DEF LogType
<1>3. DOMAIN log' = DOMAIN log \cup {e}
  BY <1>1
<1>4. ASSUME NEW x \in DOMAIN log \cup {e}
      PROVE  /\ log'[x] \in Nat \ {0}
             /\ x # e => log'[x] = log[x]
             /\ x \notin DOMAIN log => log'[x] = 1
  <2>1. log'[x] = (IF x \in DOMAIN log THEN log[x] ELSE 0) + (IF x \in {e} THEN 1 ELSE 0)
    BY <1>1
  <2>. QED  BY <1>2, <1>4, <2>1
<1>5. log' \in [DOMAIN log' -> Nat \ {0}]
  BY <1>1, <1>3, <1>4
<1>6. DOMAIN log' \subseteq Events
  BY <1>3 DEF LogType
<1>. QED  BY <1>3, <1>4, <1>5, <1>6 DEF LogType

\* An append from the outbox leaves one copy of its event in the log.
LEMMA AppendUnlessOnce ==
  ASSUME TypeOK, LoggedOnce, NEW e \in Events, AppendUnless(e), audited' = audited
  PROVE  /\ LogType' /\ LoggedOnce' /\ DOMAIN log' = DOMAIN log \cup {e}
<1>1. CASE BagIn(e, log)
  <2>1. log' = log
    BY <1>1 DEF AppendUnless
  <2>. QED  BY <1>1, <2>1 DEF TypeOK, LogType, LoggedOnce, Logged, BagIn, BagToSet
<1>2. CASE ~BagIn(e, log)
  <2>1. log' = log (+) SetToBag({e}) /\ e \notin DOMAIN log
    BY <1>2 DEF AppendUnless, BagIn, BagToSet
  <2>2. LogType
    BY DEF TypeOK
  <2>3. /\ LogType' /\ DOMAIN log' = DOMAIN log \cup {e}
        /\ \A x \in DOMAIN log \ {e} : log'[x] = log[x]
        /\ log'[e] = 1
    BY <2>1, <2>2, AppendAdds
  <2>. QED  BY <2>1, <2>3 DEF LoggedOnce, Logged, BagIn, BagToSet
<1>. QED  BY <1>1, <1>2

-----------------------------------------------------------------------------
(* The calls *)

\* What a step leaves to the calls of others.
Steady ==
  /\ now <= now' /\ DOMAIN log \subseteq DOMAIN log'
  /\ \A q \in All : Activating(proc[q]) /\ proc'[q] = proc[q] =>
       ReadStands(proc[q])' /\ \A o \in opened' : o.setAt # proc[q].at

LEMMA StillValid ==
  ASSUME IInv, TypeOK', Steady, NEW q \in All, proc'[q] = proc[q]
  PROVE  CallValid(proc[q])'
<1> DEFINE c == proc[q]
<1>1. CallValid(c) /\ c \in CallRecords
  BY DEF IInv, CallsValid, TypeOK
<1>2. \A e : Logged(e) => Logged(e)'
  BY DEF Steady, Logged, BagIn, BagToSet
<1>3. ASSUME Activating(c)
      PROVE  /\ c.device \in Devices /\ c.length > 0 /\ c.at > 0 /\ c.at < now'
             /\ c.prev.setAt < c.at /\ ReadStands(proc[q])'
             /\ \A o \in opened' : o.setAt # c.at
  BY <1>1, <1>3 DEF CallValid, Steady, IInv, TypeOK, CallRecords
<1>4. /\ c.pc \in {"collect", "audit", "commit", "deactivate"} => c.device \in Devices
      /\ c.pc \in {"audit", "commit"} => Activating(c)
      /\ c.pc = "commit" => Logged(Activated(c.device, NewWindow(c)))'
      /\ c.pc = "mark" => Logged(c.event)'
  BY <1>1, <1>2 DEF CallValid
<1>. QED  BY <1>3, <1>4 DEF CallValid, Activating, NewWindow, Activated

\* A step of p's call leaves the calls valid, and their instants distinct,
\* when the call keeps its instant and its window or has just begun.
LEMMA CallsKeep ==
  ASSUME IInv, TypeOK', Steady, NEW p \in All, NEW c, Become(p, c), CallValid(proc[p])',
         \/ ~Activating(c)
         \/ Activating(proc[p]) /\ c.at = proc[p].at /\ c.prev = proc[p].prev
         \/ /\ p # Serve /\ c.at = now
            /\ \E d \in Devices : c.prev = row[d].window
  PROVE  CallsValid' /\ InstantsDistinct'
<1>1. proc'[p] = c /\ \A q \in All \ {p} : proc'[q] = proc[q]
  BY DEF Become, IInv, TypeOK
<1>2. CallsValid'
  BY <1>1, StillValid DEF CallsValid
<1>3. ~Activating(proc'[Serve])
  BY <1>1 DEF IInv, InstantsDistinct, All
<1>4. ASSUME NEW q \in All, NEW r \in All, Activating(proc'[q]), Activating(proc'[r])
      PROVE  (q # r => proc'[q].at # proc'[r].at) /\ proc'[q].prev.setAt # proc'[r].at
  <2>1. CASE ~Activating(c)
    BY <1>1, <1>4, <2>1 DEF IInv, InstantsDistinct
  <2>2. CASE Activating(proc[p]) /\ c.at = proc[p].at /\ c.prev = proc[p].prev
    BY <1>1, <1>4, <2>2 DEF IInv, InstantsDistinct
  <2>3. CASE p # Serve /\ c.at = now /\ \E d \in Devices : c.prev = row[d].window
    <3>1. \A s \in All : Activating(proc[s]) =>
            /\ proc[s].at \in Nat /\ proc[s].at > 0 /\ proc[s].at < now
            /\ proc[s].prev.setAt \in Nat /\ proc[s].prev.setAt < proc[s].at
            /\ \A o \in opened : o.setAt # proc[s].at
      BY DEF IInv, CallsValid, CallValid, TypeOK, CallRecords, Windows
    <3>2. /\ c.prev.setAt \in Nat /\ c.prev.setAt < now
          /\ c.prev.setAt = 0 \/ \E o \in opened : o.setAt = c.prev.setAt
      <4>1. PICK d \in Devices : c.prev = row[d].window
        BY <2>3
      <4>2. row[d].window.setAt = 0 \/ \E o \in opened : o.setAt = row[d].window.setAt
        BY DEF IInv, RowOpened
      <4>3. row[d].window.setAt \in Nat
        BY DEF IInv, TypeOK, Windows
      <4>4. \A o \in opened : o.setAt < now
        BY DEF IInv, OpenedValid
      <4>5. now > 0
        BY DEF IInv, TypeOK
      <4>. QED  BY <4>1, <4>2, <4>3, <4>4, <4>5
    <3>3. CASE q = p /\ r = p
      BY <1>1, <2>3, <3>2, <3>3 DEF IInv, TypeOK
    <3>4. CASE q = p /\ r # p
      BY <1>1, <1>4, <2>3, <3>1, <3>2, <3>4 DEF IInv, TypeOK
    <3>5. CASE q # p /\ r = p
      BY <1>1, <1>4, <2>3, <3>1, <3>2, <3>5 DEF IInv, TypeOK
    <3>6. CASE q # p /\ r # p
      BY <1>1, <1>4, <3>6 DEF IInv, InstantsDistinct
    <3>. QED  BY <3>3, <3>4, <3>5, <3>6
  <2>. QED  BY <2>1, <2>2, <2>3
<1>. QED  BY <1>2, <1>3, <1>4 DEF InstantsDistinct

\* A step that changes neither the tables nor the history, but a call and
\* perhaps the log.
LEMMA QuietKeeps ==
  ASSUME IInv, UNCHANGED <<tables, ghosts>>,
         now' \in Nat, now <= now', failures' \in Nat,
         LogType', LoggedOnce', DOMAIN log \subseteq DOMAIN log',
         NEW p \in All, NEW c \in CallRecords, Become(p, c), CallValid(proc[p])',
         \/ ~Activating(c)
         \/ Activating(proc[p]) /\ c.at = proc[p].at /\ c.prev = proc[p].prev
         \/ /\ p # Serve /\ c.at = now
            /\ \E d \in Devices : c.prev = row[d].window
  PROVE  IInv'
<1>1. TypeOK'
  BY DEF IInv, TypeOK, Become, tables, ghosts
<1>2. OpenedValid'
  BY DEF IInv, TypeOK, Events, OpenedValid, tables, ghosts
<1>3. ClosedCollected' /\ OutboxKinds' /\ RowOpened' /\ EndRemembered'
  BY DEF IInv, ClosedCollected, OutboxKinds, RowOpened, EndRemembered, EndOf, tables, ghosts
<1>4. Steady
  BY DEF IInv, Steady, CallsValid, CallValid, ReadStands, tables, ghosts
<1>5. CallsValid' /\ InstantsDistinct'
  BY <1>1, <1>4, CallsKeep
<1>. QED  BY <1>1, <1>2, <1>3, <1>5 DEF IInv

\* A call that begins, ends or waits, and leaves the log.
LEMMA CallMoves ==
  ASSUME IInv, UNCHANGED <<tables, log, ghosts>>,
         now' \in Nat, now <= now', failures' \in Nat,
         NEW p \in All, NEW c \in CallRecords, Become(p, c), CallValid(proc[p])',
         \/ ~Activating(c)
         \/ Activating(proc[p]) /\ c.at = proc[p].at /\ c.prev = proc[p].prev
         \/ /\ p # Serve /\ c.at = now
            /\ \E d \in Devices : c.prev = row[d].window
  PROVE  IInv'
<1>1. LogType' /\ LoggedOnce' /\ DOMAIN log \subseteq DOMAIN log'
  BY DEF IInv, TypeOK, LogType, LoggedOnce, Logged, tables
<1>. QED  BY <1>1, QuietKeeps

\* An idle call is valid, with or without a remembered event.
LEMMA IdleValid ==
  /\ Idle \in CallRecords
  /\ \A c : c.pc = "idle" /\ ~Activating(c) => CallValid(c)
  /\ Idle.pc = "idle" /\ Idle.next = "idle" /\ ~Activating(Idle)
BY DEF Idle, CallRecords, NoWindow, Windows, NoEvent, Event, Events, Kinds, Steppings,
       CallValid, Activating

LEMMA FailKeeps == ASSUME IInv, NEW p \in All, Fail(p) PROVE IInv'
<1>1. proc'[p] = Idle /\ Become(p, Idle) /\ UNCHANGED <<tables, log, ghosts>>
  BY DEF Fail, Done, Become, IInv, TypeOK
<1>2. now' = now /\ now' \in Nat /\ now <= now' /\ failures' \in Nat
  BY DEF Fail, IInv, TypeOK
<1>3. CallValid(proc[p])'
  BY <1>1, IdleValid DEF CallValid, Activating
<1>. QED  BY <1>1, <1>2, <1>3, IdleValid, CallMoves

LEMMA TickKeeps == ASSUME IInv, Tick PROVE IInv'
<1>1. Serve \in All /\ Become(Serve, proc[Serve]) /\ proc[Serve] \in CallRecords
  BY DEF Tick, Become, IInv, TypeOK, All
<1>2. UNCHANGED <<tables, log, ghosts>> /\ proc' = proc
      /\ now' \in Nat /\ now <= now' /\ failures' \in Nat
  BY DEF Tick, IInv, TypeOK
<1>3. ~Activating(proc[Serve])
  BY DEF IInv, InstantsDistinct
<1>4. CallValid(proc[Serve])'
  BY <1>1, <1>2, <1>3 DEF IInv, CallsValid, CallValid, Activating, Logged, Activated, NewWindow
<1>. QED  BY <1>1, <1>2, <1>3, <1>4, CallMoves

\* The window that a row holds, as a call reads it.
LEMMA RowTyped ==
  ASSUME IInv, NEW d \in Devices
  PROVE  /\ row[d].window \in Windows /\ row[d].endRecorded \in BOOLEAN
         /\ row[d].window.until \in Nat /\ row[d].window.setAt \in Nat
         /\ row[d].window.setAt < now
<1>1. row[d].window \in Windows /\ row[d].endRecorded \in BOOLEAN /\ now \in Nat \ {0}
  BY DEF IInv, TypeOK
<1>2. row[d].window.setAt = 0 \/ \E o \in opened : o.setAt = row[d].window.setAt
  BY DEF IInv, RowOpened
<1>3. row[d].window.setAt < now
  BY <1>1, <1>2 DEF IInv, OpenedValid
<1>. QED  BY <1>1, <1>3 DEF Windows

LEMMA ActivateKeeps ==
  ASSUME IInv, NEW p \in Procs, NEW d \in Devices, NEW n \in Durations, Activate(p, d, n)
  PROVE  IInv'
<1> DEFINE w == row[d].window
           c == [Idle EXCEPT !.pc = IF Expired(w, now) THEN "collect" ELSE "audit",
                             !.device = d, !.at = now, !.prev = w, !.length = n,
                             !.next = "audit", !.seen = restrictions[d]]
<1>1. w \in Windows /\ w.setAt < now /\ w.until \in Nat
  BY RowTyped
<1>2. c \in CallRecords
  BY <1>1, IdleValid, BoundsAssumption DEF CallRecords, Steppings, IInv, TypeOK
<1>3. /\ c.pc \in {"collect", "audit"} /\ c.device = d /\ c.at = now /\ c.prev = w
      /\ c.length = n /\ c.next = "audit" /\ c.seen = restrictions[d]
  BY DEF Idle
<1>4. /\ Become(p, c) /\ UNCHANGED <<tables, log, ghosts>>
      /\ now' = now + 1 /\ now' \in Nat /\ now <= now' /\ failures' \in Nat
  BY DEF Activate, Begins, IInv, TypeOK
<1>5. p \in All /\ p # Serve /\ proc'[p] = c
  BY <1>4, BoundsAssumption DEF All, Become, IInv, TypeOK
<1>6. \A o \in opened : o.setAt # now
  BY DEF IInv, OpenedValid, TypeOK, Events
<1>7. n > 0 /\ now > 0 /\ now < now'
  BY <1>4, BoundsAssumption DEF IInv, TypeOK
<1>8. /\ row' = row /\ revoked' = revoked /\ restrictions' = restrictions
      /\ opened' = opened
  BY <1>4 DEF tables, ghosts
<1>9. ReadStands(proc[p])'
  BY <1>1, <1>3, <1>5, <1>8 DEF ReadStands
<1>10. CallValid(proc[p])'
  <2>1. /\ c.pc \in {"collect", "audit"} /\ c.device \in Devices /\ c.length > 0
        /\ c.at > 0 /\ c.at < now' /\ c.prev.setAt < c.at /\ \A o \in opened' : o.setAt # c.at
        /\ Activating(c)
    BY <1>1, <1>3, <1>6, <1>7, <1>8, BoundsAssumption DEF Activating
  <2>2. c.pc \notin {"commit", "mark", "deactivate"}
    BY <1>3
  <2>3. proc'[p] = c /\ ReadStands(proc[p])'
    BY <1>5, <1>9
  <2> HIDE DEF c
  <2>4. Activating(proc[p])'
    BY <2>1, <2>3 DEF Activating
  <2>. QED  BY <2>1, <2>2, <2>3, <2>4 DEF CallValid
<1> HIDE DEF c
<1>. QED  BY <1>2, <1>3, <1>4, <1>5, <1>10, CallMoves

\* Calls that only read: they take an instant, or find something to publish.
LEMMA ReaderKeeps ==
  ASSUME IInv, UNCHANGED <<tables, log, failures, ghosts>>, now' \in Nat, now <= now',
         NEW p \in All, NEW c \in CallRecords, Become(p, c), ~Activating(c),
         \/ c.pc \in {"collect", "deactivate"} /\ c.device \in Devices
         \/ c.pc = "publish"
  PROVE  IInv'
<1>1. proc'[p] = c /\ failures' \in Nat
  BY DEF Become, IInv, TypeOK
<1>2. CallValid(proc[p])'
  BY <1>1 DEF CallValid, Activating
<1>. QED  BY <1>2, <1>1, CallMoves

LEMMA DeactivateKeeps ==
  ASSUME IInv, NEW p \in Procs, NEW d \in Devices, Deactivate(p, d)
  PROVE  IInv'
<1> DEFINE c == [Idle EXCEPT !.pc = "deactivate", !.device = d, !.at = now]
<1>1. c \in CallRecords /\ c.pc = "deactivate" /\ c.device = d /\ ~Activating(c)
  BY IdleValid DEF CallRecords, Steppings, IInv, TypeOK, Activating
<1>2. Become(p, c) /\ UNCHANGED <<tables, log, failures, ghosts>>
      /\ now' \in Nat /\ now <= now' /\ p \in All
  BY DEF Deactivate, Begins, IInv, TypeOK, All
<1>. QED  BY <1>1, <1>2, ReaderKeeps

LEMMA RequestKeeps ==
  ASSUME IInv, NEW p \in Procs, NEW d \in Devices, Request(p, d)
  PROVE  IInv'
<1> DEFINE c == [Idle EXCEPT !.pc = "collect", !.device = d, !.prev = row[d].window,
                             !.next = "leave"]
<1>1. c \in CallRecords /\ c.pc = "collect" /\ c.device = d /\ ~Activating(c)
  BY IdleValid, RowTyped DEF CallRecords, Steppings, Activating
<1>2. Become(p, c) /\ UNCHANGED <<tables, log, failures, ghosts>>
      /\ now' \in Nat /\ now <= now' /\ p \in All
  BY DEF Request, Begins, IInv, TypeOK, All
<1>. QED  BY <1>1, <1>2, ReaderKeeps

LEMMA SweepEndedKeeps ==
  ASSUME IInv, NEW d \in Devices, SweepEnded(d)
  PROVE  IInv'
<1> DEFINE c == [Idle EXCEPT !.pc = "collect", !.device = d, !.prev = row[d].window]
<1>1. c \in CallRecords /\ c.pc = "collect" /\ c.device = d /\ ~Activating(c)
  BY IdleValid, RowTyped DEF CallRecords, Steppings, Activating
<1>2. Become(Serve, c) /\ UNCHANGED <<tables, log, failures, ghosts>>
      /\ now' \in Nat /\ now <= now' /\ Serve \in All
  BY DEF SweepEnded, bounds, IInv, TypeOK, All
<1>. QED  BY <1>1, <1>2, ReaderKeeps

LEMMA SweepPendingKeeps ==
  ASSUME IInv, NEW e \in outbox, SweepPending(e)
  PROVE  IInv'
<1> DEFINE c == [Idle EXCEPT !.pc = "publish", !.event = e]
<1>1. c \in CallRecords /\ c.pc = "publish" /\ ~Activating(c)
  BY IdleValid DEF CallRecords, Steppings, Activating, IInv, TypeOK
<1>2. Become(Serve, c) /\ UNCHANGED <<tables, log, failures, ghosts>>
      /\ now' \in Nat /\ now <= now' /\ Serve \in All
  BY DEF SweepPending, bounds, IInv, TypeOK, All
<1>. QED  BY <1>1, <1>2, ReaderKeeps

LEMMA PublishKeeps == ASSUME IInv, NEW p \in All, Publish(p) PROVE IInv'
<1> DEFINE o == proc[p]
           c == [o EXCEPT !.pc = "mark"]
<1>1. o \in CallRecords /\ CallValid(o) /\ o.event \in Events /\ o.pc = "publish"
  BY DEF IInv, TypeOK, CallsValid, CallRecords, Publish
<1>2. /\ c \in CallRecords /\ c.pc = "mark" /\ c.event = o.event
      /\ c.next = o.next /\ c.at = o.at /\ c.prev = o.prev /\ c.device = o.device
      /\ c.length = o.length /\ c.seen = o.seen
  BY <1>1 DEF CallRecords, Steppings
<1>3. /\ Become(p, c) /\ UNCHANGED <<tables, ghosts>> /\ proc'[p] = c
      /\ now' = now /\ now' \in Nat /\ now <= now' /\ failures' \in Nat
  BY DEF Publish, bounds, Become, IInv, TypeOK
<1>4. LogType' /\ LoggedOnce' /\ DOMAIN log' = DOMAIN log \cup {o.event}
  BY <1>1, <1>3, AppendUnlessOnce DEF Publish, IInv, tables
<1>5. Logged(proc[p].event)'
  BY <1>2, <1>3, <1>4 DEF Logged, BagIn, BagToSet
<1>6. Activating(c) => ReadStands(proc[p])'
  BY <1>1, <1>2, <1>3 DEF CallValid, Activating, ReadStands, tables, ghosts
<1>7. CallValid(proc[p])'
  BY <1>1, <1>2, <1>3, <1>5, <1>6 DEF CallValid, Activating, tables, ghosts
<1>8. ~Activating(c) \/ (Activating(o) /\ c.at = o.at /\ c.prev = o.prev)
  BY <1>2 DEF Activating
<1>. QED  BY <1>2, <1>3, <1>4, <1>7, <1>8, QuietKeeps

LEMMA AuditActivationKeeps ==
  ASSUME IInv, NEW p \in Procs, AuditActivation(p) PROVE IInv'
<1> DEFINE o == proc[p]
           c == [o EXCEPT !.pc = "commit"]
           e == Activated(o.device, NewWindow(o))
<1>1. p \in All /\ o \in CallRecords /\ CallValid(o) /\ Activating(o) /\ o.pc = "audit"
  BY DEF IInv, TypeOK, CallsValid, CallValid, All, AuditActivation
<1>2. /\ c \in CallRecords /\ c.pc = "commit"
      /\ c.next = o.next /\ c.at = o.at /\ c.prev = o.prev /\ c.device = o.device
      /\ c.length = o.length /\ c.seen = o.seen
  BY <1>1 DEF CallRecords, Steppings
<1>3. /\ Become(p, c) /\ UNCHANGED <<tables, ghosts>> /\ proc'[p] = c
      /\ now' = now /\ now' \in Nat /\ now <= now' /\ failures' \in Nat
  BY <1>1 DEF AuditActivation, bounds, Become, IInv, TypeOK
<1>4. e \in Events /\ e.kind = "activated"
  BY <1>1 DEF Activated, NewWindow, Event, Events, Kinds, CallValid, CallRecords
<1>5. /\ LogType' /\ DOMAIN log' = DOMAIN log \cup {e}
      /\ \A x \in DOMAIN log \ {e} : log'[x] = log[x]
  BY <1>4, AppendAdds DEF AuditActivation, AppendAlways, IInv, TypeOK
<1>6. LoggedOnce'
  BY <1>3, <1>4, <1>5 DEF IInv, LoggedOnce, Logged, BagIn, BagToSet, tables
<1>7. Logged(Activated(proc[p].device, NewWindow(proc[p])))'
  BY <1>2, <1>3, <1>5 DEF Logged, BagIn, BagToSet, NewWindow
<1>8. ReadStands(proc[p])'
  BY <1>1, <1>2, <1>3 DEF CallValid, ReadStands, tables, ghosts
<1>9. CallValid(proc[p])'
  BY <1>1, <1>2, <1>3, <1>7, <1>8 DEF CallValid, Activating, tables, ghosts
<1>10. Activating(o) /\ c.at = o.at /\ c.prev = o.prev
  BY <1>1, <1>2
<1>. QED  BY <1>1, <1>2, <1>3, <1>5, <1>6, <1>9, <1>10, QuietKeeps

\* A step that changes the tables, once what they say is shown to hold on.
LEMMA TablesKeep ==
  ASSUME IInv, TypeOK', OpenedValid', ClosedCollected', OutboxKinds', LoggedOnce',
         RowOpened', EndRemembered', Steady,
         NEW p \in All, NEW c, Become(p, c), CallValid(proc[p])',
         \/ ~Activating(c)
         \/ Activating(proc[p]) /\ c.at = proc[p].at /\ c.prev = proc[p].prev
  PROVE  IInv'
<1>1. CallsValid' /\ InstantsDistinct'
  BY CallsKeep
<1>. QED  BY <1>1 DEF IInv

\* Every window in its row stays as it was.
SameWindows == \A d \in Devices : row'[d].window = row[d].window

\* Such steps, which restrict no device and open no window, are steady.
LEMMA SameWindowsSteady ==
  ASSUME IInv, SameWindows, now' = now, DOMAIN log' = DOMAIN log,
         revoked' = revoked, UNCHANGED ghosts
  PROVE  Steady
<1>1. ASSUME NEW q \in All, Activating(proc[q]), proc'[q] = proc[q]
      PROVE  ReadStands(proc[q])' /\ \A o \in opened' : o.setAt # proc[q].at
  BY <1>1 DEF IInv, CallsValid, CallValid, ReadStands, SameWindows, ghosts
<1>2. now <= now'
  BY DEF IInv, TypeOK
<1>. QED  BY <1>1, <1>2 DEF Steady

LEMMA MarkKeeps == ASSUME IInv, NEW p \in All, Mark(p) PROVE IInv'
<1> DEFINE o == proc[p]
           c == IF o.next = "audit" THEN [o EXCEPT !.pc = "audit"] ELSE Idle
<1>1. o \in CallRecords /\ CallValid(o) /\ o.event \in Events /\ o.pc = "mark"
      /\ Logged(o.event)
  BY DEF IInv, TypeOK, CallsValid, CallValid, CallRecords, Mark
<1>2. /\ c \in CallRecords
      /\ Activating(c) => /\ Activating(o) /\ c.at = o.at /\ c.prev = o.prev
                          /\ c.device = o.device /\ c.length = o.length
                          /\ c.seen = o.seen
      /\ (c.pc = "audit" /\ Activating(c)) \/ c = Idle
  BY <1>1, IdleValid DEF CallRecords, Steppings, Activating
<1>3. /\ Become(p, c) /\ proc'[p] = c /\ UNCHANGED <<revoked, row, outbox, log, bounds, ghosts>>
      /\ audited' = audited \cup {o.event}
  BY DEF Mark, Done, Become, IInv, TypeOK
<1>4. TypeOK'
  BY <1>1, <1>2, <1>3 DEF IInv, TypeOK, LogType, Become, bounds, ghosts
<1>5. OpenedValid' /\ ClosedCollected' /\ OutboxKinds' /\ RowOpened' /\ EndRemembered'
  BY <1>3 DEF IInv, OpenedValid, ClosedCollected, OutboxKinds, RowOpened, EndRemembered,
              EndOf, bounds, ghosts
<1>6. LoggedOnce'
  BY <1>1, <1>3 DEF IInv, LoggedOnce, Logged
<1>7. SameWindows /\ Steady
  BY <1>3, SameWindowsSteady DEF SameWindows, bounds
<1>8. CASE c.pc = "audit" /\ Activating(c)
  <2>1. ReadStands(proc[p])'
    BY <1>1, <1>2, <1>3, <1>8 DEF CallValid, ReadStands, ghosts
  <2>2. CallValid(proc[p])'
    BY <1>1, <1>2, <1>3, <1>8, <2>1 DEF CallValid, Activating, bounds, ghosts
  <2>. QED  BY <1>2, <1>3, <1>4, <1>5, <1>6, <1>7, <2>2, TablesKeep
<1>9. CASE c = Idle
  <2>1. CallValid(proc[p])'
    BY <1>3, <1>9, IdleValid DEF CallValid, Activating
  <2>. QED  BY <1>2, <1>3, <1>4, <1>5, <1>6, <1>7, <2>1, TablesKeep
<1>. QED  BY <1>2, <1>8, <1>9

LEMMA CollectKeeps == ASSUME IInv, NEW p \in All, Collect(p) PROVE IInv'
<1> DEFINE o == proc[p]
           d == o.device
           e == ActivationEnd(d, o.prev)
           c == IF o.next = "leave" THEN Idle ELSE ToPublish(o, e, o.next)
<1>1. /\ o \in CallRecords /\ CallValid(o) /\ o.pc = "collect" /\ d \in Devices
      /\ o.prev \in Windows /\ o.next \in {"idle", "leave", "audit"}
  BY DEF IInv, TypeOK, CallsValid, CallValid, CallRecords, Collect
<1>2. e \in Events /\ e.kind = "expiry"
  BY <1>1 DEF ActivationEnd, Event, Events, Kinds, Windows
<1>3. /\ c \in CallRecords
      /\ Activating(c) => /\ Activating(o) /\ c.at = o.at /\ c.prev = o.prev
                          /\ c.device = o.device /\ c.length = o.length
                          /\ c.seen = o.seen
      /\ c.pc \in {"idle", "publish", "audit"} /\ (c.pc = "audit" => Activating(c))
  BY <1>1, <1>2, IdleValid DEF ToPublish, CallRecords, Steppings, Activating
<1>4. /\ Become(p, c) /\ proc'[p] = c /\ UNCHANGED <<revoked, audited, log, bounds, ghosts>>
      /\ outbox' = outbox \cup {e}
  BY DEF Collect, EnqueueEnd, Done, Become, IInv, TypeOK
<1>5. /\ row' \in [Devices -> [window : Windows, endRecorded : BOOLEAN]] /\ SameWindows
      /\ \A x \in Devices :
           \/ row'[x] = row[x]
           \/ /\ x = d /\ row'[x].endRecorded
              /\ row[x].window.until = o.prev.until /\ row[x].window.setAt = o.prev.setAt
  BY <1>1 DEF Collect, EnqueueEnd, SameWindows, IInv, TypeOK
<1>6. TypeOK'
  BY <1>2, <1>3, <1>4, <1>5 DEF IInv, TypeOK, LogType, Become, bounds, ghosts
<1>7. OpenedValid'
  BY <1>4, <1>5 DEF IInv, OpenedValid, SameWindows, bounds, ghosts
<1>8. ClosedCollected' /\ RowOpened' /\ OutboxKinds' /\ LoggedOnce'
  BY <1>2, <1>4, <1>5 DEF IInv, ClosedCollected, RowOpened, OutboxKinds, LoggedOnce, Logged,
                          SameWindows, ghosts
<1>9. EndRemembered'
  <2>1. ASSUME NEW x \in opened
        PROVE  \/ x \in extended
               \/ \E f \in outbox' : EndOf(x, f)
               \/ row'[x.device].window.setAt = x.setAt /\ ~row'[x.device].endRecorded
    <3>1. x.device \in Devices
      BY DEF IInv, OpenedValid
    <3>2. CASE \E f \in outbox : EndOf(x, f)
      BY <1>4, <3>2
    <3>3. CASE row[x.device].window.setAt = x.setAt /\ ~row[x.device].endRecorded
      <4>1. row[x.device].window.until = x.at
        BY <3>3 DEF IInv, OpenedValid
      <4>2. CASE row'[x.device] = row[x.device]
        BY <3>3, <4>2
      <4>3. CASE /\ x.device = d /\ row[d].window.until = o.prev.until
                 /\ row[d].window.setAt = o.prev.setAt
        <5>1. EndOf(x, e)
          BY <3>3, <4>1, <4>3 DEF EndOf, ActivationEnd, Event
        <5>. QED  BY <1>4, <5>1
      <4>. QED  BY <1>5, <3>1, <4>2, <4>3
    <3>. QED  BY <3>2, <3>3 DEF IInv, EndRemembered
  <2>. QED  BY <1>4, <2>1 DEF EndRemembered, EndOf, ghosts
<1>10. Steady
  BY <1>4, <1>5, SameWindowsSteady DEF bounds
<1>11. Activating(c) => ReadStands(proc[p])'
  BY <1>1, <1>3, <1>4, <1>5 DEF CallValid, Activating, ReadStands, SameWindows, ghosts
<1>12. CallValid(proc[p])'
  BY <1>1, <1>3, <1>4, <1>11 DEF CallValid, Activating, bounds, ghosts
<1>. QED  BY <1>3, <1>4, <1>6, <1>7, <1>8, <1>9, <1>10, <1>12, TablesKeep

LEMMA RevokeKeeps ==
  ASSUME IInv, NEW p \in Procs, NEW d \in Devices, Revoke(p, d) PROVE IInv'
<1> DEFINE e == Revocation(d)
           c == ToPublish(Idle, e, "idle")
<1>1. e \in Events /\ e.kind = "revocation"
  BY DEF Revocation, Event, Events, Kinds
<1>2. c \in CallRecords /\ c.pc \in {"idle", "publish"} /\ ~Activating(c)
  BY <1>1, IdleValid DEF ToPublish, CallRecords, Steppings, Activating
<1>3. /\ Become(p, c) /\ proc'[p] = c /\ UNCHANGED <<row, audited, log, failures, opened, extended>>
      /\ revoked' = revoked \cup {d} /\ outbox' \in {outbox, outbox \cup {e}}
      /\ restrictions' = [restrictions EXCEPT ![d] = @ + 1]
      /\ now' = now + 1 /\ p \in All
  BY DEF Revoke, Begins, Enqueue, Become, IInv, TypeOK, All
<1>4. TypeOK'
  BY <1>1, <1>2, <1>3 DEF IInv, TypeOK, LogType, Become
<1>5. OpenedValid'
  BY <1>3 DEF IInv, OpenedValid, TypeOK, Events
<1>6. ClosedCollected' /\ RowOpened' /\ OutboxKinds' /\ LoggedOnce'
  BY <1>1, <1>3 DEF IInv, ClosedCollected, RowOpened, OutboxKinds, LoggedOnce, Logged
<1>7. EndRemembered'
  BY <1>3 DEF IInv, EndRemembered, EndOf
<1>8. Steady
  <2>1. ASSUME NEW q \in All, Activating(proc[q])
        PROVE  ReadStands(proc[q])' \/ proc'[q] # proc[q]
    <3>1. proc[q].device \in Devices /\ ReadStands(proc[q])
      BY <2>1 DEF IInv, CallsValid, CallValid
    <3>2. proc[q].device \in revoked' \/ restrictions'[proc[q].device] = restrictions[proc[q].device]
      BY <1>3, <3>1 DEF IInv, TypeOK
    <3>. QED  BY <1>3, <3>1, <3>2 DEF ReadStands
  <2>2. \A q \in All : Activating(proc[q]) => \A o \in opened' : o.setAt # proc[q].at
    BY <1>3 DEF IInv, CallsValid, CallValid
  <2>. QED  BY <1>3, <2>1, <2>2 DEF Steady, IInv, TypeOK
<1>9. CallValid(proc[p])'
  BY <1>2, <1>3 DEF CallValid, Activating
<1>. QED  BY <1>2, <1>3, <1>4, <1>5, <1>6, <1>7, <1>8, <1>9, TablesKeep

\* A deactivation closes window w of device d at the instant t: its fact and
\* its end commit together, and the window only gets shorter.
LEMMA ClosingKeeps ==
  ASSUME IInv, NEW p \in All, NEW c \in CallRecords, Become(p, c),
         c.pc \in {"idle", "publish"}, ~Activating(c),
         NEW d \in Devices, NEW t \in Nat, NEW w, w = row[d].window, Active(w, t),
         row' = [row EXCEPT ![d] =
                  [window |-> [until |-> t, setAt |-> w.setAt, deactivated |-> TRUE],
                   endRecorded |-> TRUE]],
         outbox' = outbox \cup {Deactivation(d, w, t)},
         restrictions' = [restrictions EXCEPT ![d] = @ + 1],
         UNCHANGED <<revoked, audited, log, bounds, opened, extended>>
  PROVE  IInv'
<1> DEFINE e == Deactivation(d, w, t)
<1>1. w.until \in Nat /\ w.setAt \in Nat /\ t < w.until
  BY RowTyped DEF Active
<1>2. e \in Events /\ e.kind = "deactivation"
  BY <1>1 DEF Deactivation, Event, Events, Kinds
<1>3. /\ proc'[p] = c
      /\ row'[d].window.setAt = w.setAt /\ row'[d].window.until = t /\ row'[d].endRecorded
      /\ \A x \in Devices \ {d} : row'[x] = row[x]
      /\ now' = now
  BY DEF Become, IInv, TypeOK, bounds
<1>4. TypeOK'
  BY <1>1, <1>2 DEF IInv, TypeOK, LogType, Become, bounds, Windows
<1>5. OpenedValid'
  BY <1>3 DEF IInv, OpenedValid
<1>6. ClosedCollected' /\ RowOpened' /\ OutboxKinds' /\ LoggedOnce'
  BY <1>2, <1>3 DEF IInv, ClosedCollected, RowOpened, OutboxKinds, LoggedOnce, Logged
<1>7. EndRemembered'
  <2>1. ASSUME NEW x \in opened
        PROVE  \/ x \in extended
               \/ \E f \in outbox' : EndOf(x, f)
               \/ row'[x.device].window.setAt = x.setAt /\ ~row'[x.device].endRecorded
    <3>1. x.device \in Devices
      BY DEF IInv, OpenedValid
    <3>2. CASE x.device = d /\ w.setAt = x.setAt
      <4>1. EndOf(x, e) /\ e \in outbox'
        BY <3>2 DEF EndOf, Deactivation, Event
      <4>. QED  BY <4>1
    <3>3. CASE x.device # d \/ w.setAt # x.setAt
      BY <1>3, <3>1, <3>3 DEF IInv, EndRemembered
    <3>. QED  BY <3>2, <3>3
  <2>. QED  BY <2>1 DEF EndRemembered, EndOf
<1>8. Steady
  <2>1. ASSUME NEW q \in All, Activating(proc[q]), proc'[q] = proc[q]
        PROVE  ReadStands(proc[q])'
    <3> DEFINE b == proc[q]
    <3>1. b.device \in Devices /\ ReadStands(b) /\ b.prev.until \in Nat
      BY <2>1 DEF IInv, CallsValid, CallValid, TypeOK, CallRecords, Windows
    <3>2. CASE b.device = d
      BY <1>1, <1>3, <2>1, <3>1, <3>2 DEF ReadStands
    <3>3. CASE b.device # d
      <4>1. restrictions'[b.device] = restrictions[b.device]
        BY <3>1, <3>3 DEF IInv, TypeOK
      <4>. QED  BY <1>3, <2>1, <3>1, <3>3, <4>1 DEF ReadStands
    <3>. QED  BY <3>2, <3>3
  <2>2. \A q \in All : Activating(proc[q]) => \A o \in opened' : o.setAt # proc[q].at
    BY DEF IInv, CallsValid, CallValid
  <2>. QED  BY <1>3, <2>1, <2>2 DEF Steady, IInv, TypeOK
<1>9. CallValid(proc[p])'
  BY <1>3 DEF CallValid, Activating
<1>. QED  BY <1>3, <1>4, <1>5, <1>6, <1>7, <1>8, <1>9, TablesKeep

LEMMA CommitDeactivationKeeps ==
  ASSUME IInv, NEW p \in Procs, CommitDeactivation(p) PROVE IInv'
<1> DEFINE o == proc[p]
           d == o.device
           w == row[d].window
<1>1. /\ p \in All /\ o \in CallRecords /\ CallValid(o) /\ o.pc = "deactivate"
      /\ d \in Devices /\ o.at \in Nat
  <2>1. p \in All /\ o \in CallRecords /\ CallValid(o) /\ o.pc = "deactivate"
    BY DEF IInv, TypeOK, CallsValid, All, CommitDeactivation
  <2>. QED  BY <2>1 DEF CallValid, CallRecords
<1>2. w \in Windows /\ w.until \in Nat /\ w.setAt \in Nat
  BY <1>1, RowTyped
<1>3. ASSUME NEW t \in Nat
      PROVE  LET e == Deactivation(d, w, t)
                 c == ToPublish(o, e, "idle")
             IN c \in CallRecords /\ c.pc \in {"idle", "publish"} /\ ~Activating(c)
  <2>1. Deactivation(d, w, t) \in Events
    BY <1>1, <1>2 DEF Deactivation, Event, Events, Kinds
  <2>. QED  BY <1>1, <2>1 DEF ToPublish, CallRecords, Steppings, Activating
<1>4. CASE Active(w, o.at)
  <2> DEFINE c == ToPublish(o, Deactivation(d, w, o.at), "idle")
  <2>1. c \in CallRecords /\ c.pc \in {"idle", "publish"} /\ ~Activating(c)
    BY <1>1, <1>3
  <2>2. /\ Become(p, c)
        /\ row' = [row EXCEPT ![d] =
             [window |-> [until |-> o.at, setAt |-> w.setAt, deactivated |-> TRUE],
              endRecorded |-> TRUE]]
        /\ outbox' = outbox \cup {Deactivation(d, w, o.at)}
        /\ restrictions' = [restrictions EXCEPT ![d] = @ + 1]
        /\ UNCHANGED <<revoked, audited, log, bounds, opened, extended>>
    BY <1>4 DEF CommitDeactivation, Enqueue
  <2>. QED  BY <1>1, <1>4, <2>1, <2>2, ClosingKeeps
<1>5. CASE ~Active(w, o.at)
  <2>1. UNCHANGED <<tables, log, bounds, ghosts>>
    BY <1>5 DEF CommitDeactivation, tables, ghosts
  <2>2. now' \in Nat /\ now <= now' /\ failures' \in Nat
    BY <2>1 DEF bounds, IInv, TypeOK
  <2>3. PICK c \in CallRecords : Become(p, c) /\ c.pc \in {"idle", "publish"} /\ ~Activating(c)
    BY <1>2, <1>3, <1>5, IdleValid DEF CommitDeactivation, Done
  <2>4. CallValid(proc[p])'
    BY <1>1, <2>3 DEF CallValid, Activating, Become, IInv, TypeOK
  <2>. QED  BY <1>1, <2>1, <2>2, <2>3, <2>4, CallMoves
<1>. QED  BY <1>4, <1>5

\* The transaction opens window n: what it replaces is remembered.
LEMMA OpeningKeeps ==
  ASSUME IInv, NEW p \in Procs, CommitActivation(p), CommitAllowed(proc[p]),
         row' = [row EXCEPT ![proc[p].device] =
                  [window |-> NewWindow(proc[p]), endRecorded |-> FALSE]],
         Replace(proc[p]),
         opened' = opened \cup {Activated(proc[p].device, NewWindow(proc[p]))},
         extended' = extended \cup
           (IF Active(proc[p].prev, proc[p].at)
            THEN {Activated(proc[p].device, proc[p].prev)} ELSE {})
  PROVE  IInv'
<1> DEFINE c == proc[p]
           d == c.device
           n == NewWindow(c)
           new == Activated(d, n)
           ended == ActivationEnd(d, c.prev)
<1>1. /\ p \in All /\ c \in CallRecords /\ CallValid(c) /\ Activating(c)
      /\ d \in Devices /\ c.length \in Nat /\ c.length > 0 /\ c.at \in Nat /\ c.at > 0
      /\ c.at < now /\ c.prev \in Windows /\ c.prev.until \in Nat
      /\ \A o \in opened : o.setAt # c.at
  <2>1. p \in All /\ c \in CallRecords /\ CallValid(c) /\ c.pc = "commit"
    BY DEF IInv, TypeOK, CallsValid, All, CommitActivation
  <2>. QED  BY <2>1 DEF CallValid, CallRecords, Windows
<1>2. /\ n \in Windows /\ n.setAt = c.at /\ n.until = c.at + c.length /\ ~n.deactivated
      /\ new \in Events /\ new.kind = "activated" /\ new.device = d /\ new.setAt = c.at
      /\ new.at = c.at + c.length
      /\ Activated(d, c.prev) \in Events
      /\ ended \in Events /\ ended.kind = "expiry"
  BY <1>1 DEF NewWindow, Windows, Activated, ActivationEnd, Event, Events, Kinds
<1>3. /\ proc'[p] = Idle /\ Become(p, Idle)
      /\ UNCHANGED <<revoked, audited, log, bounds, restrictions>>
      /\ now' = now /\ failures' = failures /\ row[d].window = c.prev
      /\ outbox' \in {outbox, outbox \cup {ended}}
  <2>1. outbox' \in {outbox, outbox \cup {ended}} /\ row[d].window = c.prev
    BY DEF Replace, CommitAllowed
  <2>2. Become(p, Idle) /\ UNCHANGED <<revoked, audited, log, bounds, restrictions>>
    BY DEF CommitActivation, Done
  <2>3. proc'[p] = Idle
    BY <1>1, <2>2 DEF Become, IInv, TypeOK
  <2>. QED  BY <2>1, <2>2, <2>3 DEF bounds
<1>4. /\ row' \in [Devices -> [window : Windows, endRecorded : BOOLEAN]]
      /\ row'[d].window = n /\ ~row'[d].endRecorded
      /\ \A x \in Devices \ {d} : row'[x] = row[x]
  BY <1>1, <1>2 DEF IInv, TypeOK
<1>5. TypeOK'
  <2>1. proc' \in [All -> CallRecords]
    BY <1>3, IdleValid DEF Become, IInv, TypeOK
  <2>2. opened' \in SUBSET Events /\ extended' \in SUBSET Events /\ outbox' \in SUBSET Events
    BY <1>2, <1>3 DEF IInv, TypeOK
  <2>. QED  BY <1>3, <1>4, <2>1, <2>2 DEF IInv, TypeOK, LogType
<1>6. OpenedValid'
  <2>1. ASSUME NEW o \in opened'
        PROVE  /\ o.kind = "activated" /\ o.device \in Devices
               /\ o.at > 0 /\ o.setAt < now
               /\ row'[o.device].window.setAt = o.setAt /\ ~row'[o.device].endRecorded
                    => row'[o.device].window.until = o.at
    <3>1. CASE o = new
      BY <1>1, <1>2, <1>4, <3>1
    <3>2. CASE o \in opened
      BY <1>1, <1>2, <1>4, <3>2 DEF IInv, OpenedValid
    <3>. QED  BY <3>1, <3>2
  <2>. QED  BY <1>3, <2>1 DEF OpenedValid
<1>7. ClosedCollected' /\ OutboxKinds' /\ LoggedOnce'
  BY <1>2, <1>3, <1>4 DEF IInv, ClosedCollected, OutboxKinds, LoggedOnce, Logged
<1>8. RowOpened'
  <2>1. row'[d].window.setAt = new.setAt /\ new \in opened'
    BY <1>2, <1>4
  <2>2. \A x \in Devices \ {d} : row'[x] = row[x] /\ opened \subseteq opened'
    BY <1>4
  <2>. QED  BY <2>1, <2>2 DEF IInv, RowOpened
<1>9. EndRemembered'
  <2>1. ASSUME NEW o \in opened
        PROVE  \/ o \in extended'
               \/ \E f \in outbox' : EndOf(o, f)
               \/ row'[o.device].window.setAt = o.setAt /\ ~row'[o.device].endRecorded
    <3>1. o.device \in Devices /\ o.kind = "activated" /\ o.at > 0 /\ o \in Events
      BY DEF IInv, OpenedValid, TypeOK
    <3>2. CASE o \in extended
      BY <3>2
    <3>3. CASE \E f \in outbox : EndOf(o, f)
      BY <1>3, <3>3
    <3>4. CASE o.device # d /\ row[o.device].window.setAt = o.setAt /\ ~row[o.device].endRecorded
      BY <1>4, <3>1, <3>4
    <3>5. CASE o.device = d /\ row[d].window.setAt = o.setAt /\ ~row[d].endRecorded
      <4>1. c.prev.until = o.at /\ c.prev.setAt = o.setAt /\ ~c.prev.deactivated
        BY <1>3, <3>1, <3>5 DEF IInv, OpenedValid, ClosedCollected
      <4>2. CASE Active(c.prev, c.at)
        <5>1. o = Activated(d, c.prev)
          BY <3>1, <3>5, <4>1 DEF Activated, Event, Events
        <5>. QED  BY <4>2, <5>1
      <4>3. CASE ~Active(c.prev, c.at)
        <5>1. Expired(c.prev, c.at)
          BY <1>1, <3>1, <4>1, <4>3 DEF Expired
        <5>2. EndOf(o, ended) /\ ended \in outbox'
          BY <3>5, <4>1, <5>1 DEF Replace, EndOf, ActivationEnd, Event
        <5>. QED  BY <5>2
      <4>. QED  BY <4>2, <4>3
    <3>. QED  BY <3>2, <3>3, <3>4, <3>5 DEF IInv, EndRemembered
  <2>2. row'[new.device].window.setAt = new.setAt /\ ~row'[new.device].endRecorded
    BY <1>2, <1>4
  <2>. QED  BY <2>1, <2>2 DEF EndRemembered, EndOf
<1>10. Steady
  <2>1. ASSUME NEW q \in All, Activating(proc[q]), proc'[q] = proc[q]
        PROVE  ReadStands(proc[q])' /\ \A o \in opened' : o.setAt # proc[q].at
    <3> DEFINE b == proc[q]
    <3>1. b.device \in Devices /\ ReadStands(b) /\ \A o \in opened : o.setAt # b.at
      BY <2>1 DEF IInv, CallsValid, CallValid
    <3>2. q # p
      BY <1>1, <1>3, <2>1, IdleValid
    <3>3. b.at # c.at /\ b.prev.setAt # c.at
      BY <1>1, <2>1, <3>2 DEF IInv, InstantsDistinct
    <3>4. ReadStands(proc[q])'
      <4>1. CASE b.device = d
        BY <1>2, <1>4, <2>1, <3>3, <4>1 DEF ReadStands
      <4>2. CASE b.device # d
        BY <1>3, <1>4, <2>1, <3>1, <4>2 DEF ReadStands
      <4>. QED  BY <4>1, <4>2
    <3>. QED  BY <1>2, <3>1, <3>3, <3>4
  <2>. QED  BY <1>3, <2>1 DEF Steady, IInv, TypeOK
<1>11. CallValid(proc[p])'
  BY <1>3, IdleValid DEF CallValid, Activating
<1>. QED  BY <1>1, <1>3, <1>5, <1>6, <1>7, <1>8, <1>9, <1>10, <1>11, IdleValid, TablesKeep

LEMMA CommitActivationKeeps ==
  ASSUME IInv, NEW p \in Procs, CommitActivation(p) PROVE IInv'
<1>1. CASE CommitAllowed(proc[p])
  BY <1>1, OpeningKeeps DEF CommitActivation
<1>2. CASE ~CommitAllowed(proc[p])
  <2>1. /\ Become(p, Idle) /\ proc'[p] = Idle /\ p \in All
        /\ UNCHANGED <<tables, log, bounds, ghosts>>
    BY <1>2 DEF CommitActivation, Done, Become, tables, ghosts, IInv, TypeOK, All
  <2>2. now' \in Nat /\ now <= now' /\ failures' \in Nat
    BY <2>1 DEF bounds, IInv, TypeOK
  <2>3. CallValid(proc[p])'
    BY <2>1, IdleValid DEF CallValid, Activating
  <2>. QED  BY <2>1, <2>2, <2>3, IdleValid, CallMoves
<1>. QED  BY <1>1, <1>2

-----------------------------------------------------------------------------
(* The invariant and what follows from it *)

LEMMA Unchanged == IInv /\ UNCHANGED activationVars => IInv'
<1> SUFFICES ASSUME IInv, UNCHANGED activationVars PROVE IInv'
  OBVIOUS
<1>1. Serve \in All /\ Become(Serve, proc[Serve]) /\ proc[Serve] \in CallRecords
      /\ ~Activating(proc[Serve])
  BY DEF Become, IInv, TypeOK, All, activationVars, InstantsDistinct
<1>2. UNCHANGED <<tables, log, ghosts>> /\ proc' = proc
      /\ now' \in Nat /\ now <= now' /\ failures' \in Nat
  BY DEF activationVars, bounds, IInv, TypeOK
<1>3. CallValid(proc[Serve])'
  BY <1>1, <1>2 DEF IInv, CallsValid, CallValid, Activating, Logged, Activated, NewWindow
<1>. QED  BY <1>1, <1>2, <1>3, CallMoves

\* Each action keeps the invariant.
THEOREM Preserved == IInv /\ [ActivationNext]_activationVars => IInv'
<1> SUFFICES ASSUME IInv, [ActivationNext]_activationVars PROVE IInv'
  OBVIOUS
<1>1. ASSUME NEW p \in Procs, NEW d \in Devices, Calls(p, d) PROVE IInv'
  BY <1>1, ActivateKeeps, DeactivateKeeps, RevokeKeeps, RequestKeeps DEF Calls
<1>2. ASSUME NEW p \in All, Steps(p) PROVE IInv'
  BY <1>2, CollectKeeps, PublishKeeps, MarkKeeps DEF Steps
<1>3. ASSUME Sweep PROVE IInv'
  BY <1>2, <1>3, SweepEndedKeeps, SweepPendingKeeps DEF Sweep, All
<1>4. ASSUME NEW p \in Procs, AuditActivation(p) \/ CommitActivation(p) \/ CommitDeactivation(p)
      PROVE  IInv'
  BY <1>4, AuditActivationKeeps, CommitActivationKeeps, CommitDeactivationKeeps
<1>5. CASE ActivationNext
  BY <1>1, <1>2, <1>3, <1>4, <1>5, FailKeeps, TickKeeps DEF ActivationNext, All
<1>. QED  BY <1>5, Unchanged

THEOREM Inductive == ActivationSpec => []IInv
BY Initially, Preserved, PTL DEF ActivationSpec

\* Every variable keeps its type.
THEOREM TypeCorrect == ActivationSpec => []TypeOK
<1>1. IInv => TypeOK
  BY DEF IInv
<1>. QED  BY <1>1, Inductive, PTL

\* The outbox and the log (activation.go, enqueueActivationEnd; security_audit.go,
\* publishSecurityAudit): the end of every window is remembered, whatever closes or
\* replaces it and wherever calls die, and no event of the outbox is logged twice
\* or marked without being in the log.
THEOREM EventsAreKept == ActivationSpec => []EventsKept
<1>1. IInv => EventsKept
  <2> SUFFICES ASSUME IInv PROVE EventsKept
    OBVIOUS
  <2>1. \A e \in outbox : Logged(e) => log[e] = 1
    BY DEF IInv, OutboxKinds, LoggedOnce, Logged, BagIn, BagToSet
  <2>. QED  BY <2>1 DEF IInv, EventsKept, PublishedOnce, LoggedOnce
<1>. QED  BY <1>1, Inductive, PTL

\* A call that waits to commit leaves its place with a change of the rows only by
\* committing.
LEMMA OnlyCommits ==
  ASSUME TypeOK, ActivationNext, NEW p \in Procs, proc[p].pc = "commit",
         proc'[p] # proc[p], row' # row
  PROVE  CommitActivation(p)
<1>1. ASSUME NEW q \in Procs, NEW d \in Devices, Calls(q, d) PROVE FALSE
  BY <1>1 DEF Calls, Activate, Deactivate, Revoke, Request, tables
<1>2. ASSUME NEW q \in All, Steps(q) PROVE FALSE
  <2>1. Collect(q)
    BY <1>2 DEF Steps, Publish, Mark, tables
  <2>2. proc[q].pc = "collect" /\ \E c : Become(q, c)
    BY <2>1 DEF Collect, Done
  <2>. QED  BY <2>2 DEF Become, TypeOK, All
<1>3. ASSUME Sweep PROVE FALSE
  BY <1>2, <1>3 DEF Sweep, SweepEnded, SweepPending, tables, All
<1>4. ASSUME NEW q \in Procs, CommitDeactivation(q) PROVE FALSE
  <2>1. proc[q].pc = "deactivate" /\ \E c : Become(q, c)
    BY <1>4 DEF CommitDeactivation, Done
  <2>. QED  BY <2>1 DEF Become, TypeOK, All
<1>5. ASSUME NEW q \in Procs, CommitActivation(q) PROVE q = p
  BY <1>5 DEF CommitActivation, Done, Become, TypeOK, All
<1>6. ASSUME NEW q \in All, AuditActivation(q) \/ Fail(q) PROVE FALSE
  BY <1>6 DEF AuditActivation, Fail, tables
<1>7. ~Tick
  BY DEF Tick, tables
<1>. QED  BY <1>1, <1>2, <1>3, <1>4, <1>5, <1>6, <1>7 DEF ActivationNext, All

\* Activation (activation.go, ActivateDevice): a transaction that opens a window
\* finds its activation in the log and the device as the call had read it, no
\* restriction committed in between.
THEOREM WindowsAreJustified == ActivationSpec => WindowJustified
<1> DEFINE Justified ==
      \A p \in Procs : LET c == proc[p] IN
        c.pc = "commit" /\ proc'[p] # c /\ row' # row =>
          /\ Logged(Activated(c.device, NewWindow(c)))
          /\ c.device \notin revoked
          /\ restrictions[c.device] = c.seen
<1>1. ASSUME IInv, [ActivationNext]_activationVars PROVE [Justified]_activationVars
  <2> SUFFICES ASSUME NEW p \in Procs, proc[p].pc = "commit", proc'[p] # proc[p], row' # row
               PROVE  /\ Logged(Activated(proc[p].device, NewWindow(proc[p])))
                      /\ proc[p].device \notin revoked
                      /\ restrictions[proc[p].device] = proc[p].seen
    OBVIOUS
  <2> DEFINE c == proc[p]
  <2>1. p \in All /\ CallValid(c) /\ Activating(c) /\ c.device \in Devices
    BY <1>1 DEF IInv, CallsValid, CallValid, All
  <2>3. CommitActivation(p)
    <3>1. ActivationNext
      BY <1>1 DEF activationVars
    <3>. QED  BY <1>1, <3>1, OnlyCommits DEF IInv
  <2>4. CommitAllowed(c)
    BY <2>3 DEF CommitActivation
  <2>. QED  BY <1>1, <2>1, <2>4 DEF CallValid, ReadStands, CommitAllowed, IInv, TypeOK, Windows
<1>. QED  BY <1>1, Inductive, PTL DEF ActivationSpec, WindowJustified

===============================================================================

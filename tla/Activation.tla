------------------------------ MODULE Activation ------------------------------
(***************************************************************************)
(* Activation windows, device revocation and the outbox that carries their *)
(* audit facts to the audit log: internal/gateway/activation.go,           *)
(* revocation.go and security_audit.go, with the sweep of                  *)
(* cmd/agentssh-gateway/activation.go.  The CLI, the Web UI, requests and  *)
(* the sweep of serve are processes that share the database and the log.   *)
(* An action is one database transaction, one read or one locked append;   *)
(* a process keeps what it read, and the clock value its call began with,  *)
(* until it is done or dies.                                               *)
(***************************************************************************)
EXTENDS Naturals, Bags

CONSTANTS
  Devices,
  Procs,        \* operators' CLI and Web UI calls, and requests
  Serve,        \* the audit sweep of serve
  Durations,    \* window lengths an operator may choose
  MaxTime,      \* bound: the clock stops here
  MaxFailures   \* bound: how many calls end in the middle

ASSUME BoundsAssumption ==
  /\ Durations \subseteq Nat \ {0}
  /\ MaxTime \in Nat /\ MaxFailures \in Nat
  /\ Serve \notin Procs

VARIABLES
  revoked,      \* devices whose status is revoked
  row,          \* device_activations
  outbox,       \* security_audit_events and device_revocations
  audited,      \* the events of the outbox marked as published
  log,          \* the audit log, a bag of records
  proc,         \* each process's call
  now,
  failures,     \* calls that ended in the middle
  opened,       \* history: the windows ever opened
  extended,     \* history: those replaced before their end
  restrictions  \* history: deactivations and revocations of each device

tables == <<revoked, row, outbox, audited>>
bounds == <<now, failures>>
ghosts == <<opened, extended, restrictions>>
activationVars == <<tables, log, proc, bounds, ghosts>>

All == Procs \cup {Serve}

\* Activation: until is 0 when the device was never activated.
NoWindow == [until |-> 0, setAt |-> 0, deactivated |-> FALSE]

\* A row is the window and whether its end is collected.
Empty == [window |-> NoWindow, endRecorded |-> TRUE]

\* Audit facts, named by what their event ID is made of.
Event(kind, d, setAt, at) == [kind |-> kind, device |-> d, setAt |-> setAt, at |-> at]

Activated(d, w)      == Event("activated", d, w.setAt, w.until)
ActivationEnd(d, w)  == Event("expiry", d, w.setAt, w.until)
Deactivation(d, w, closedAt) == Event("deactivation", d, w.setAt, closedAt)
Revocation(d)        == Event("revocation", d, 0, 0)

NoEvent == Event("none", "none", 0, 0)

\* A call: its step, device and clock value, the window it read, the event
\* it publishes and the step that follows publication.
Idle == [pc |-> "idle", device |-> "none", at |-> 0, prev |-> NoWindow,
         length |-> 0, event |-> NoEvent, next |-> "idle", seen |-> 0]

ActivationInit ==
  /\ revoked = {} /\ row = [d \in Devices |-> Empty]
  /\ outbox = {} /\ audited = {} /\ log = EmptyBag
  /\ proc = [p \in All |-> Idle]
  /\ now = 1 /\ failures = 0
  /\ opened = {} /\ extended = {} /\ restrictions = [d \in Devices |-> 0]

-----------------------------------------------------------------------------

Active(w, at) == w.until # 0 /\ at < w.until

\* The window ended by itself.
Expired(w, at) == w.until # 0 /\ ~Active(w, at) /\ ~w.deactivated

Become(p, c) == proc' = [proc EXCEPT ![p] = c]

Done(p) == Become(p, Idle)

\* A call reads the clock as it starts; no two read the same instant.
Begins(p) == proc[p].pc = "idle" /\ now < MaxTime /\ now' = now + 1

AppendAlways(e) == log' = log (+) SetToBag({e})

\* AppendUnless: an event is in the chain or it is appended, under one lock.
AppendUnless(e) ==
  log' = IF BagIn(e, log) THEN log ELSE log (+) SetToBag({e})

\* publishSecurityAudit reads the event's row: an audited one needs nothing.
ToPublish(c, e, next) ==
  [c EXCEPT !.pc = IF e \in audited THEN next ELSE "publish",
            !.event = e, !.next = next]

\* ActivateDevice up to its read of the previous window.
Activate(p, d, length) ==
  /\ Begins(p)
  /\ now + length < MaxTime
  /\ d \notin revoked
  /\ LET w == row[d].window IN
     Become(p, [Idle EXCEPT !.pc = IF Expired(w, now) THEN "collect" ELSE "audit",
                            !.device = d, !.at = now, !.prev = w, !.length = length,
                            !.next = "audit", !.seen = restrictions[d]])
  /\ UNCHANGED <<tables, log, failures, ghosts>>

EnqueueEndUnmatched(d, w) ==
  /\ outbox' = outbox \cup {ActivationEnd(d, w)}
  /\ row' = [row EXCEPT ![d].endRecorded = TRUE]

\* enqueueActivationEnd: the fact joins the outbox and the window, if it is
\* still the device's, is marked as collected.
EnqueueEnd(d, w) ==
  /\ outbox' = outbox \cup {ActivationEnd(d, w)}
  /\ row' = IF row[d].window.until = w.until /\ row[d].window.setAt = w.setAt
            THEN [row EXCEPT ![d].endRecorded = TRUE] ELSE row

\* collectActivationEnd's transaction.  A request leaves publication to the
\* sweep; an activation and the sweep go on to publish.
Collect(p) ==
  LET c == proc[p]
      e == ActivationEnd(c.device, c.prev) IN
  /\ c.pc = "collect"
  /\ EnqueueEnd(c.device, c.prev)
  /\ IF c.next = "leave" THEN Done(p) ELSE Become(p, ToPublish(c, e, c.next))
  /\ UNCHANGED <<revoked, audited, log, bounds, ghosts>>

\* appendSecurityRecord of an outbox event.
Publish(p) ==
  /\ proc[p].pc = "publish"
  /\ AppendUnless(proc[p].event)
  /\ Become(p, [proc[p] EXCEPT !.pc = "mark"])
  /\ UNCHANGED <<tables, bounds, ghosts>>

\* The event is marked only after its append.
Mark(p) ==
  LET c == proc[p] IN
  /\ c.pc = "mark"
  /\ audited' = audited \cup {c.event}
  /\ Become(p, IF c.next = "audit" THEN [c EXCEPT !.pc = "audit"] ELSE Idle)
  /\ UNCHANGED <<revoked, row, outbox, log, bounds, ghosts>>

NewWindow(c) == [until |-> c.at + c.length, setAt |-> c.at, deactivated |-> FALSE]

\* The activation's own record, before the window opens and outside any
\* database transaction.
AuditActivation(p) ==
  LET c == proc[p] IN
  /\ c.pc = "audit"
  /\ AppendAlways(Activated(c.device, NewWindow(c)))
  /\ Become(p, [c EXCEPT !.pc = "commit"])
  /\ UNCHANGED <<tables, bounds, ghosts>>

CommitUnchecked(c) == c.device \notin revoked

\* What the transaction rechecks: the device and the window it replaces.
CommitAllowed(c) == c.device \notin revoked /\ row[c.device].window = c.prev

\* The replaced window's end commits with its replacement.
Replace(c) ==
  outbox' = IF Expired(c.prev, c.at)
            THEN outbox \cup {ActivationEnd(c.device, c.prev)} ELSE outbox

\* The transaction that opens the window, or refuses to.
CommitActivation(p) ==
  LET c == proc[p]
      d == c.device
      w == NewWindow(c)
  IN
  /\ c.pc = "commit"
  /\ \/ /\ CommitAllowed(c)
        /\ Replace(c)
        /\ row' = [row EXCEPT ![d] = [window |-> w, endRecorded |-> FALSE]]
        /\ opened' = opened \cup {Activated(d, w)}
        /\ extended' = extended \cup
             (IF Active(c.prev, c.at) THEN {Activated(d, c.prev)} ELSE {})
     \/ /\ ~CommitAllowed(c)
        /\ UNCHANGED <<row, outbox, opened, extended>>
  /\ Done(p)
  /\ UNCHANGED <<revoked, audited, log, bounds, restrictions>>

\* DeactivateDevice reads the clock, then waits for the database.
Deactivate(p, d) ==
  /\ Begins(p)
  /\ Become(p, [Idle EXCEPT !.pc = "deactivate", !.device = d, !.at = now])
  /\ UNCHANGED <<tables, log, failures, ghosts>>

\* The fact of a restriction commits with the restriction.
Enqueue(e) == outbox' = outbox \cup {e}

\* Its transaction closes an open window; one closed before is published
\* again in case it is still pending.
CommitDeactivation(p) ==
  LET c == proc[p]
      d == c.device
      w == row[d].window
  IN
  /\ c.pc = "deactivate"
  /\ IF Active(w, c.at)
     THEN /\ row' = [row EXCEPT ![d] =
                [window |-> [until |-> c.at, setAt |-> w.setAt, deactivated |-> TRUE],
                 endRecorded |-> TRUE]]
          /\ Enqueue(Deactivation(d, w, c.at))
          /\ restrictions' = [restrictions EXCEPT ![d] = @ + 1]
          /\ Become(p, ToPublish(c, Deactivation(d, w, c.at), "idle"))
     ELSE /\ UNCHANGED <<row, outbox, restrictions>>
          /\ IF w.deactivated
             THEN Become(p, ToPublish(c, Deactivation(d, w, w.until), "idle"))
             ELSE Done(p)
  /\ UNCHANGED <<revoked, audited, log, bounds, opened, extended>>

\* RevokeDevice: the status and its fact in one transaction, once.
Revoke(p, d) ==
  /\ Begins(p)
  /\ revoked' = revoked \cup {d}
  /\ IF d \in revoked THEN outbox' = outbox ELSE Enqueue(Revocation(d))
  /\ restrictions' = [restrictions EXCEPT ![d] = @ + 1]
  /\ Become(p, ToPublish(Idle, Revocation(d), "idle"))
  /\ UNCHANGED <<row, audited, log, failures, opened, extended>>

\* checkActivation for a request finds an ended window.
Request(p, d) ==
  LET w == row[d].window IN
  /\ Begins(p)
  /\ ~row[d].endRecorded /\ Expired(w, now)
  /\ Become(p, [Idle EXCEPT !.pc = "collect", !.device = d, !.prev = w, !.next = "leave"])
  /\ UNCHANGED <<tables, log, failures, ghosts>>

\* RecordEndedActivations finds one too.
SweepEnded(d) ==
  LET w == row[d].window IN
  /\ proc[Serve].pc = "idle"
  /\ ~row[d].endRecorded /\ Expired(w, now)
  /\ Become(Serve, [Idle EXCEPT !.pc = "collect", !.device = d, !.prev = w])
  /\ UNCHANGED <<tables, log, bounds, ghosts>>

SweepMissing(e) == FALSE /\ e \in outbox /\ UNCHANGED activationVars

\* RecordDeviceRevocations and RecordPendingAudits find a pending event; by
\* the time they publish it, another process may have.
SweepPending(e) ==
  /\ proc[Serve].pc = "idle"
  /\ e \in outbox \ audited
  /\ Become(Serve, [Idle EXCEPT !.pc = "publish", !.event = e])
  /\ UNCHANGED <<tables, log, bounds, ghosts>>

\* A call ends in the middle: its process dies, or the log or the database
\* refuses its next write, which leaves the rest undone.
Fail(p) ==
  /\ proc[p].pc # "idle"
  /\ failures < MaxFailures /\ failures' = failures + 1
  /\ Done(p)
  /\ UNCHANGED <<tables, log, now, ghosts>>

Tick ==
  /\ now < MaxTime /\ now' = now + 1
  /\ UNCHANGED <<tables, log, proc, failures, ghosts>>

Calls(p, d) ==
  \/ \E n \in Durations : Activate(p, d, n)
  \/ Deactivate(p, d)
  \/ Revoke(p, d)
  \/ Request(p, d)

Steps(p) == Collect(p) \/ Publish(p) \/ Mark(p)

Sweep ==
  \/ \E d \in Devices : SweepEnded(d)
  \/ \E e \in outbox : SweepPending(e)
  \/ Steps(Serve)

ActivationNext ==
  \/ \E p \in Procs : \/ \E d \in Devices : Calls(p, d)
                      \/ Steps(p)
                      \/ AuditActivation(p)
                      \/ CommitActivation(p)
                      \/ CommitDeactivation(p)
  \/ Sweep
  \/ \E p \in All : Fail(p)
  \/ Tick

ActivationSpec == ActivationInit /\ [][ActivationNext]_activationVars

\* serve's ticker runs the sweep again and again, and time passes.  Failures
\* come to an end: an operator repairs the log and starts serve again.
ActivationFairSpec == ActivationSpec /\ WF_activationVars(Sweep) /\ WF_activationVars(Tick)
-----------------------------------------------------------------------------
(* Correctness *)

Logged(e) == BagIn(e, log)

\* The facts that tell how window o ended.
EndOf(o, e) ==
  /\ e.device = o.device /\ e.setAt = o.setAt
  /\ \/ e.kind = "deactivation"
     \/ e.kind = "expiry" /\ e.at = o.at

\* No window is forgotten: whatever closes or replaces it, and whichever
\* call fails on the way, its end is in the outbox unless it was replaced
\* before it ended or is still the device's uncollected window.
EndRemembered ==
  \A o \in opened :
    \/ o \in extended
    \/ \E e \in outbox : EndOf(o, e)
    \/ /\ row[o.device].window.setAt = o.setAt
       /\ ~row[o.device].endRecorded

\* An event reaches the log at most once, however many processes publish it
\* and wherever they fail, and is marked as published only if it is there.
PublishedOnce ==
  /\ \A e \in outbox : Logged(e) => log[e] = 1
  /\ \A e \in audited : Logged(e)

\* The outbox neither forgets nor repeats what became of a window (activation.go,
\* enqueueActivationEnd; security_audit.go, publishSecurityAudit).
EventsKept == EndRemembered /\ PublishedOnce

\* Waiting for the audit log outside a transaction costs nothing: a window
\* opens only when its activation is in the log and no revocation or
\* deactivation committed since the call read the window it replaces
\* (activation.go, ActivateDevice and its transaction's rechecks).
WindowJustified ==
  [][\A p \in Procs : LET c == proc[p] IN
       c.pc = "commit" /\ proc'[p] # c /\ row' # row =>
         /\ Logged(Activated(c.device, NewWindow(c)))
         /\ c.device \notin revoked
         /\ restrictions[c.device] = c.seen]_activationVars

\* Whatever calls failed on the way, the audit log catches up: again and again
\* it tells of every revocation and of how every window ended.
EndsPublished ==
  []<>(/\ \A d \in revoked : Logged(Revocation(d))
       /\ \A o \in opened : o \in extended \/ \E e \in BagToSet(log) : EndOf(o, e))
===============================================================================

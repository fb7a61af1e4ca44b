------------------------------ MODULE RunStanding ------------------------------
(***************************************************************************)
(* Who may run: the standing checks of internal/gateway.  A request is     *)
(* checked once, before its run is published (gateway.go, requireActive);  *)
(* from then on only serve's passes over the live runs look at the device  *)
(* and the identities it connects with (standing.go).  Operators change    *)
(* both in the store meanwhile.  Every action is one read of the store,    *)
(* one transaction on it, or one critical section of s.mu or run.mu.       *)
(* How windows open and close in detail is the module Activation.          *)
(***************************************************************************)
EXTENDS Naturals

CONSTANTS
  RunDevices, Identities,
  Runs,           \* bound: the runs ever requested
  WindowLengths,  \* at least 1
  LastTime,       \* bound: the clock stops here
  MaxErrors       \* bound: store reads that fail

ASSUME LengthsAssumption == WindowLengths \subseteq Nat

VARIABLES
  revokedOnes,  \* devices whose status is revoked
  window,      \* device_activations: its end, and whether it was closed early
  disabled,    \* identities whose status is disabled
  run,         \* each run
  pass,        \* CancelRunsWithoutStanding, between passes or in one
  time,
  errors,      \* store reads that failed
  lostEver     \* history: the standing each run lost since it was published

store == <<revokedOnes, window, disabled>>
standingVars == <<store, run, pass, time, errors, lostEver>>

\* Why a run may no longer go on; "none" when it may.
Reasons == {"revoked", "deactivated", "ended", "identity"}

\* A run: where its request or execution is, its device and the identities
\* of its targets, run.stopped, and the final frame its device gets.
NoRun == [pc |-> "none", device |-> "none", identities |-> {},
          cancelled |-> FALSE, reason |-> "none", final |-> "none"]

\* Places of a published run: s.runs holds it until endRun.
Running == {"live", "returned", "closing"}
Listed  == Running \cup {"done"}

Unknown == [d \in RunDevices |-> "unknown"]
Unread  == [i \in Identities |-> "unknown"]

\* A pass: the clock it began with, the runs it still has to look at, the one
\* it is at with the identities left to read and what was found, and the
\* answers it already has.  doomed and missed are history: the runs lost for
\* good when the pass took its snapshot, and those a store error hid from it.
Resting == [pc |-> "rest", at |-> 0, todo |-> {}, run |-> "none", names |-> {},
            lost |-> "none", devices |-> Unknown, identities |-> Unread,
            doomed |-> {}, missed |-> {}]

StandingInit ==
  /\ revokedOnes = {} /\ disabled = {}
  /\ window = [d \in RunDevices |-> [until |-> 0, deactivated |-> FALSE]]
  /\ run = [k \in Runs |-> NoRun]
  /\ pass = Resting
  /\ time = 1 /\ errors = 0
  /\ lostEver = [k \in Runs |-> {}]

-----------------------------------------------------------------------------
(* Standing *)

Active(w, at) == w.until # 0 /\ at < w.until

\* The reasons for which run r has no standing, by store contents and a time.
Lost(r, rv, w, ds, at) ==
  {x \in Reasons :
     \/ x = "revoked" /\ r.device \in rv
     \/ x = "deactivated" /\ ~Active(w[r.device], at) /\ w[r.device].deactivated
     \/ x = "ended" /\ ~Active(w[r.device], at) /\ ~w[r.device].deactivated
     \/ x = "identity" /\ r.identities \cap ds # {}}

\* Every published run remembers what it has lost by now.
Remember ==
  lostEver' = [k \in Runs |->
    IF run[k].pc \in Running
    THEN lostEver[k] \cup Lost(run[k], revokedOnes', window', disabled', time')
    ELSE lostEver[k]]

\* Operators, through the CLI or the Web UI, and time.
Revoke(d) ==
  /\ d \notin revokedOnes /\ revokedOnes' = revokedOnes \cup {d}
  /\ UNCHANGED <<window, disabled, run, pass, time, errors>>
  /\ Remember

OpenWindow(d, length) ==
  /\ d \notin revokedOnes /\ time + length <= LastTime
  /\ window' = [window EXCEPT ![d] = [until |-> time + length, deactivated |-> FALSE]]
  /\ UNCHANGED <<revokedOnes, disabled, run, pass, time, errors>>
  /\ Remember

CloseWindow(d) ==
  /\ Active(window[d], time)
  /\ window' = [window EXCEPT ![d] = [until |-> time, deactivated |-> TRUE]]
  /\ UNCHANGED <<revokedOnes, disabled, run, pass, time, errors>>
  /\ Remember

DisableIdentity(i) ==
  /\ i \notin disabled /\ disabled' = disabled \cup {i}
  /\ UNCHANGED <<revokedOnes, window, run, pass, time, errors>>
  /\ Remember

TimePasses ==
  /\ time < LastTime /\ time' = time + 1
  /\ UNCHANGED <<store, run, pass, errors>>
  /\ Remember

-----------------------------------------------------------------------------
(* Requests and executions *)

Step(k, r) ==
  /\ run' = [run EXCEPT ![k] = r]
  /\ UNCHANGED <<store, pass, time, errors>>

\* The request's proof is accepted: its device is not revoked.
Authenticate(k, d, I) ==
  /\ run[k].pc = "none" /\ d \notin revokedOnes
  /\ Step(k, [NoRun EXCEPT !.pc = "known", !.device = d, !.identities = I])
  /\ UNCHANGED lostEver

\* requireActive.
CheckActive(k) ==
  /\ run[k].pc = "known"
  /\ Step(k, IF Active(window[run[k].device], time)
             THEN [run[k] EXCEPT !.pc = "admitted"] ELSE NoRun)
  /\ UNCHANGED lostEver

\* startRun puts the run where passes see it, however long ago it was checked.
Publish(k) ==
  /\ run[k].pc = "admitted"
  /\ Step(k, [run[k] EXCEPT !.pc = "live"])
  /\ lostEver' = [lostEver EXCEPT ![k] = Lost(run[k], revokedOnes, window, disabled, time)]

\* runner.Run returns: the command ended, or its context did.
RunReturns(k) ==
  /\ run[k].pc = "live"
  /\ Step(k, [run[k] EXCEPT !.pc = "returned"])
  /\ UNCHANGED lostEver

\* execute asks stoppedFor once, then builds the final frame.
AskStopped(k) ==
  /\ run[k].pc = "returned"
  /\ Step(k, [run[k] EXCEPT !.pc = "closing",
                !.final = IF run[k].reason # "none" THEN "error" ELSE "outcome"])
  /\ UNCHANGED lostEver

Finish(k) ==
  /\ run[k].pc = "closing"
  /\ Step(k, [run[k] EXCEPT !.pc = "done", !.cancelled = FALSE])
  /\ lostEver' = [lostEver EXCEPT ![k] = {}]

EndRun(k) ==
  /\ run[k].pc = "done"
  /\ Step(k, [NoRun EXCEPT !.pc = "gone", !.device = run[k].device,
                           !.identities = run[k].identities])
  /\ UNCHANGED lostEver

-----------------------------------------------------------------------------
(* The pass *)

Pass(p) == pass' = p /\ UNCHANGED <<store, run, time, lostEver>>

\* The clock is read first, with nothing known yet.
StartPass ==
  /\ pass.pc = "rest"
  /\ Pass([pass EXCEPT !.pc = "snapshot", !.at = time])
  /\ UNCHANGED errors

\* What no operator can give back.
Doomed(k) == run[k].device \in revokedOnes \/ run[k].identities \cap disabled # {}

\* Then the live runs, under s.mu.
Snapshot ==
  /\ pass.pc = "snapshot"
  /\ LET live == {k \in Runs : run[k].pc \in Listed} IN
     Pass([pass EXCEPT !.pc = "pick", !.todo = live, !.missed = {},
                       !.doomed = {k \in live : Doomed(k)}])
  /\ UNCHANGED errors

EndPassKeepsAnswers ==
  /\ pass.pc = "pick" /\ pass.todo = {}
  /\ Pass([pass EXCEPT !.pc = "rest"])
  /\ UNCHANGED errors

\* The answers are the pass's own: they go with it.
EndPass ==
  /\ pass.pc = "pick" /\ pass.todo = {}
  /\ Pass(Resting)
  /\ UNCHANGED errors

\* The next run; its device may be answered already.
Pick(k) ==
  LET known == pass.devices[run[k].device] IN
  /\ pass.pc = "pick" /\ k \in pass.todo
  /\ Pass([pass EXCEPT !.pc = IF known = "unknown" THEN "device" ELSE "identities",
                       !.run = k, !.names = run[k].identities, !.lost = known])
  /\ UNCHANGED errors

\* What the pass makes of a device: an answer that later runs share.
DeviceAnswer(d, lost) ==
  [pass EXCEPT !.pc = "identities", !.lost = lost, !.devices[d] = lost]

\* deviceStanding reads the status first,
ReadDevice ==
  LET d == run[pass.run].device IN
  /\ pass.pc = "device"
  /\ Pass(IF d \in revokedOnes THEN DeviceAnswer(d, "revoked")
          ELSE [pass EXCEPT !.pc = "window"])
  /\ UNCHANGED errors

\* then the window, against the clock the pass began with.
ReadWindow ==
  LET d == run[pass.run].device IN
  /\ pass.pc = "window"
  /\ Pass(DeviceAnswer(d, IF Active(window[d], pass.at) THEN "none"
                          ELSE IF window[d].deactivated THEN "deactivated" ELSE "ended"))
  /\ UNCHANGED errors

\* A run the pass cannot judge is left alone, without an answer to share.
SkipRun == [pass EXCEPT !.pc = "pick", !.todo = @ \ {pass.run},
                        !.missed = @ \cup {pass.run}]

DeviceUnreadable ==
  /\ pass.pc \in {"device", "window"}
  /\ errors < MaxErrors /\ errors' = errors + 1
  /\ Pass(SkipRun)

\* One identity of the run, from an answer or from the store.
ReadIdentity(i) ==
  LET known  == pass.identities[i]
      status == IF known # "unknown" THEN known
                ELSE IF i \in disabled THEN "disabled" ELSE "active"
  IN
  /\ pass.pc = "identities" /\ pass.lost = "none" /\ i \in pass.names
  /\ Pass([pass EXCEPT !.names = @ \ {i}, !.identities[i] = status,
                       !.lost = IF status = "disabled" THEN "identity" ELSE "none"])
  /\ UNCHANGED errors

\* An identity that cannot be read stops nothing.
IdentityUnreadable(i) ==
  /\ pass.pc = "identities" /\ pass.lost = "none" /\ i \in pass.names
  /\ pass.identities[i] = "unknown"
  /\ errors < MaxErrors /\ errors' = errors + 1
  /\ Pass([pass EXCEPT !.names = @ \ {i}, !.missed = @ \cup {pass.run}])

StopRecordsOnly(r, lost) == [r EXCEPT !.reason = IF @ = "none" THEN lost ELSE @]

\* run.stop records the first reason, then cancels, unless the run is done.
Stop(r, lost) ==
  IF r.pc = "done" \/ r.pc = "gone" THEN r
  ELSE [r EXCEPT !.reason = IF @ = "none" THEN lost ELSE @, !.cancelled = TRUE]

Judge ==
  LET k == pass.run IN
  /\ pass.pc = "identities" /\ (pass.lost # "none" \/ pass.names = {})
  /\ pass' = [pass EXCEPT !.pc = "pick", !.todo = @ \ {k}]
  /\ run' = IF pass.lost = "none" THEN run
            ELSE [run EXCEPT ![k] = Stop(run[k], pass.lost)]
  /\ UNCHANGED <<store, time, errors, lostEver>>

PassStep ==
  \/ StartPass \/ Snapshot \/ EndPass
  \/ \E k \in Runs : Pick(k)
  \/ ReadDevice \/ ReadWindow \/ DeviceUnreadable
  \/ \E i \in Identities : ReadIdentity(i) \/ IdentityUnreadable(i)
  \/ Judge

OperatorStep ==
  \/ \E d \in RunDevices : \/ Revoke(d) \/ CloseWindow(d)
                           \/ \E n \in WindowLengths : OpenWindow(d, n)
  \/ \E i \in Identities : DisableIdentity(i)

Execution(k) == AskStopped(k) \/ Finish(k) \/ EndRun(k)

RequestStep(k) ==
  \/ \E d \in RunDevices, I \in SUBSET Identities : Authenticate(k, d, I)
  \/ CheckActive(k) \/ Publish(k) \/ RunReturns(k)

StandingNext ==
  \/ OperatorStep
  \/ TimePasses
  \/ \E k \in Runs : RequestStep(k) \/ Execution(k)
  \/ PassStep

StandingSpec == StandingInit /\ [][StandingNext]_standingVars

\* serve's ticker starts passes for ever; a cancelled command ends (SIGTERM,
\* then its connection closes) and its goroutine goes on to endRun.  A command
\* that nobody cancels may run on.
StandingFairSpec ==
  /\ StandingSpec
  /\ WF_standingVars(PassStep)
  /\ \A k \in Runs : /\ WF_standingVars(run[k].cancelled /\ RunReturns(k))
                     /\ WF_standingVars(Execution(k))
-----------------------------------------------------------------------------
(* Correctness *)

\* A run is stopped only for standing it really lost while it was published:
\* an answer from before it, or from another window, never stops it.
StopJustified ==
  \A k \in Runs :
    run[k].pc \in Running /\ run[k].reason # "none" => run[k].reason \in lostEver[k]

Over(k) == run[k].pc \in {"done", "gone"}

\* One pass is enough: it stops every run that was live and lost for good
\* when the pass looked, unless the store failed on that very run, whatever
\* happened to the other runs on the way (standing.go:39, :57).
PassStopsTheLost ==
  \A k \in pass.doomed \ (pass.todo \cup pass.missed) :
    run[k].reason # "none" \/ Over(k)

\* A pass stops the runs that lost their standing, whatever the store refuses
\* on other runs, and only those (standing.go, CancelRunsWithoutStanding).
StandingEnforced == StopJustified /\ PassStopsTheLost

\* However late a run was published after its request was checked, it ends
\* once its device or one of its identities is lost for good.
LostRunsEnd ==
  \A k \in Runs : run[k].pc = "live" /\ Doomed(k) ~> Over(k)
===============================================================================

------------------------------- MODULE PlanRun -------------------------------
(***************************************************************************)
(* `plan run`, `plan resume` and `plan execution` over one saved           *)
(* execution: cmd/agentssh/plan_run.go and execution_workflow.go, with the *)
(* payloads its steps read (PayloadStore) and the approval plans it        *)
(* submits. A process works on its own copy of the snapshot, `mem`, and    *)
(* saves it between the things it does; a step of the model is what lies   *)
(* between two of its saves, pins or remote commands, so a process can die *)
(* between any two; a machine that loses its power may lose what was not   *)
(* synced, which is everything but the snapshot and the payload data.      *)
(* Whether commands are authorized at some moment is the approval store's  *)
(* matter (module Approval): here the answers are free.                    *)
(***************************************************************************)
EXTENDS PayloadStore

CONSTANTS
    Procs,        \* processes of the agentssh command
    NSteps,       \* the execution has steps 1..NSteps
    Continuing,   \* the steps with phase verify and on_failure continue
    Input,        \* the payload each step sends, or NoInput
    NoInput,
    Exec,         \* the ID of the execution, px_...
    Plans,        \* the IDs of the approval plans it may submit, pl_...
    NoPlan

Steps == 1..NSteps

ASSUME PlanAssumption ==
    /\ NSteps \in Nat
    /\ Input \in [Steps -> Objects \cup {NoInput}]

\* The prefixes px_ and pl_ tell executions from plans.
ASSUME NamesAssumption ==
    /\ Plans \cup {Exec} \subseteq Owners
    /\ Exec \notin Plans /\ NoPlan \notin Plans

StepStates == {"not_started", "running", "completed", "failed", "failed_continued", "unknown"}
PlanStates == {"none", "pending", "approved", "denied", "expired", "gone"}
Statuses == {"none", "ready", "pending", "running", "completed", "failed", "denied", "expired", "unknown"}

VARIABLES
    disk,         \* the snapshot file, as every process reads it
    durable,      \* the snapshot a machine crash leaves
    plan,         \* each approval plan: none, pending, approved, denied, expired, and
                  \* gone when its manifest is lost
    mem,          \* the snapshot in the memory of each process
    pc,           \* where each process is
    starts,       \* how often the remote command of each step was started
    forced,       \* the payloads an operator removed by force
    refused,      \* history: the execution was found denied
    down,         \* the machine has stopped
    struck,       \* history: the payloads that a loss of power changed
    look          \* `plan execution`: nothing read, running read, or told unknown then

vars == <<storeVars, unsynced, disk, durable, plan, mem, pc, starts, forced,
          refused, struck, down, look>>

\* The saved execution: planExecution without what only a reader looks at.
Snapshots == [status : Statuses, steps : [Steps -> StepStates],
              plan : Plans \cup {NoPlan}, refs : SUBSET Objects]

NoRun == [status |-> "none", steps |-> [s \in Steps |-> "not_started"],
          plan |-> NoPlan, refs |-> {}]

\* Outside these places a process holds the lock of the execution.
Outside == {"idle", "prepare", "abandon"}
LockFree == \A p \in Procs : pc[p] \in Outside

RunPlaces == Outside \cup {"loaded", "consult", "submit", "wait", "run",
                          "started", "executing", "release"}

TypeOK ==
    /\ StoreTypeOK /\ unsynced \in Unsynced
    /\ {disk, durable} \subseteq Snapshots
    /\ plan \in [Plans -> PlanStates]
    /\ mem \in [Procs -> Snapshots]
    /\ pc \in [Procs -> RunPlaces]
    /\ starts \in [Steps -> Nat]
    /\ forced \subseteq Objects /\ refused \in BOOLEAN /\ struck \subseteq Objects
    /\ down \in BOOLEAN
    /\ look \in {"none", "read", "unknown"}

Init ==
    /\ StoreInit
    /\ disk = NoRun /\ durable = NoRun
    /\ plan = [pl \in Plans |-> "none"]
    /\ mem = [p \in Procs |-> NoRun]
    /\ pc = [p \in Procs |-> "idle"]
    /\ starts = [s \in Steps |-> 0]
    /\ forced = {}
    /\ refused = FALSE /\ struck = {} /\ down = FALSE
    /\ look = "none"

-----------------------------------------------------------------------------
Over(st) == st \in {"completed", "failed_continued"}
Remaining(m) == {s \in Steps : ~ Over(m.steps[s])}
Inputs(S) == {Input[s] : s \in S} \ {NoInput}
Readable(S) == \A o \in Inputs(S) : Retained(o)

\* hasVerificationFailure decides how an execution without further steps ends.
Ended(m) ==
    [m EXCEPT !.status =
        IF \E s \in Steps : m.steps[s] = "failed_continued" THEN "failed" ELSE "completed"]

Goto(p, place) == pc' = [pc EXCEPT ![p] = place]
Memory(p, m) == mem' = [mem EXCEPT ![p] = m]
Leave(p) == Goto(p, "idle") /\ Memory(p, NoRun)

\* For comparison, a file that is renamed into place and not synced.
SaveRenamed(m) == disk' = m /\ durable' = durable

\* saveExecution renames a new file into place, then syncs it and its directory.
Save(m) == disk' = m /\ durable' = m

SaveAt(p, m, place) ==
    Save(m) /\ Goto(p, place) /\ Memory(p, IF place = "idle" THEN NoRun ELSE m)

SavedVars == <<disk, durable>>
Elsewhere == <<starts, forced, refused, struck, down, look>>

-----------------------------------------------------------------------------
(* Creating an execution: its inputs are pinned under its ID one by one,   *)
(* then its snapshot is saved, under its lock.                              *)

BeginCreate(p) ==
    /\ pc[p] = "idle"
    /\ disk.status = "none"
    /\ \A q \in Procs : pc[q] = "idle"           \* another run has another ID
    /\ Goto(p, "prepare")
    /\ Memory(p, [NoRun EXCEPT !.status = "ready"])
    /\ UNCHANGED <<storeVars, SavedVars, plan, Elsewhere>>

\* A payload_ref is pinned where it is; a stdin_file is put and pinned.
PinInput(p, o) ==
    /\ pc[p] = "prepare"
    /\ o \in Inputs(Steps) \ mem[p].refs
    /\ Pin(o, Exec) \/ \E r \in Retentions : PutAndPin(o, r, Exec)
    /\ Memory(p, [mem[p] EXCEPT !.refs = @ \cup {o}])
    /\ UNCHANGED <<pc, SavedVars, plan, Elsewhere>>

CreateSnapshot(p) ==
    /\ pc[p] = "prepare"
    /\ mem[p].refs = Inputs(Steps)
    /\ SaveAt(p, mem[p], "loaded")
    /\ UNCHANGED <<storeVars, plan, Elsewhere>>

\* An input that is not retained, does not fit or cannot be saved: the pins go.
PrepareFails(p) ==
    /\ pc[p] = "prepare"
    /\ Goto(p, "abandon")
    /\ UNCHANGED <<storeVars, SavedVars, plan, mem, Elsewhere>>

AbandonPin(p, o) ==
    /\ pc[p] = "abandon"
    /\ o \in mem[p].refs
    /\ Unpin(o, Exec)
    /\ Memory(p, [mem[p] EXCEPT !.refs = @ \ {o}])
    /\ UNCHANGED <<pc, SavedVars, plan, Elsewhere>>

Abandoned(p) ==
    /\ pc[p] = "abandon"
    /\ mem[p].refs = {}
    /\ Leave(p)
    /\ UNCHANGED <<storeVars, SavedVars, plan, Elsewhere>>

-----------------------------------------------------------------------------
(* Resuming: the snapshot is read under the lock; a step that is still      *)
(* running in it belongs to a process that died.                            *)

Resume(p) ==
    /\ pc[p] = "idle"
    /\ disk.status # "none"
    /\ LockFree
    /\ Goto(p, "loaded")
    /\ Memory(p, disk)
    /\ UNCHANGED <<storeVars, SavedVars, plan, Elsewhere>>

MarkUnknown(p, s) ==
    /\ pc[p] = "loaded"
    /\ mem[p].steps[s] = "running"
    /\ SaveAt(p, [mem[p] EXCEPT !.steps[s] = "unknown", !.status = "unknown"], "loaded")
    /\ UNCHANGED <<storeVars, plan, Elsewhere>>

Checked(p) == \A s \in Steps : mem[p].steps[s] # "running"
Resumable(m) == m.status \notin {"completed", "failed", "unknown", "denied"}

\* A final status, a step that can never start, or an input that is gone.
Refuse(p) ==
    /\ pc[p] = "loaded" /\ Checked(p)
    /\ \/ ~ Resumable(mem[p])
       \/ \E s \in Remaining(mem[p]) : mem[p].steps[s] # "not_started"
       \/ ~ Readable(Remaining(mem[p]))
    /\ Leave(p)
    /\ UNCHANGED <<storeVars, SavedVars, plan, Elsewhere>>

NothingLeft(p) ==
    /\ pc[p] = "loaded" /\ Checked(p) /\ Resumable(mem[p])
    /\ Remaining(mem[p]) = {}
    /\ Memory(p, Ended(mem[p]))
    /\ Goto(p, "release")
    /\ UNCHANGED <<storeVars, SavedVars, plan, Elsewhere>>

StepsLeft(p) ==
    /\ pc[p] = "loaded" /\ Checked(p) /\ Resumable(mem[p])
    /\ Remaining(mem[p]) # {}
    /\ \A s \in Remaining(mem[p]) : mem[p].steps[s] = "not_started"
    /\ Readable(Remaining(mem[p]))
    /\ \/ Goto(p, IF mem[p].plan = NoPlan THEN "submit" ELSE "consult")
          /\ UNCHANGED <<SavedVars, mem>>
       \/ \* the plan is kept by the other approval store, before or after joining a gateway
          /\ mem[p].plan # NoPlan
          /\ SaveAt(p, [mem[p] EXCEPT !.plan = NoPlan,
                           !.status = IF @ \in {"pending", "expired"} THEN "ready" ELSE @], "submit")
    /\ UNCHANGED <<storeVars, plan, Elsewhere>>

-----------------------------------------------------------------------------
(* The approval of the remaining steps.                                     *)

\* The plan was denied, or the policy denies a command of an approved one.
Denied(p) ==
    /\ pc[p] \in {"consult", "wait"}
    /\ plan[mem[p].plan] \in {"denied", "approved"}
    /\ Memory(p, [mem[p] EXCEPT !.status = "denied"])
    /\ Goto(p, "release")
    /\ refused' = TRUE
    /\ UNCHANGED <<storeVars, SavedVars, plan, starts, forced, struck, down, look>>

ConsultExpired(p) ==
    /\ pc[p] = "consult"
    /\ plan[mem[p].plan] = "expired"
    /\ SaveAt(p, [mem[p] EXCEPT !.plan = NoPlan, !.status = "expired"], "submit")
    /\ UNCHANGED <<storeVars, plan, Elsewhere>>

\* Without --wait-approval a pending plan ends the process.
ConsultPending(p) ==
    /\ pc[p] = "consult"
    /\ plan[mem[p].plan] = "pending"
    /\ \E place \in {"wait", "idle"} : SaveAt(p, [mem[p] EXCEPT !.status = "pending"], place)
    /\ UNCHANGED <<storeVars, plan, Elsewhere>>

\* The manifest of the plan is not found.
ConsultGone(p) ==
    /\ pc[p] = "consult"
    /\ plan[mem[p].plan] = "gone"
    /\ Leave(p)
    /\ UNCHANGED <<storeVars, SavedVars, plan, Elsewhere>>

\* The grants of an approved plan are there; or appear within a moment (status
\* ready); or the policy denies a command. A snapshot that was pending is
\* waited for once more when --wait-approval is given.
ConsultApproved(p) ==
    /\ pc[p] = "consult"
    /\ plan[mem[p].plan] = "approved"
    /\ LET m == mem[p] IN
       \/ Goto(p, IF m.status = "expired" THEN "submit" ELSE "run") /\ UNCHANGED mem
       \/ m.status = "pending" /\ Goto(p, "wait") /\ UNCHANGED mem
       \/ Memory(p, [m EXCEPT !.status = "ready"]) /\ Goto(p, "run")
       \/ Leave(p)
    /\ UNCHANGED <<storeVars, SavedVars, plan, Elsewhere>>

\* The grants of an approved plan are used up or gone: a new round.
ConsultSpent(p) ==
    /\ pc[p] = "consult"
    /\ plan[mem[p].plan] = "approved"
    /\ SaveAt(p, [mem[p] EXCEPT !.plan = NoPlan, !.status = "ready"], "submit")
    /\ UNCHANGED <<storeVars, plan, Elsewhere>>

\* Everything is authorized already: no plan is made.
SubmitAllowed(p) ==
    /\ pc[p] = "submit"
    /\ Goto(p, "run")
    /\ UNCHANGED <<storeVars, SavedVars, plan, mem, Elsewhere>>

\* The payloads of a submitted plan are pinned under its ID as well.
PinForPlan(p, pl) ==
    /\ Readable(Remaining(mem[p]))
    /\ pins' = [o \in Objects |->
                  IF o \in Inputs(Remaining(mem[p])) THEN pins[o] \cup {pl} ELSE pins[o]]
    /\ plan' = [plan EXCEPT ![pl] = "pending"]

\* Some command needs approval; one that is denied beside it denies them all.
SubmitPending(p, pl) ==
    /\ pc[p] = "submit"
    /\ plan[pl] = "none"
    /\ PinForPlan(p, pl)
    /\ \/ \E place \in {"wait", "idle"} :
             SaveAt(p, [mem[p] EXCEPT !.plan = pl, !.status = "pending"], place)
       \/ SaveAt(p, [mem[p] EXCEPT !.plan = pl, !.status = "denied"], "release")
    /\ UNCHANGED <<content, meta, litter, now, deaths, Elsewhere>>

SubmitDenied(p) ==
    /\ pc[p] = "submit"
    /\ SaveAt(p, [mem[p] EXCEPT !.status = "denied"], "release")
    /\ UNCHANGED <<storeVars, plan, Elsewhere>>

\* The manifest is published and the submission still fails, so that its pins
\* are given back; or the process dies there and they stay.
SubmitFails(p, pl) ==
    /\ pc[p] = "submit"
    /\ plan[pl] = "none"
    /\ \/ plan' = [plan EXCEPT ![pl] = "pending"] /\ UNCHANGED <<pins, deaths>>
       \/ UNCHANGED <<plan, pins, deaths>>
       \/ Death /\ PinForPlan(p, pl)
    /\ Leave(p)
    /\ UNCHANGED <<content, meta, litter, now, SavedVars, Elsewhere>>

\* waitPlanReady: the verdict, or the end of the time; approved needs the
\* grants as well, and the policy may deny what was approved.
Wait(p) ==
    /\ pc[p] = "wait"
    /\ LET verdict == plan[mem[p].plan] IN
       \/ verdict = "approved" /\ Goto(p, "run") /\ UNCHANGED <<mem, SavedVars>>
       \/ verdict = "expired" /\ SaveAt(p, [mem[p] EXCEPT !.status = "expired"], "idle")
       \/ verdict \notin {"denied", "expired"} /\ Leave(p) /\ UNCHANGED SavedVars
    /\ UNCHANGED <<storeVars, plan, Elsewhere>>

-----------------------------------------------------------------------------
(* The loop over the steps.                                                 *)

FirstOf(m) == CHOOSE s \in Remaining(m) : \A t \in Remaining(m) : s <= t

Interrupted(p) ==
    /\ pc[p] = "run"
    /\ Remaining(mem[p]) # {}
    /\ SaveAt(p, [mem[p] EXCEPT !.status = "ready"], "idle")
    /\ UNCHANGED <<storeVars, plan, Elsewhere>>

InputGone(p) ==
    /\ pc[p] = "run"
    /\ Remaining(mem[p]) # {}
    /\ ~ Readable({FirstOf(mem[p])})
    /\ Leave(p)
    /\ UNCHANGED <<storeVars, SavedVars, plan, Elsewhere>>

\* The running checkpoint, before anything is sent.
StartStep(p) ==
    /\ pc[p] = "run"
    /\ Remaining(mem[p]) # {}
    /\ Readable({FirstOf(mem[p])})
    /\ SaveAt(p, [mem[p] EXCEPT !.steps[FirstOf(mem[p])] = "running", !.status = "running"], "started")
    /\ UNCHANGED <<storeVars, plan, Elsewhere>>

Running(m) == CHOOSE s \in Steps : m.steps[s] = "running"

Execute(p) ==
    /\ pc[p] = "started"
    /\ starts' = [starts EXCEPT ![Running(mem[p])] = @ + 1]
    /\ Goto(p, "executing")
    /\ UNCHANGED <<storeVars, SavedVars, plan, mem, forced, refused, struck, down, look>>

\* What the row of the step makes of the step and of the execution.
Recorded(m, s, row) ==
    CASE row = "completed" -> [m EXCEPT !.steps[s] = "completed"]
      [] row = "failed" ->
           [m EXCEPT !.steps[s] = IF s \in Continuing THEN "failed_continued" ELSE "failed",
                     !.status = "failed"]
      [] row = "approval_pending" -> [m EXCEPT !.steps[s] = "not_started", !.status = "pending"]
      [] row = "denied" -> [m EXCEPT !.steps[s] = "not_started", !.status = "denied"]
      [] OTHER -> [m EXCEPT !.steps[s] = "unknown", !.status = "unknown"]

Record(p, rows) ==
    \E row \in rows :
        LET s == Running(mem[p])
            m == Recorded(mem[p], s, row)
        IN SaveAt(p, m, CASE Over(m.steps[s]) -> "run"
                          [] m.status \in {"failed", "denied"} -> "release"
                          [] OTHER -> "idle")

\* A command that ran, and one that was not let run or of which nothing is known.
RecordResult(p) ==
    /\ \/ pc[p] = "executing" /\ Record(p, {"completed", "failed", "unknown"})
       \/ pc[p] = "started" /\ Record(p, {"approval_pending", "denied", "unknown"})
    /\ UNCHANGED <<storeVars, plan, Elsewhere>>

EndRun(p) ==
    /\ pc[p] = "run"
    /\ Remaining(mem[p]) = {}
    /\ Memory(p, Ended(mem[p]))
    /\ Goto(p, "release")
    /\ UNCHANGED <<storeVars, SavedVars, plan, Elsewhere>>

\* releaseExecutionPayloadPins, and the save that follows it everywhere.
ReleasePin(p, o) ==
    /\ pc[p] = "release"
    /\ o \in mem[p].refs /\ Exec \in pins[o]
    /\ Unpin(o, Exec)
    /\ UNCHANGED <<pc, mem, SavedVars, plan, Elsewhere>>

Released(p) ==
    /\ pc[p] = "release"
    /\ \A o \in mem[p].refs : Exec \notin pins[o]
    /\ SaveAt(p, [mem[p] EXCEPT !.refs = {}], "idle")
    /\ UNCHANGED <<storeVars, plan, Elsewhere>>

-----------------------------------------------------------------------------
\* A process dies, or returns the error of a write that failed.
Die(p) ==
    /\ pc[p] # "idle"
    /\ Death
    /\ Leave(p)
    /\ UNCHANGED <<content, meta, pins, litter, now, SavedVars, plan, Elsewhere>>

\* What a loss of power may leave of a plan, none of whose files is synced: its
\* members undecided again or lost (expired), its manifest lost, or a decision
\* back that was reaped. (Which one that was is not kept.)
MayBe(pl) ==
    CASE plan[pl] = "none" -> {"none"}
      [] plan[pl] = "expired" -> PlanStates \ {"none"}
      [] OTHER -> {plan[pl], "pending", "expired", "gone"}

\* The machine stops, and its processes with it.
MachineCrash ==
    /\ ~ down /\ down' = TRUE
    /\ Death
    /\ disk' = durable
    /\ pc' = [p \in Procs |-> "idle"]
    /\ mem' = [p \in Procs |-> NoRun]
    /\ look' = "none"
    /\ UNCHANGED <<content, meta, pins, litter, now, unsynced, durable, plan, starts,
                   forced, refused, struck>>

\* It starts again, with the files it has then.
Boot ==
    /\ down /\ down' = FALSE
    /\ PowerLoss
    /\ plan' \in {f \in [Plans -> PlanStates] : \A pl \in Plans : f[pl] \in MayBe(pl)}
    /\ struck' = struck \cup {o \in Objects : \/ o \in content \ content'
                                             \/ Exec \in Changed(pins[o], pins'[o])}
    /\ UNCHANGED <<deaths, SavedVars, mem, pc, starts, forced, refused, look>>

\* `plan execution` reads the snapshot first and asks for a live owner then.
\* (A snapshot that is not running is told as it is; that it is running where a
\* process holds the lock is true then, and nothing is kept of it.)
ReadStatus ==
    /\ look = "none"
    /\ disk.status = "running"
    /\ look' = "read"
    /\ UNCHANGED <<storeVars, SavedVars, plan, mem, pc, starts, forced, refused, struck, down>>

TellStatus ==
    /\ look = "read"
    /\ look' = IF LockFree THEN "unknown" ELSE "none"
    /\ UNCHANGED <<storeVars, SavedVars, plan, mem, pc, starts, forced, refused, struck, down>>

\* Operators decide the members of a plan; decided members are reaped later. An
\* ID that nothing refers to any more serves as that of the next plan.
PlanChanges(pl) ==
    /\ \/ plan[pl] = "pending" /\ plan' = [plan EXCEPT ![pl] = "approved"]
       \/ plan[pl] = "pending" /\ plan' = [plan EXCEPT ![pl] = "denied"]
       \/ plan[pl] \in {"approved", "denied"} /\ plan' = [plan EXCEPT ![pl] = "expired"]
       \/ /\ plan[pl] \in {"expired", "gone"}
          /\ \A m \in {disk} \cup {mem[p] : p \in Procs} : m.plan # pl
          /\ \A o \in Objects : pl \notin pins[o]
          /\ plan' = [plan EXCEPT ![pl] = "none"]
    /\ UNCHANGED <<storeVars, SavedVars, mem, pc, Elsewhere>>

\* Whoever sees a plan decided (plan status, wait, the decision, the TUI and
\* payload gc) gives its pins back.
UnpinPlan(pl, o) ==
    /\ plan[pl] \notin {"none", "pending", "gone"}
    /\ pl \in pins[o]
    /\ Unpin(o, pl)
    /\ UNCHANGED <<SavedVars, plan, mem, pc, Elsewhere>>

Payloads ==
    /\ StoreNext
    /\ UNCHANGED <<SavedVars, plan, mem, pc, Elsewhere>>

PayloadForced(o) ==
    /\ ForcedRemoval(o)
    /\ forced' = forced \cup {o}
    /\ UNCHANGED <<SavedVars, plan, mem, pc, starts, refused, struck, down, look>>

Process(p) ==
    \/ BeginCreate(p) \/ CreateSnapshot(p) \/ PrepareFails(p) \/ Abandoned(p)
    \/ \E o \in Objects : PinInput(p, o) \/ AbandonPin(p, o) \/ ReleasePin(p, o)
    \/ Resume(p) \/ Refuse(p) \/ NothingLeft(p) \/ StepsLeft(p)
    \/ \E s \in Steps : MarkUnknown(p, s)
    \/ Denied(p) \/ ConsultExpired(p) \/ ConsultPending(p) \/ ConsultApproved(p)
    \/ ConsultGone(p) \/ ConsultSpent(p) \/ SubmitAllowed(p) \/ SubmitDenied(p) \/ Wait(p)
    \/ \E pl \in Plans : SubmitPending(p, pl) \/ SubmitFails(p, pl)
    \/ Interrupted(p) \/ InputGone(p) \/ StartStep(p) \/ Execute(p)
    \/ RecordResult(p) \/ EndRun(p) \/ Released(p) \/ Die(p)

Steady ==
    \/ \E p \in Procs : Process(p)
    \/ ReadStatus \/ TellStatus \/ Payloads
    \/ \E o \in Objects : PayloadForced(o)
    \/ \E pl \in Plans : PlanChanges(pl) \/ \E o \in Objects : UnpinPlan(pl, o)

Next ==
    \/ ~ down /\ Steady /\ Tracked
    \/ MachineCrash \/ Boot

Spec == Init /\ [][Next]_vars
-----------------------------------------------------------------------------
(* Properties.                                                              *)

\* The remote command of a step is started at most once, whatever dies and
\* however often the execution is resumed: a checkpoint that says running is on
\* disk before the command is sent (saveExecution) and turns unknown on resume.
StartedOnce == \A s \in Steps : starts[s] <= 1

\* While an execution can go on, the payloads of its steps to come are pinned
\* and there, through expiry, garbage collection, removals and the ends of its
\* approval plans. Only a forced removal or a denial found gives them up, and a
\* loss of power that changes the files of a payload.
InputsKept ==
    (disk.status # "none" /\ Resumable(disk) /\ ~ refused) =>
        \A o \in Inputs(Remaining(disk)) \ (forced \cup struck) : Retained(o) /\ Exec \in pins[o]

\* An execution that completed has given back every pin it took, but for what a
\* loss of power brought back.
CompletedUnpinned ==
    disk.status = "completed" => \A o \in Objects \ struck : Exec \notin pins[o]

\* The pins of an execution are there exactly as long as it needs them: none
\* goes early, however its payloads expire or are collected, and none stays
\* (payload/store.go, GC and Remove; plan_run.go, executeSavedPlan).
PinsWhileNeeded == InputsKept /\ CompletedUnpinned

\* "a running checkpoint has no active owner; inspect before retry"
\* (execution_workflow.go): an execution told to be unknown is unknown, or its
\* snapshot says running and its process is gone.
UnknownIsUnknown == look = "unknown" => disk.status \in {"unknown", "running"}
=============================================================================

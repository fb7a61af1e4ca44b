--------------------------- MODULE DevicePlans ---------------------------
(***************************************************************************)
(* The plans of managed devices on the gateway (gateway/approvals.go, with *)
(* runner/plan.go and approval/plan.go under it).  A device submits a plan *)
(* under an ID it made up: the gateway checks that no other device holds   *)
(* the ID, that the plan fits under the cap on waiting requests, creates   *)
(* one request per command that needs approval and lists them in a         *)
(* manifest.  An operator decides a plan by its ID alone, from the command *)
(* line or the web pages; the device is looked up by scanning them all.    *)
(*                                                                         *)
(* Each device has its own directories.  The scans of other devices'       *)
(* directories hold no lock; a mutex per device keeps its submissions      *)
(* apart, but not its runs, which create requests of the same kind.        *)
(* Verdicts and scopes are left out: a request waits or is decided.        *)
(***************************************************************************)
EXTENDS Naturals, FiniteSets, Sequences

CONSTANTS
    Directories,  \* the devices, as numbers in the order deviceIDs sorts them
    NoDevice,
    PlanIDs,
    Requests,     \* the requests, before they get a device and a command
    Commands,     \* what runs ask for; a command stands for all that tells
                  \* requests apart: session, host, command and stdin
    CommandLists, \* the plans devices submit, in the order of their lines
    Submissions,  \* plan submissions under way at once
    Deciders,     \* decisions under way at once
    MaxPendingApprovals  \* Server.MaxPendingApprovals, at least one

ASSUME PlansAssumption ==
    /\ NoDevice \notin Directories /\ Directories \subseteq Nat
    /\ "none" \notin Requests /\ IsFiniteSet(Requests)
    /\ \A l \in CommandLists : l \in Seq({l[i] : i \in DOMAIN l})
    /\ MaxPendingApprovals \in Nat \ {0}

VARIABLES
    asked,        \* the requests on disk, with their device
    manifest,     \* per device and plan ID, the members, or NoPlan
    submission,   \* the submissions' handlers
    decision      \* the operators' decisions

planVars == <<asked, manifest, submission, decision>>

NoPlan == {"none"}
NotAsked == [status |-> "none"]
IdleSubmission == [at |-> "idle"]
IdleDecision == [at |-> "idle"]

PlansInit ==
    /\ asked = [r \in Requests |-> NotAsked]
    /\ manifest = [d \in Directories |-> [p \in PlanIDs |-> NoPlan]]
    /\ submission = [s \in Submissions |-> IdleSubmission]
    /\ decision = [o \in Deciders |-> IdleDecision]

-----------------------------------------------------------------------------
(* The stores of one device. *)

Waiting(d) == {r \in Requests : asked[r].status = "pending" /\ asked[r].device = d}

HoldsPlan(d, p) == manifest[d][p] # NoPlan

PendingMembers(d, p) == manifest[d][p] \intersect Waiting(d)

Waitless(d) == {p \in PlanIDs : HoldsPlan(d, p) /\ PendingMembers(d, p) = {}}

PendingPlans(d) == {p \in PlanIDs : HoldsPlan(d, p) /\ PendingMembers(d, p) # {}}

\* The waiting request for a command, which another one would only repeat.
Unresolved(d, c) == {r \in Waiting(d) : asked[r].command = c}

\* IDs of requests are random: none is used while a file names it.
Unused == {r \in Requests :
    /\ asked[r] = NotAsked
    /\ \A d \in Directories, p \in PlanIDs : r \notin manifest[d][p]
    /\ \A s \in Submissions : submission[s].at = "creating" => r \notin submission[s].members
    /\ \A o \in Deciders : decision[o].at = "applying" => r \notin decision[o].todo}

\* PendingStore.Create first reaps what was decided a day ago: any of it, ages
\* being left out.  Then, under the lock of the directory, it finds, refuses
\* or publishes the request: what it answers, and the directory it leaves.
Create(d, c) ==
    LET decided == {r \in Requests : asked[r].status = "decided" /\ asked[r].device = d}
        Reaped(old) == [r \in Requests |-> IF r \in old THEN NotAsked ELSE asked[r]]
        wanted == [status |-> "pending", device |-> d, command |-> c]
        full == Cardinality(Waiting(d)) >= MaxPendingApprovals
    IN IF Unresolved(d, c) # {} \/ full
       THEN {[got |-> Unresolved(d, c), fresh |-> FALSE, left |-> Reaped(old)] :
                old \in SUBSET decided}
       ELSE {[got |-> {r}, fresh |-> TRUE, left |-> [Reaped(old) EXCEPT ![r] = wanted]] :
                r \in Unused, old \in SUBSET decided}

-----------------------------------------------------------------------------
(* A plan is submitted: handlePlanSubmit and SubmitPlan.                   *)
(*   at          "scanning" (planIDTaken), "creating", and how it ended:   *)
(*               "submitted", "stopped" by the cap on requests, "unlisted" *)
(*               when the manifest was refused; back to "idle" when it was *)
(*               refused before, or had nothing to decide                  *)
(*   unscanned   the other devices still to look at                        *)
(*   todo        the commands still to authorize                           *)
(*   members     their requests so far                                     *)
(*   meanwhile   a run of the device published a request after the count   *)
(*   rivals      the others that held the ID from the start, all along     *)

\* A lookup left out.
NoOthers(d) == {}

OtherDevices(d) == Directories \ {d}

HandlePlanSubmit(s, d, p, commands) ==
    /\ submission[s].at = "idle"
    /\ submission' = [submission EXCEPT ![s] =
           [at |-> "scanning", device |-> d, plan |-> p, unscanned |-> OtherDevices(d),
            todo |-> commands, members |-> {}, meanwhile |-> FALSE,
            rivals |-> {e \in Directories \ {d} : HoldsPlan(e, p)}]]
    /\ UNCHANGED <<asked, manifest, decision>>

Smallest(S) == CHOOSE d \in S : \A e \in S : d <= e

PlanIDTaken(s) ==
    LET me == submission[s] IN
    /\ me.at = "scanning" /\ me.unscanned # {}
    /\ submission' = [submission EXCEPT ![s] =
           IF HoldsPlan(Smallest(me.unscanned), me.plan)
           THEN IdleSubmission
           ELSE [me EXCEPT !.unscanned = @ \ {Smallest(me.unscanned)}]]
    /\ UNCHANGED <<asked, manifest, decision>>

\* A submission that shares the directories with the device's others.
EntersAnyway(d) == TRUE

\* Server.submits: one submission of a device at a time from here on.
Enters(d) == \A s \in Submissions : submission[s].at = "creating" => submission[s].device # d

\* The plan must fit beside what waits already, or nothing is created.
FitsOrBusy(s) ==
    LET me == submission[s] IN
    /\ me.at = "scanning" /\ me.unscanned = {}
    /\ Enters(me.device)
    /\ submission' = [submission EXCEPT ![s] =
           IF Cardinality(Waiting(me.device)) + Len(me.todo) > MaxPendingApprovals
           THEN IdleSubmission ELSE [me EXCEPT !.at = "creating"]]
    /\ UNCHANGED <<asked, manifest, decision>>

\* The policy or a grant allows the command, or the policy denies it for good.
SettledCommand(s) ==
    /\ submission[s].at = "creating" /\ submission[s].todo # <<>>
    /\ submission' = [submission EXCEPT ![s].todo = Tail(@)]
    /\ UNCHANGED <<asked, manifest, decision>>

CreateRequest(s) ==
    LET me == submission[s] IN
    /\ me.at = "creating" /\ me.todo # <<>>
    /\ \E answer \in Create(me.device, Head(me.todo)) :
           /\ asked' = answer.left
           /\ submission' = [submission EXCEPT ![s] =
                  IF answer.got = {}
                  THEN [me EXCEPT !.at = "stopped"]
                  ELSE [me EXCEPT !.todo = Tail(@), !.members = @ \union answer.got]]
    /\ UNCHANGED <<manifest, decision>>

\* CreatePlan counts the device's plans that still wait, reaps old ones that
\* do not (any of them, ages being left out), and publishes the manifest,
\* exclusively: the device may have used the ID before.
Forgets(rec, field, d, old) ==
    IF rec.at # "idle" /\ rec.plan \in old THEN [rec EXCEPT ![field] = @ \ {d}] ELSE rec

CreatePlan(s) ==
    LET me == submission[s]
        d == me.device IN
    /\ me.at = "creating" /\ me.todo = <<>> /\ me.members # {}
    /\ \E old \in SUBSET Waitless(d) :
           LET left == [p \in PlanIDs |-> IF p \in old THEN NoPlan ELSE manifest[d][p]]
               full == Cardinality(PendingPlans(d)) >= MaxPendingApprovals
               refused == full \/ left[me.plan] # NoPlan
           IN /\ manifest' = [manifest EXCEPT ![d] =
                     IF refused THEN left ELSE [left EXCEPT ![me.plan] = me.members]]
              /\ submission' = [t \in Submissions |->
                     IF t = s
                     THEN [me EXCEPT !.at = IF refused THEN "unlisted" ELSE "submitted"]
                     ELSE Forgets(submission[t], "rivals", d, old)]
              /\ decision' = [o \in Deciders |-> Forgets(decision[o], "held", d, old)]
    /\ UNCHANGED asked

NothingToDecide(s) ==
    /\ submission[s].at = "creating"
    /\ submission[s].todo = <<>> /\ submission[s].members = {}
    /\ submission' = [submission EXCEPT ![s] = IdleSubmission]
    /\ UNCHANGED <<asked, manifest, decision>>

AnswerSubmission(s) ==
    /\ submission[s].at \in {"stopped", "unlisted", "submitted"}
    /\ submission' = [submission EXCEPT ![s] = IdleSubmission]
    /\ UNCHANGED <<asked, manifest, decision>>

\* A run of the device in the gray zone asks for its command, under no mutex.
GrayZoneRun(d, c) ==
    /\ \E answer \in Create(d, c) :
           /\ asked' = answer.left
           /\ submission' = [s \in Submissions |->
                  IF submission[s].at = "creating" /\ submission[s].device = d /\ answer.fresh
                  THEN [submission[s] EXCEPT !.meanwhile = TRUE] ELSE submission[s]]
    /\ UNCHANGED <<manifest, decision>>

-----------------------------------------------------------------------------
(* An operator decides: DecidePlan, findDevice and ApplyPlanDecision.      *)
(*   unscanned   the devices still to look at; match: the one found        *)
(*   todo        the members that waited when PlanStatus was read last     *)
(*   held        the devices that held the ID from the start, all along;   *)
(*               none when the operator named the device, on the command   *)
(*               line or in the web form                                   *)

DecidePlan(o, p, named) ==
    /\ decision[o].at = "idle"
    /\ decision' = [decision EXCEPT ![o] =
           [at |-> "scanning", plan |-> p, match |-> NoDevice, todo |-> {},
            unscanned |-> IF named = NoDevice THEN Directories ELSE {named},
            held |-> IF named = NoDevice THEN {d \in Directories : HoldsPlan(d, p)} ELSE {}]]
    /\ UNCHANGED <<asked, manifest, submission>>

Unmatched(match) == match = NoDevice

FindDevice(o) ==
    LET me == decision[o]
        d == Smallest(me.unscanned) IN
    /\ me.at = "scanning" /\ me.unscanned # {}
    /\ decision' = [decision EXCEPT ![o] =
           IF ~HoldsPlan(d, me.plan) THEN [me EXCEPT !.unscanned = @ \ {d}]
           ELSE IF Unmatched(me.match)
           THEN [me EXCEPT !.unscanned = @ \ {d}, !.match = d]
           ELSE IdleDecision]
    /\ UNCHANGED <<asked, manifest, submission>>

\* The match is read again and its waiting members listed; without one, or
\* when none waits, the decision is refused.
PlanStatus(o) ==
    LET me == decision[o] IN
    /\ me.at = "scanning" /\ me.unscanned = {}
    /\ decision' = [decision EXCEPT ![o] =
           IF /\ me.match # NoDevice /\ HoldsPlan(me.match, me.plan)
              /\ PendingMembers(me.match, me.plan) # {}
           THEN [me EXCEPT !.at = "applying", !.todo = PendingMembers(me.match, me.plan)]
           ELSE IdleDecision]
    /\ UNCHANGED <<asked, manifest, submission>>

\* One member after the other; one that another decision took is passed over,
\* an error ends the rest.
ApplyPlanDecision(o) ==
    LET me == decision[o] IN
    /\ me.at = "applying"
    /\ \/ \E r \in me.todo :
              /\ asked' = IF asked[r].status = "pending"
                            THEN [asked EXCEPT ![r].status = "decided"] ELSE asked
              /\ decision' = [decision EXCEPT ![o] =
                     IF me.todo = {r} THEN IdleDecision ELSE [me EXCEPT !.todo = @ \ {r}]]
       \/ /\ decision' = [decision EXCEPT ![o] = IdleDecision]
          /\ UNCHANGED asked
    /\ UNCHANGED <<manifest, submission>>

\* A request's ID is the gateway's own: no two devices hold it.
DecideApproval(r) ==
    /\ asked[r].status = "pending"
    /\ asked' = [asked EXCEPT ![r].status = "decided"]
    /\ UNCHANGED <<manifest, submission, decision>>

\* The gateway dies: its handlers are gone, the directories are as they were.
RestartGateway ==
    /\ submission' = [s \in Submissions |-> IdleSubmission]
    /\ decision' = [o \in Deciders |-> IdleDecision]
    /\ submission # submission' \/ decision # decision'
    /\ UNCHANGED <<asked, manifest>>

-----------------------------------------------------------------------------

PlansNext ==
    \/ \E s \in Submissions :
          \/ \E d \in Directories, p \in PlanIDs, commands \in CommandLists :
                 HandlePlanSubmit(s, d, p, commands)
          \/ PlanIDTaken(s) \/ FitsOrBusy(s) \/ SettledCommand(s) \/ CreateRequest(s)
          \/ CreatePlan(s) \/ NothingToDecide(s) \/ AnswerSubmission(s)
    \/ \E d \in Directories, c \in Commands : GrayZoneRun(d, c)
    \/ \E o \in Deciders :
          \/ \E p \in PlanIDs, named \in Directories \union {NoDevice} : DecidePlan(o, p, named)
          \/ FindDevice(o) \/ PlanStatus(o) \/ ApplyPlanDecision(o)
    \/ \E r \in Requests : DecideApproval(r)
    \/ RestartGateway

PlansSpec == PlansInit /\ [][PlansNext]_planVars

-----------------------------------------------------------------------------
(* What must hold. *)

PlansTypeOK ==
    /\ \A r \in Requests : asked[r] = NotAsked \/ asked[r] \in
           [status : {"pending", "decided"}, device : Directories,
            command : Commands \union UNION {{l[i] : i \in DOMAIN l} : l \in CommandLists}]
    /\ manifest \in [Directories -> [PlanIDs -> (SUBSET Requests) \union {NoPlan}]]

\* An ID belongs to the device that had it first: a plan submitted while
\* another device holds its ID is refused, so that a decision by that ID does
\* not become ambiguous for the device that came first.
IdHeldOnce == \A s \in Submissions :
    submission[s].at = "submitted" => submission[s].rivals = {}

\* A decision that names no device is applied to a plan only if no other
\* device held the ID all through the lookup (findDevice, ErrAmbiguousID).
DecisionNotSteered == \A o \in Deciders :
    decision[o].at = "applying" =>
        decision[o].held \subseteq {decision[o].match}

\* No plan takes an ID that another device holds, and no decision is applied to
\* one of two devices that hold its ID.
IdsUnambiguous == IdHeldOnce /\ DecisionNotSteered

\* A plan that was found to fit is stopped by the cap part way only when a run
\* of its device published a request after the count (handlePlanSubmit).
StoppedOnlyByRuns == \A s \in Submissions :
    submission[s].at = "stopped" => submission[s].meanwhile

=============================================================================

---------------------------- MODULE PolicyWriters ----------------------------
(***************************************************************************)
(* The processes that change one policy: the agentssh policy commands and  *)
(* the approvals for a host on a home of its own, and on the gateway the   *)
(* pushes of an administrator and the approvals for a host of a device.    *)
(*                                                                         *)
(* Each reads the policy, derives another one from it and stores that.     *)
(* policy.yaml is replaced whatever it holds by then; the gateway's        *)
(* configuration only when its version is the one that was read            *)
(* (controlplane.ReplaceConfig), except for a push, which derives nothing. *)
(***************************************************************************)
EXTENDS Policy

CONSTANTS
    Writers,
    FirstStored,   \* the policies at the start
    Pushed,        \* the policies an administrator pushes
    Rulings,      \* the rules commands add
    Overlays,      \* the policies of a device's own home
    LastRevision   \* bound on the changes of each kind of policy

VARIABLES
    versioned,     \* is it a gateway's configuration, or a policy.yaml?
    stored,        \* the policy
    revision,      \* its version: the changes so far
    work           \* what each writer has read and is about to do

writerVars == <<versioned, stored, revision, work>>

Idle == [edit |-> "none"]

(***************************************************************************)
(* The edits.                                                              *)
(***************************************************************************)

\* Bound on the place in its list of a rule a command names.
Places == 1..2

Grants == [edit : {"grant"}, host : Hosts, cmd : Commands]

\* The edits of the policy commands (main.go, runPolicy...).
RuleEdits == [edit : {"add rule"}, rule : Rulings]
               \union [edit : {"update rule", "remove rule"}, at : Places, rule : Rulings]
HostEdits == [edit : {"add host rule"}, host : Hosts, rule : Rulings]
               \union [edit : {"remove host rule", "clear host rules"}, host : Hosts, at : Places]
GroupEdits == [edit : {"create group", "delete group"}, group : Presets]
                \union [edit : {"remove group rule"}, group : Presets, at : Places]
                \union [edit : {"add group rule"}, group : Presets, rule : Rulings]
                \union [edit : {"stamp group", "remove host group"}, host : Hosts, group : Presets]

EditsOffered == IF versioned THEN Grants
                ELSE Grants \union RuleEdits \union HostEdits \union GroupEdits

\* What a writer makes of the policy it read.
Edited(pol, e) ==
    CASE e.edit = "grant" -> GrantHost(pol, e.host, {e.cmd})
      [] e.edit = "add rule" -> AddRule(pol, e.rule)
      [] e.edit = "update rule" -> UpdateRule(pol, e.at, e.rule)
      [] e.edit = "remove rule" -> RemoveRule(pol, e.at)
      [] e.edit = "add host rule" -> AddHostRule(pol, e.host, e.rule)
      [] e.edit = "remove host rule" -> RemoveHostRule(pol, e.host, e.at)
      [] e.edit = "clear host rules" -> ClearHostRules(pol, e.host)
      [] e.edit = "create group" -> CreateGroup(pol, e.group)
      [] e.edit = "delete group" -> DeleteGroup(pol, e.group)
      [] e.edit = "add group rule" -> AddGroupRule(pol, e.group, e.rule)
      [] e.edit = "remove group rule" -> RemoveGroupRule(pol, e.group, e.at)
      [] e.edit = "stamp group" -> StampGroupOntoHost(pol, e.host, e.group)
      [] e.edit = "remove host group" -> RemoveHostGroup(pol, e.host, e.group)

(***************************************************************************)
(* Reading and storing.                                                    *)
(***************************************************************************)

\* loadPolicyForWrite; loadEffective of a decision; decisionOptions.
Load(w, e) ==
    /\ work[w] = Idle
    /\ work' = [work EXCEPT ![w] = [edit |-> e, base |-> stored, from |-> revision]]
    /\ UNCHANGED <<versioned, stored, revision>>

\* For comparison, a decision stored like a push.
UnchangedSinceAny(from) == TRUE

\* putConfig: nothing came between.
UnchangedSince(from) == versioned => revision = from

Keep(pol) ==
    /\ revision < LastRevision[versioned]
    /\ stored' = Written(pol)
    /\ revision' = revision + 1
    /\ UNCHANGED versioned

\* saveValidatedPolicy; SavePolicy of a decision.
Store(w) ==
    /\ work[w] # Idle
    /\ UnchangedSince(work[w].from)
    /\ Keep(Edited(work[w].base, work[w].edit))
    /\ work' = [work EXCEPT ![w] = Idle]

\* The change is refused, invalid or not written; the approval it may stand for
\* is resolved without a rule.
Fail(w) ==
    /\ work[w] # Idle
    /\ work' = [work EXCEPT ![w] = Idle]
    /\ UNCHANGED <<versioned, stored, revision>>

\* controlplane.PushConfig by an administrator.
Push(pol) ==
    /\ versioned
    /\ Keep(pol)
    /\ UNCHANGED work

WritersInit ==
    /\ versioned \in BOOLEAN
    /\ stored \in FirstStored
    /\ revision = 0
    /\ work = [w \in Writers |-> Idle]

WritersNext ==
    \/ \E w \in Writers : (\E e \in EditsOffered : Load(w, e)) \/ Store(w) \/ Fail(w)
    \/ \E pol \in Pushed : Push(pol)

WritersSpec == WritersInit /\ [][WritersNext]_writerVars

(***************************************************************************)
(* Properties.                                                             *)
(***************************************************************************)

\* What an approval adds only ever lifts a denial by default, of its command on
\* its host, in the policy it was added to: whatever a rule of that policy or of
\* the home's overlay says stays said, although host rules come before global
\* ones and an approval is stored among the host rules (splitPolicy, Authorize).
LiftsOnlyDefaultDenial(before, e) ==
    \A overlay \in Overlays, h \in Hosts, c \in Commands :
        \/ Authorize(stored', overlay, h, c) = Authorize(before, overlay, h, c)
        \/ /\ Authorize(before, overlay, h, c) = "needs approval"
           /\ Authorize(stored', overlay, h, c) = "allow by grant"
           /\ h = e.host /\ c = e.cmd

\* The step in which w's edit takes effect.
Stores(w) == work[w] # Idle /\ work'[w] = Idle /\ stored' # stored

\* In a gateway's configuration every edit is made to the policy that it
\* replaces: "if another push lands first, the decision fails rather than
\* overwrite it" (gateway/approvals.go).
EditsWhatItReplaces ==
    [][\A w \in Writers :
         Stores(w) => (versioned => stored = work[w].base)]_writerVars

\* An approval for a host changes what it was asked to change and no other
\* ruling (applyHostGrant); and in a gateway's configuration no writer loses
\* an edit it has not read (EditsWhatItReplaces).
WritesKeepEdits ==
    [][\A w \in Writers :
         Stores(w) =>
           /\ versioned => stored = work[w].base
           /\ work[w].edit.edit = "grant" =>
                LiftsOnlyDefaultDenial(work[w].base, work[w].edit)]_writerVars
=============================================================================

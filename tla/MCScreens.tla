----------------------------- MODULE MCScreens -----------------------------
(***************************************************************************)
(* The tabs of the terminal interface, each on a small instance.  The      *)
(* event loop runs one handler at a time and the tabs here keep no state   *)
(* in common, so every behaviour takes the steps of one of them, chosen at *)
(* the start, while the others rest in an initial state.                   *)
(***************************************************************************)
EXTENDS HostsScreen, PolicyPane, ApprovalsPane

CONSTANTS
  Parts,       \* of "hosts", "policy" and "approvals": the ones this run checks
  x, y,        \* two machines
  h1, tagGroup, p1, c1,
  plan1

VARIABLE part

\* HostsScreen: two names of two machines, or with 3 a second name of one.
MCMachine2 == <<x, y>>
MCMachine3 == <<x, y, y>>

\* PolicyPane: a host with a group that carries it, and one command.
MCCarriers == [k \in {tagGroup} |-> {h1}]
MCAlphabet == <<h1, tagGroup>>
MCPresetOrder == <<p1>>
Ruling(action) == [match |-> {c1}, priority |-> 0, action |-> action, group |-> Manual]
MCTexts == {Ruling("allow"), Ruling("deny")}
MCFirst ==
  {EmptyPolicy,
   [EmptyPolicy EXCEPT
     !.rules = <<Ruling("deny")>>,
     !.presets = [k \in {p1} |-> <<Ruling("allow")>>],
     !.overrides = [k \in {tagGroup} |-> <<Ruling("allow")>>],
     !.order = <<tagGroup>>]}

\* ApprovalsPane: a plan of two requests and a request of its own.
MCPlanOf == [r \in 1..3 |-> IF r = 3 THEN NoPlanID ELSE plan1]
MCMembers == [k \in {plan1} |-> {1, 2}]

ScreensInit ==
  /\ part \in Parts
  /\ ScreenInit /\ PaneInit /\ QueueInit
  /\ part # "policy" => policyFile = EmptyPolicy
  /\ part # "hosts" => \A n \in DOMAIN onDisk : ~onDisk[n].tagged

Take(name, next, others) == part = name /\ next /\ UNCHANGED <<part, others>>

ScreensNext ==
  \/ Take("hosts", ScreenNext, <<paneVars, queueVars>>)
  \/ Take("policy", PaneNext, <<screenVars, queueVars>>)
  \/ Take("approvals", QueueNext, <<screenVars, paneVars>>)

ScreensSpec ==
  ScreensInit /\ [][ScreensNext]_<<part, screenVars, paneVars, queueVars>>
=============================================================================

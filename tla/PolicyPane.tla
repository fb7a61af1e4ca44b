----------------------------- MODULE PolicyPane -----------------------------
(***************************************************************************)
(* The Policy tab and the Policy pane of a host (internal/tui/             *)
(* policy_section.go) over policy.yaml, which other commands edit          *)
(* meanwhile.                                                              *)
(*                                                                         *)
(* The section shows config, the policy as it last read or wrote it.       *)
(* Every edit reads the file again and applies to it what the keys chose   *)
(* on the screen.  A saved edit also sends policyChangedMsg, which arrives *)
(* later and makes its policy the one shown.  Keys are one handler each;   *)
(* reading and writing the file in a handler is one step.                  *)
(***************************************************************************)
EXTENDS Policy, FiniteSets

CONSTANTS
    PresetOrder,   \* the rule group names, sorted
    Texts,         \* the rules an operator writes
    FirstPolicies, \* the policies at the start
    MaxRules,      \* bound on the rules of one list
    MaxChanges,    \* bound on the policyChangedMsg in flight
    MaxOutside     \* bound on the edits of other commands

ASSUME PaneAssumption == Presets = Range(PresetOrder)

VARIABLES
    policyFile,    \* policy.yaml
    known,         \* the hosts of the inventory
    config,        \* policySection.config
    scope,         \* the list on the screen: cards, global, a preset or a host
    cardCursor, ruleCursor, groupCursor,
    mode,          \* policySection.mode
    asked,         \* the rule group the open confirmation names
    changes,       \* policies of the policyChangedMsg to come
    outside        \* edits of other commands so far

paneVars == <<policyFile, known, config, scope, cardCursor, ruleCursor, groupCursor, mode,
              asked, changes, outside>>
shownVars == <<scope, cardCursor, ruleCursor, groupCursor, mode, asked>>

Nothing == "nothing"

(***************************************************************************)
(* What is on the screen.                                                  *)
(***************************************************************************)

\* policyTargets.
Targets == <<"global">> \o SelectSeq(PresetOrder, LAMBDA g : HasPreset(config, g))

PresetRules(pol, g) == IF HasPreset(pol, g) THEN pol.presets[g] ELSE << >>

\* The rows of a list, each with the place its rule has in the policy.
Rows(pol, s) ==
    IF s \in Hosts THEN EffectiveRules(pol, s)
    ELSE LET rules == IF s = "global" THEN pol.rules ELSE PresetRules(pol, s) IN
         [i \in DOMAIN rules |-> [source |-> s, index |-> i, rule |-> rules[i]]]

\* clampRuleCursor, for cursors from 1.
Clamped(c, n) == IF n = 0 THEN 1 ELSE IF c > n THEN n ELSE c

HasRow == ruleCursor \in DOMAIN Rows(config, scope)
Row == Rows(config, scope)[ruleCursor]

Listing == scope # "cards"
Bounded(pol) ==
    /\ Len(pol.rules) <= MaxRules
    /\ \A k \in DOMAIN pol.overrides : Len(pol.overrides[k]) <= MaxRules
    /\ \A g \in DOMAIN pol.presets : Len(pol.presets[g]) <= MaxRules

(***************************************************************************)
(* Moving about.                                                           *)
(***************************************************************************)

\* policySection.withHost, by the detail of a host or the Policy tab.
OpenScope(s) ==
    /\ mode = "browse"
    /\ s \in known \union {"cards"}
    /\ scope' = s /\ ruleCursor' = 1 /\ groupCursor' = 1
    /\ UNCHANGED <<policyFile, known, config, cardCursor, mode, asked, changes, outside>>

MoveCard(i) ==
    /\ mode = "browse" /\ scope = "cards"
    /\ i \in DOMAIN Targets
    /\ cardCursor' = i
    /\ UNCHANGED <<policyFile, known, config, scope, ruleCursor, groupCursor, mode, asked,
                   changes, outside>>

OpenCard ==
    /\ mode = "browse" /\ scope = "cards"
    /\ cardCursor' = Clamped(cardCursor, Len(Targets))
    /\ scope' = Targets[cardCursor'] /\ ruleCursor' = 1
    /\ UNCHANGED <<policyFile, known, config, groupCursor, mode, asked, changes, outside>>

CloseCard ==
    /\ mode = "browse" /\ scope \in Presets \union {"global"}
    /\ scope' = "cards" /\ ruleCursor' = 1
    /\ UNCHANGED <<policyFile, known, config, cardCursor, groupCursor, mode, asked, changes,
                   outside>>

MoveRow(i) ==
    /\ mode = "browse" /\ Listing
    /\ i \in DOMAIN Rows(config, scope)
    /\ ruleCursor' = i
    /\ UNCHANGED <<policyFile, known, config, scope, cardCursor, groupCursor, mode, asked,
                   changes, outside>>

\* The keys that open an input, the picker of rule groups or a confirmation.
MayEnter(m) ==
    \/ m = "add" /\ Listing
    \/ m = "edit" /\ Listing /\ scope \notin Hosts /\ HasRow
    \/ m = "create" /\ scope = "cards"
    \/ m = "picker" /\ scope \in Hosts /\ DOMAIN config.presets # {}
    \/ m = "clear" /\ scope \in Hosts /\ HasRules(config, scope)
    \/ m = "delete" /\ scope = "cards" /\ cardCursor \in 2..Len(Targets)

EnterMode(m) ==
    /\ mode = "browse" /\ MayEnter(m)
    /\ mode' = m
    /\ asked' = IF m = "delete" THEN Targets[cardCursor] ELSE Nothing
    /\ groupCursor' = IF m = "picker" THEN Clamped(groupCursor, Len(Targets) - 1) ELSE groupCursor
    /\ UNCHANGED <<policyFile, known, config, scope, cardCursor, ruleCursor, changes, outside>>

LeaveMode ==
    /\ mode # "browse"
    /\ mode' = "browse" /\ asked' = Nothing
    /\ UNCHANGED <<policyFile, known, config, scope, cardCursor, ruleCursor, groupCursor,
                   changes, outside>>

PickGroup(i) ==
    /\ mode = "picker"
    /\ i \in 1..(Len(Targets) - 1)
    /\ groupCursor' = i
    /\ UNCHANGED <<policyFile, known, config, scope, cardCursor, ruleCursor, mode, asked,
                   changes, outside>>

\* policySection.evaluate: reads the file again to test a command.
Test ==
    /\ mode = "browse"
    /\ config' = policyFile
    /\ UNCHANGED <<policyFile, known, shownVars, changes, outside>>

(***************************************************************************)
(* Edits.                                                                  *)
(***************************************************************************)

\* savePolicy, and policyChangedMsg on its way.
Save(next) ==
    /\ Bounded(next) /\ Len(changes) < MaxChanges
    /\ policyFile' = Written(next)
    /\ config' = next
    /\ changes' = Append(changes, next)
    /\ mode' = "browse" /\ asked' = Nothing
    /\ UNCHANGED <<known, scope, groupCursor, outside>>

\* An edit fails: reloadForWrite may have read the file.
Refuse ==
    /\ mode \in {"add", "edit", "create", "picker", "clear", "delete"}
    /\ config' \in {config, policyFile}
    /\ mode' = "browse" /\ asked' = Nothing
    /\ UNCHANGED <<policyFile, known, scope, cardCursor, ruleCursor, groupCursor, changes,
                   outside>>

\* addRuleFromInput.
Added(pol, s, r) ==
    IF s \in Hosts THEN AddHostRule(pol, s, r)
    ELSE IF s = "global" THEN AddRule(pol, r) ELSE AddGroupRule(pol, s, r)

Add(r) ==
    /\ mode = "add"
    /\ scope \in known \/ scope = "global" \/ HasPreset(policyFile, scope)
    /\ LET next == Added(policyFile, scope, r) IN
         /\ Save(next)
         /\ ruleCursor' = IF scope \in Hosts
              THEN SelectInSeq(Rows(next, scope),
                               LAMBDA row : row.source = scope
                                            /\ row.index = Len(next.overrides[scope]))
              ELSE Len(Rows(next, scope))
    /\ UNCHANGED cardCursor

\* editRuleFromInput: the rule at the cursor's place in the file.
Edit(r) ==
    /\ mode = "edit" /\ ruleCursor \in DOMAIN Rows(policyFile, scope)
    /\ LET next == IF scope = "global" THEN UpdateRule(policyFile, ruleCursor, r)
                   ELSE UpdateGroupRule(policyFile, scope, ruleCursor, r)
       IN Save(next)
    /\ UNCHANGED <<cardCursor, ruleCursor>>

\* removeSelectedTargetRule and removeSelectedHostRule.
Removed(pol, row) ==
    IF scope \in Hosts THEN RemoveHostRule(pol, row.source, row.index)
    ELSE IF scope = "global" THEN RemoveRule(pol, ruleCursor)
    ELSE RemoveGroupRule(pol, scope, ruleCursor)

\* On a host a row must be selected; elsewhere the list shown must have one.
MayRemove ==
    /\ mode = "browse" /\ Listing
    /\ Rows(config, scope) # << >>
    /\ scope \in Hosts => HasRow /\ Row.source # "global"

RemoveRow ==
    /\ MayRemove
    /\ LET next == Removed(policyFile, Row) IN
         /\ next # policyFile
         /\ Save(next)
         /\ ruleCursor' = Clamped(ruleCursor, Len(Rows(next, scope)))
    /\ UNCHANGED cardCursor

\* The same keys when the place is gone from the file: it is read and shown.
RemoveFails ==
    /\ MayRemove
    /\ Removed(policyFile, Row) = policyFile
    /\ config' = policyFile
    /\ UNCHANGED <<policyFile, known, shownVars, changes, outside>>

\* removeSelectedHostGroup.
RemoveStamped ==
    /\ mode = "browse" /\ scope \in Hosts /\ HasRow
    /\ Row.source # "global" /\ Row.rule.group # Manual
    /\ HasRules(policyFile, Row.source)
    /\ LET next == RemoveHostGroup(policyFile, Row.source, Row.rule.group) IN
         /\ Save(next)
         /\ ruleCursor' = Clamped(ruleCursor, Len(Rows(next, scope)))
    /\ UNCHANGED cardCursor

\* createGroupFromInput.
Create(g) ==
    /\ mode = "create" /\ ~ HasPreset(policyFile, g)
    /\ LET next == CreateGroup(policyFile, g) IN
         /\ Save(next)
         /\ cardCursor' = 1 + SelectInSeq(SelectSeq(PresetOrder, LAMBDA x : HasPreset(next, x)),
                                          LAMBDA x : x = g)
    /\ UNCHANGED ruleCursor

\* deleteSelectedGroup: the group of the card, which may have moved.
Delete ==
    /\ mode = "delete" /\ cardCursor \in 2..Len(Targets)
    /\ HasPreset(policyFile, Targets[cardCursor])
    /\ LET next == DeleteGroup(policyFile, Targets[cardCursor]) IN
         /\ Save(next)
         /\ cardCursor' = Clamped(cardCursor, 1 + Cardinality(DOMAIN next.presets))
    /\ UNCHANGED ruleCursor

\* stampSelectedGroup.
Stamp ==
    /\ mode = "picker" /\ scope \in known
    /\ groupCursor + 1 \in DOMAIN Targets
    /\ LET g == Targets[groupCursor + 1]
           next == StampGroupOntoHost(policyFile, scope, g)
           first == SelectInSeq(Rows(next, scope), LAMBDA row : row.rule.group = g)
       IN /\ HasPreset(policyFile, g)
          /\ Save(next)
          /\ ruleCursor' = IF first = 0 THEN Clamped(Len(Rows(next, scope)), Len(Rows(next, scope)))
                           ELSE first
    /\ UNCHANGED cardCursor

\* removeHostRuleSet.
Clear ==
    /\ mode = "clear" /\ HasRules(policyFile, scope)
    /\ Save(ClearHostRules(policyFile, scope))
    /\ ruleCursor' = 1
    /\ UNCHANGED cardCursor

\* appModel.Update: policyChangedMsg.  The cursors stay where they are.
PolicyChanged ==
    /\ \E i \in DOMAIN changes :
         /\ config' = changes[i]
         /\ changes' = RemoveAt(changes, i)
    /\ UNCHANGED <<policyFile, known, shownVars, outside>>

(***************************************************************************)
(* Other screens and commands.                                             *)
(***************************************************************************)

\* The Hosts screen removes a host, with its rules.  Another host's detail is
\* not open then, so the section shows the cards.
RemoveHost(h) ==
    /\ mode = "browse" /\ scope \in {"cards", h} /\ h \in known
    /\ known' = known \ {h}
    /\ scope' = "cards"
    /\ IF HasRules(policyFile, h)
       THEN LET next == ClearHostRules(policyFile, h) IN
            /\ Len(changes) < MaxChanges
            /\ policyFile' = Written(next)
            /\ changes' = Append(changes, next)
       ELSE UNCHANGED <<policyFile, changes>>
    /\ UNCHANGED <<config, cardCursor, ruleCursor, groupCursor, mode, asked, outside>>

\* agentssh policy, or an operator who approves a command for the host.
OutsideEdit ==
    /\ outside < MaxOutside
    /\ outside' = outside + 1
    /\ \E next \in
         {AddRule(policyFile, r) : r \in Texts}
         \union {RemoveRule(policyFile, i) : i \in DOMAIN policyFile.rules}
         \union {AddHostRule(policyFile, h, r) : h \in known, r \in Texts}
         \union {RemoveHostRule(policyFile, h, 1) : h \in known}
         \union {GrantHost(policyFile, h, {c}) : h \in known, c \in Commands} :
           Bounded(next) /\ policyFile' = Written(next)
    /\ UNCHANGED <<known, config, shownVars, changes>>

PaneInit ==
    /\ policyFile \in FirstPolicies
    /\ known = Hosts
    /\ config = policyFile
    /\ scope = "cards" /\ cardCursor = 1 /\ ruleCursor = 1 /\ groupCursor = 1
    /\ mode = "browse" /\ asked = Nothing
    /\ changes = << >> /\ outside = 0

PaneNext ==
    \/ \E s \in Hosts \union {"cards"} : OpenScope(s)
    \/ (\E i \in DOMAIN Targets : MoveCard(i)) \/ OpenCard \/ CloseCard
    \/ (\E i \in DOMAIN Rows(config, scope) : MoveRow(i))
    \/ (\E m \in {"add", "edit", "create", "picker", "clear", "delete"} : EnterMode(m))
    \/ LeaveMode \/ (\E i \in DOMAIN PresetOrder : PickGroup(i)) \/ Test \/ Refuse
    \/ (\E r \in Texts : Add(r) \/ Edit(r))
    \/ RemoveRow \/ RemoveFails \/ RemoveStamped
    \/ (\E g \in Presets : Create(g)) \/ Delete \/ Stamp \/ Clear
    \/ PolicyChanged
    \/ (\E h \in Hosts : RemoveHost(h)) \/ OutsideEdit

PaneSpec == PaneInit /\ [][PaneNext]_paneVars

(***************************************************************************)
(* Properties.                                                             *)
(***************************************************************************)

\* After an edit the section shows, and tests commands against, what a run will
\* be decided by: the policy in memory and the file it was written to decide
\* every command alike, although the overrides stand in memory in no order of
\* their own (savePolicy; Config.hostOverridesNode and orderedHostOverrideKeys).
SavedDecidesAlike ==
    [][policyFile' # policyFile /\ config' # config =>
         \A h \in Hosts, c \in Commands :
           Decide(config', h, c) = Decide(policyFile', h, c)]_paneVars

\* "`j/k` selects rows, `r` removes editable host rows" (README.md): the rule
\* that goes is one equal to the row at the cursor.
RemovesTheRowShown ==
    [][RemoveRow /\ HasRow =>
                 LET list(pol) == IF Row.source = "global" THEN pol.rules
                                  ELSE IF Row.source \in Presets THEN PresetRules(pol, Row.source)
                                  ELSE RulesOf(pol, Row.source)
                 IN Row.rule \in Range(list(policyFile))
                    /\ \E i \in DOMAIN list(policyFile) :
                         /\ list(policyFile)[i] = Row.rule
                         /\ list(policyFile') = RemoveAt(list(policyFile), i)]_paneVars
=============================================================================

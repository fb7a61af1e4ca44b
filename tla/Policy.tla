------------------------------- MODULE Policy -------------------------------
(***************************************************************************)
(* The policy (internal/policy) and what it makes of a command             *)
(* (internal/approval/authorize.go).  The module is a library of operators *)
(* on a policy value; PolicyPane and PolicyWriters change policies.        *)
(*                                                                         *)
(* A rule's pattern is the set of commands it matches.  The overrides of a *)
(* policy are keyed by a host (the key host:<name> of the code) or by an   *)
(* inventory group, which applies to every host that carries its tags.     *)
(***************************************************************************)
EXTENDS Naturals, Sequences, SequencesExt

CONSTANTS
    Commands,
    Hosts,
    Carriers,      \* of each inventory group, the hosts with all its tags
    Alphabet,      \* the keys of overrides, sorted by their text
    Presets,       \* names of rule groups
    Priorities,    \* the priorities rules are given
    Approved,      \* the reserved group of the rules approvals wrote (ApprovalGroup)
    Manual         \* no group: a rule somebody wrote

Groups == DOMAIN Carriers

\* order is the order of the overrides in the file.
EmptyPolicy == [rules |-> << >>, presets |-> << >>, overrides |-> << >>, order |-> << >>]

WithKey(f, k, v) == [x \in DOMAIN f \union {k} |-> IF x = k THEN v ELSE f[x]]
Drop(f, k) == [x \in DOMAIN f \ {k} |-> f[x]]

(***************************************************************************)
(* Evaluation.                                                             *)
(***************************************************************************)

\* sortRules and sortEffectiveRules: a stable sort by descending priority.
Ranked(rows, PriorityOf(_)) ==
    LET ranks == SetToSortSeq(Priorities, LAMBDA p, q : p > q) IN
    FlattenSeq([i \in DOMAIN ranks |-> SelectSeq(rows, LAMBDA r : PriorityOf(r) = ranks[i])])

ByPriority(rules) == Ranked(rules, LAMBDA r : r.priority)

\* Config.orderedHostOverrideKeys.
OrderedKeys(pol, keys) ==
    SelectSeq(pol.order, LAMBDA k : k \in keys)
      \o SelectSeq(Alphabet, LAMBDA k : k \in keys \ Range(pol.order))

KeysFor(pol, host) ==
    {k \in DOMAIN pol.overrides : k = host \/ (k \in Groups /\ host \in Carriers[k])}

\* compiledEngine.hostRulesFor.
HostRulesFor(pol, host) ==
    LET keys == OrderedKeys(pol, KeysFor(pol, host)) IN
    ByPriority(FlattenSeq([i \in DOMAIN keys |-> pol.overrides[keys[i]]]))

\* compiledEngine.Evaluate without an overlay: the first rule that matches.
Decide(pol, host, cmd) ==
    LET matching == SelectSeq(HostRulesFor(pol, host) \o ByPriority(pol.rules),
                              LAMBDA r : cmd \in r.match) IN
    IF matching = << >> THEN [action |-> "deny", default |-> TRUE]
    ELSE [action |-> matching[1].action, default |-> FALSE]

Denies(rules) == SelectSeq(rules, LAMBDA r : r.action = "deny")

DenyOnly(pol) ==
    [pol EXCEPT !.rules = Denies(@), !.presets = << >>,
                !.overrides = [k \in {j \in DOMAIN @ : Denies(@[j]) # << >>} |-> Denies(@[k])]]

\* compiledEngine.Evaluate with the local overlay.
Evaluate(pol, overlay, host, cmd) ==
    LET local == Decide(DenyOnly(overlay), host, cmd) IN
    IF local.action = "deny" /\ ~ local.default THEN local
    ELSE Decide(pol, host, cmd)

\* EffectiveRules: the rows of the Policy pane of a host.
OverrideRows(pol, k) ==
    [i \in DOMAIN pol.overrides[k] |->
        [source |-> k, index |-> i, rule |-> pol.overrides[k][i]]]

EffectiveRules(pol, host) ==
    LET keys == OrderedKeys(pol, KeysFor(pol, host))
        Order(rows) == Ranked(rows, LAMBDA row : row.rule.priority)
    IN Order(FlattenSeq([i \in DOMAIN keys |-> OverrideRows(pol, keys[i])]))
         \o Order([i \in DOMAIN pol.rules |->
                     [source |-> "global", index |-> i, rule |-> pol.rules[i]]])

(***************************************************************************)
(* Authorization, without session grants (those are in Approval).          *)
(***************************************************************************)

\* splitPolicy: the policy without the rules that approvals wrote for hosts.
SplitPolicy(pol) ==
    [pol EXCEPT !.overrides = [k \in DOMAIN @ |->
        IF k \in Hosts THEN SelectSeq(@[k], LAMBDA r : r.group # Approved) ELSE @[k]]]

HostMatchers(pol, host) ==
    IF host \in DOMAIN pol.overrides
    THEN UNION {r.match : r \in {x \in Range(pol.overrides[host]) : x.group = Approved}}
    ELSE {}

Authorize(pol, overlay, host, cmd) ==
    LET decision == Evaluate(SplitPolicy(pol), overlay, host, cmd) IN
    IF decision.action = "allow" THEN "allow"
    ELSE IF ~ decision.default THEN "hard deny"
    ELSE IF cmd \in HostMatchers(pol, host) THEN "allow by grant"
    ELSE "needs approval"

(***************************************************************************)
(* The edits of store.go.  Each yields the policy, unchanged when the      *)
(* function returns an error.                                              *)
(***************************************************************************)

AddRule(pol, r) == [pol EXCEPT !.rules = Append(@, r)]

UpdateRule(pol, i, r) ==
    IF i \in DOMAIN pol.rules THEN [pol EXCEPT !.rules[i] = r] ELSE pol

RemoveRule(pol, i) ==
    IF i \in DOMAIN pol.rules THEN [pol EXCEPT !.rules = RemoveAt(@, i)] ELSE pol

HasRules(pol, k) == k \in DOMAIN pol.overrides
RulesOf(pol, k) == IF HasRules(pol, k) THEN pol.overrides[k] ELSE << >>

\* SetHostRules and setExistingHostRules.
SetHostRules(pol, k, rules) == [pol EXCEPT !.overrides = WithKey(@, k, rules)]

AddHostRule(pol, k, r) == SetHostRules(pol, k, Append(RulesOf(pol, k), r))

\* RemoveHostRule and, for a group's key, removeHostOverrideRuleForTUI.
RemoveHostRule(pol, k, i) ==
    IF HasRules(pol, k) /\ i \in DOMAIN pol.overrides[k]
    THEN SetHostRules(pol, k, RemoveAt(pol.overrides[k], i)) ELSE pol

\* removeRulesFromGroup.
NotFrom(rules, g) == SelectSeq(rules, LAMBDA r : r.group # g)

\* RemoveHostGroup and, for a group's key, removeHostOverrideGroupForTUI.
RemoveHostGroup(pol, k, g) ==
    IF HasRules(pol, k) THEN SetHostRules(pol, k, NotFrom(pol.overrides[k], g)) ELSE pol

ClearHostRules(pol, k) == [pol EXCEPT !.overrides = Drop(@, k)]

HasPreset(pol, g) == g \in DOMAIN pol.presets

CreateGroup(pol, g) ==
    IF HasPreset(pol, g) THEN pol ELSE [pol EXCEPT !.presets = WithKey(@, g, << >>)]

DeleteGroup(pol, g) == [pol EXCEPT !.presets = Drop(@, g)]

AddGroupRule(pol, g, r) ==
    IF HasPreset(pol, g) THEN [pol EXCEPT !.presets[g] = Append(@, r)] ELSE pol

UpdateGroupRule(pol, g, i, r) ==
    IF HasPreset(pol, g) /\ i \in DOMAIN pol.presets[g]
    THEN [pol EXCEPT !.presets[g][i] = r] ELSE pol

RemoveGroupRule(pol, g, i) ==
    IF HasPreset(pol, g) /\ i \in DOMAIN pol.presets[g]
    THEN [pol EXCEPT !.presets[g] = RemoveAt(@, i)] ELSE pol

\* StampGroupOntoHost: the host's earlier copies of the group are replaced.
StampGroupOntoHost(pol, host, g) ==
    IF ~ HasPreset(pol, g) THEN pol
    ELSE LET copies == [i \in DOMAIN pol.presets[g] |-> [pol.presets[g][i] EXCEPT !.group = g]] IN
         SetHostRules(pol, host, NotFrom(RulesOf(pol, host), g) \o copies)

\* applyHostGrant: an approval of the command for the host, unless a rule with
\* its pattern or its name is there.
GrantHost(pol, host, matcher) ==
    IF \E r \in Range(RulesOf(pol, host)) : r.match = matcher THEN pol
    ELSE AddHostRule(pol, host, [match |-> matcher, priority |-> 0, action |-> "allow",
                                 group |-> Approved])

(***************************************************************************)
(* The file.                                                               *)
(***************************************************************************)

\* For comparison, the overrides written in the order of their text.
WrittenSorted(pol) ==
    [pol EXCEPT !.order = SelectSeq(Alphabet, LAMBDA k : k \in DOMAIN pol.overrides)]

\* What is loaded after Save: Config.hostOverridesNode writes the overrides in
\* their order, the new ones last, and hostOverrideOrder reads that order back.
Written(pol) == [pol EXCEPT !.order = OrderedKeys(pol, DOMAIN pol.overrides)]
=============================================================================

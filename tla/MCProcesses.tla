---------------------------- MODULE MCProcesses ----------------------------
(***************************************************************************)
(* The components that run in the processes of one machine, each on a      *)
(* small instance.  They share no state, so every behaviour takes the      *)
(* steps of one of them, chosen at the start, and the others rest in an    *)
(* initial state: the reachable states are those of the parts, side by     *)
(* side.                                                                   *)
(***************************************************************************)
EXTENDS PlanRun, ConnectionPool, AuditChain, ManagedDevice, ExecClient,
        Enrollment, PolicyWriters, TLC

CONSTANTS
    Parts,   \* the parts whose steps are taken
    o1, f1, h1, h2, g, p1, c1, c2

VARIABLE part

\* PlanRun: a check that may fail and go on, and a step with a payload.
MCInput == <<NoInput, o1>>

\* PolicyWriters: two hosts that carry one group, two commands.
MCCarriers == [k \in {g} |-> {h1, h2}]
MCAlphabet == <<h1, g, h2>>
Ruling(c, p, a) == [match |-> {c}, priority |-> p, action |-> a, group |-> Manual]
MCRulings == {Ruling(c1, 0, "deny")}
MCFirst ==
    {EmptyPolicy} \union
    {[EmptyPolicy EXCEPT
        !.rules = <<Ruling(c1, p, a)>>,
        !.presets = [x \in {p1} |-> <<Ruling(c2, p, "allow")>>],
        !.overrides = [k \in {g} |-> <<Ruling(c2, 0, b)>>],
        !.order = <<g>>] : p \in {0, 1}, a \in {"allow", "deny"}, b \in {"allow", "deny"}}
MCLastRevision == [v \in BOOLEAN |-> IF v THEN 2 ELSE 1]
MCOverlays ==
    {EmptyPolicy,
     [EmptyPolicy EXCEPT !.rules = <<Ruling(c1, 0, "deny"), Ruling(c2, 1, "allow")>>]}

ProcessesInit ==
    /\ part \in Parts
    /\ Init /\ PoolInit /\ ChainInit /\ DeviceInit /\ ExecInit
    /\ EnrollInit
    /\ WritersInit
    /\ part # "writers" => stored = EmptyPolicy /\ versioned
    /\ part # "chain" => \A a \in Appenders : append[a].fact = f1

Take(name, next, others) == part = name /\ next /\ UNCHANGED <<part, others>>

ProcessesNext ==
    \/ Take("plan", Next,
            <<poolVars, chainVars, deviceAll, callVars, enrollVars, writerVars>>)
    \/ Take("pool", PoolNext,
            <<vars, chainVars, deviceAll, callVars, enrollVars, writerVars>>)
    \/ Take("chain", ChainNext,
            <<vars, poolVars, deviceAll, callVars, enrollVars, writerVars>>)
    \/ Take("device", DeviceNext,
            <<vars, poolVars, chainVars, callVars, enrollVars, writerVars>>)
    \/ Take("exec", ExecNext,
            <<vars, poolVars, chainVars, deviceAll, enrollVars, writerVars>>)
    \/ Take("enroll", EnrollNext,
            <<vars, poolVars, chainVars, deviceAll, callVars, writerVars>>)
    \/ Take("writers", WritersNext,
            <<vars, poolVars, chainVars, deviceAll, callVars, enrollVars>>)

ProcessesSpec ==
    ProcessesInit /\ [][ProcessesNext]_<<part, vars, poolVars, chainVars,
                                         deviceAll, callVars, enrollVars, writerVars>>

\* The parts take their processes from the same two names, which are alike.
Symmetry == Permutations(Procs)
=============================================================================

------------------------------- MODULE MCRuns -------------------------------
(***************************************************************************)
(* What the gateway's audit log and a device wait for, each on a small     *)
(* instance: the end of the streams of a run's spool (RunSpool), the end   *)
(* of a run whose standing is lost (RunStanding) and the publication of    *)
(* what became of a window (Activation).  They share no state here, so     *)
(* every behaviour takes the steps of one of them, chosen at the start,    *)
(* and is fair to the steps that one is fair to.                           *)
(***************************************************************************)
EXTENDS RunSpool, Activation

CONSTANTS RunDevices, Identities, Runs, WindowLengths, LastTime, MaxErrors

VARIABLES
  part,
  sRevoked, sWindow, sDisabled, sRun, sPass, sNow, sErrors, sLostEver

Lives == INSTANCE RunStanding WITH
  revokedOnes <- sRevoked, window <- sWindow, disabled <- sDisabled, run <- sRun,
  pass <- sPass, time <- sNow, errors <- sErrors, lostEver <- sLostEver

standingVars ==
  <<sRevoked, sWindow, sDisabled, sRun, sPass, sNow, sErrors, sLostEver>>

allVars == <<part, vars, standingVars, activationVars>>

Takes(name, action, others) == part = name /\ action /\ UNCHANGED <<part, others>>

SpoolTakes(action) == Takes("spool", action, <<standingVars, activationVars>>)
StandingTakes(action) == Takes("standing", action, <<vars, activationVars>>)
WindowsTake(action) == Takes("windows", action, <<vars, standingVars>>)

RunsInit ==
  /\ part \in {"spool", "standing", "windows"}
  /\ Init /\ Lives!StandingInit /\ ActivationInit
  /\ part # "spool" => targets = 1

RunsNext ==
  SpoolTakes(Next) \/ StandingTakes(Lives!StandingNext) \/ WindowsTake(ActivationNext)

\* RunSpool!FairSpec, RunStanding!StandingFairSpec and ActivationFairSpec.
RunsFairSpec ==
  /\ RunsInit /\ [][RunsNext]_allVars
  /\ WF_allVars(SpoolTakes(Outcome))
  /\ WF_allVars(SpoolTakes(\E b \in FinalSizes : FinishResult(b)))
  /\ WF_allVars(SpoolTakes(
       \E w \in WholeSizes, s \in StrippedSizes, m \in MinimalSizes : Response(w, s, m)))
  /\ \A r \in Readers : WF_allVars(SpoolTakes(Reading(r)))
  /\ WF_allVars(StandingTakes(Lives!PassStep))
  /\ \A k \in Runs :
       /\ WF_allVars(StandingTakes(sRun[k].cancelled /\ Lives!RunReturns(k)))
       /\ WF_allVars(StandingTakes(Lives!Execution(k)))
  /\ WF_allVars(WindowsTake(Sweep))
  /\ WF_allVars(WindowsTake(Tick))

\* RunStanding: a run that lost its standing for good comes to its end.
LostRunsEnd == Lives!LostRunsEnd
=============================================================================

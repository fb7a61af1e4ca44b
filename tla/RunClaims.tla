------------------------------ MODULE RunClaims ------------------------------
(***************************************************************************)
(* What the gateway promises about a run ID, without records, spools or    *)
(* slots: an ID is free until one request starts its command or one cancel *)
(* refuses it, and that claim outlives the command.  A claim is forgotten  *)
(* only after a window in which every repeat of the request has arrived.   *)
(***************************************************************************)
EXTENDS Naturals

CONSTANTS
  Runs,           \* run IDs
  StartWindow,    \* how long a started run stays claimed
  RefusalWindow   \* how long a refused run stays refused

VARIABLES
  phase,    \* of each run: free, running, over or refused
  started,  \* when its command was last started, or 0
  refused,  \* when a cancel last claimed it, or 0
  clock

vars == <<phase, started, refused, clock>>

Phases == {"free", "running", "over", "refused"}

Init ==
  /\ phase = [k \in Runs |-> "free"]
  /\ started = [k \in Runs |-> 0]
  /\ refused = [k \in Runs |-> 0]
  /\ clock = 1

Forgotten(at, window) == at = 0 \/ clock > at + window

\* Changes to one run's claim.  started and refused move only with it.
Start(k) ==
  /\ phase[k] = "free" /\ phase'[k] = "running"
  /\ Forgotten(started[k], StartWindow) /\ Forgotten(refused[k], RefusalWindow)
  /\ started'[k] = clock /\ refused'[k] = refused[k]

Refuse(k) ==
  /\ phase[k] = "free" /\ phase'[k] = "refused"
  /\ refused'[k] = clock /\ started'[k] = started[k]

End(k) ==
  /\ phase[k] = "running" /\ phase'[k] = "over"
  /\ UNCHANGED <<started[k], refused[k]>>

Forget(k) ==
  /\ phase'[k] = "free"
  /\ \/ phase[k] = "over" /\ Forgotten(started[k], StartWindow)
     \/ phase[k] = "refused" /\ Forgotten(refused[k], RefusalWindow)
  /\ UNCHANGED <<started[k], refused[k]>>

Keep(k) == UNCHANGED <<phase[k], started[k], refused[k]>>

\* One critical section may forget some runs and claim another; a restart
\* ends every running one.
Change ==
  /\ \A k \in Runs : Start(k) \/ Refuse(k) \/ End(k) \/ Forget(k) \/ Keep(k)
  /\ phase' \in [Runs -> Phases]
  /\ DOMAIN started' = Runs /\ DOMAIN refused' = Runs
  /\ clock' = clock

Tick == clock' = clock + 1 /\ UNCHANGED <<phase, started, refused>>

Next == Change \/ Tick

Spec == Init /\ [][Next]_vars
===============================================================================

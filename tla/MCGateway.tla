----------------------------- MODULE MCGateway -----------------------------
(***************************************************************************)
(* The components of the gateway that decide who may act, each on a small  *)
(* instance: the grants of token devices, the standing of live runs and    *)
(* the sign-in of operators.  They share no state here, so every behaviour *)
(* takes the steps of one of them, chosen at the start, and the others     *)
(* rest in an initial state.                                               *)
(***************************************************************************)
EXTENDS TokenGrants, RunStanding, OperatorSignIn, TLC

VARIABLE part

Parts == {"tokens", "standing", "signin"}

GatewayInit ==
  /\ part \in Parts
  /\ Init /\ StandingInit /\ SignInInit

Take(name, next, others) == part = name /\ next /\ UNCHANGED <<part, others>>

GatewayNext ==
  \/ Take("tokens", Next, <<standingVars, signVars>>)
  \/ Take("standing", StandingNext, <<vars, signVars>>)
  \/ Take("signin", SignInNext, <<vars, standingVars>>)

GatewaySpec ==
  GatewayInit /\ [][GatewayNext]_<<part, vars, standingVars, signVars>>

\* The parts take their calls, runs and visits from two names, which are alike.
Symmetry == Permutations(Calls)
=============================================================================

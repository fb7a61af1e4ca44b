----------------------------- MODULE MCApproval -----------------------------
(***************************************************************************)
(* The approval stores of one device (Approval) and the plans of several   *)
(* devices (DevicePlans), each on a small instance.  DevicePlans sees the  *)
(* same directories from further away; here the two share no state, so     *)
(* every behaviour takes the steps of one of them, chosen at the start.    *)
(***************************************************************************)
EXTENDS Approval, DevicePlans, TLC

CONSTANTS c1, c2, c3

\* A plan of two lines, and one whose line a run may ask for, too.
MCCommandLists == {<<c1, c2>>, <<c3>>}

VARIABLE part

ApprovalInit == part \in {"stores", "plans"} /\ Init /\ PlansInit

ApprovalNext ==
  \/ part = "stores" /\ Next /\ UNCHANGED <<part, planVars>>
  \/ part = "plans" /\ PlansNext /\ UNCHANGED <<part, vars>>

ApprovalSpec == ApprovalInit /\ [][ApprovalNext]_<<part, vars, planVars>>

\* Keys, runs, calls, submissions and the requests of plans are alike; they
\* share their names.
Symmetry == Permutations(Keys) \cup Permutations(Runs) \cup Permutations(Calls)
=============================================================================

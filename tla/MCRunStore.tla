------------------------------ MODULE MCRunStore ------------------------------
(***************************************************************************)
(* RunStore on small instances.  Devices meet only in the sweep of all     *)
(* devices and share no record, slot or count, so most runs take one.      *)
(***************************************************************************)
EXTENDS RunStore, TLC

\* Handlers and IDs are compared for equality only.
Symmetry == Permutations(Handlers) \cup Permutations(RunIDs)
===============================================================================

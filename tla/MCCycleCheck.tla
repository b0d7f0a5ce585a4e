-------------------------- MODULE MCCycleCheck --------------------------
(* Instances of CycleCheck for TLC. *)
EXTENDS CycleCheck

\* Every graph over N.
AllGraphs == [N -> SUBSET N]
=========================================================================

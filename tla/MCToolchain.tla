----------------------------- MODULE MCToolchain -----------------------------
(* An instance of Toolchain for TLC: the archives of MCLeanRuntime, and the   *)
(* documents, hosts and roots of MCToolTasks.                                 *)
EXTENDS Toolchain, MCLeanRuntime

Given == INSTANCE MCToolTasks
AllTasks == Given!AllTasks
Distribution == <<2, 3>>

ASSUME SelectionAssumption ==
    \A l \in Given!Sound : Given!SelectionsHold(l) /\ Given!ClassifierHolds(l)
=============================================================================

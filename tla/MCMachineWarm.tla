--------------------------- MODULE MCMachineWarm ---------------------------
(* Functions of one machine spec: one that keeps its pod warm for a tick,   *)
(* one that does not, one that never removes its pod.                       *)
EXTENDS MachineWarm

KeepsWarm == [keep |-> 1, cleanup |-> TRUE]
Plain == [keep |-> 0, cleanup |-> TRUE]
LeavesPod == [keep |-> 0, cleanup |-> FALSE]

MCFuncs == {KeepsWarm, Plain, LeavesPod}
MCTwoFuncs == {KeepsWarm, Plain}
=============================================================================

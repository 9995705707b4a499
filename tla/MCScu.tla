--------------------------------- MODULE MCScu ---------------------------------
(* Transfers for model checking: one that lasts several calls and leaves a *)
(* negative count, one whose start runs into an unreachable bus.           *)
EXTENDS Scu

MCTransfers == {[words |-> 3, then |-> "overshoot"], [words |-> 1, then |-> "illegal"]}
===============================================================================

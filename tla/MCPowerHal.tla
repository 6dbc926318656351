------------------------------ MODULE MCPowerHal ------------------------------
(* PowerHal for TLC.                                                       *)
EXTENDS PowerHal, TLC

Threads == Permutations(Thread)
===============================================================================

---------------------------- MODULE MCTimeoutPoker ----------------------------
(* TimeoutPoker for TLC.                                                   *)
EXTENDS TimeoutPoker, TLC

CONSTANTS c1, c2

MCKey  == 0 .. 2 * MaxKey
Threads == Permutations({c1, c2})
===============================================================================

----------------------------- MODULE MCOutputPath -----------------------------
(* OutputPath for TLC, scaled down with the ratio of period to rate kept.  *)
EXTENDS OutputPath

\* Unassigned: zero, a plausible count, more than the buffer, negative.
MCGarbage == {0, 5, 100, -1, -30}
=============================================================================

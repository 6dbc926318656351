----------------------------- MODULE MCKeymaster ------------------------------
(* Keymaster for TLC: threads and key ids are interchangeable.             *)
EXTENDS Keymaster, TLC

Interchangeable == Permutations(Thread) \cup Permutations(Id)
===============================================================================

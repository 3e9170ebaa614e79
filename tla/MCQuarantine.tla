---------------------------- MODULE MCQuarantine ----------------------------
(* A package of two files; the files, the terminals that quarantine and the    *)
(* processes that restore are interchangeable.                                 *)
EXTENDS Quarantine, TLC

Interchangeable == Permutations(Files) \cup Permutations(Keepers) \cup Permutations(Restorers)
=============================================================================

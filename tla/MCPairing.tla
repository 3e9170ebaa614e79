----------------------------- MODULE MCPairing -----------------------------
(* Instances of Pairing for TLC. *)
EXTENDS Pairing, TLC

\* No action or property tells one pairing code from another.
CodesAreAlike == Permutations(Codes)
=============================================================================

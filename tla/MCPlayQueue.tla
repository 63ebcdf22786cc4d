---------------------------- MODULE MCPlayQueue ----------------------------
(* Small instances of PlayQueue for TLC. *)
EXTENDS PlayQueue, TLC

CONSTANTS c1, c2, loop

ClientSymmetry == Permutations(Clients)
=============================================================================

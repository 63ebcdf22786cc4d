----------------------------- MODULE MCPlayback -----------------------------
(* Small instances of Playback for TLC. *)
EXTENDS Playback, TLC

CONSTANTS s1, s2, s3, r1, none

SongSymmetry == Permutations(Songs)
=============================================================================

------------------------------ MODULE MCTorrents ------------------------------
(* Small instances of Torrents for TLC.                                       *)
EXTENDS Torrents

CONSTANTS r1, t1, none
=============================================================================

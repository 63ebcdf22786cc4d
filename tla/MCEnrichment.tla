---------------------------- MODULE MCEnrichment ----------------------------
(* Small instances of Enrichment for TLC: two recordings on one album.        *)
EXTENDS Enrichment

CONSTANTS loop, post, c1, r1, r2, none, own, shared

AlbumOf == [n \in Names |-> IF n \in Recordings THEN shared ELSE own]
=============================================================================

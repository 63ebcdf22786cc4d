-------------------------- MODULE MCImportPipeline --------------------------
(* Small instances of ImportPipeline for TLC: two encodings of one recording, *)
(* another recording, and a torn upload.                                      *)
EXTENDS ImportPipeline, TLC

CONSTANTS w1, w2, c1, c2, f1, f2, f3, mp3, flac, other, torn, song, song2, tornsong,
          root, albums, none

RecordingOf ==
    [c \in Contents |-> IF c \in {mp3, flac} THEN song
                        ELSE IF c = other THEN song2 ELSE tornsong]

Symmetric == Permutations(Sources) \cup Permutations(Workers) \cup Permutations(Clients)
=============================================================================

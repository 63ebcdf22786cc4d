--------------------------- MODULE MCLibraryFiles ---------------------------
(* Small instances of LibraryFiles for TLC.                                   *)
EXTENDS LibraryFiles, TLC

CONSTANTS a, b, root, rock, pop, punk, n1, n2, none, c1, c2

\* Folders whose names differ in more than the case of letters.
Exactly  == [f \in Folders |-> {f}]
\* "rock" and "Rock" (pop): LIKE does not tell them apart.
CaseOnly == [f \in Folders |-> IF f \in {rock, pop} THEN {rock, pop} ELSE {f}]

\* Nothing tells songs, file names or requests apart but what they do.
Symmetry == Permutations(Songs) \cup Permutations(Names) \cup Permutations(Clients)
=============================================================================

--------------------------- MODULE MCLibraryAgent ---------------------------
(* Two files in two directories of the root. *)
EXTENDS LibraryAgent

CONSTANTS s1, s2, d1, d2

MCSources == {s1, s2}
MCDirectories == {d1, d2}
MCDirectoryOf == [s \in Sources |-> IF s = s1 THEN d1 ELSE d2]
=============================================================================

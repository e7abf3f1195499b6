---------------------------- MODULE MCCatalogSync ----------------------------
(* Two files, one of them in a folder of the other's folder. *)
EXTENDS CatalogSync, TLC

CONSTANTS s1, s2, c1, c2, worker, tool

MCSources == {s1, s2}
MCFolders == {"music", "music/album"}
MCFoldersOf == [s \in Sources |-> IF s = s1 THEN MCFolders ELSE {"music"}]

(* Neither the contents nor the threads are told apart. *)
MCSymmetry == Permutations({c1, c2}) \cup Permutations({worker, tool})
=============================================================================

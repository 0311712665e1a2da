--------------------------- MODULE MCConfigShared ---------------------------
(***************************************************************************)
(* ConfigFile with savers that overlap.                                    *)
(***************************************************************************)
EXTENDS ConfigFile, TLC

Symmetry == Permutations(UserLists) \cup Permutations(Schedules) \cup Permutations(Inodes)
=============================================================================

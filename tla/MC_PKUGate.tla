---------------------------- MODULE MC_PKUGate ----------------------------
(* PKUGate instantiated for TLC: 3 domains/keys, 2 pkucall slots, 2 entry *)
(* points, pkucalls nested 2 deep.                                         *)
EXTENDS PKUGate, TLC

CONSTANTS f1, f2, Null

MC_Entries == {f1, f2}

\* The entry points are interchangeable: nothing in the code tells them apart.
MC_Symmetry == Permutations(MC_Entries)

=============================================================================

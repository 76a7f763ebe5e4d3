---------------------------- MODULE MC_PKUNative ----------------------------
(* PKUNative with two GENPKU entry points and the null entry as model      *)
(* values; the entry points are interchangeable.                           *)
EXTENDS PKUNative, TLC

CONSTANTS f1, f2, Null

MC_Entries == {f1, f2}
MC_Symmetry == Permutations(MC_Entries)
=============================================================================

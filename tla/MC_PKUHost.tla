----------------------------- MODULE MC_PKUHost -----------------------------
(* PKUHost with two pages, one of them linear memory, and four values of *)
(* the host's PKRU: the Linux default, all ones, zero, and a word with the  *)
(* fields of keys 15 and 1 set.                                             *)
EXTENDS PKUHost

MC_PkruWords == {<<85, 85, 85, 84>>, <<255, 255, 255, 255>>, <<0, 0, 0, 0>>,
                 <<192, 0, 0, 12>>}
=============================================================================

-------------------------------- MODULE MCFat --------------------------------
(* Two threads and two files over three free blocks of two bytes: sizes of    *)
(* zero, a half, one and a half and two blocks.                              *)
EXTENDS Fat, TLC

CONSTANTS h1, h2, f1, f2

MCHilos == {h1, h2}
MCNombres == {f1, f2}
MCTamanios == {0, 1, 3, 4}
MCPunteros == {3}
Simetria == Permutations(MCHilos) \cup Permutations(MCNombres)
===============================================================================

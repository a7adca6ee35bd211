------------------------------- MODULE MCCerrojos -------------------------------
(* Two processes and two detached threads.                                 *)
EXTENDS Cerrojos, TLC

CONSTANTS p1, p2, h1, h2

MCProcesos == {p1, p2}
MCHilos == {h1, h2}
Simetria == Permutations(MCProcesos) \cup Permutations(MCHilos)
===============================================================================

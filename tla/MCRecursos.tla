------------------------------ MODULE MCRecursos ------------------------------
(* Model values for Recursos: two processes over two resources of a single  *)
(* instance, or three over one of them.                                     *)
EXTENDS Recursos, TLC

CONSTANTS p1, p2, p3, r1, r2

MCDosProcesos == {p1, p2}
MCTresProcesos == {p1, p2, p3}
MCUnRecurso == {r1}
MCDosRecursos == {r1, r2}
MCUnaInstancia == [r \in {r1} |-> 1]
MCUnaDeCada == [r \in {r1, r2} |-> 1]

(* The two resources are alike.                                             *)
MCSimetria == Permutations(MCDosRecursos)
===============================================================================

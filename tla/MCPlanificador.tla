---------------------------- MODULE MCPlanificador ----------------------------
(* Instances of Planificador for TLC. p1 has the worst priority, so under   *)
(* PRIORIDADES it is preempted whenever p2 reaches READY.                   *)
EXTENDS Planificador

CONSTANTS p1, p2, c1, c2

MCPrioridad == (p1 :> 2) @@ (p2 :> 1)

(* The threads of FINALIZAR_PROCESO are alike, and under FIFO the processes  *)
(* are too: no priority is looked at.                                       *)
MCIguales == Permutations({c1, c2}) \cup Permutations({p1, p2})

==============================================================================

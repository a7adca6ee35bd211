------------------------------ MODULE MCArchivos ------------------------------
(* Model values for Archivos: three processes, interchangeable.             *)
EXTENDS Archivos, TLC

CONSTANTS p1, p2, p3, f1

MCProcesos == {p1, p2, p3}
MCArchivos == {f1}
MCSimetria == Permutations(MCProcesos)
===============================================================================

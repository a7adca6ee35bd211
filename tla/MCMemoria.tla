------------------------------ MODULE MCMemoria ------------------------------
(* Three processes, of two pages, one and none, over two frames.             *)
EXTENDS Memoria

CONSTANTS p1, p2, p3

MCProcesos == {p1, p2, p3}
MCFinalizables == {p1}
MCPaginas == [p \in Procesos |-> CASE p = p1 -> 2 [] p = p2 -> 1 [] OTHER -> 0]
MCAlgoritmos == {"FIFO", "LRU"}
===============================================================================

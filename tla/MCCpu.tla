--------------------------------- MODULE MCCpu ---------------------------------
(* Model values for Cpu: a process that computes, blocks and uses its page,  *)
(* and one that opens a file; words of two bits.                             *)
EXTENDS Cpu

CONSTANTS p1, p2

I(op, r, r2, n) == [op |-> op, r |-> r, r2 |-> r2, n |-> n]
Op(op) == I(op, "AX", "AX", 0)

MCProcesos == {p1, p2}
MCPrograma ==
  [p \in {p1, p2} |->
     IF p = p1
     THEN <<I("SET", "AX", "AX", 1), I("MOV_OUT", "AX", "AX", 0), Op("WAIT"),
            Op("F_WRITE"), I("MOV_IN", "BX", "AX", 0), Op("EXIT")>>
     ELSE <<Op("F_OPEN"), Op("EXIT")>>]
===============================================================================

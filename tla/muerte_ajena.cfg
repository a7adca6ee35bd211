SPECIFICATION Spec
CONSTANTS
  p1 = p1  p2 = p2
  NULL = NULL
  Procesos <- MCProcesos
  Programa <- MCPrograma
  Finalizables = {p2}
  MODULO = 4  MaxHilos = 3  MaxReemplazos = 1  MaxPasos = 8
INVARIANTS MuereElPedido
CHECK_DEADLOCK FALSE

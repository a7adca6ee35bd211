SPECIFICATION Spec
CONSTANTS
  p1 = p1
  p2 = p2
  NULL = NULL
  Procesos = {p1, p2}
  Algoritmos = {"FIFO"}
  Prioridad <- MCPrioridad
  GradoInicial = 2
  Grados = {}
  MaxHilos = 1
  c1 = c1  c2 = c2
  Comandos = {c1, c2}
SYMMETRY MCIguales
INVARIANTS
  ExecUnico
  
  MemoriaDeVivos
CHECK_DEADLOCK FALSE

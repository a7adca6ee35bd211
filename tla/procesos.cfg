SPECIFICATION SpecProcesos
CONSTANTS
  p1 = p1
  p2 = p2
  c1 = c1  c2 = c2
  NULL = NULL
  Procesos = {p1, p2}
  Algoritmos = {"FIFO", "RR", "PRIORIDADES"}
  Prioridad <- MCPrioridad
  GradoInicial = 1
  Grados = {2}
  MaxHilos = 2
  Comandos = {}
INVARIANTS
  TypeOK
  ListasCoherentes
  CuentaDelCore
  SinDesacuerdos
  NingunReadyOlvidado
  NewAdmitidos
  PrioridadAtendida
  EsperasEnBlocked
PROPERTIES
  ImplementaCiclo
CHECK_DEADLOCK FALSE

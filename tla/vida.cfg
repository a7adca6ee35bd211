SPECIFICATION SpecJusta
CONSTANTS
  p1 = p1
  p2 = p2
  c1 = c1  c2 = c2
  NULL = NULL
  Procesos = {p1, p2}
  Algoritmos = {"FIFO"}
  Prioridad <- MCPrioridad
  GradoInicial = 2
  Grados = {1}
  MaxHilos = 2
  Comandos = {}
PROPERTIES
  TodosTerminan
CHECK_DEADLOCK FALSE

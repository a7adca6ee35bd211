SPECIFICATION Spec
CONSTANTS
  p1 = p1  p2 = p2  h1 = h1  h2 = h2
  NULL = NULL
  Procesos <- MCProcesos
  Hilos <- MCHilos
  Algoritmos = {"RR", "PRIORIDADES"}
  GRADO = 2  INSTANCIAS = 1
  MaxSucesos = 5  PESO = 4
INVARIANTS CirculosConocidos SinAutobloqueo PausaTermina
CHECK_DEADLOCK FALSE
SYMMETRY Simetria

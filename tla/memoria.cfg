SPECIFICATION Spec
CONSTANTS
  p1 = p1  p2 = p2  p3 = p3  NULL = NULL
  Procesos <- MCProcesos
  Finalizables <- MCFinalizables
  Paginas <- MCPaginas
  CANT_MARCOS = 2
  CANT_BLOQUES_SWAP = 4
  Algoritmos <- MCAlgoritmos
INVARIANTS MarcosExclusivos  VictimaElegible SwapExclusivo LecturaAntesDeLiberar
PROPERTY EsperasTerminan
CHECK_DEADLOCK FALSE

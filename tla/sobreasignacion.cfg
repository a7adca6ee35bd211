SPECIFICATION Spec
CONSTANTS
  p1 = p1  p2 = p2  p3 = p3  r1 = r1  r2 = r2
  NULL = NULL
  Procesos <- MCTresProcesos
  Recursos <- MCUnRecurso
  Instancias <- MCUnaInstancia
  Finalizables = {}
  MaxTomas = 1  MaxDeriva = 2  MaxAvisos = 1
INVARIANTS SinSobreasignar
CHECK_DEADLOCK FALSE

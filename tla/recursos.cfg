SPECIFICATION Spec
CONSTANTS
  p1 = p1  p2 = p2  p3 = p3  r1 = r1  r2 = r2
  NULL = NULL
  Procesos <- MCDosProcesos
  Recursos <- MCDosRecursos
  Instancias <- MCUnaDeCada
  Finalizables = {p1}
  MaxTomas = 2  MaxDeriva = 2  MaxAvisos = 1
SYMMETRY MCSimetria
INVARIANTS ColasCoherentes NadieOlvidado
PROPERTIES TurnoRespetado
CHECK_DEADLOCK FALSE

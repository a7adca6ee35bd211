SPECIFICATION Spec
CONSTANTS
  p1 = p1  p2 = p2  p3 = p3  f1 = f1
  NULL = NULL
  Procesos <- MCProcesos
  Nombres <- MCArchivos
  Finalizables <- MCProcesos
  MaxAbiertos = 4  MaxLectores = 3
SYMMETRY MCSimetria
INVARIANTS LocksExcluyentes ColaConLock EnColaSoloEspera UnPedidoPorBloqueado FileSystemConoce
PROPERTIES TurnoDeLaCola
CHECK_DEADLOCK FALSE

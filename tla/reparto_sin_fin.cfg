SPECIFICATION Spec
CONSTANTS
  p1 = p1  p2 = p2  p3 = p3  f1 = f1
  NULL = NULL
  Procesos <- MCProcesos
  Nombres <- MCArchivos
  Finalizables <- MCProcesos
  MaxAbiertos = 3  MaxLectores = 3
SYMMETRY MCSimetria
PROPERTIES RepartoALosQueEsperan
CHECK_DEADLOCK FALSE

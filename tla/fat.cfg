SPECIFICATION Spec
CONSTANTS
  h1 = h1  h2 = h2  f1 = f1  f2 = f2  NULL = NULL
  Hilos <- MCHilos
  Nombres <- MCNombres
  CANT_BLOQUES = 4
  TAM_BLOQUE = 2
  Tamanios <- MCTamanios
  Punteros <- MCPunteros
  MaxPedidos = 4
  MaxReinicios = 1
INVARIANTS CadenasSanas EscribeEnLoSuyo
PROPERTY DatosQuietos
CHECK_DEADLOCK FALSE
SYMMETRY Simetria

CONSTANTS
  p1 = p1 p2 = p2 s1 = s1 s2 = s2 w1 = w1 w2 = w2
  NoPago = NoPago NoSuscriptor = NoSuscriptor
  Pagos = {p1}
  Suscriptores = {s1}
  Workers = {w1, w2}
  Monto <- UnoYDos
  Entradas <- Ajustes
  MaxMonto = 2
  PoolSize = 3
  MaxManuales = 2
  MaxRepetidas = 1
  MaxFaults = 1
  MaxCrashes = 1
CHECK_DEADLOCK FALSE
SPECIFICATION LiveSpec
INVARIANTS TypeOK PagadoTieneAbono
PROPERTIES EstadoCuentaPromise CobroLlega

CONSTANTS
  p1 = p1 p2 = p2 s1 = s1 s2 = s2 w1 = w1 w2 = w2
  NoPago = NoPago NoSuscriptor = NoSuscriptor
  Pagos = {p1, p2}
  Suscriptores = {s1}
  Workers = {w1, w2}
  Monto <- UnoYDos
  Entradas <- Ninguno
  MaxMonto = 2
  PoolSize = 2
  MaxManuales = 0
  MaxRepetidas = 0
  MaxFaults = 0
  MaxCrashes = 0
CHECK_DEADLOCK FALSE
SPECIFICATION LiveSpec
PROPERTY EsperaTermina

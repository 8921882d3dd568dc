CONSTANTS
  c1 = c1 c2 = c2 s1 = s1 s2 = s2 n1 = n1 n2 = n2 n3 = n3 n4 = n4 n5 = n5 w1 = w1 w2 = w2
  basico = basico premium = premium
  NoSession = NoSession NoSuscriptor = NoSuscriptor NoMembresia = NoMembresia
  NoNegocio = NoNegocio NoEvent = NoEvent
  DuenoInicial <- UnNegocio
  Sessions = {c1}
  Suscriptores = {s1}
  Membresias = {basico}
  Negocios = {n1, n2, n3}
  Workers = {w1, w2}
  Ofertas <- Nuevo
  Tipos <- TiposCobro
  MaxRows = 2
  MaxPeriod = 1
  MaxFaults = 0
  MaxCrashes = 0
CHECK_DEADLOCK FALSE
SPECIFICATION Spec
INVARIANT OneNegocioPerSession

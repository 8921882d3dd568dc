SPECIFICATION SuscriptorSpec
CONSTANTS
    s1 = s1 s2 = s2
    w1 = w1 w2 = w2
    gratis = gratis
    plus = plus
    negocios = negocios promociones = promociones
    NoMembresia = NoMembresia
    NoSuscriptor = NoSuscriptor
    Suscriptores = {s1}
    Workers = {w1, w2}
    Membresias = {gratis, plus}
    Gratuita = gratis
    Tipos = {negocios}
    Limite <- MCLimite
    Reset <- MCReset
    PrimerMes = 11
    UltimoMes = 12
    MaxSusc = 3
    MaxPedidos = 3
    MaxFaults = 1
    f1 = f1 f2 = f2
    Personas = {f1, f2}
    Tramitadores = {w1, w2}
    Correos = {"a"}
    NoCorreo = "no"
    MaxPapeleos = 3
    MaxEdicionesCuenta = 2
    Tarjetas = {f1, f2}
    NoTarjeta = NoTarjeta
    Cajeros = {w1, w2}
    MaxClientes = 2
    MaxCobranzas = 4
    MaxFallasStripe = 1
    n1 = n1 n2 = n2
    Puntos = {f1, f2}
    Casas = {n1, n2}
    NoPunto = NoPunto
    Lectores = {w1, w2}
    MaxAvisos = 3
    Ciudades = {"gdl"}
    NoCiudad = "nula"
    MesesDelAnio = 2
    MaxMes = 2
VIEW Mirada
SYMMETRY Simetria
INVARIANTS SuscriptorTypeOK CupoRespetado SuscriptorEnRegla
PROPERTIES ConsumoEnActiva AutoProvisionUnica
CHECK_DEADLOCK FALSE

SPECIFICATION NegocioSpec
CONSTANTS
    s1 = s1 s2 = s2 d1 = d1 d2 = d2 w1 = w1 w2 = w2
    NoDispositivo = NoDispositivo
    NoSuscriptor = NoSuscriptor
    Suscriptores = {s1}
    Dispositivos = {d1, d2}
    Workers = {w1, w2}
    De <- DeUno
    MaxSesiones = 2
    MaxJti = 3
    MaxCierres = 1
    MaxPerdidas = 1
    MaxFaults = 1
    f1 = f1 f2 = f2
    PedidosImagen = {w1, w2}
    MaxSubidas = 2
    n1 = n1
    n2 = n2
    Negocios = {n1, n2}
    SucursalesDelNegocio = {f1, f2}
    Llamadas = {w1, w2}
    Cortesia = {n2}
    MaxSucursales = 1
    MaxNegocios = 1
    Ramas = {f1, f2}
    PedidosPromo = {w1, w2}
    MaxEnlaces = 2
    Plazas = {f1, f2}
    Tramites = {w1, w2}
    Vigencias <- MCVigencias
    MaxFecha = 2
    Tiendas = {f1, f2}
    Empresas = {n1, n2}
    Toques = {w1, w2}
    MaxEventos = 2
    MaxDia = 2
    Semana = 2
    Locaciones = {n1}
    Manos = {w1, w2}
    Giros <- MCGiros
    Reglamentos <- MCReglamentos
    MaxAlias = 2
    Articulos = {f1, f2}
    Meseros = {w1, w2}
    Precios = {0, 5}
    SinPrecio <- MCSinPrecio
    MaxReglas = 2
    MaxOrdenes = 4
VIEW Mirada
SYMMETRY SimetriaNegocio
INVARIANTS NegocioTypeOK NadieSaleSolo ImagenesVivas EstablecimientosEnRegla
           PromosEnRegla MetricasCuadran OfertaEnRegla
PROPERTIES SesionPromise
CHECK_DEADLOCK FALSE

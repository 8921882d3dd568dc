CONSTANTS
    Anuncios = {f1, f2}
    Gestores = {w1, w2}
    NoAnuncio = NoAnuncio
    Membresias <- MCMembresias
    Vigencia <- MCVigencia
    Periodos = 2
    MaxCupos = 2
    MaxExtra = 1
    MaxGestiones = 3
    MaxSolapadas = 2
    MaxCambios = 1
    MaxFallasAnuncios = 1
    unread = unread
    listar = listar
    activas = activas
    Claves = {unread, listar, activas}
    Clientes = {w1, w2}
    NoClave = NoClave
    Familia <- MCFamilia
    MaxEntries = 2
    Ttl = 0
    MaxReloj = 1
    MaxVersion = 1
    SesionIds = {f1, f2}
    Hilos = {w1, w2}
    NoSesionId = NoSesionId
    MaxMensajes = 3
    MaxSolapados = 2
    MaxDias = 2
    MaxTropiezos = 1
    Peticiones = {w1, w2}
    MaxIntentos = 2
    MaxOtp = 2
    MaxPedidos = 4
    MaxMinutos = 1
    MaxBajas = 1
    MaxFallasOtp = 1
    Editores = {w1, w2}
    NumDias = 3
    MaxHora = 3
    Jornadas <- MCJornadas
    MaxEdiciones = 3
    Usuarios = {w1, w2}
    MaxPerMinute = 2
    Window = 2
    MaxAhora = 4
    MaxLlamadas = 2
    Solicitudes = {w1, w2}
    PagosFacturables = {f1, f2}
    SinPago = SinPago
    MontoDe <- MCMonto
    Totales = {3}
    MaxFacturas = 3
    MaxCancelaciones = 1
    Llamadores = {w1, w2}
    MaxLlamadasResena = 4
    Sucursales = {f1, f2}
    NoSucursal = NoSucursal
    Atenciones = {w1, w2}
    MaxBusquedas = 2
    MaxToques = 2
    MaxFallasBusqueda = 1
    Destinatarios = {f1, f2}
    Remitentes = {w1, w2}
    MaxEnvios = 1
    MaxEdicionesMensaje = 3
    Locales = {f1, f2}
    TodoElNegocio = TodoElNegocio
    Encargados = {w1, w2}
    MaxPromociones = 2
    MaxNovedades = 2
    MaxEncargos = 3
    Fichas = {1, 2, 3, 4}
    Ficha <- MCFicha
    Palabras <- MCPalabras
    SinTexto = "nada"
    PalabraPromo = "promos"
    Groserias = {"grosera"}
    Radio = 10
    Limite = 3
    Consultas <- MCConsultas
    Textos <- MCTextos
    Chats = {w1, w2}
    CategoriaDe <- MCCategoriaDe
    SubcategoriaDe <- MCSubcategoriaDe
    MaxTextos = 2
    MaxFallasTexto = 1
    Capturistas = {w1, w2}
    NombresDom = {1, 2}
    DomiciliosIniciales <- MCDomicilios
    MaxDomicilios = 6
    MaxCapturas = 2
    Categorias = {"c1", "c2"}
    Subcategorias = {"s1", "s2"}
    Especialidades = {"e1"}
    RaizTaxonomia = "raiz"
    RamasIniciales <- MCRamas
    Curadores = {w1, w2}
    MaxCuraciones = 4
    Solicitantes = {"u1"}
    Anonimo = "nadie"
    NegocioDe <- MCNegocioDe
    NoNegocio = "sin"
    Folios = {1, 2}
    Agentes = {"a1"}
    NoAgente = "sin"
    Ventanillas = {w1, w2}
    TicketsIniciales <- MCTickets
    MaxTickets = 2
    MaxPeticionesSoporte = 2
SPECIFICATION Spec
VIEW Mirada
SYMMETRY Simetria
INVARIANTS ServiciosTypeOK
           AnunciosEnRegla VeLoAnunciado SesionEnRegla MensajesEnRegla CodigosEnRegla
           AbiertoSegunHorario EtiquetaDeAcuerdo DobleDelLimite
           FacturaUnica DesgloseExacto VisitantesEnRegla AvisosEnRegla
           BusquedaEnRegla CatalogosEnRegla
PROPERTIES ExpulsaLaMasAntigua
CHECK_DEADLOCK FALSE

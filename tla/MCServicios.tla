------------------------------ MODULE MCServicios ------------------------------
\* Components that share no state, each checked by itself in one run: servicio
\* says which one a behaviour is about.
EXTENDS Anuncios, CacheMemoria, Conversacion, Codigos, Horarios, Limitador, Facturas,
        Resenas, Busquedas, Buzon, Novedades, Interprete, Domicilios, Taxonomia,
        Soporte, TLC

CONSTANTS unread, listar, activas

MCMembresias == {[base |-> 1, ilimitada |-> FALSE, reglas |-> TRUE, slots |-> 1],
                 [base |-> 0, ilimitada |-> TRUE, reglas |-> TRUE, slots |-> 2],
                 [base |-> 1, ilimitada |-> FALSE, reglas |-> FALSE, slots |-> 0]}
MCVigencia == {[inicio |-> 1, fin |-> 2], [inicio |-> 2, fin |-> 3]}

MCFamilia == [k \in Claves |-> IF k = unread THEN {k} ELSE {listar, activas}]

\* The requests of every component are the same model values, and so are its rows.
Simetria == Permutations(Gestores) \cup Permutations(Anuncios)

MCJornadas == {[apertura |-> 1, cierre |-> 2, cerrado |-> FALSE],
               [apertura |-> 2, cierre |-> 1, cerrado |-> FALSE],
               [apertura |-> 0, cierre |-> 0, cerrado |-> FALSE],
               [apertura |-> 1, cierre |-> 2, cerrado |-> TRUE]}
MCMonto == [p \in PagosFacturables |-> 19900]


\* Two giros, with sushi in the name of a place, and among the items of others.
MCFicha ==
    LET Lugar(cat, sub, dice) ==
            [cat |-> cat, sub |-> sub, esp |-> 0, dice |-> dice, items |-> <<>>, km |-> 1,
             abierta |-> TRUE, promo |-> FALSE, copias |-> 1]
    IN  1 :> [Lugar(1, 1, {"comida", "sushi"}) EXCEPT !.km = 2, !.copias = 2]
     @@ 2 :> [Lugar(1, 2, {"comida"}) EXCEPT !.items = <<{"sushi"}, {"alitas", "sushi"}>>,
                  !.km = 30, !.abierta = FALSE, !.promo = TRUE]
     @@ 3 :> [Lugar(2, 3, {"traumatologia"}) EXCEPT !.esp = 1, !.copias = 0]
     @@ 4 :> [Lugar(2, 4, {"sushi", "corte"}) EXCEPT !.items = <<{"alitas"}>>]
MCPalabras == {"comida", "sushi", "alitas", "trauma", "traumatologia", "corte", "promos",
               "grosera"}
MCConsultas == [q : {"comida", "alitas", "promos", SinTexto}, cat : {0, 1}, sub : {0, 1},
                esp : {0}, car : BOOLEAN, abierto : {FALSE}, promos : BOOLEAN, cerca : BOOLEAN]

MCTextos ==
    LET Di(q) == [dice |-> q, limpio |-> q, meta |-> FALSE, charla |-> FALSE,
                  catalogo |-> FALSE, nombra |-> FALSE, ia |-> [cat |-> 0, sub |-> 0, esp |-> 0],
                  dic |-> [cat |-> 0, sub |-> 0, esp |-> 0], nombre |-> q, alias |-> SinTexto,
                  car |-> "no", resto |-> q, abierto |-> FALSE, promos |-> FALSE,
                  cerca |-> FALSE, ubicado |-> FALSE, negocioDeSalud |-> FALSE]
        DelGiroDe(q, cat, sub) == [Di(q) EXCEPT !.nombra = TRUE,
                                       !.ia = [cat |-> cat, sub |-> sub, esp |-> 0]]
        Cerca(m) == [m EXCEPT !.cerca = TRUE, !.ubicado = TRUE]
        sushi == DelGiroDe("sushi", 1, 1)
        comida == DelGiroDe("comida", 1, 0)
    IN {sushi, [sushi EXCEPT !.catalogo = TRUE], Cerca(sushi), Di("sushi"),
        [DelGiroDe("alitas", 1, 0) EXCEPT !.catalogo = TRUE],
        [Di("trauma") EXCEPT !.dic = [cat |-> 2, sub |-> 3, esp |-> 1],
             !.nombre = "traumatologia", !.alias = "traumatologia"],
        [Di("corte") EXCEPT !.nombra = TRUE],
        [Di("comida") EXCEPT !.car = "bd", !.resto = SinTexto],
        [comida EXCEPT !.abierto = TRUE], Cerca(comida),
        [Di("promos") EXCEPT !.promos = TRUE], [Di("comida") EXCEPT !.charla = TRUE]}
MCCategoriaDe == [s \in 0 .. 4 |-> IF s = 0 THEN 0 ELSE IF s <= 2 THEN 1 ELSE 2]
MCSubcategoriaDe == [e \in 0 .. 1 |-> IF e = 0 THEN 0 ELSE 3]

MCDomicilios ==
    LET F(t, p, n) == [tabla |-> t, padre |-> p, nombre |-> n, activo |-> TRUE]
        filas == <<F("calles", 0, 1), F("codigos", 1, 1), F("codigos", 1, 2), F("colonias", 2, 1)>>
    IN {<<>>, filas, [filas EXCEPT ![3].activo = FALSE]}
MCRamas ==
    LET R(p) == [estado |-> "activa", padre |-> p]
    IN {<<>>, "c1" :> R("raiz") @@ "c2" :> R("raiz") @@ "s1" :> R("c1")}

MCNegocioDe == "u1" :> "n" @@ "u2" :> "sin"
MCTickets ==
    LET T(tipo, quien, negocio) ==
            [folio |-> 1, tipo |-> tipo, usuario |-> quien, negocio |-> negocio,
             prioridad |-> "normal", estado |-> "pendiente", respuesta |-> 0,
             agente |-> "sin", resueltoAt |-> FALSE, cerradoAt |-> FALSE]
    IN {<<>>, <<T("solicitud_negocio", "u1", "n")>>, <<T("reporte_bug", "nadie", "sin")>>}

VARIABLE servicio
componentes == <<anunciosVars, cacheVars, conversacionVars, codigosVars, horariosVars,
                 limitadorVars, facturasVars, resenasVars, busquedasVars, buzonVars,
                 novedadesVars, buscadorVars, interpreteVars, domiciliosVars,
                 taxonomiaVars, soporteVars>>
vars == <<servicio, componentes>>

\* The component that is not looked at starts in one state.
Init ==
    /\ servicio \in {"anuncios", "cache", "conversacion", "codigos", "horarios",
                    "limitador", "facturas", "resenas", "busquedas", "buzon",
                    "novedades", "buscador", "interprete", "domicilios", "taxonomia",
                    "soporte"}
    /\ AnunciosInit /\ CacheInit /\ ConversacionInit /\ CodigosInit
    /\ HorariosInit /\ LimitadorInit /\ FacturasInit /\ ResenasInit
    /\ BusquedasInit /\ BuzonInit /\ NovedadesInit /\ BuscadorInit
    /\ InterpreteInit /\ DomiciliosInit /\ TaxonomiaInit /\ SoporteInit
    /\ servicio # "anuncios" =>
         /\ \A a \in Anuncios : anuncio[a] = NoFilaAnuncio
         /\ membresia.reglas /\ ~membresia.ilimitada
    /\ servicio # "facturas" => ~perfil
    /\ servicio # "novedades" => favoritos = {}
    /\ servicio \notin {"buscador", "interprete"} => vista = {}
    /\ IF servicio = "interprete" THEN Cardinality(vista) >= 3 ELSE preferido = SinGiro
    /\ servicio = "domicilios" <=> domicilio # <<>>
    /\ servicio = "taxonomia" <=> rama # <<>>
    /\ servicio # "soporte" => ticket = <<>>

Next ==
    /\ UNCHANGED servicio
    /\ \/ /\ servicio = "anuncios" /\ AnunciosNext
          /\ UNCHANGED <<cacheVars, conversacionVars, codigosVars, horariosVars,
                        limitadorVars, facturasVars, resenasVars, busquedasVars,
                        buzonVars, novedadesVars, buscadorVars, interpreteVars,
                        domiciliosVars, taxonomiaVars, soporteVars>>
       \/ /\ servicio = "cache" /\ CacheNext
          /\ UNCHANGED <<anunciosVars, conversacionVars, codigosVars, horariosVars,
                        limitadorVars, facturasVars, resenasVars, busquedasVars,
                        buzonVars, novedadesVars, buscadorVars, interpreteVars,
                        domiciliosVars, taxonomiaVars, soporteVars>>
       \/ /\ servicio = "conversacion" /\ ConversacionNext
          /\ UNCHANGED <<anunciosVars, cacheVars, codigosVars, horariosVars,
                        limitadorVars, facturasVars, resenasVars, busquedasVars,
                        buzonVars, novedadesVars, buscadorVars, interpreteVars,
                        domiciliosVars, taxonomiaVars, soporteVars>>
       \/ /\ servicio = "codigos" /\ CodigosNext
          /\ UNCHANGED <<anunciosVars, cacheVars, conversacionVars, horariosVars,
                        limitadorVars, facturasVars, resenasVars, busquedasVars,
                        buzonVars, novedadesVars, buscadorVars, interpreteVars,
                        domiciliosVars, taxonomiaVars, soporteVars>>
       \/ /\ servicio = "horarios" /\ HorariosNext
          /\ UNCHANGED <<anunciosVars, cacheVars, conversacionVars, codigosVars,
                        limitadorVars, facturasVars, resenasVars, busquedasVars,
                        buzonVars, novedadesVars, buscadorVars, interpreteVars,
                        domiciliosVars, taxonomiaVars, soporteVars>>
       \/ /\ servicio = "limitador" /\ LimitadorNext
          /\ UNCHANGED <<anunciosVars, cacheVars, conversacionVars, codigosVars,
                        horariosVars, facturasVars, resenasVars, busquedasVars,
                        buzonVars, novedadesVars, buscadorVars, interpreteVars,
                        domiciliosVars, taxonomiaVars, soporteVars>>
       \/ /\ servicio = "facturas" /\ FacturasNext
          /\ UNCHANGED <<anunciosVars, cacheVars, conversacionVars, codigosVars,
                        horariosVars, limitadorVars, resenasVars, busquedasVars,
                        buzonVars, novedadesVars, buscadorVars, interpreteVars,
                        domiciliosVars, taxonomiaVars, soporteVars>>
       \/ /\ servicio = "resenas" /\ ResenasNext
          /\ UNCHANGED <<anunciosVars, cacheVars, conversacionVars, codigosVars,
                        horariosVars, limitadorVars, facturasVars, busquedasVars,
                        buzonVars, novedadesVars, buscadorVars, interpreteVars,
                        domiciliosVars, taxonomiaVars, soporteVars>>
       \/ /\ servicio = "busquedas" /\ BusquedasNext
          /\ UNCHANGED <<anunciosVars, cacheVars, conversacionVars, codigosVars,
                        horariosVars, limitadorVars, facturasVars, resenasVars,
                        buzonVars, novedadesVars, buscadorVars, interpreteVars,
                        domiciliosVars, taxonomiaVars, soporteVars>>
       \/ /\ servicio = "buzon" /\ BuzonNext
          /\ UNCHANGED <<anunciosVars, cacheVars, conversacionVars, codigosVars,
                        horariosVars, limitadorVars, facturasVars, resenasVars,
                        busquedasVars, novedadesVars, buscadorVars, interpreteVars,
                        domiciliosVars, taxonomiaVars, soporteVars>>
       \/ /\ servicio = "novedades" /\ NovedadesNext
          /\ UNCHANGED <<anunciosVars, cacheVars, conversacionVars, codigosVars,
                        horariosVars, limitadorVars, facturasVars, resenasVars,
                        busquedasVars, buzonVars, buscadorVars, interpreteVars,
                        domiciliosVars, taxonomiaVars, soporteVars>>
       \/ /\ servicio = "buscador" /\ BuscadorNext
          /\ UNCHANGED <<anunciosVars, cacheVars, conversacionVars, codigosVars,
                        horariosVars, limitadorVars, facturasVars, resenasVars,
                        busquedasVars, buzonVars, novedadesVars, interpreteVars,
                        domiciliosVars, taxonomiaVars, soporteVars>>
       \/ /\ servicio = "interprete" /\ InterpreteNext
          /\ UNCHANGED <<anunciosVars, cacheVars, conversacionVars, codigosVars,
                        horariosVars, limitadorVars, facturasVars, resenasVars,
                        busquedasVars, buzonVars, novedadesVars, buscadorVars,
                        domiciliosVars, taxonomiaVars, soporteVars>>
       \/ /\ servicio = "domicilios" /\ DomiciliosNext
          /\ UNCHANGED <<anunciosVars, cacheVars, conversacionVars, codigosVars,
                        horariosVars, limitadorVars, facturasVars, resenasVars,
                        busquedasVars, buzonVars, novedadesVars, buscadorVars,
                        interpreteVars, taxonomiaVars, soporteVars>>
       \/ /\ servicio = "taxonomia" /\ TaxonomiaNext
          /\ UNCHANGED <<anunciosVars, cacheVars, conversacionVars, codigosVars,
                        horariosVars, limitadorVars, facturasVars, resenasVars,
                        busquedasVars, buzonVars, novedadesVars, buscadorVars,
                        interpreteVars, domiciliosVars, soporteVars>>
       \/ /\ servicio = "soporte" /\ SoporteNext
          /\ UNCHANGED <<anunciosVars, cacheVars, conversacionVars, codigosVars,
                        horariosVars, limitadorVars, facturasVars, resenasVars,
                        busquedasVars, buzonVars, novedadesVars, buscadorVars,
                        interpreteVars, domiciliosVars, taxonomiaVars>>

\* Nothing but the component that is looked at changes.
Mirada ==
    <<servicio,
      CASE servicio = "anuncios" -> anunciosVars
        [] servicio = "cache" -> cacheVars
        [] servicio = "conversacion" -> conversacionVars
        [] servicio = "codigos" -> codigosVars
        [] servicio = "horarios" -> horariosVars
        [] servicio = "limitador" -> limitadorVars
        [] servicio = "facturas" -> facturasVars
        [] servicio = "resenas" -> resenasVars
        [] servicio = "busquedas" -> busquedasVars
        [] servicio = "buzon" -> buzonVars
        [] servicio = "novedades" -> novedadesVars
        [] servicio = "buscador" -> buscadorVars
        [] servicio = "interprete" -> <<buscadorVars, interpreteVars>>
        [] servicio = "domicilios" -> domiciliosVars
        [] servicio = "taxonomia" -> taxonomiaVars
        [] servicio = "soporte" -> soporteVars>>

Spec == Init /\ [][Next]_vars

\* Every component keeps the shape of its rows.
ServiciosTypeOK ==
    CASE servicio = "anuncios" -> AnunciosTypeOK
      [] servicio = "cache" -> CacheTypeOK
      [] servicio = "conversacion" -> ConversacionTypeOK
      [] servicio = "codigos" -> CodigosTypeOK
      [] servicio = "horarios" -> HorariosTypeOK
      [] servicio = "limitador" -> LimitadorTypeOK
      [] servicio = "facturas" -> FacturasTypeOK
      [] servicio = "resenas" -> ResenasTypeOK
      [] servicio = "busquedas" -> BusquedasTypeOK
      [] servicio = "buzon" -> BuzonTypeOK
      [] servicio = "novedades" -> NovedadesTypeOK
      [] servicio = "buscador" -> BuscadorTypeOK
      [] servicio = "interprete" -> InterpreteTypeOK
      [] servicio = "domicilios" -> DomiciliosTypeOK
      [] servicio = "taxonomia" -> TaxonomiaTypeOK
      [] servicio = "soporte" -> SoporteTypeOK

\* What was answered to a review stays answered, and every business a search lists or a user
\* touches is counted once.
VisitantesEnRegla ==
    CASE servicio = "resenas" -> RespuestaIntacta [] servicio = "busquedas" -> CuentaCadaUna
      [] OTHER -> TRUE

\* What was sent is in the inboxes, what is new shows on time, and whoever wrote to support
\* finds the ticket as it was attended.
AvisosEnRegla ==
    CASE servicio = "buzon" -> BuzonFiel [] servicio = "novedades" -> NovedadesAlDia
      [] servicio = "soporte" -> TicketsEnRegla [] OTHER -> TRUE

\* A search gives back what meets its filters, and a text is widened only when nothing does.
BusquedaEnRegla ==
    CASE servicio = "buscador" -> ListaFiel [] servicio = "interprete" -> BusquedaHonrada
      [] OTHER -> TRUE

\* No address is there twice, and the tree of giros is as it was told.
CatalogosEnRegla ==
    CASE servicio = "domicilios" -> ClavesUnicas [] servicio = "taxonomia" -> ArbolComoSeDijo
      [] OTHER -> TRUE
=============================================================================

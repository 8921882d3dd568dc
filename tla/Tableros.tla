--------------------------------- MODULE Tableros --------------------------------
(***************************************************************************)
(* What the owner and the panel are told: the dashboards of a business and *)
(* of its branches (EstadisticasService), written query by query over the  *)
(* counters, the rows of detail, the likes and the promotions, and the     *)
(* reports of the sales of memberships (VentasMembresiasService).  An      *)
(* event adds to a counter and then inserts its row of detail; a sale      *)
(* looks its membership up and then is saved.  And what the front page of  *)
(* the public site shows of them (PublicSucursalesService).                *)
(***************************************************************************)
EXTENDS Integers, Sequences, FiniteSets, Functions

CONSTANTS Puntos, Casas,     \* branches, businesses
          NoPunto,
          Lectores,          \* the requests at work
          MaxAvisos,         \* bound: events, likes, promotions, sales, months
          Ciudades, NoCiudad,
          MesesDelAnio, MaxMes \* the months of a year; bound: the months that go by

ASSUME TablerosAssumption ==
    /\ IsFiniteSet(Puntos) /\ IsFiniteSet(Ciudades) /\ IsFiniteSet(Lectores)
    /\ NoPunto \notin Puntos /\ NoCiudad \notin Ciudades /\ Puntos \cap Casas = {}
    /\ Casas # {} /\ MaxAvisos \in Nat /\ MaxMes \in Nat /\ MesesDelAnio \in 1 .. MaxMes + 1

VARIABLES
    conteo,      \* estadisticas_negocios, estadisticas_sucursales
    renglon,     \* estadisticas_eventos
    local,       \* sucursales_negocios: likes, promotions in force, not eliminado
    venta,       \* ventas_membresias
    lector, avisos, mesTablero,
    perdidos     \* the events of a branch whose row of detail was not inserted

tablerosVars == <<conteo, renglon, local, venta, lector, avisos, mesTablero, perdidos>>

--------------------
\* CAMPO_POR_TIPO: a favourite has no column, and the other kinds go as a search does.
TipoEventoEstadistica == {"busqueda", "favorito"}
Campo == {"busqueda"}
Origen == {"chat", "unknown"}
\* entidad: the branch the event came for (entidad_id), NoPunto when it came for a business.
Renglon == [tipo : TipoEventoEstadistica, entidad : Puntos \cup {NoPunto},
            sucursal : Puntos \cup {NoPunto}, origen : Origen, sinResultados : BOOLEAN]
Estatus == {"pagado", "pendiente"}
PlanVendido == {"cortesia", "deluxe"}
Venta == [membresia : PlanVendido, ciudad : Ciudades \cup {NoCiudad}, estatus : Estatus,
          fecha : 0 .. MaxMes]
\* What each costs.
Monto(plan) == IF plan = "deluxe" THEN 2 ELSE 0
SinLector == [op |-> "libre"]
Lector == {SinLector} \cup [op : {"venta"}, fila : Venta]
    \cup [op : {"detalle"}, fila : Renglon, cuenta : Puntos \cup {NoPunto}]
CasaDe == [s \in Puntos |-> CHOOSE c \in Casas : TRUE]

TablerosTypeOK ==
    /\ conteo \in [Puntos \cup Casas -> [Campo -> 0 .. MaxAvisos]]
    /\ renglon \in Seq(Renglon) /\ Len(renglon) <= MaxAvisos
    /\ local \in [Puntos -> [likes : 0 .. MaxAvisos, promos : 0 .. MaxAvisos, vivo : BOOLEAN]]
    /\ venta \in Seq(Venta) /\ Len(venta) <= MaxAvisos
    /\ lector \in [Lectores -> Lector]
    /\ avisos \in 0 .. MaxAvisos /\ mesTablero \in 0 .. MaxMes
    /\ perdidos \in [Puntos -> 0 .. MaxAvisos]

TablerosInit ==
    /\ conteo = [e \in Puntos \cup Casas |-> [c \in Campo |-> 0]]
    /\ renglon = <<>> /\ venta = <<>>
    /\ local = [s \in Puntos |-> [likes |-> 0, promos |-> 0, vivo |-> TRUE]]
    /\ lector = [w \in Lectores |-> SinLector]
    /\ avisos = 0 /\ mesTablero \in {0, MesesDelAnio - 1} /\ perdidos = [s \in Puntos |-> 0]

--------------------
NuevoAviso == avisos < MaxAvisos /\ avisos' = avisos + 1
Ocupa(w, tarea) == lector[w] = SinLector /\ lector' = [lector EXCEPT ![w] = tarea]
Desocupa(w) == lector' = [lector EXCEPT ![w] = SinLector]

NormalizeOrigen(origen) == IF origen \in Origen THEN origen ELSE "unknown"
\* Mutant: only the branch that the detail names.
SoloLaDicha(e, punto) == punto
\* detalle.sucursalId, or the entity itself when it is a branch.
SucursalId(e, punto) == IF punto = NoPunto /\ e \in Puntos THEN e ELSE punto

\* registrarEvento: one upsert of the counter, if the kind has one.  The detail, which
\* anybody may send, names any branch or none, and is not compared with the counted one.
RegistrarEvento(w, tipo, e, punto, origen) ==
    /\ NuevoAviso
    /\ Ocupa(w, [op |-> "detalle",
                 fila |-> [tipo |-> tipo, entidad |-> IF e \in Puntos THEN e ELSE NoPunto,
                           sucursal |-> SucursalId(e, punto),
                           origen |-> NormalizeOrigen(origen), sinResultados |-> FALSE],
                 cuenta |-> IF e \in Puntos /\ tipo \in Campo THEN e ELSE NoPunto])
    /\ conteo' = IF tipo \in Campo THEN [conteo EXCEPT ![e][tipo] = @ + 1] ELSE conteo
    /\ UNCHANGED <<renglon, local, venta, mesTablero, perdidos>>
\* registrarBusquedaSinResultados: no counter.
RegistrarBusquedaSinResultados(w, punto, origen) ==
    /\ NuevoAviso
    /\ Ocupa(w, [op |-> "detalle",
                 fila |-> [tipo |-> "busqueda", entidad |-> punto, sucursal |-> punto,
                           origen |-> NormalizeOrigen(origen), sinResultados |-> TRUE],
                 cuenta |-> NoPunto])
    /\ UNCHANGED <<conteo, renglon, local, venta, mesTablero, perdidos>>
RegistrarEventoDetallado(w) ==
    /\ lector[w].op = "detalle" /\ Desocupa(w)
    /\ renglon' = Append(renglon, lector[w].fila)
    /\ UNCHANGED <<conteo, local, venta, avisos, mesTablero, perdidos>>

\* External to this part: a like, a promotion that starts, a branch that is deleted.
CambiaLocal(s, columna) ==
    /\ local[s].vivo /\ NuevoAviso
    /\ local' = IF columna = "vivo" THEN [local EXCEPT ![s].vivo = FALSE]
                ELSE [local EXCEPT ![s][columna] = @ + 1]
    /\ UNCHANGED <<conteo, renglon, venta, lector, mesTablero, perdidos>>

\* registrar: without a date the membership is looked up, and the date of the sale is that
\* of the insert.
Registrar(w, fila) ==
    /\ NuevoAviso /\ Ocupa(w, [op |-> "venta", fila |-> fila])
    /\ UNCHANGED <<conteo, renglon, local, venta, mesTablero, perdidos>>
GuardaVenta(w) ==
    /\ lector[w].op = "venta" /\ Desocupa(w)
    /\ venta' = Append(venta, [lector[w].fila EXCEPT !.fecha = mesTablero])
    /\ UNCHANGED <<conteo, renglon, local, avisos, mesTablero, perdidos>>

FallaLector(w) ==
    /\ lector[w] # SinLector /\ Desocupa(w)
    /\ perdidos' = IF lector[w].op = "detalle" /\ lector[w].cuenta # NoPunto
                   THEN [perdidos EXCEPT ![lector[w].cuenta] = @ + 1] ELSE perdidos
    /\ UNCHANGED <<conteo, renglon, local, venta, avisos, mesTablero>>
PasaMes ==
    /\ mesTablero < MaxMes /\ mesTablero' = mesTablero + 1 /\ NuevoAviso
    /\ UNCHANGED <<conteo, renglon, local, venta, lector, perdidos>>

TablerosNext ==
    \/ PasaMes
    \/ \E w \in Lectores :
        \/ RegistrarEventoDetallado(w) \/ GuardaVenta(w) \/ FallaLector(w)
        \/ \E punto \in Puntos \cup {NoPunto}, origen \in {"chat", "otro"} :
            \/ RegistrarBusquedaSinResultados(w, punto, origen)
            \/ \E tipo \in TipoEventoEstadistica, e \in Puntos \cup Range(CasaDe) :
                RegistrarEvento(w, tipo, e, punto, origen)
        \/ \E fila \in {v \in Venta : v.fecha = 0} : Registrar(w, fila)
    \/ \E s \in Puntos, columna \in {"likes", "promos", "vivo"} : CambiaLocal(s, columna)

TablerosSpec == TablerosInit /\ [][TablerosNext]_tablerosVars

--------------------
SumaDe(f, S) == FoldFunctionOnSet(+, 0, f, S)
PuntosDe(c) == {s \in Puntos : CasaDe[s] = c /\ local[s].vivo}

\* getKpisSucursal: the cards of a branch; and its row in getGlobalMetricsNegocio.
GetKpisSucursal(s) ==
    [busqueda |-> conteo[s]["busqueda"], likes |-> local[s].likes]
FilaSucursal(s) ==
    [busquedas |-> conteo[s]["busqueda"], likes |-> local[s].likes,
     promociones |-> local[s].promos]
Columnas == {"busquedas", "likes", "promociones"}

\* getGlobalMetricsNegocio: the rows of its branches, added up.
GetGlobalMetricsNegocio(c) ==
    [sucursales |-> Cardinality(PuntosDe(c)),
     totales |-> [k \in Columnas |->
         SumaDe([s \in Puntos |-> FilaSucursal(s)[k]], PuntosDe(c))]]

\* getGlobalMetricsResumenNegocios: each subquery groups its own join by business, so no
\* table multiplies the rows of another.
Agrupa(c, columna) ==
    SumaDe([s \in Puntos |-> IF CasaDe[s] = c /\ local[s].vivo THEN columna[s] ELSE 0], Puntos)
ResumenNegocio(c) ==
    [sucursales |-> Agrupa(c, [s \in Puntos |-> 1]),
     totales |-> [busquedas |-> Agrupa(c, [s \in Puntos |-> conteo[s]["busqueda"]]),
                  likes |-> Agrupa(c, [s \in Puntos |-> local[s].likes]),
                  promociones |-> Agrupa(c, [s \in Puntos |-> local[s].promos])]]

\* getDesgloseSucursal, formatearPorOrigen.
RenglonesDe(s) == {i \in DOMAIN renglon : renglon[i].sucursal = s}
PorOrigen(s, tipo) ==
    [o \in Origen |-> Cardinality({i \in RenglonesDe(s) :
         renglon[i].tipo = tipo /\ renglon[i].origen = o /\ ~renglon[i].sinResultados})]
BusquedasSinResultado(s) ==
    Cardinality({i \in RenglonesDe(s) : renglon[i].tipo = "busqueda" /\ renglon[i].sinResultados})

\* construirFiltros: what is not asked for is not filtered.
Anio(i) == venta[i].fecha \div MesesDelAnio
ConstruirFiltros(anios, ciudades) ==
    {i \in DOMAIN venta : /\ venta[i].estatus = "pagado"
                          /\ Anio(i) \in anios /\ venta[i].ciudad \in ciudades}
Todas == Ciudades \cup {NoCiudad}
Anios == 0 .. MaxMes \div MesesDelAnio
Recaudado(S) == SumaDe([i \in DOMAIN venta |-> Monto(venta[i].membresia)], S)
Reporte(S, Clave(_)) ==
    [k \in {Clave(i) : i \in S} |->
        LET grupo == {i \in S : Clave(i) = k}
        IN  [vendidas |-> Cardinality(grupo), recaudado |-> Recaudado(grupo)]]
ResumenVentas(ciudades) ==
    Reporte(ConstruirFiltros(Anios, ciudades), LAMBDA i : venta[i].membresia)
ReportePorCiudad ==
    Reporte(ConstruirFiltros(Anios, Todas), LAMBDA i : <<venta[i].ciudad, venta[i].membresia>>)
ReporteMensual(anio) ==
    Reporte(ConstruirFiltros({anio}, Todas), LAMBDA i : venta[i].fecha % MesesDelAnio)
ReporteAnual == Reporte(ConstruirFiltros(Anios, Todas), LAMBDA i : Anio(i))
Total(reporte, columna) ==
    SumaDe([k \in DOMAIN reporte |-> reporte[k][columna]], DOMAIN reporte)

\* The front page of the public site.  baseQuery: what is not eliminado.
Publicas == {s \in Puntos : local[s].vivo}
\* ORDER BY valor DESC LIMIT n: a tie is settled any way.
PrimerosDe(S, valor, n) ==
    {L \in SUBSET S :
        /\ Cardinality(L) = (IF Cardinality(S) < n THEN Cardinality(S) ELSE n)
        /\ \A s \in L, t \in S \ L : valor[s] >= valor[t]}
Buscado == [s \in Puntos |-> conteo[s]["busqueda"]]
Gustado == [s \in Puntos |-> local[s].likes]
\* A margin is taken from the ranking, and then the deleted ones go.
DelRanking(S, valor, margen, n) ==
    UNION {PrimerosDe(alta \cap Publicas, valor, n) : alta \in PrimerosDe(S, valor, margen)}
MasLikes(n) == DelRanking({s \in Puntos : Gustado[s] > 0}, Gustado, n * 3, n)
\* The history has no rows: the totals; with no totals, the most recent.
MasBuscados(n) ==
    LET conFila == {s \in Puntos : Buscado[s] > 0}
    IN  IF conFila = {} THEN PrimerosDe(Publicas, [s \in Puntos |-> 0], n)
        ELSE DelRanking(conFila, Buscado, n * 5, n)
ConPromo == {s \in Publicas : local[s].promos > 0}
\* sugeridos: those with a promotion, completed with those that have none.
Sugeridos(n) ==
    UNION {{conPromo \cup recientes :
             recientes \in PrimerosDe(Publicas \ conPromo, [s \in Puntos |-> 0],
                                      n - Cardinality(conPromo))} :
           conPromo \in PrimerosDe(ConPromo, [s \in Puntos |-> 0], n)}

\* What came for a branch and its detail gave to another.
Ajenos(s) == {i \in DOMAIN renglon : renglon[i].entidad = s
                                        /\ renglon[i].sucursal \in Puntos \ {s}}

--------------------
\* "Resumen liviano": whatever was counted, liked, promoted or deleted, the list says of each
\* business what its dashboard says, though one adds up in joins and the other row by row.
TablerosDeAcuerdo == \A c \in Casas : ResumenNegocio(c) = GetGlobalMetricsNegocio(c)

\* What the cards count of a branch is in its breakdown by origin, but what is being written,
\* what was lost between the counter and its row, and what the caller's detail gave to the
\* breakdown of another branch.  And no row is in two origins.
DesgloseCompleto ==
    \A s \in Puntos :
        /\ \A tipo \in Campo :
             GetKpisSucursal(s)[tipo] <= SumaDe(PorOrigen(s, tipo), Origen) + perdidos[s]
                 + Cardinality(Ajenos(s))
                 + Cardinality({w \in Lectores : lector[w].op = "detalle"
                                                   /\ lector[w].cuenta = s})
        /\ Cardinality(RenglonesDe(s)) = BusquedasSinResultado(s)
             + SumaDe([t \in TipoEventoEstadistica |-> SumaDe(PorOrigen(s, t), Origen)],
                      TipoEventoEstadistica)

\* The four reports say of what was sold and charged the same total, each month in its year.
VentasCuadran ==
    \A columna \in {"vendidas", "recaudado"} :
        LET todo == Total(ResumenVentas(Todas), columna)
        IN  /\ Total(ReportePorCiudad, columna) = todo
            /\ Total(ReporteAnual, columna) = todo
            /\ \A anio \in DOMAIN ReporteAnual :
                 Total(ReporteMensual(anio), columna) = ReporteAnual[anio][columna]
            /\ todo = Total(ResumenVentas({NoCiudad}), columna)
                 + SumaDe([c \in Ciudades |-> Total(ResumenVentas({c}), columna)], Ciudades)

\* The front page shows no branch that was deleted, and of the others those that were liked,
\* or looked for, most, while the ranking fits its margin; and no branch without a promotion
\* is suggested while one that has it is left out.
PortadaFiel ==
    \A n \in 1 .. 2 :
        /\ \A L \in MasLikes(n) \cup MasBuscados(n) \cup Sugeridos(n) :
             L \subseteq Publicas /\ Cardinality(L) <= n
        /\ Cardinality(Puntos) <= n * 3 =>
             /\ MasLikes(n) = PrimerosDe({s \in Publicas : Gustado[s] > 0}, Gustado, n)
             /\ \A L \in MasBuscados(n) :
                  \A s \in L, t \in Publicas \ L : Buscado[s] >= Buscado[t]
        /\ \A L \in Sugeridos(n) :
             /\ Cardinality(L) = n \/ L = Publicas
             /\ L \subseteq ConPromo \/ ConPromo \subseteq L

TablerosEnRegla ==
    TablerosDeAcuerdo /\ DesgloseCompleto /\ VentasCuadran /\ PortadaFiel
=============================================================================

-------------------------------- MODULE Novedades --------------------------------
(***************************************************************************)
(* What a subscriber is told of the branches kept as favourites: the       *)
(* promotions of a branch, made for one or for several in a lot            *)
(* (PromocionesSucursalesService), each with its event                     *)
(* (EventosNegociosService), and the summary of those not read             *)
(* (BookmarksService), which is kept ten seconds in the cache.  A step is  *)
(* a call to the database; one subscriber, and the branches of a business. *)
(***************************************************************************)
EXTENDS Integers, FiniteSets

CONSTANTS Locales, TodoElNegocio,
          Encargados,      \* the requests at work
          MaxPromociones,  \* bound: promotions
          MaxNovedades,    \* bound: events
          MaxEncargos      \* bound: requests that change something

ASSUME NovedadesAssumption ==
    /\ IsFiniteSet(Locales) /\ TodoElNegocio \notin Locales
    /\ MaxPromociones \in Nat /\ MaxNovedades \in Nat /\ MaxEncargos \in Nat

VARIABLES
    promocion,    \* promociones_sucursales, by id
    novedad,      \* eventos_negocios, by id
    leidas,       \* lecturas_eventos_negocios of the subscriber
    favoritos,    \* sucursales_favoritos of the subscriber
    resumen,      \* "bookmarks:unread-summary" in the cache
    encargado, encargos, publicaFallo,
    solapoResumen, \* a summary was computed beside a change of what it is about
    marcadas      \* events marked as read from the favourites

novedadesVars == <<promocion, novedad, leidas, favoritos, resumen, encargado, encargos,
                   publicaFallo, solapoResumen, marcadas>>

--------------------
PromoIds == 1 .. MaxPromociones
NovedadIds == 1 .. MaxNovedades
Promocion == [local : Locales, eliminado : BOOLEAN]
NoPromocion == [local |-> TodoElNegocio, eliminado |-> TRUE]
Novedad == [local : Locales \cup {TodoElNegocio}, promo : PromoIds \cup {0}, activo : BOOLEAN]
NoNovedad == [local |-> TodoElNegocio, promo |-> 0, activo |-> FALSE]

\* The events counted for each favourite: how many, and of how many favourites, are the
\* two numbers of the summary.
Resumen == UNION {[f -> SUBSET NovedadIds] : f \in SUBSET Locales}
SinResumen == [l \in {TodoElNegocio} |-> {}]

Encargado == [paso : {"idle", "lote", "guarda", "avisa", "quita", "agrega", "marca",
                      "marcaPorId", "cuenta"},
              promo : PromoIds \cup {0}, fila : Promocion \cup {NoPromocion},
              faltan : SUBSET Locales, ids : SUBSET NovedadIds, suma : Resumen]
SinEncargo == [paso |-> "idle", promo |-> 0, fila |-> NoPromocion, faltan |-> {}, ids |-> {},
               suma |-> [l \in {} |-> {}]]

NovedadesTypeOK ==
    /\ promocion \in [PromoIds -> Promocion \cup {NoPromocion}]
    /\ novedad \in [NovedadIds -> Novedad \cup {NoNovedad}]
    /\ leidas \subseteq NovedadIds /\ marcadas \subseteq leidas
    /\ favoritos \subseteq Locales
    /\ resumen \in Resumen \cup {SinResumen}
    /\ encargado \in [Encargados -> Encargado]
    /\ encargos \in 0 .. MaxEncargos
    /\ publicaFallo \in BOOLEAN /\ solapoResumen \in BOOLEAN

NovedadesInit ==
    /\ promocion = [p \in PromoIds |-> NoPromocion]
    /\ novedad = [n \in NovedadIds |-> NoNovedad]
    /\ leidas = {} /\ favoritos \in SUBSET Locales /\ resumen = SinResumen
    /\ encargado = [e \in Encargados |-> SinEncargo]
    /\ encargos = 0 /\ publicaFallo = FALSE /\ solapoResumen = FALSE /\ marcadas = {}

--------------------
EnEncargo(e, paso)  == encargado[e].paso = paso
SigueEncargo(e, w)      == encargado' = [encargado EXCEPT ![e] = w]
HaceOtro(e, pasos) == \E o \in Encargados \ {e} : encargado[o].paso \in pasos
TablasIgual      == UNCHANGED <<promocion, novedad, publicaFallo>>
LectorIgual      == UNCHANGED <<leidas, favoritos, resumen, solapoResumen, marcadas>>
NuevoEncargo     == encargos < MaxEncargos /\ encargos' = encargos + 1

\* crear: the branches the promotion is for, then a row and its event for each.
PublicaPromocion(e, destino) ==
    /\ EnEncargo(e, "idle") /\ destino # {} /\ NuevoEncargo
    /\ Cardinality(destino) <= MaxPromociones - Cardinality({p \in PromoIds : promocion[p] # NoPromocion})
    /\ SigueEncargo(e, [SinEncargo EXCEPT !.paso = "lote", !.faltan = destino])
    /\ TablasIgual /\ LectorIgual

GuardaNueva(e) ==
    /\ EnEncargo(e, "lote")
    /\ \E l \in encargado[e].faltan, p \in PromoIds :
        /\ promocion[p] = NoPromocion /\ \A k \in PromoIds : k < p => promocion[k] # NoPromocion
        /\ promocion' = [promocion EXCEPT ![p] = [local |-> l, eliminado |-> FALSE]]
        /\ SigueEncargo(e, [encargado[e] EXCEPT !.paso = "avisa", !.promo = p, !.fila = promocion'[p],
                                         !.faltan = @ \ {l}])
    /\ UNCHANGED <<encargos, novedad, publicaFallo>> /\ LectorIgual

\* actualizar, eliminar: findOne, then a save of what was found.
CambiaPromocion(e, p, retira) ==
    /\ EnEncargo(e, "idle") /\ promocion[p] # NoPromocion /\ ~promocion[p].eliminado
    /\ NuevoEncargo
    /\ SigueEncargo(e, [SinEncargo EXCEPT !.paso = "guarda", !.promo = p,
                                   !.fila = [promocion[p] EXCEPT !.eliminado = retira]])
    /\ TablasIgual /\ LectorIgual
GuardaCambio(e) ==
    /\ EnEncargo(e, "guarda")
    /\ promocion' = [promocion EXCEPT ![encargado[e].promo] = encargado[e].fila]
    /\ SigueEncargo(e, [encargado[e] EXCEPT !.paso = "avisa"])
    /\ UNCHANGED <<encargos, novedad, publicaFallo>> /\ LectorIgual

CreaNovedad(l, p) ==
    \E n \in NovedadIds :
        /\ novedad[n] = NoNovedad /\ \A k \in NovedadIds : k < n => novedad[k] # NoNovedad
        /\ novedad' = [novedad EXCEPT ![n] = [local |-> l, promo |-> p, activo |-> TRUE]]

\* registrarEventoPromocionSucursal
Avisa(e) ==
    /\ EnEncargo(e, "avisa")
    /\ LET w == encargado[e]
       IN  /\ CreaNovedad(w.fila.local, w.promo)
           /\ SigueEncargo(e, IF w.faltan = {} THEN SinEncargo
                       ELSE [SinEncargo EXCEPT !.paso = "lote", !.faltan = w.faltan])
    /\ UNCHANGED <<encargos, promocion, publicaFallo>> /\ LectorIgual

\* An event of the whole business (EventosNegociosController, PromocionesNegocios).
CrearEvento ==
    /\ CreaNovedad(TodoElNegocio, 0) /\ NuevoEncargo
    /\ UNCHANGED <<promocion, publicaFallo, encargado>> /\ LectorIgual
DesactivarEvento(n) ==
    /\ novedad[n].activo /\ NuevoEncargo /\ novedad' = [novedad EXCEPT ![n].activo = FALSE]
    /\ UNCHANGED <<promocion, publicaFallo, encargado>> /\ LectorIgual

\* A call that rejects.
FallaEncargo(e) ==
    /\ ~EnEncargo(e, "idle") /\ SigueEncargo(e, SinEncargo)
    /\ publicaFallo' = (publicaFallo \/ encargado[e].paso \in {"lote", "guarda", "avisa"})
    /\ UNCHANGED <<encargos, promocion, novedad>> /\ LectorIgual

--------------------
Cambian == {"quita", "agrega", "marca"}

\* Mutant: what changes the favourites or their events leaves the summary.
DejaResumen(r) == r
OlvidaResumen(r) == SinResumen

\* toggle: findOne, then a removal or an insert, and the summary is forgotten.
ToggleFavorito(e, l) ==
    /\ EnEncargo(e, "idle") /\ NuevoEncargo
    /\ SigueEncargo(e, [SinEncargo EXCEPT !.paso = IF l \in favoritos THEN "quita" ELSE "agrega",
                                   !.faltan = {l}])
    /\ solapoResumen' = (solapoResumen \/ HaceOtro(e, {"cuenta"}))
    /\ TablasIgual /\ UNCHANGED <<leidas, favoritos, resumen, marcadas>>
GuardaFavorito(e) ==
    /\ encargado[e].paso \in {"quita", "agrega"}
    /\ LET w == encargado[e]
       IN  IF EnEncargo(e, "agrega") /\ w.faltan \subseteq favoritos   \* UNIQUE
           THEN UNCHANGED <<favoritos, resumen>>
           ELSE /\ favoritos' = IF EnEncargo(e, "quita") THEN favoritos \ w.faltan
                                ELSE favoritos \cup w.faltan
                /\ resumen' = OlvidaResumen(resumen)
    /\ SigueEncargo(e, SinEncargo)
    /\ TablasIgual /\ UNCHANGED <<encargos, leidas, solapoResumen, marcadas>>

NoLeidas(l) == {n \in NovedadIds : novedad[n].activo /\ novedad[n].local = l} \ leidas

\* marcarEventosFavoritoComoLeidos, of a branch or (l = TodoElNegocio) without one.
MarcarFavorito(e, l) ==
    /\ EnEncargo(e, "idle") /\ NuevoEncargo
    /\ LET ids == NoLeidas(l) \cup NoLeidas(TodoElNegocio)
       IN  /\ ids # {}
           /\ SigueEncargo(e, [SinEncargo EXCEPT !.paso = "marca", !.ids = ids])
    /\ solapoResumen' = (solapoResumen \/ HaceOtro(e, {"cuenta"}))
    /\ TablasIgual /\ UNCHANGED <<leidas, favoritos, resumen, marcadas>>
\* marcarEventosComoLeidos, from the events themselves.
MarcarPorId(e, n) ==
    /\ EnEncargo(e, "idle") /\ NuevoEncargo /\ novedad[n] # NoNovedad /\ n \notin leidas
    /\ SigueEncargo(e, [SinEncargo EXCEPT !.paso = "marcaPorId", !.ids = {n}])
    /\ TablasIgual /\ UNCHANGED <<leidas, favoritos, resumen, solapoResumen, marcadas>>
\* One transaction: an event that was read meanwhile refuses them all (UNIQUE).
GuardaLecturas(e) ==
    /\ encargado[e].paso \in {"marca", "marcaPorId"}
    /\ LET ids == encargado[e].ids
       IN  IF ids \cap leidas # {} THEN UNCHANGED <<leidas, resumen, marcadas>>
           ELSE /\ leidas' = leidas \cup ids
                /\ IF EnEncargo(e, "marca")
                   THEN marcadas' = marcadas \cup ids /\ resumen' = OlvidaResumen(resumen)
                   ELSE UNCHANGED <<marcadas, resumen>>
    /\ SigueEncargo(e, SinEncargo)
    /\ TablasIgual /\ UNCHANGED <<encargos, favoritos, solapoResumen>>

\* obtenerResumenNoLeidosFavoritos: one count for each favourite found.
ObtenerResumen(e) ==
    /\ EnEncargo(e, "idle") /\ resumen = SinResumen
    /\ IF favoritos = {} THEN resumen' = [l \in {} |-> {}] /\ UNCHANGED encargado
       ELSE /\ UNCHANGED resumen
            /\ SigueEncargo(e, [SinEncargo EXCEPT !.paso = "cuenta", !.faltan = favoritos])
    /\ solapoResumen' = (solapoResumen \/ HaceOtro(e, Cambian))
    /\ TablasIgual /\ UNCHANGED <<encargos, leidas, favoritos, marcadas>>
CuentaNoLeidas(e) ==
    /\ EnEncargo(e, "cuenta")
    /\ LET w == encargado[e]
       IN  \E l \in w.faltan :
            LET suma == [k \in DOMAIN w.suma \cup {l} |->
                           IF k = l THEN NoLeidas(l) \cup NoLeidas(TodoElNegocio) ELSE w.suma[k]]
            IN  IF w.faltan = {l} THEN resumen' = suma /\ SigueEncargo(e, SinEncargo)
                ELSE /\ SigueEncargo(e, [w EXCEPT !.faltan = @ \ {l}, !.suma = suma])
                     /\ UNCHANGED resumen
    /\ TablasIgual /\ UNCHANGED <<encargos, leidas, favoritos, solapoResumen, marcadas>>

\* The ten seconds pass.
CaducaResumen ==
    /\ resumen # SinResumen /\ resumen' = SinResumen
    /\ TablasIgual
    /\ UNCHANGED <<encargos, encargado, leidas, favoritos, solapoResumen, marcadas>>

NovedadesNext ==
    \/ \E e \in Encargados :
        \/ \E destino \in SUBSET Locales : PublicaPromocion(e, destino)
        \/ \E p \in PromoIds, retira \in BOOLEAN : CambiaPromocion(e, p, retira)
        \/ GuardaNueva(e) \/ GuardaCambio(e) \/ Avisa(e) \/ FallaEncargo(e)
        \/ \E l \in Locales : ToggleFavorito(e, l)
        \/ \E l \in Locales \cup {TodoElNegocio} : MarcarFavorito(e, l)
        \/ \E n \in NovedadIds : MarcarPorId(e, n)
        \/ GuardaFavorito(e) \/ GuardaLecturas(e) \/ ObtenerResumen(e) \/ CuentaNoLeidas(e)
    \/ CrearEvento \/ CaducaResumen
    \/ \E n \in NovedadIds : DesactivarEvento(n)

NovedadesSpec == NovedadesInit /\ [][NovedadesNext]_novedadesVars

--------------------
\* The summary the subscriber is shown is of the favourites there are, and counts no
\* event that was marked as read from them, unless it was computed beside such a change;
\* and every promotion was announced to its branch once no request is at work, unless
\* one failed between the two.
NovedadesAlDia ==
    /\ resumen # SinResumen /\ ~solapoResumen =>
         DOMAIN resumen = favoritos /\ \A l \in favoritos : resumen[l] \cap marcadas = {}
    /\ ~publicaFallo => \A p \in PromoIds :
         promocion[p] = NoPromocion \/ (\E e \in Encargados : encargado[e].promo = p)
         \/ \E n \in NovedadIds : novedad[n].promo = p /\ novedad[n].local = promocion[p].local
=============================================================================

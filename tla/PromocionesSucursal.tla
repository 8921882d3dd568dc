-------------------------- MODULE PromocionesSucursal --------------------------
(***************************************************************************)
(* The promotions of the branches: PromocionesSucursalesService, and the   *)
(* suggestions of the public page, which read the same rows.  A lot is one *)
(* row for each branch it was asked for, saved one after the other; update *)
(* and delete read the row and save it whole.                              *)
(***************************************************************************)
EXTENDS Integers, FiniteSets

CONSTANTS Plazas,            \* branches of a business; bound: one promotion in each
          Tramites,          \* requests
          Vigencias,         \* [inicio, fin] the owner may type, the end before the start too
          MaxFecha

ASSUME PromosSucursalAssumption ==
    /\ IsFiniteSet(Plazas) /\ MaxFecha \in Nat /\ Vigencias # {}
    /\ \A v \in Vigencias : v.inicio \in 0 .. MaxFecha /\ v.fin \in 0 .. MaxFecha

VARIABLES
    oferta,        \* the row of each branch
    plazasVivas,
    fechaActual,   \* CURDATE(); fecha_inicio and fecha_fin are dates
    tramite,
    cruzadas,      \* branches whose row two requests held at a time
    retiradas      \* branches whose promotion was deleted, and its owner told so

promosSucursalVars == <<oferta, plazasVivas, fechaActual, tramite, cruzadas, retiradas>>

--------------------
EstadosOferta == {"libre", "viva", "eliminada"}
Oferta == [estado : EstadosOferta, activa : BOOLEAN, vigencia : Vigencias]
Plano == [estado |-> "libre", activa |-> FALSE, vigencia |-> CHOOSE v \in Vigencias : TRUE]
\* faltan: the branches whose row is to be saved.
Tramite == [faltan : SUBSET Plazas, fila : Oferta]
SinTramite == [faltan |-> {}, fila |-> Plano]

PromosSucursalTypeOK ==
    /\ oferta \in [Plazas -> Oferta] /\ plazasVivas \subseteq Plazas /\ fechaActual \in 0 .. MaxFecha
    /\ tramite \in [Tramites -> Tramite]
    /\ cruzadas \subseteq Plazas /\ retiradas \subseteq Plazas

PromosSucursalInit ==
    /\ oferta = [s \in Plazas |-> Plano] /\ plazasVivas = Plazas /\ fechaActual = 0
    /\ tramite = [w \in Tramites |-> SinTramite]
    /\ cruzadas = {} /\ retiradas = {}

--------------------
EnTramites == UNION {tramite[w].faltan : w \in Tramites}
Tramita(w, S, fila) ==
    /\ tramite[w] = SinTramite
    /\ tramite' = [tramite EXCEPT ![w] = [faltan |-> S, fila |-> fila]]
    /\ cruzadas' = cruzadas \cup (S \cap EnTramites)
    /\ UNCHANGED <<oferta, plazasVivas, fechaActual, retiradas>>

\* resolveTargetSucursales: the branch alone, which may be deleted, all the live ones of
\* its business, or those named and itself, without the deleted ones.
Destinos(ancla, todas, ids) ==
    LET S == IF todas THEN plazasVivas ELSE plazasVivas \cap (ids \cup {ancla}) IN
    IF (~todas /\ ids = {}) \/ S = {} THEN {ancla} ELSE S

\* crear
CreaOferta(w, ancla, todas, ids, v, activa) ==
    LET S == Destinos(ancla, todas, ids) IN
    /\ \A s \in S : oferta[s] = Plano /\ s \notin EnTramites
    /\ Tramita(w, S, [estado |-> "viva", activa |-> activa, vigencia |-> v])

\* actualizar, and eliminar, which also leaves activa false: the suggestions of the
\* public page look at activa only.  Mutant: activa is left as it was.
SoloEliminada(fila) == [fila EXCEPT !.estado = "eliminada"]
Eliminada(fila) == [fila EXCEPT !.estado = "eliminada", !.activa = FALSE]
CambiaOferta(w, s, v, activa) ==
    /\ oferta[s].estado = "viva"
    /\ Tramita(w, {s}, [oferta[s] EXCEPT !.vigencia = v, !.activa = activa])
RetiraOferta(w, s) ==
    /\ oferta[s].estado = "viva" /\ Tramita(w, {s}, Eliminada(oferta[s]))

\* One save, and its event of the wall.
GuardaOferta(w, s) ==
    LET t == tramite[w] IN
    /\ s \in t.faltan
    /\ oferta' = [oferta EXCEPT ![s] = t.fila]
    /\ retiradas' = retiradas \cup IF t.fila.estado = "eliminada" THEN {s} ELSE {}
    /\ tramite' = [tramite EXCEPT ![w] = IF t.faltan = {s} THEN SinTramite
                                         ELSE [t EXCEPT !.faltan = @ \ {s}]]
    /\ UNCHANGED <<plazasVivas, fechaActual, cruzadas>>

\* A call rejects: of a lot, the rows saved stay.
FallaTramite(w) ==
    /\ tramite[w] # SinTramite
    /\ tramite' = [tramite EXCEPT ![w] = SinTramite]
    /\ UNCHANGED <<oferta, plazasVivas, fechaActual, cruzadas, retiradas>>

EliminaPlaza(s) ==
    /\ s \in plazasVivas /\ plazasVivas' = plazasVivas \ {s}
    /\ UNCHANGED <<oferta, fechaActual, tramite, cruzadas, retiradas>>
PasaFecha ==
    /\ fechaActual < MaxFecha /\ fechaActual' = fechaActual + 1
    /\ UNCHANGED <<oferta, plazasVivas, tramite, cruzadas, retiradas>>

PromosSucursalNext ==
    \/ PasaFecha \/ \E s \in Plazas : EliminaPlaza(s)
    \/ \E w \in Tramites :
        \/ \E s \in Plazas, v \in Vigencias, a \in BOOLEAN :
             \/ CambiaOferta(w, s, v, a) \/ CreaOferta(w, s, TRUE, {}, v, a)
             \/ \E ids \in SUBSET (Plazas \ {s}) : CreaOferta(w, s, FALSE, ids, v, a)
        \/ \E s \in Plazas : RetiraOferta(w, s) \/ GuardaOferta(w, s)
        \/ FallaTramite(w)

--------------------
\* The lists.  The days of the week narrow listarPromocionesActivas further.
OfertaViva(s) == oferta[s].estado = "viva"
Rige(s) == oferta[s].vigencia.inicio <= fechaActual /\ fechaActual <= oferta[s].vigencia.fin
Listar == {s \in Plazas : OfertaViva(s)}
OfertasVigentes == {s \in Plazas : OfertaViva(s) /\ oferta[s].activa /\ Rige(s)}
Proximas == {s \in Plazas : OfertaViva(s) /\ oferta[s].activa /\ fechaActual < oferta[s].vigencia.inicio}
Finalizadas == {s \in Plazas : OfertaViva(s) /\ oferta[s].vigencia.fin < fechaActual}
\* obtenerResumenPromociones: the counts, and what ends within the days, begun or not.
Resumen ==
    [activas |-> Cardinality(OfertasVigentes), proximas |-> Cardinality(Proximas),
     finalizadas |-> Cardinality(Finalizadas)]
DiasAviso == 3
ProximasAVencer ==
    {s \in Plazas : /\ OfertaViva(s) /\ oferta[s].activa
                    /\ oferta[s].vigencia.fin \in fechaActual .. fechaActual + DiasAviso}
\* sugeridosConPromo: NOW() against the date of the end, which is its midnight, and
\* without eliminado; the branch is a live one.
Sugeridas == {s \in plazasVivas : oferta[s].activa /\ oferta[s].vigencia.inicio <= fechaActual
                                                   /\ fechaActual < oferta[s].vigencia.fin}

\* But for a row that two requests held at a time: a promotion that was deleted is in no
\* list and suggests no branch; one that is on, whose dates are in order, is in exactly
\* one of current, next and ended; and a branch is suggested for a current one.  Whatever
\* is about to end is current or next, and the summary counts nothing twice but what ends
\* before it begins.
CadaOfertaEnSuLista ==
    /\ \A s \in {p \in Plazas \ cruzadas : oferta[p] # Plano} :
        /\ s \in retiradas => s \notin Listar
        /\ s \in Sugeridas => s \in OfertasVigentes
        /\ s \in Listar /\ oferta[s].activa /\ oferta[s].vigencia.inicio <= oferta[s].vigencia.fin =>
             Cardinality({L \in {"vigentes", "proximas", "finalizadas"} :
                 CASE L = "vigentes" -> s \in OfertasVigentes
                   [] L = "proximas" -> s \in Proximas
                   [] OTHER -> s \in Finalizadas}) = 1
        /\ s \in ProximasAVencer => s \in OfertasVigentes \cup Proximas
        /\ s \in OfertasVigentes /\ oferta[s].vigencia.fin <= fechaActual + DiasAviso =>
             s \in ProximasAVencer
    /\ Resumen.activas + Resumen.proximas + Resumen.finalizadas
         = Cardinality(OfertasVigentes \cup Proximas \cup Finalizadas)
           + Cardinality({s \in Proximas : oferta[s].vigencia.fin < fechaActual})
=============================================================================

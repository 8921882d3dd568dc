-------------------------- MODULE PromocionesGlobales --------------------------
(***************************************************************************)
(* A promotion of a business and its links to the branches where it holds: *)
(* PromocionesNegociosService.  The promotion, the removal of its old      *)
(* links, the new ones and the event of the wall are written one after the *)
(* other, outside of any transaction; no index keeps a link from being     *)
(* written twice.                                                          *)
(***************************************************************************)
EXTENDS Integers, Sequences, FiniteSets

CONSTANTS Ramas,             \* the branches of the business
          PedidosPromo,
          MaxEnlaces         \* bound: rows of one link

ASSUME PromosGlobalesAssumption == MaxEnlaces \in Nat

VARIABLES
    promo,          \* the row; eliminado is a soft delete
    enlaces,        \* promociones_negocios_sucursales: rows of each branch
    ramasVivas,
    dicha,          \* where the promotion holds, as the last answer says
    pedidoPromo,
    enredo          \* requests overlapped, or one stopped halfway, since the
                    \* last one that wrote the links and ran alone

promosGlobalesVars ==
    <<promo, enlaces, ramasVivas, dicha, pedidoPromo, enredo>>

--------------------
EstadosPromo == {"libre", "viva", "eliminada"}

\* create, update with and without branches, remove.
Publica == <<"resuelve", "guarda", "borra", "inserta", "evento">>
Mueve   == <<"lee", "guarda", "resuelve", "borra", "inserta", "evento">>
Retoca  == <<"lee", "guarda", "evento">>
Retira  == <<"lee", "guarda", "borra", "evento">>
PlanesPromo == {Publica, Mueve, Retoca, Retira}

\* todas: aplicaTodasSucursales, of the body or of the row it read; ids: dto.sucursalIds,
\* then the branches found.
PedidoPromo == [plan : PlanesPromo \cup {<<>>}, i : 1 .. 6, todas : BOOLEAN,
                ids : SUBSET Ramas, solo : BOOLEAN]
SinPedidoPromo == [plan |-> <<>>, i |-> 1, todas |-> FALSE, ids |-> {}, solo |-> TRUE]

PromosGlobalesTypeOK ==
    /\ promo \in EstadosPromo /\ enlaces \in [Ramas -> 0 .. MaxEnlaces]
    /\ ramasVivas \subseteq Ramas /\ dicha \subseteq Ramas
    /\ pedidoPromo \in [PedidosPromo -> PedidoPromo] /\ enredo \in BOOLEAN

SinEnlaces == [r \in Ramas |-> 0]
PromosGlobalesInit ==
    /\ promo = "libre" /\ enlaces = SinEnlaces /\ ramasVivas = Ramas
    /\ dicha = {} /\ enredo = FALSE
    /\ pedidoPromo = [w \in PedidosPromo |-> SinPedidoPromo]

--------------------
PromoEnCurso == {w \in PedidosPromo : pedidoPromo[w] # SinPedidoPromo}
PasoPromo(w) == LET p == pedidoPromo[w] IN IF p = SinPedidoPromo THEN "nada" ELSE p.plan[p.i]
SiguePromo(w, p) == pedidoPromo' = [pedidoPromo EXCEPT ![w] = [p EXCEPT !.i = @ + 1]]

\* The request stops: a 400, a 404 or a call that rejects.
DejaPromo(w) ==
    /\ pedidoPromo' = [pedidoPromo EXCEPT ![w] = SinPedidoPromo]
    /\ enredo' = (enredo \/ \E k \in 1 .. pedidoPromo[w].i - 1 : pedidoPromo[w].plan[k] = "guarda")
    /\ UNCHANGED <<promo, enlaces, dicha>>

\* The call: the branches are named, unless the promotion holds in all of them.  The
\* unit of the cycle that a creation spends first is counted in Suscripciones.
PidePromo(w, plan, todas, ids) ==
    /\ PasoPromo(w) = "nada" /\ plan \in PlanesPromo
    /\ plan = Publica => promo = "libre" /\ \A v \in PromoEnCurso : pedidoPromo[v].plan # Publica
    /\ plan = Publica => todas \/ ids # {}
    /\ (plan \in {Retoca, Retira} \/ todas) => ids = {}
    /\ plan \in {Retoca, Retira} => ~todas
    /\ pedidoPromo' = [v \in PedidosPromo |->
          CASE v = w -> [plan |-> plan, i |-> 1, todas |-> todas, ids |-> ids,
                         solo |-> PromoEnCurso = {}]
            [] v \in PromoEnCurso -> [pedidoPromo[v] EXCEPT !.solo = FALSE]
            [] OTHER -> SinPedidoPromo]
    /\ enredo' = (enredo \/ PromoEnCurso # {})
    /\ UNCHANGED <<promo, enlaces, ramasVivas, dicha>>

\* findOne, eliminado: false.
LeePromo(w) ==
    /\ PasoPromo(w) = "lee"
    /\ IF promo = "viva"
       THEN /\ SiguePromo(w, pedidoPromo[w])
            /\ UNCHANGED <<promo, enlaces, dicha, enredo>>
       ELSE DejaPromo(w)
    /\ UNCHANGED ramasVivas

\* The entity is saved whole: one that was not deleted when it was read is not.
GuardaPromo(w) ==
    LET p == pedidoPromo[w] IN
    /\ PasoPromo(w) = "guarda"
    /\ promo' = IF p.plan = Retira THEN "eliminada" ELSE "viva"
    /\ dicha' = IF p.plan = Retira THEN {} ELSE dicha
    /\ SiguePromo(w, p)
    /\ UNCHANGED <<enlaces, ramasVivas, enredo>>

\* resolveSucursalesValidas: all the live branches, or those named, all of them live.
\* In update it comes after the promotion was saved.
ResuelvePromo(w) ==
    LET p == pedidoPromo[w]
        ids == IF p.todas THEN ramasVivas ELSE p.ids IN
    /\ PasoPromo(w) = "resuelve"
    /\ IF ids # {} /\ ids \subseteq ramasVivas
       THEN /\ SiguePromo(w, [p EXCEPT !.ids = ids, !.todas = FALSE])
            /\ UNCHANGED <<promo, enlaces, dicha, enredo>>
       ELSE DejaPromo(w)
    /\ UNCHANGED ramasVivas

\* replaceLinks removes every link of the promotion.  Mutant: those of its new branches.
LimpiaAlgunos(ids) == [r \in Ramas |-> IF r \in ids THEN 0 ELSE enlaces[r]]
Limpia(ids) == SinEnlaces
BorraEnlaces(w) ==
    /\ PasoPromo(w) = "borra"
    /\ enlaces' = Limpia(pedidoPromo[w].ids)
    /\ SiguePromo(w, pedidoPromo[w])
    /\ UNCHANGED <<promo, ramasVivas, dicha, enredo>>

InsertaEnlaces(w) ==
    LET p == pedidoPromo[w] IN
    /\ PasoPromo(w) = "inserta"
    /\ \A r \in p.ids : enlaces[r] < MaxEnlaces
    /\ enlaces' = [r \in Ramas |-> enlaces[r] + IF r \in p.ids THEN 1 ELSE 0]
    /\ SiguePromo(w, p)
    /\ UNCHANGED <<promo, ramasVivas, dicha, enredo>>

\* The event of the wall, and the answer.
AnunciaPromo(w) ==
    LET p == pedidoPromo[w] IN
    /\ PasoPromo(w) = "evento"
    /\ dicha' = IF p.plan \in {Publica, Mueve} THEN p.ids ELSE dicha
    /\ enredo' = (enredo /\ ~(p.solo /\ p.plan # Retoca))
    /\ pedidoPromo' = [pedidoPromo EXCEPT ![w] = SinPedidoPromo]
    /\ UNCHANGED <<promo, enlaces, ramasVivas>>

FallaPromo(w) == PasoPromo(w) # "nada" /\ DejaPromo(w) /\ UNCHANGED ramasVivas

\* SucursalesNegociosService.eliminar: the links to the branch stay.
EliminaRama(r) ==
    /\ r \in ramasVivas /\ ramasVivas' = ramasVivas \ {r}
    /\ UNCHANGED <<promo, enlaces, dicha, pedidoPromo, enredo>>

PromosGlobalesNext ==
    \/ \E r \in Ramas : EliminaRama(r)
    \/ \E w \in PedidosPromo :
        \/ \E plan \in PlanesPromo, todas \in BOOLEAN, ids \in SUBSET Ramas :
             PidePromo(w, plan, todas, ids)
        \/ LeePromo(w) \/ GuardaPromo(w) \/ ResuelvePromo(w) \/ BorraEnlaces(w)
        \/ InsertaEnlaces(w) \/ AnunciaPromo(w) \/ FallaPromo(w)

--------------------
\* findByBusiness, findOne: a deleted promotion is not shown, a deleted branch is.
Muestra == IF promo = "viva" THEN enlaces ELSE SinEnlaces

\* Between requests the promotion is shown once in each branch where its owner was told
\* it holds, and nowhere else: whatever happened before, once a request that writes the
\* links has run alone to its end.
PromoDondeSeDijo ==
    enredo \/ PromoEnCurso # {} \/ Muestra = [r \in Ramas |-> IF r \in dicha THEN 1 ELSE 0]
=============================================================================

-------------------------------- MODULE Metricas --------------------------------
(***************************************************************************)
(* The counters: EstadisticasService, the daily and the weekly job, and    *)
(* the two ways PromocionesSucursalesService counts the views of a         *)
(* promotion (estadisticas_promociones, promociones_eventos).  The counter *)
(* of a business never goes back: the daily job keeps what it says at      *)
(* 02:00, of each business that is not deleted, and the weekly one, two    *)
(* hours earlier, adds up the rows kept.  membresias_negocios, which the   *)
(* daily job joins, has no rows and no code writes it: its membership is   *)
(* NULL, and there is one row of a business and a day.                     *)
(***************************************************************************)
EXTENDS Integers, Sequences, FiniteSets, Functions

CONSTANTS Tiendas, Empresas,    \* branches, businesses
          Toques,               \* requests
          MaxEventos, MaxDia,   \* bounds: events of any kind, days
          Semana                \* the days of a week

ASSUME MetricasAssumption ==
    /\ IsFiniteSet(Tiendas) /\ IsFiniteSet(Empresas) /\ Empresas # {} /\ IsFiniteSet(Toques)
    /\ MaxEventos \in Nat /\ MaxDia \in Nat /\ Semana \in Nat \ {0}

VARIABLES
    contador,      \* vistas of estadisticas_negocios and estadisticas_sucursales
    detalle,       \* rows of estadisticas_eventos
    tablaPromo,    \* vistas of each row of estadisticas_promociones of a promotion
    contadas,      \* views of the promotion that were answered
    promoEventos,  \* promociones_eventos: views by branch and business
    empresaDe, movidas,
    eliminadas,    \* businesses with eliminado
    historico,     \* estadisticas_historico: vistas of a day and a business; SinFila: no row
    semanal,       \* estadisticas_resumen_semanal: total_vistas of each week
    diaMetrica, hora,     \* hora: which of the day's jobs are behind
    toque, eventos,
    cortes, carreraVista   \* events cut short; two first views met

metricasVars == <<contador, detalle, tablaPromo, contadas, promoEventos, empresaDe, movidas,
                  eliminadas, historico, semanal, diaMetrica, hora, toque, eventos, cortes, carreraVista>>
cuentasEventos == <<contador, detalle, cortes>>
promocionesVistas == <<tablaPromo, contadas, carreraVista>>
vistasPromo == <<promoEventos, empresaDe, movidas>>
calendario == <<eliminadas, historico, semanal, diaMetrica, hora>>

--------------------
SinFila == -1
Cuantos == 0 .. MaxEventos
Filas == (0 .. MaxDia) \X Empresas
Toque == [op : {"nada", "detalle", "escribe", "evento"}, existe : BOOLEAN,
          e : Tiendas \cup Empresas, n : Empresas]
OtraEmpresa == CHOOSE n \in Empresas : TRUE
SinToque == [op |-> "nada", existe |-> FALSE, e |-> OtraEmpresa, n |-> OtraEmpresa]

MetricasTypeOK ==
    /\ contador \in [Tiendas \cup Empresas -> Cuantos] /\ DOMAIN detalle = DOMAIN contador
    /\ \A e \in DOMAIN detalle : detalle[e] \in Cuantos
    /\ tablaPromo \in Seq(Cuantos) /\ Len(tablaPromo) <= Cardinality(Toques)
    /\ contadas \in Cuantos /\ promoEventos \in [Tiendas \X Empresas -> Cuantos]
    /\ empresaDe \in [Tiendas -> Empresas] /\ movidas \subseteq Tiendas
    /\ eliminadas \subseteq Empresas /\ historico \in [Filas -> Cuantos \cup {SinFila}]
    /\ DOMAIN semanal = 1 .. MaxDia \div Semana
    /\ \A s \in DOMAIN semanal : semanal[s] \in Int
    /\ diaMetrica \in 0 .. MaxDia /\ hora \in {0, 1, 2} /\ toque \in [Toques -> Toque]
    /\ eventos \in Cuantos /\ cortes \in Cuantos /\ carreraVista \in BOOLEAN

MetricasInit ==
    /\ contador = [e \in Tiendas \cup Empresas |-> 0] /\ detalle = contador
    /\ tablaPromo = <<>> /\ contadas = 0
    /\ promoEventos = [p \in Tiendas \X Empresas |-> 0]
    /\ empresaDe = [s \in Tiendas |-> OtraEmpresa] /\ movidas = {}
    /\ eliminadas = {} /\ historico = [p \in Filas |-> SinFila]
    /\ semanal = [s \in 1 .. MaxDia \div Semana |-> SinFila]
    /\ diaMetrica = 0 /\ hora = 0 /\ toque = [w \in Toques |-> SinToque] /\ eventos = 0
    /\ cortes = 0 /\ carreraVista = FALSE

--------------------
LlegaToque(w, t) ==
    /\ toque[w] = SinToque /\ eventos < MaxEventos /\ eventos' = eventos + 1
    /\ toque' = [toque EXCEPT ![w] = t]
ContestaToque(w) == toque' = [toque EXCEPT ![w] = SinToque] /\ UNCHANGED eventos

\* registrarEvento: one upsert of the counter, and then the row of detail.
RegistraEvento(w, e) ==
    /\ LlegaToque(w, [SinToque EXCEPT !.op = "detalle", !.e = e])
    /\ contador' = [contador EXCEPT ![e] = @ + 1]
    /\ UNCHANGED <<detalle, cortes, promocionesVistas, vistasPromo, calendario>>
RegistraDetalle(w) ==
    /\ toque[w].op = "detalle" /\ ContestaToque(w)
    /\ detalle' = [detalle EXCEPT ![toque[w].e] = @ + 1]
    /\ UNCHANGED <<contador, cortes, promocionesVistas, vistasPromo, calendario>>

\* registrarVista, registrarClic: look for the row, then write.
MiraVista(w) ==
    /\ LlegaToque(w, [SinToque EXCEPT !.op = "escribe", !.existe = tablaPromo # <<>>])
    /\ carreraVista' = (carreraVista \/ \E v \in Toques : toque[v].op = "escribe" /\ tablaPromo = <<>>)
    /\ UNCHANGED <<tablaPromo, contadas, cuentasEventos, vistasPromo, calendario>>
\* Mutant: the row is inserted, and the view that found none is not counted.
FilaEnCero == <<0>>
FilaVista == <<1>>
EscribeVista(w) ==
    /\ toque[w].op = "escribe" /\ ContestaToque(w)
    /\ tablaPromo' = IF toque[w].existe THEN [k \in DOMAIN tablaPromo |-> tablaPromo[k] + 1]
                     ELSE tablaPromo \o FilaVista
    /\ contadas' = contadas + 1
    /\ UNCHANGED <<carreraVista, cuentasEventos, vistasPromo, calendario>>

\* registrarEventoPromocion: the branch and the business are those of the moment.
LeePromocionVista(w, s) ==
    /\ LlegaToque(w, [SinToque EXCEPT !.op = "evento", !.e = s, !.n = empresaDe[s]])
    /\ UNCHANGED <<cuentasEventos, promocionesVistas, vistasPromo, calendario>>
GuardaPromocionVista(w) ==
    /\ toque[w].op = "evento" /\ ContestaToque(w)
    /\ promoEventos' = [promoEventos EXCEPT ![<<toque[w].e, toque[w].n>>] = @ + 1]
    /\ UNCHANGED <<empresaDe, movidas, cuentasEventos, promocionesVistas, calendario>>
MueveTienda(s, n) ==
    /\ empresaDe[s] # n
    /\ empresaDe' = [empresaDe EXCEPT ![s] = n] /\ movidas' = movidas \cup {s}
    /\ UNCHANGED <<promoEventos, cuentasEventos, promocionesVistas, calendario, toque, eventos>>

FallaToque(w) ==
    /\ toque[w] # SinToque /\ ContestaToque(w)
    /\ cortes' = cortes + IF toque[w].op = "detalle" THEN 1 ELSE 0
    /\ UNCHANGED <<contador, detalle, promocionesVistas, vistasPromo, calendario>>

--------------------
\* The two jobs of a day, each of which the server may be down for: Sunday's summary
\* at 00:00, of the days [hoy - 7, hoy), and at 02:00 the row of the day before.
SumaEventos(f, S) == FoldFunctionOnSet(+, 0, f, S)
FilasDe(s) == {p \in Filas : /\ p[1] \in (s - 1) * Semana .. s * Semana - 1
                             /\ historico[p] # SinFila}

GeneraResumenSemanal ==
    /\ hora = 0 /\ hora' = 1
    /\ LET s == diaMetrica \div Semana IN
       semanal' = IF diaMetrica % Semana = 0 /\ s > 0 /\ FilasDe(s) # {}
                  THEN [semanal EXCEPT ![s] = SumaEventos(historico, FilasDe(s))] ELSE semanal
    /\ UNCHANGED <<eliminadas, historico, diaMetrica, cuentasEventos, promocionesVistas,
                   vistasPromo, toque, eventos>>

\* WHERE n.eliminado = 0; a business without counters has 0.
GeneraDiarias ==
    /\ hora < 2 /\ hora' = 2 /\ diaMetrica > 0
    /\ historico' = [p \in Filas |-> IF p[1] = diaMetrica - 1 /\ p[2] \notin eliminadas
                                     THEN contador[p[2]] ELSE historico[p]]
    /\ UNCHANGED <<eliminadas, semanal, diaMetrica, cuentasEventos, promocionesVistas,
                   vistasPromo, toque, eventos>>

\* NegociosService.eliminar: the events of a deleted business are counted still.
EliminaEmpresa(n) ==
    /\ n \notin eliminadas /\ eliminadas' = eliminadas \cup {n}
    /\ UNCHANGED <<historico, semanal, diaMetrica, hora, cuentasEventos, promocionesVistas,
                   vistasPromo, toque, eventos>>

PasaDiaMetricas ==
    /\ diaMetrica < MaxDia /\ diaMetrica' = diaMetrica + 1 /\ hora' = 0
    /\ UNCHANGED <<eliminadas, historico, semanal, cuentasEventos, promocionesVistas, vistasPromo, toque, eventos>>

MetricasNext ==
    \/ GeneraResumenSemanal \/ GeneraDiarias \/ PasaDiaMetricas
    \/ \E s \in Tiendas, n \in Empresas : MueveTienda(s, n)
    \/ \E n \in Empresas : EliminaEmpresa(n)
    \/ \E w \in Toques :
        \/ \E e \in Tiendas \cup Empresas : RegistraEvento(w, e)
        \/ \E s \in Tiendas : LeePromocionVista(w, s)
        \/ RegistraDetalle(w) \/ MiraVista(w) \/ EscribeVista(w)
        \/ GuardaPromocionVista(w) \/ FallaToque(w)

--------------------
\* calcularMetricas of a branch, of a business.
VistasDeTienda(s) == SumaEventos([n \in Empresas |-> promoEventos[<<s, n>>]], Empresas)
VistasDeEmpresa(n) == SumaEventos([s \in Tiendas |-> promoEventos[<<s, n>>]], Tiendas)
TiendasDe(n) == {s \in Tiendas : empresaDe[s] = n}

\* Every event counted has its row of detail, but those at work or cut short; the views
\* of a promotion add up to those answered, unless its first two met; the views of a
\* business are those of its branches, while none was moved.
EventosCuadran ==
    SumaEventos(contador, DOMAIN contador)
        = SumaEventos(detalle, DOMAIN detalle) + cortes + Cardinality({w \in Toques : toque[w].op = "detalle"})
VistasCuadran == carreraVista \/ SumaEventos(tablaPromo, DOMAIN tablaPromo) = contadas
EmpresasCuadran ==
    movidas = {} => \A n \in Empresas :
        VistasDeEmpresa(n) = SumaEventos([s \in Tiendas |-> VistasDeTienda(s)], TiendasDe(n))

\* Of a business, a day kept says no less than those before it; the total of a day falls
\* when a business was deleted, of which no more is kept.  A week is the sum of its days but
\* the last, whose rows were written after.
HistoricoCrece ==
    /\ \A n \in Empresas, d, e \in 0 .. MaxDia :
         d < e /\ SinFila \notin {historico[<<d, n>>], historico[<<e, n>>]}
             => historico[<<d, n>>] <= historico[<<e, n>>]
    /\ \A s \in DOMAIN semanal : semanal[s] # SinFila =>
         semanal[s] = SumaEventos(historico, {p \in FilasDe(s) : p[1] # s * Semana - 1})

MetricasCuadran ==
    eventos = 0 \/ (EventosCuadran /\ VistasCuadran /\ EmpresasCuadran /\ HistoricoCrece)
=============================================================================

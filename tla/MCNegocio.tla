------------------------------- MODULE MCNegocio -------------------------------
\* What an owner works with: the sessions of his devices, and the components of his
\* businesses, which share no state with them nor with one another.  Each is checked
\* by itself in one run: parte says which one a behaviour is about.
EXTENDS Sesiones, Imagenes, Establecimientos, PromocionesGlobales,
        PromocionesSucursal, Metricas, Caracteristicas, MenuSucursal, TLC

CONSTANTS s1, s2, d1, d2, w1, w2, f1, f2, n1, n2

\* Devices d1 and d2 are of one subscriber, or of two.
DeUno    == [d \in Dispositivos |-> s1]

\* The requests of every component are the same model values, and so are the branches;
\* both devices are of one subscriber.
SimetriaNegocio == Permutations(Workers) \cup Permutations({f1, f2}) \cup Permutations(Dispositivos)

MCVigencias == {[inicio |-> 0, fin |-> 1], [inicio |-> 1, fin |-> 1]}
MCGiros == {[categoria |-> 1, subcategoria |-> 0], [categoria |-> 2, subcategoria |-> 1]}
MCReglamentos == {{}, {[nivel |-> "categoria", ref |-> 1]},
                  {[nivel |-> "subcategoria", ref |-> 1], [nivel |-> "tipo_servicio", ref |-> 1]}}

MCSinPrecio == -1

VARIABLE parte
partes == <<vars, imagenesVars, establecimientosVars, promosGlobalesVars,
            promosSucursalVars, metricasVars, caracteristicasVars, menuVars>>
negocioVars == <<parte, partes>>

\* The component that is not looked at starts in one state.
NegocioInit ==
    /\ parte \in {"sesiones", "imagenes", "establecimientos", "promosGlobales",
                    "promosSucursal", "metricas", "caracteristicas", "menu"}
    /\ Init /\ ImagenesInit /\ EstablecimientosInit /\ PromosGlobalesInit
    /\ PromosSucursalInit /\ MetricasInit /\ CaracteristicasInit /\ MenuInit
    /\ parte # "sesiones" =>
         /\ \A d \in Dispositivos : tiene[d] = Nada
         /\ \A s \in Suscriptores : legado[s] = NoDispositivo
    /\ parte # "imagenes" => tipoFila = "logo"
    /\ parte # "caracteristicas" => \A s \in Locaciones : giro[s].categoria = 1

NegocioNext ==
    /\ UNCHANGED parte
    /\ \/ /\ parte = "sesiones" /\ Next
          /\ UNCHANGED <<imagenesVars, establecimientosVars, promosGlobalesVars,
                        promosSucursalVars, metricasVars, caracteristicasVars,
                        menuVars>>
       \/ /\ parte = "imagenes" /\ ImagenesNext
          /\ UNCHANGED <<vars, establecimientosVars, promosGlobalesVars,
                        promosSucursalVars, metricasVars, caracteristicasVars,
                        menuVars>>
       \/ /\ parte = "establecimientos" /\ EstablecimientosNext
          /\ UNCHANGED <<vars, imagenesVars, promosGlobalesVars, promosSucursalVars,
                        metricasVars, caracteristicasVars, menuVars>>
       \/ /\ parte = "promosGlobales" /\ PromosGlobalesNext
          /\ UNCHANGED <<vars, imagenesVars, establecimientosVars, promosSucursalVars,
                        metricasVars, caracteristicasVars, menuVars>>
       \/ /\ parte = "promosSucursal" /\ PromosSucursalNext
          /\ UNCHANGED <<vars, imagenesVars, establecimientosVars, promosGlobalesVars,
                        metricasVars, caracteristicasVars, menuVars>>
       \/ /\ parte = "metricas" /\ MetricasNext
          /\ UNCHANGED <<vars, imagenesVars, establecimientosVars, promosGlobalesVars,
                        promosSucursalVars, caracteristicasVars, menuVars>>
       \/ /\ parte = "caracteristicas" /\ CaracteristicasNext
          /\ UNCHANGED <<vars, imagenesVars, establecimientosVars, promosGlobalesVars,
                        promosSucursalVars, metricasVars, menuVars>>
       \/ /\ parte = "menu" /\ MenuNext
          /\ UNCHANGED <<vars, imagenesVars, establecimientosVars, promosGlobalesVars,
                        promosSucursalVars, metricasVars, caracteristicasVars>>

\* Nothing but the component that is looked at changes.
Mirada ==
    <<parte,
      CASE parte = "sesiones" -> vars
        [] parte = "imagenes" -> imagenesVars
        [] parte = "establecimientos" -> establecimientosVars
        [] parte = "promosGlobales" -> promosGlobalesVars
        [] parte = "promosSucursal" -> promosSucursalVars
        [] parte = "metricas" -> metricasVars
        [] parte = "caracteristicas" -> caracteristicasVars
        [] parte = "menu" -> menuVars>>

NegocioSpec == NegocioInit /\ [][NegocioNext]_negocioVars

\* Every component keeps the shape of its rows.
NegocioTypeOK ==
    CASE parte = "sesiones" -> TypeOK
      [] parte = "imagenes" -> ImagenesTypeOK
      [] parte = "establecimientos" -> EstablecimientosTypeOK
      [] parte = "promosGlobales" -> PromosGlobalesTypeOK
      [] parte = "promosSucursal" -> PromosSucursalTypeOK
      [] parte = "metricas" -> MetricasTypeOK
      [] parte = "caracteristicas" -> CaracteristicasTypeOK
      [] parte = "menu" -> MenuTypeOK

\* An offer is where it was said and in its list, whichever kind of promotion it is.
PromosEnRegla ==
    CASE parte = "promosGlobales" -> PromoDondeSeDijo
      [] parte = "promosSucursal" -> CadaOfertaEnSuLista [] OTHER -> TRUE

\* A branch offers what was told of it: its characteristics, and the items of its menu.
OfertaEnRegla ==
    CASE parte = "caracteristicas" -> OfreceLoQueAcepta [] parte = "menu" -> MenuComoSePidio
      [] OTHER -> TRUE
=============================================================================

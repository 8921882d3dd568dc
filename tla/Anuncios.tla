-------------------------------- MODULE Anuncios --------------------------------
(***************************************************************************)
(* The adverts of one business, their monthly quota and the slots of their *)
(* placement (src/src/modules/business/anuncios).  A step is one awaited   *)
(* call to the database.                                                   *)
(*                                                                         *)
(* All the adverts ask for the same placement, and a membership that does  *)
(* not allow it is one of no slots: both refuse the same call.  A period   *)
(* of the clock is a calendar month: an advert runs from the period of     *)
(* fechaInicio to the one before fechaFin.  A save of an entity makes its  *)
(* row what the entity was when read, with the changes of the request.     *)
(* Counters of views, texts, images and the check of ownership are left    *)
(* out.                                                                    *)
(***************************************************************************)
EXTENDS Integers, FiniteSets, FiniteSetsExt, Functions

CONSTANTS Anuncios, Gestores, NoAnuncio,
          Membresias,    \* what a membership gives: [base : Nat, ilimitada : BOOLEAN], and
                         \* of its row of membresia_publicidad [reglas : BOOLEAN, slots : Nat]
          Vigencia,      \* the dates given to adverts: [inicio, fin : Nat], in months
          Periodos,      \* bound: months
          MaxCupos,      \* bound: rows of anuncios_cupo_mensual
          MaxExtra,      \* bound: adverts bought for a month
          MaxGestiones,  \* bound: requests
          MaxSolapadas,  \* bound: requests of a behaviour where some overlap or a call fails
          MaxCambios,    \* bound: changes of month, of membership and adverts bought
          MaxFallasAnuncios \* bound: failed calls

ASSUME AnunciosAssumption ==
    /\ NoAnuncio \notin Anuncios /\ IsFiniteSet(Anuncios)
    /\ Membresias # {} /\ IsFiniteSet(Membresias)
    /\ \A mb \in Membresias : /\ mb.base \in Nat /\ mb.ilimitada \in BOOLEAN
                              /\ mb.reglas \in BOOLEAN /\ mb.slots \in Nat
    /\ \A v \in Vigencia : v.inicio \in Nat /\ v.fin \in Nat /\ v.fin > v.inicio
    /\ Periodos \in Nat \ {0} /\ MaxCupos \in Nat
    /\ MaxExtra \in Nat /\ MaxGestiones \in Nat /\ MaxSolapadas \in Nat /\ MaxCambios \in Nat
    /\ MaxFallasAnuncios \in Nat /\ MaxSolapadas <= MaxGestiones

VARIABLES
    anuncio,     \* anuncios
    cupo,        \* anuncios_cupo_mensual, by id
    extra,       \* SUM(anuncio_addons.quantity) of the paid ones, by month
    membresia,   \* what the subscriber's membership gives
    hoy,         \* the month of the clock
    gestion,     \* the requests at work
    gestiones, cambios, fallasAnuncios,
    solapo,      \* two requests were at work at once
    techo,       \* the largest number of slots of the memberships the business has had
    gratis,      \* an advert was activated under an unlimited membership
    movio        \* an active advert began to run with no check of the slots

anunciosVars == <<anuncio, cupo, extra, membresia, hoy, gestion, gestiones,
                  cambios, fallasAnuncios, solapo, techo, gratis, movio>>
anunciosTablas == <<anuncio, cupo>>
anunciosMundo  == <<extra, membresia, hoy, gestiones, cambios, fallasAnuncios, solapo, techo,
                    gratis>>

--------------------
Meses   == 1 .. Periodos
CupoIds == 1 .. MaxCupos
BaseMayor == Max({mb.base : mb \in Membresias})

\* A membership without a row of membresia_publicidad sets no limit.
LimiteDe(mb) == IF mb.reglas THEN mb.slots ELSE Cardinality(Anuncios)

\* AnuncioStatus: draft, finished and rejected act as paused does.
Estatus == {"paused", "active"}
Anuncio == [status : Estatus, cupoConsumido : BOOLEAN, vigencia : Vigencia]
NoFilaAnuncio == [status |-> "none"]
Borrador(v) == [status |-> "paused", cupoConsumido |-> FALSE, vigencia |-> v]

Cupo == [mes : Meses, base : 0 .. BaseMayor, addon : 0 .. MaxExtra, usado : Nat]
NoCupo == [mes |-> 0]

Gestion == [op : {"none", "estatus", "edita", "panel"},
            paso : {"idle", "reglas", "slots", "cupo", "crea", "addons", "guardaAddon",
                    "base", "guardaBase", "cobra", "guarda"},
            a : Anuncios \cup {NoAnuncio}, next : Estatus,
            ilimitada : BOOLEAN, limite : Nat, mes : Meses,
            fila : Anuncio \cup {NoFilaAnuncio},      \* the entity read
            id : 0 .. MaxCupos, cupo : Cupo \cup {NoCupo}]
SinGestion == [op |-> "none", paso |-> "idle", a |-> NoAnuncio, next |-> "paused",
               ilimitada |-> FALSE, limite |-> 0, mes |-> 1, fila |-> NoFilaAnuncio,
               id |-> 0, cupo |-> NoCupo]

AnunciosTypeOK ==
    /\ anuncio \in [Anuncios -> Anuncio \cup {NoFilaAnuncio}]
    /\ cupo \in [CupoIds -> Cupo \cup {NoCupo}]
    /\ extra \in [Meses -> 0 .. MaxExtra]
    /\ membresia \in Membresias /\ hoy \in Meses
    /\ gestion \in [Gestores -> Gestion]
    /\ gestiones \in 0 .. MaxGestiones /\ cambios \in 0 .. MaxCambios
    /\ fallasAnuncios \in 0 .. MaxFallasAnuncios
    /\ techo \in Nat /\ solapo \in BOOLEAN /\ gratis \in BOOLEAN /\ movio \in BOOLEAN

AnunciosInit ==
    /\ anuncio \in [Anuncios -> {NoFilaAnuncio} \cup {Borrador(v) : v \in Vigencia}]
    /\ cupo = [i \in CupoIds |-> NoCupo]
    /\ extra = [n \in Meses |-> 0]
    /\ membresia \in Membresias /\ techo = LimiteDe(membresia) /\ hoy = 1
    /\ gestion = [g \in Gestores |-> SinGestion]
    /\ gestiones = 0 /\ cambios = 0 /\ fallasAnuncios = 0 /\ solapo = FALSE
    /\ gratis = FALSE /\ movio = FALSE

--------------------
EnPaso(g, paso) == gestion[g].paso = paso
Pone(g, w)  == gestion' = [gestion EXCEPT ![g] = w]
Pasa(g, paso) == Pone(g, [gestion[g] EXCEPT !.paso = paso])

Creados == {a \in Anuncios : anuncio[a] # NoFilaAnuncio}
AnuncioEnCurso(v) == v.inicio <= hoy /\ hoy < v.fin
Corre(a) == a \in Creados /\ anuncio[a].status = "active" /\ AnuncioEnCurso(anuncio[a].vigencia)
CuposDe(n) == {i \in CupoIds : cupo[i].mes = n}

\* Dates are checked when the advert is created and never again.
Create(a, v) ==
    /\ anuncio[a] = NoFilaAnuncio /\ gestiones < MaxGestiones
    /\ gestiones' = gestiones + 1
    /\ anuncio' = [anuncio EXCEPT ![a] = Borrador(v)]
    /\ UNCHANGED <<cupo, extra, membresia, hoy, gestion, cambios, fallasAnuncios, solapo,
                   techo, gratis, movio>>

Llega(g, w) ==
    /\ EnPaso(g, "idle")
    /\ solapo' = (solapo \/ \E o \in Gestores : ~EnPaso(o, "idle"))
    /\ gestiones < (IF solapo' \/ fallasAnuncios > 0 THEN MaxSolapadas ELSE MaxGestiones)
    /\ gestiones' = gestiones + 1
    /\ Pone(g, w)
    /\ UNCHANGED <<anunciosTablas, extra, membresia, hoy, cambios, fallasAnuncios, techo, movio>>

\* updateStatus reads the advert with the membership of its owner.
UpdateStatus(g, a, next) ==
    /\ a \in Creados
    /\ LET activa == next = "active" /\ anuncio[a].status # "active"
       IN  /\ activa => hoy < anuncio[a].vigencia.fin
           /\ Llega(g, [SinGestion EXCEPT !.op = "estatus",
                  !.paso = IF activa THEN "reglas" ELSE "guarda",
                  !.a = a, !.next = next, !.mes = hoy, !.fila = anuncio[a],
                  !.ilimitada = membresia.ilimitada])
           /\ gratis' = (gratis \/ (activa /\ membresia.ilimitada))

\* update and updateAdImage read the advert and save it; update may move the dates.
Update(g, a, v) ==
    /\ a \in Creados
    /\ Llega(g, [SinGestion EXCEPT !.op = "edita", !.paso = "guarda", !.a = a,
           !.next = anuncio[a].status, !.fila = [anuncio[a] EXCEPT !.vigencia = v]])
    /\ UNCHANGED gratis

\* A GET, which brings the quota up to date all the same.
GetDashboard(g) ==
    Llega(g, [SinGestion EXCEPT !.op = "panel", !.paso = "cupo", !.mes = hoy])
    /\ UNCHANGED gratis

Ocupados(a) == {b \in Anuncios \ {a} : Corre(b)}

TrasSlots(w) == IF w.ilimitada \/ w.fila.cupoConsumido THEN "guarda" ELSE "cupo"

\* The rules of the membership of now; with no row nothing is counted.
LeeReglas(g) ==
    /\ EnPaso(g, "reglas")
    /\ Pone(g, IF membresia.reglas
               THEN [gestion[g] EXCEPT !.paso = "slots", !.limite = membresia.slots]
               ELSE [gestion[g] EXCEPT !.paso = TrasSlots(gestion[g])])
    /\ UNCHANGED <<anunciosTablas, anunciosMundo, movio>>

\* A second query counts, against the limit that the first one read.
CuentaSlots(g) ==
    /\ EnPaso(g, "slots")
    /\ LET w == gestion[g]
       IN  IF Cardinality(Ocupados(w.a)) >= w.limite THEN Pone(g, SinGestion)
           ELSE Pasa(g, TrasSlots(w))
    /\ UNCHANGED <<anunciosTablas, anunciosMundo, movio>>

\* ensureMonthlyQuota: findOne takes one of the rows of the month.
LeeCupo(g) ==
    /\ EnPaso(g, "cupo")
    /\ LET filas == CuposDe(gestion[g].mes)
       IN  IF filas = {} THEN Pasa(g, "crea")
           ELSE LET i == CHOOSE k \in filas : \A o \in filas : k <= o
                IN  Pone(g, [gestion[g] EXCEPT !.paso = "addons", !.id = i, !.cupo = cupo[i]])
    /\ UNCHANGED <<anunciosTablas, anunciosMundo, movio>>

NuevoCupo(n) == [mes |-> n, base |-> membresia.base, addon |-> 0, usado |-> 0]
CreaCupo(g) ==
    /\ EnPaso(g, "crea")
    /\ \E i \in CupoIds :
        /\ cupo[i] = NoCupo /\ \A k \in CupoIds : k < i => cupo[k] # NoCupo
        /\ cupo' = [cupo EXCEPT ![i] = NuevoCupo(gestion[g].mes)]
        /\ Pone(g, [gestion[g] EXCEPT !.paso = "addons", !.id = i,
                        !.cupo = NuevoCupo(gestion[g].mes)])
    /\ UNCHANGED <<anuncio, anunciosMundo, movio>>

Addons(g) ==
    /\ EnPaso(g, "addons")
    /\ LET n == extra[gestion[g].mes]
       IN  Pone(g, [gestion[g] EXCEPT !.cupo.addon = n,
               !.paso = IF gestion[g].cupo.addon # n THEN "guardaAddon" ELSE "base"])
    /\ UNCHANGED <<anunciosTablas, anunciosMundo, movio>>

TrasCupo(w) == IF w.op = "panel" THEN SinGestion ELSE [w EXCEPT !.paso = "cobra"]
Base(g) ==
    /\ EnPaso(g, "base")
    /\ LET w == [gestion[g] EXCEPT !.cupo.base = membresia.base]
       IN  Pone(g, IF w.cupo.base # gestion[g].cupo.base
                   THEN [w EXCEPT !.paso = "guardaBase"] ELSE TrasCupo(w))
    /\ UNCHANGED <<anunciosTablas, anunciosMundo, movio>>

\* The whole entity is saved, the units used as they were read among the rest.
GuardaCupo(g) ==
    /\ EnPaso(g, "guardaAddon") \/ EnPaso(g, "guardaBase")
    /\ LET w == gestion[g]
       IN  /\ cupo' = [cupo EXCEPT ![w.id] = w.cupo]
           /\ Pone(g, IF w.paso = "guardaAddon" THEN [w EXCEPT !.paso = "base"]
                      ELSE TrasCupo(w))
    /\ UNCHANGED <<anuncio, anunciosMundo, movio>>

Agotado(c) == c.usado >= c.base + c.addon

\* Mutant: the advert is not marked as charged.
CobraSinMarca(g) ==
    /\ EnPaso(g, "cobra")
    /\ LET w == gestion[g]
       IN  IF Agotado(w.cupo) THEN Pone(g, SinGestion) /\ UNCHANGED cupo
           ELSE /\ cupo' = [cupo EXCEPT ![w.id] = [w.cupo EXCEPT !.usado = @ + 1]]
                /\ Pone(g, [w EXCEPT !.paso = "guarda"])
    /\ UNCHANGED <<anuncio, anunciosMundo, movio>>

Cobra(g) ==
    /\ EnPaso(g, "cobra")
    /\ LET w == gestion[g]
       IN  IF Agotado(w.cupo) THEN Pone(g, SinGestion) /\ UNCHANGED cupo
           ELSE /\ cupo' = [cupo EXCEPT ![w.id] = [w.cupo EXCEPT !.usado = @ + 1]]
                /\ Pone(g, [w EXCEPT !.paso = "guarda", !.fila.cupoConsumido = TRUE])
    /\ UNCHANGED <<anuncio, anunciosMundo, movio>>

GuardaAnuncio(g) ==
    /\ EnPaso(g, "guarda")
    /\ LET w == gestion[g]
           f == [w.fila EXCEPT !.status = w.next]
       IN  /\ anuncio' = [anuncio EXCEPT ![w.a] = f]
           /\ movio' = (movio \/ (/\ f.status = "active"
                                 /\ \/ ~AnuncioEnCurso(f.vigencia)
                                    \/ f.vigencia # anuncio[w.a].vigencia))
    /\ Pone(g, SinGestion)
    /\ UNCHANGED <<cupo, anunciosMundo>>

FallaAnuncio(g) ==
    /\ ~EnPaso(g, "idle") /\ fallasAnuncios < MaxFallasAnuncios /\ gestiones <= MaxSolapadas
    /\ fallasAnuncios' = fallasAnuncios + 1
    /\ Pone(g, SinGestion)
    /\ UNCHANGED <<anunciosTablas, extra, membresia, hoy, gestiones, cambios, solapo, techo,
           gratis, movio>>

--------------------
\* The world: the month ends, the membership changes, adverts are bought.
PasaMes ==
    /\ hoy < Periodos /\ hoy' = hoy + 1
    /\ cambios < MaxCambios /\ cambios' = cambios + 1
    /\ UNCHANGED <<anunciosTablas, extra, membresia, gestion, gestiones, fallasAnuncios,
                   solapo, techo, gratis, movio>>

CambiaMembresia(mb) ==
    /\ mb # membresia /\ membresia' = mb
    /\ techo' = Max({techo, LimiteDe(mb)})
    /\ cambios < MaxCambios /\ cambios' = cambios + 1
    /\ UNCHANGED <<anunciosTablas, extra, hoy, gestion, gestiones, fallasAnuncios,
                   solapo, gratis, movio>>

CompraExtra(n) ==
    /\ extra[n] < MaxExtra /\ extra' = [extra EXCEPT ![n] = @ + 1]
    /\ cambios < MaxCambios /\ cambios' = cambios + 1
    /\ UNCHANGED <<anunciosTablas, membresia, hoy, gestion, gestiones, fallasAnuncios,
                   solapo, techo, gratis, movio>>

AnunciosNext ==
    \/ \E a \in Anuncios, v \in Vigencia : Create(a, v)
    \/ \E g \in Gestores, a \in Anuncios, next \in Estatus : UpdateStatus(g, a, next)
    \/ \E g \in Gestores, a \in Anuncios, v \in Vigencia : Update(g, a, v)
    \/ \E g \in Gestores :
        \/ GetDashboard(g) \/ LeeReglas(g) \/ CuentaSlots(g) \/ LeeCupo(g) \/ CreaCupo(g)
        \/ Addons(g) \/ Base(g) \/ GuardaCupo(g) \/ Cobra(g) \/ GuardaAnuncio(g) \/ FallaAnuncio(g)
    \/ PasaMes
    \/ \E mb \in Membresias : CambiaMembresia(mb)
    \/ \E n \in Meses : CompraExtra(n)

AnunciosSpec == AnunciosInit /\ [][AnunciosNext]_anunciosVars

--------------------
UsadosDe(i) == IF cupo[i] = NoCupo THEN 0 ELSE cupo[i].usado
Total(f, S) == FoldFunctionOnSet(+, 0, f, S)
Usados == Total([i \in CupoIds |-> UsadosDe(i)], CupoIds)
Cobrados == {a \in Creados : anuncio[a].cupoConsumido}
EnCalma == \A g \in Gestores : EnPaso(g, "idle")

\* While no two requests of the business overlapped, a month has one row of
\* quota, and the units used are the adverts that were charged: exactly, or with
\* some unit lost when a call failed between the two saves of updateStatus
\* (anuncios.service.ts:410 and 417).  An advert is charged once however often it
\* is paused and put back.
CupoExacto ==
    EnCalma /\ ~solapo =>
        /\ \A n \in Meses : Cardinality(CuposDe(n)) <= 1
        /\ IF fallasAnuncios = 0 THEN Usados = Cardinality(Cobrados)
           ELSE Usados >= Cardinality(Cobrados)
        /\ \A i \in CupoIds : cupo[i] # NoCupo => cupo[i].usado <= BaseMayor + MaxExtra

\* Whatever overlaps or fails, an advert is active only if its row says it was
\* charged, unless some advert was activated under an unlimited membership: status
\* and cupo_consumido are saved together, and a stale save (update, updateAdImage)
\* puts both back together.
ActivoConCupo ==
    ~gratis =>
        \A a \in Creados : anuncio[a].status = "active" => anuncio[a].cupoConsumido

\* While no two requests overlapped, no advert was activated before its dates and
\* none was given new dates while active, no more adverts run than the largest
\* max_slots_simultaneos of the memberships the business has had: the limit of
\* today as long as it was never lowered.  After a downgrade what runs may exceed
\* the limit of today: updateStatus (anuncios.service.ts:349-385) reads it only
\* when an advert is activated, and nothing pauses those already running.
SlotsRespetados ==
    ~solapo /\ ~movio => Cardinality({a \in Anuncios : Corre(a)}) <= techo

\* The month is charged what it shows, what runs was charged, and it fits.
AnunciosEnRegla == CupoExacto /\ ActivoConCupo /\ SlotsRespetados
=============================================================================

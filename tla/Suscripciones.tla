----------------------------- MODULE Suscripciones -----------------------------
(***************************************************************************)
(* Subscriptions of a membership and the quotas their cycles count         *)
(* (src/src/modules/suscripciones/suscripciones.service.ts), with the      *)
(* deletion of an account, which cancels them.                             *)
(*                                                                         *)
(* consumirCuota and cambiarPlan are transactions; only the first reads    *)
(* with FOR UPDATE.  The other writers read a row, change the entity and   *)
(* save it: TypeORM writes every column in which the entity differs from   *)
(* the row at that moment, so save puts back what was read.  A step is one *)
(* awaited call; an insert and the commit right after it are one step,     *)
(* since nobody else can see what is between them.                         *)
(***************************************************************************)
EXTENDS Integers, FiniteSets

CONSTANTS Suscriptores, Workers,
          Membresias, Gratuita, NoMembresia,
          NoSuscriptor,
          Tipos,        \* what a quota limits: negocios, promociones, anuncios
          Limite,       \* membresia_cuotas: Limite[membership][type]
          Reset,        \* membresia_cuotas.reset_periodo
          PrimerMes, UltimoMes,   \* bounds: months the calendar goes through
          MaxSusc,      \* bound: subscriptions
          MaxPedidos,   \* bound: requests
          MaxFaults     \* bound: failed calls

Resets == {"mensual", "anual", "una_vez"}

ASSUME SuscripcionesAssumption ==
    /\ Gratuita \in Membresias /\ NoMembresia \notin Membresias
    /\ NoSuscriptor \notin Suscriptores
    /\ Limite \in [Membresias -> [Tipos -> Nat]]
    /\ Reset \in [Membresias -> Resets]
    /\ PrimerMes \in Nat /\ UltimoMes \in Nat /\ PrimerMes <= UltimoMes
    /\ MaxSusc \in Nat /\ MaxPedidos \in Nat /\ MaxFaults \in Nat

VARIABLES
    mes,            \* today, in months since January of year 0
    suscripciones,  \* suscriptor_suscripciones, as committed
    siguiente,      \* next auto-increment id
    ciclos,         \* suscripcion_ciclos: units used per type
    membresiaDe,    \* suscriptores.membresia_id
    concedidas,     \* units each cycle has granted, as the callers were told
    worker, pedidos, faults

vars == <<mes, suscripciones, siguiente, ciclos, membresiaDe, concedidas,
          worker, pedidos, faults>>

--------------------
(* The calendar and the cycles it gives.                                   *)

Meses == PrimerMes .. UltimoMes
Enero(m) == m - (m % 12)

\* Month of December 2099, the end of a cycle that never resets.
Fin2099 == 12 * 2099 + 11

\* First and last month of the cycle that month m falls in.
CalcularRangoCiclo(m, reset) ==
    CASE reset = "anual"   -> <<Enero(m), Enero(m) + 11>>
      [] reset = "una_vez" -> <<Enero(m), Fin2099>>
      [] OTHER             -> <<m, m>>

Rangos == {CalcularRangoCiclo(m, r) : m \in Meses, r \in Resets}

Ids    == 1 .. MaxSusc
Claves == Ids \X Rangos          \* uq_ciclo_unico
Cuenta == [Tipos -> Nat]
Cero   == [t \in Tipos |-> 0]
NoCiclo == [t \in Tipos |-> -1]

Fila == [suscriptor : Suscriptores, membresia : Membresias,
         estatus : {"activa", "cancelada"},
         auto : BOOLEAN]         \* proveedor_pago is 'sistema_auto'
NoFila == [suscriptor |-> NoSuscriptor, membresia |-> NoMembresia,
           estatus |-> "none", auto |-> FALSE]
NuevaFila(s, b, a) == [suscriptor |-> s, membresia |-> b, estatus |-> "activa", auto |-> a]

Ops   == {"none", "consumir", "cambiar", "crear", "renovar", "autoRenew",
          "cancelar", "resumen"}
Pasos == {"idle", "lee", "leeCambio", "leeAlta", "provisiona", "ciclo", "consume", "cancela", "inserta",
          "alta", "abre", "guarda", "sincroniza"}
Worker == [op : Ops, paso : Pasos, suscriptor : Suscriptores \cup {NoSuscriptor},
           tipo : Tipos \cup {"none"}, membresia : Membresias \cup {NoMembresia},
           id : 0 .. MaxSusc, fila : Fila \cup {NoFila},
           rango : Rangos \cup {<<>>}, usados : Cuenta]
Idle == [op |-> "none", paso |-> "idle", suscriptor |-> NoSuscriptor, tipo |-> "none",
         membresia |-> NoMembresia, id |-> 0, fila |-> NoFila, rango |-> <<>>,
         usados |-> Cero]

TypeOK ==
    /\ mes \in Meses
    /\ suscripciones \in [Ids -> Fila \cup {NoFila}]
    /\ siguiente \in 1 .. (MaxSusc + 1)
    /\ ciclos \in [Claves -> Cuenta \cup {NoCiclo}]
    /\ membresiaDe \in [Suscriptores -> Membresias \cup {NoMembresia}]
    /\ concedidas \in [Claves -> Cuenta]
    /\ worker \in [Workers -> Worker]
    /\ pedidos \in 0 .. MaxPedidos /\ faults \in 0 .. MaxFaults

\* Accounts come with or without a membership and without a subscription.
Init ==
    /\ mes = PrimerMes
    /\ suscripciones = [i \in Ids |-> NoFila]
    /\ siguiente = 1
    /\ ciclos = [k \in Claves |-> NoCiclo]
    /\ membresiaDe \in [Suscriptores -> Membresias \cup {NoMembresia}]
    /\ concedidas = [k \in Claves |-> Cero]
    /\ worker = [m \in Workers |-> Idle]
    /\ pedidos = 0 /\ faults = 0

--------------------
(* Reads and locks.                                                        *)

At(m, paso) == worker[m].paso = paso
Es(m, op)   == worker[m].op = op
Goes(m, w)  == worker' = [worker EXCEPT ![m] = w]
Step(m, paso) == Goes(m, [worker[m] EXCEPT !.paso = paso])
TitularDe(m) == worker[m].suscriptor
Fault == faults < MaxFaults /\ faults' = faults + 1

FilasDe(s) == {i \in Ids : suscripciones[i].suscriptor = s}

\* Mutant: the filter on estatus is missing.
UltimaDe(s) == IF FilasDe(s) = {} THEN 0 ELSE CHOOSE i \in FilasDe(s) : \A j \in FilasDe(s) : j <= i

\* The active subscription of the highest id, 0 if there is none.
ActivaDe(s) ==
    LET A == {i \in FilasDe(s) : suscripciones[i].estatus = "activa"} IN
    IF A = {} THEN 0 ELSE CHOOSE i \in A : \A j \in A : j <= i

\* Mutant: rows are locked and gaps are not.
SoloFilas(s) == {m \in Workers : TitularDe(m) = s /\ worker[m].paso \in {"ciclo", "consume"}}

\* Transactions of consumirCuota that hold the rows of a subscriber and the gap
\* where a new one would go; with no row there is only the gap to hold.
Consumiendo(s) == {m \in Workers : TitularDe(m) = s /\ worker[m].paso \in
                                       {"provisiona", "ciclo", "consume"}}

\* Transactions of cambiarPlan that hold the row they cancel.
Cancelando(i) == {m \in Workers : At(m, "inserta") /\ worker[m].id = i}

LeeLibre(s) == /\ \A n \in Consumiendo(s) : At(n, "provisiona") /\ FilasDe(s) = {}
               /\ \A i \in FilasDe(s) : Cancelando(i) = {}
FilaLibre(i) == Consumiendo(suscripciones[i].suscriptor) = {} /\ Cancelando(i) = {}
HuecoLibre(m, s) == Consumiendo(s) \subseteq {m}
CicloLibre(m, k) == \A n \in Workers \ {m} : ~(At(n, "consume") /\ <<worker[n].id, worker[n].rango>> = k)

--------------------
(* Requests.                                                               *)

Pide(m, w) ==
    /\ At(m, "idle") /\ pedidos < MaxPedidos /\ pedidos' = pedidos + 1
    /\ Goes(m, w)
    /\ UNCHANGED <<mes, suscripciones, siguiente, ciclos, membresiaDe, concedidas, faults>>

Pedido(op, s) == [Idle EXCEPT !.op = op, !.suscriptor = s,
    !.paso = CASE op = "cambiar" -> "leeCambio" [] op = "crear" -> "leeAlta" [] OTHER -> "lee"]

ConsumirCuota(m, s, t)  == Pide(m, [Pedido("consumir", s) EXCEPT !.tipo = t])
CambiarPlan(m, s, b)    == Pide(m, [Pedido("cambiar", s) EXCEPT !.membresia = b])
CrearSuscripcion(m, s, b) == Pide(m, [Pedido("crear", s) EXCEPT !.membresia = b])
RenovarOCrear(m, s, b)  == Pide(m, [Pedido("renovar", s) EXCEPT !.membresia = b])
SetAutoRenew(m, s)      == Pide(m, Pedido("autoRenew", s))
Resumen(m, s)           == Pide(m, Pedido("resumen", s))
Cancelar(m, i) ==
    suscripciones[i] # NoFila /\
    Pide(m, [Pedido("cancelar", suscripciones[i].suscriptor) EXCEPT !.id = i])

\* The request ends without writing: what it had not committed is undone.
Abandona(m) ==
    /\ Goes(m, Idle)
    /\ UNCHANGED <<mes, suscripciones, siguiente, ciclos, membresiaDe, concedidas, pedidos, faults>>

\* A call fails.
Falla(m) ==
    /\ ~At(m, "idle") /\ Fault /\ Goes(m, Idle)
    /\ UNCHANGED <<mes, suscripciones, siguiente, ciclos, membresiaDe, concedidas, pedidos>>

--------------------
(* consumirCuota                                                           *)

\* Mutant: an account without membership is not given the free one.
MembresiaTalCual(s) == membresiaDe[s]
MembresiaAsignada(s) == IF membresiaDe[s] = NoMembresia THEN Gratuita ELSE membresiaDe[s]

\* The active subscription is read FOR UPDATE.
LeeActivaBloqueando(m) ==
    LET i == ActivaDe(TitularDe(m)) IN
    /\ At(m, "lee") /\ Es(m, "consumir") /\ LeeLibre(TitularDe(m))
    /\ Goes(m, [worker[m] EXCEPT !.paso = IF i = 0 THEN "provisiona" ELSE "ciclo",
                                 !.id = i,
                                 !.fila = IF i = 0 THEN NoFila ELSE suscripciones[i]])
    /\ UNCHANGED <<mes, suscripciones, siguiente, ciclos, membresiaDe, concedidas, pedidos, faults>>

\* Inserted in the transaction: a row that only this worker has until Consume.
AutoProvisionar(m) ==
    /\ At(m, "provisiona") /\ HuecoLibre(m, TitularDe(m)) /\ siguiente <= MaxSusc
    /\ Goes(m, [worker[m] EXCEPT !.paso = "ciclo", !.id = siguiente,
                    !.fila = NuevaFila(TitularDe(m), MembresiaAsignada(TitularDe(m)), TRUE)])
    /\ siguiente' = siguiente + 1
    /\ UNCHANGED <<mes, suscripciones, ciclos, membresiaDe, concedidas, pedidos, faults>>

\* Two of them hold the gap and wait for each other: MySQL rolls one back.
Interbloqueo(m) ==
    At(m, "provisiona") /\ ~HuecoLibre(m, TitularDe(m)) /\ Abandona(m)

\* The cycle of today is read FOR UPDATE, after creating it if it is missing.
CicloActualBloqueado(m) ==
    LET r == CalcularRangoCiclo(mes, Reset[worker[m].fila.membresia])
        c == ciclos[<<worker[m].id, r>>] IN
    /\ At(m, "ciclo") /\ CicloLibre(m, <<worker[m].id, r>>)
    /\ Goes(m, [worker[m] EXCEPT !.paso = "consume", !.rango = r,
                                 !.usados = IF c = NoCiclo THEN Cero ELSE c])
    /\ UNCHANGED <<mes, suscripciones, siguiente, ciclos, membresiaDe, concedidas, pedidos, faults>>

Disponibles(m) == Limite[worker[m].fila.membresia][worker[m].tipo] - worker[m].usados[worker[m].tipo]

\* The unit is written and everything is committed.
Consume(m) ==
    LET w == worker[m]
        k == <<w.id, w.rango>> IN
    /\ At(m, "consume") /\ Disponibles(m) > 0
    /\ ciclos' = [ciclos EXCEPT ![k] = [w.usados EXCEPT ![w.tipo] = @ + 1]]
    /\ concedidas' = [concedidas EXCEPT ![k][w.tipo] = @ + 1]
    /\ IF suscripciones[w.id] = NoFila
       THEN /\ suscripciones' = [suscripciones EXCEPT ![w.id] = w.fila]
            /\ membresiaDe' = [membresiaDe EXCEPT ![w.suscriptor] =
                                   IF @ = NoMembresia THEN w.fila.membresia ELSE @]
       ELSE UNCHANGED <<suscripciones, membresiaDe>>
    /\ Goes(m, Idle)
    /\ UNCHANGED <<mes, siguiente, pedidos, faults>>

\* ConflictException: the transaction is rolled back.
Agotada(m) ==
    At(m, "consume") /\ Disponibles(m) <= 0 /\ Abandona(m)

--------------------
(* cambiarPlan, crearSuscripcion, renovarOCrearSuscripcion                 *)

\* Reads of the active subscription that take no lock.
Lee(m, paso) == LET i == ActivaDe(TitularDe(m)) IN
    /\ Goes(m, [worker[m] EXCEPT !.paso = paso, !.id = i,
                    !.fila = IF i = 0 THEN NoFila ELSE suscripciones[i]])
    /\ UNCHANGED <<mes, suscripciones, siguiente, ciclos, membresiaDe, concedidas, pedidos, faults>>

HayActiva(m) == ActivaDe(TitularDe(m)) # 0

\* The renewal extends what is active, or changes the plan, or creates one.
LeeParaRenovar(m) ==
    /\ At(m, "lee") /\ Es(m, "renovar")
    /\ Lee(m, IF ~HayActiva(m) THEN "leeAlta"
              ELSE IF suscripciones[ActivaDe(TitularDe(m))].membresia = worker[m].membresia
                   THEN "guarda" ELSE "leeCambio")

LeeParaCambiar(m) == At(m, "leeCambio") /\ Lee(m, IF HayActiva(m) THEN "cancela" ELSE "inserta")

\* The rule of crearSuscripcion: with an active one it throws.
LeeParaCrear(m) ==
    /\ At(m, "leeAlta")
    /\ IF HayActiva(m) THEN Abandona(m) ELSE Lee(m, "alta")

LeeParaGuardar(m) ==
    /\ At(m, "lee") /\ worker[m].op \in {"autoRenew", "resumen"}
    /\ IF ~HayActiva(m) THEN Abandona(m)
       ELSE Lee(m, IF Es(m, "resumen") THEN "abre" ELSE "guarda")

\* cambiarPlan: the row is updated, and stays locked until the commit.
CancelaAnterior(m) ==
    /\ At(m, "cancela") /\ FilaLibre(worker[m].id)
    /\ Step(m, "inserta")
    /\ UNCHANGED <<mes, suscripciones, siguiente, ciclos, membresiaDe, concedidas, pedidos, faults>>

\* Mutant: the insert replaces the cycle that is there.
ReemplazaCiclo(i, b) == ciclos' = [ciclos EXCEPT ![<<i, CalcularRangoCiclo(mes, Reset[b])>>] = Cero]

AbreCiclo(i, b) ==
    LET k == <<i, CalcularRangoCiclo(mes, Reset[b])>> IN
    ciclos' = IF ciclos[k] = NoCiclo THEN [ciclos EXCEPT ![k] = Cero] ELSE ciclos

\* The new subscription and its cycle are inserted and committed.
InsertaNueva(m) ==
    LET w == worker[m] IN
    /\ At(m, "inserta") /\ HuecoLibre(m, w.suscriptor) /\ siguiente <= MaxSusc
    /\ suscripciones' = [i \in Ids |->
           IF i = siguiente THEN NuevaFila(w.suscriptor, w.membresia, FALSE)
           ELSE IF i = w.id THEN [suscripciones[i] EXCEPT !.estatus = "cancelada"]
           ELSE suscripciones[i]]
    /\ siguiente' = siguiente + 1
    /\ AbreCiclo(siguiente, w.membresia)
    /\ IF Es(m, "renovar") THEN Step(m, "sincroniza") ELSE Goes(m, Idle)
    /\ UNCHANGED <<mes, membresiaDe, concedidas, pedidos, faults>>

\* crearSuscripcion runs outside any transaction.
Alta(m) ==
    LET w == worker[m] IN
    /\ At(m, "alta") /\ HuecoLibre(m, w.suscriptor) /\ siguiente <= MaxSusc
    /\ suscripciones' = [suscripciones EXCEPT ![siguiente] =
                             NuevaFila(w.suscriptor, w.membresia, FALSE)]
    /\ siguiente' = siguiente + 1
    /\ Goes(m, [w EXCEPT !.paso = "abre", !.id = siguiente,
                         !.fila = NuevaFila(w.suscriptor, w.membresia, FALSE)])
    /\ UNCHANGED <<mes, ciclos, membresiaDe, concedidas, pedidos, faults>>

\* obtenerOCrearCicloActual, for a new subscription or for the summary.
ObtenerOCrearCiclo(m) ==
    LET w == worker[m] IN
    /\ At(m, "abre")
    /\ CicloLibre(m, <<w.id, CalcularRangoCiclo(mes, Reset[w.fila.membresia])>>)
    /\ AbreCiclo(w.id, w.fila.membresia)
    /\ IF Es(m, "renovar") THEN Step(m, "sincroniza") ELSE Goes(m, Idle)
    /\ UNCHANGED <<mes, suscripciones, siguiente, membresiaDe, concedidas, pedidos, faults>>

LeeParaCancelar(m) ==
    LET i == worker[m].id IN
    /\ At(m, "lee") /\ Es(m, "cancelar")
    /\ Goes(m, IF suscripciones[i].estatus = "cancelada" THEN Idle
               ELSE [worker[m] EXCEPT !.paso = "guarda",
                         !.fila = [suscripciones[i] EXCEPT !.estatus = "cancelada"]])
    /\ UNCHANGED <<mes, suscripciones, siguiente, ciclos, membresiaDe, concedidas, pedidos, faults>>

\* save: of cancelarSuscripcion, setAutoRenew and the renewal, which also names
\* stripe as the provider.
Guarda(m) ==
    LET w == worker[m] IN
    /\ At(m, "guarda") /\ FilaLibre(w.id)
    /\ suscripciones' = [suscripciones EXCEPT ![w.id] =
           [w.fila EXCEPT !.auto = IF Es(m, "renovar") THEN FALSE ELSE @]]
    /\ IF Es(m, "renovar") THEN Step(m, "sincroniza") ELSE Goes(m, Idle)
    /\ UNCHANGED <<mes, siguiente, ciclos, membresiaDe, concedidas, pedidos, faults>>

\* The plan that was paid is copied to the subscriber.
SincronizaMembresia(m) ==
    /\ At(m, "sincroniza")
    /\ membresiaDe' = [membresiaDe EXCEPT ![TitularDe(m)] = worker[m].membresia]
    /\ Goes(m, Idle)
    /\ UNCHANGED <<mes, suscripciones, siguiente, ciclos, concedidas, pedidos, faults>>

\* eliminarCuenta: one UPDATE of every active subscription, which locks as a
\* read FOR UPDATE does.
EliminarCuenta(s) ==
    /\ pedidos < MaxPedidos /\ pedidos' = pedidos + 1
    /\ LeeLibre(s)
    /\ suscripciones' = [i \in Ids |-> IF i \in FilasDe(s)
           THEN [suscripciones[i] EXCEPT !.estatus = "cancelada"] ELSE suscripciones[i]]
    /\ UNCHANGED <<mes, siguiente, ciclos, membresiaDe, concedidas, worker, faults>>

PasaElMes ==
    /\ mes < UltimoMes /\ mes' = mes + 1
    /\ UNCHANGED <<suscripciones, siguiente, ciclos, membresiaDe, concedidas,
                   worker, pedidos, faults>>

--------------------
Consumir(m) == \/ LeeActivaBloqueando(m) \/ AutoProvisionar(m) \/ Interbloqueo(m)
               \/ CicloActualBloqueado(m) \/ Consume(m) \/ Agotada(m)

Cambia(m) == \/ LeeParaRenovar(m) \/ LeeParaCambiar(m) \/ LeeParaCrear(m)
             \/ LeeParaGuardar(m) \/ LeeParaCancelar(m) \/ CancelaAnterior(m)
             \/ InsertaNueva(m) \/ Alta(m) \/ ObtenerOCrearCiclo(m) \/ Guarda(m)
             \/ SincronizaMembresia(m)

Next ==
    \/ \E m \in Workers : Consumir(m) \/ Cambia(m) \/ Falla(m)
    \/ \E m \in Workers, s \in Suscriptores :
          \/ \E t \in Tipos : ConsumirCuota(m, s, t)
          \/ \E b \in Membresias : CambiarPlan(m, s, b) \/ CrearSuscripcion(m, s, b)
                                   \/ RenovarOCrear(m, s, b)
          \/ SetAutoRenew(m, s) \/ Resumen(m, s)
    \/ \E m \in Workers, i \in Ids : Cancelar(m, i)
    \/ \E s \in Suscriptores : EliminarCuenta(s)
    \/ PasaElMes

Spec == Init /\ [][Next]_vars

--------------------
(* Correctness.                                                            *)

(* Every unit a caller was granted is on the cycle it was charged to, and  *)
(* a cycle never grants more than the membership of its subscription       *)
(* allows, however many requests consume at once.                          *)
CupoRespetado ==
    \A k \in Claves, t \in Tipos :
        /\ concedidas[k][t] = IF ciclos[k] = NoCiclo THEN 0 ELSE ciclos[k][t]
        /\ concedidas[k][t] > 0 =>
               concedidas[k][t] <= Limite[suscripciones[k[1]].membresia][t]

(* A unit is only charged to a subscription that is active when it is      *)
(* charged: a cancellation or a change of plan waits for the consumption   *)
(* or is seen by it.                                                       *)
ConsumoEnActiva ==
    [][\A k \in Claves : concedidas'[k] # concedidas[k] =>
           suscripciones'[k[1]].estatus = "activa"]_vars

(* consumirCuota gives a subscription only to who has no active one at the *)
(* moment it appears: its lock covers the row that does not exist yet.     *)
AutoProvisionUnica ==
    [][\A i \in Ids : suscripciones[i] = NoFila /\ suscripciones'[i].auto =>
           ActivaDe(suscripciones'[i].suscriptor) = 0]_vars

--------------------
(* A statement of the repository that the code does not keep.              *)

(* suscripciones.service.ts:317, "regla: no crear otra activa si ya hay    *)
(* una activa".                                                            *)
UnaActiva ==
    \A s \in Suscriptores :
        Cardinality({i \in FilasDe(s) : suscripciones[i].estatus = "activa"}) <= 1
=============================================================================

-------------------------- MODULE SuscripcionesProofs --------------------------
(***************************************************************************)
(* What TLAPS proves of what hangs from a subscriber: his subscriptions    *)
(* (Suscripciones), for any number of subscribers, requests, memberships   *)
(* and types of quota; his account, his cards and his dashboards (Cuentas, *)
(* MetodosPago, Tableros), for any number of each; and the four together,  *)
(* as MCSuscripciones runs them.                                           *)
(*                                                                         *)
(* Of the subscriptions, the argument is about the lock of consumirCuota.  *)
(* From the moment it has a subscription until it commits, nobody else     *)
(* consumes for that subscriber, nobody changes the row it found, and      *)
(* nobody opens another one; so the counters it read are still those of    *)
(* the cycle, and the row it charges is still active.                      *)
(***************************************************************************)
EXTENDS MCSuscripciones, Sumas, FiniteSetTheorems, TLAPS

USE SuscripcionesAssumption DEF SuscripcionesAssumption

--------------------
(* The inductive invariant.                                                *)

EnConsumo == {"provisiona", "ciclo", "consume"}
ConFila   == {"ciclo", "consume"}
EnAlta    == {"leeCambio", "leeAlta", "cancela", "inserta", "alta", "sincroniza"}
OpsDePlan == {"cambiar", "crear", "renovar"}
Usados(k) == IF ciclos[k] = NoCiclo THEN Cero ELSE ciclos[k]

\* What a request carries at each of its steps.
Forma(w) ==
    /\ w.paso # "idle" => w.suscriptor \in Suscriptores
    /\ w.op \in OpsDePlan => w.membresia \in Membresias
    /\ w.op = "consumir" => w.tipo \in Tipos
    /\ w.paso \in EnConsumo => w.op = "consumir"
    /\ w.paso \in EnAlta => w.op \in OpsDePlan

\* The row that a request is to cancel is there, and is of its subscriber.
PorCancelar(w) ==
    (w.paso = "cancela" \/ (w.paso = "inserta" /\ w.id # 0)
        \/ (w.paso = "lee" /\ w.op = "cancelar")) =>
      /\ w.id \in Ids /\ suscripciones[w.id] # NoFila
      /\ suscripciones[w.id].suscriptor = w.suscriptor

\* The row that a request is to save, or whose cycle it is to open, is there.
PorGuardar(w) ==
    w.paso \in {"guarda", "abre"} =>
      /\ w.id \in Ids /\ suscripciones[w.id] # NoFila /\ w.fila \in Fila
      /\ suscripciones[w.id].suscriptor = w.fila.suscriptor
      /\ suscripciones[w.id].membresia = w.fila.membresia

\* The row that is charged is the one that was read, or one that is not there yet.
PorCobrar(w) ==
    w.paso \in ConFila =>
      /\ w.id \in Ids /\ w.id < siguiente /\ w.fila \in Fila
      /\ w.fila.suscriptor = w.suscriptor /\ w.fila.estatus = "activa"
      /\ suscripciones[w.id] = NoFila \/ suscripciones[w.id] = w.fila

\* While its subscription is not there, the subscriber has no active one.
SinActiva(w) ==
    (w.paso = "provisiona" \/ (w.paso \in ConFila /\ suscripciones[w.id] = NoFila)) =>
      \A i \in Ids : suscripciones[i].suscriptor = w.suscriptor =>
                        suscripciones[i].estatus # "activa"

\* The counters that were read are those of the cycle.
AlDia(w) ==
    w.paso = "consume" => w.rango \in Rangos /\ w.usados = Usados(<<w.id, w.rango>>)

Solo(w) == /\ Forma(w) /\ PorCancelar(w) /\ PorGuardar(w)
           /\ PorCobrar(w) /\ SinActiva(w) /\ AlDia(w)

\* Who has a subscription locked is alone with its subscriber, and with its row.
Par(v, w) ==
    v.paso \in ConFila =>
      /\ w.paso \in EnConsumo => w.suscriptor # v.suscriptor
      /\ w.paso \in ConFila => w.id # v.id

EnOrden == \A i \in Ids : suscripciones[i] # NoFila => i < siguiente

Cupo ==
    \A k \in Claves :
        /\ concedidas[k] = Usados(k)
        /\ \A t \in Tipos : concedidas[k][t] > 0 =>
               /\ suscripciones[k[1]] # NoFila
               /\ concedidas[k][t] <= Limite[suscripciones[k[1]].membresia][t]

Solos == \A m \in Workers : Solo(worker[m])
Pares == \A m, n \in Workers : m # n => Par(worker[m], worker[n])

IInv == TypeOK /\ EnOrden /\ Cupo /\ Solos /\ Pares

--------------------
(* Facts about the operators.                                              *)

\* A finite set of numbers that is not empty has a greatest one.
LEMMA HayMayor ==
    ASSUME NEW A, A # {}, A \subseteq Int, IsFiniteSet(A)
    PROVE  \E i \in A : \A j \in A : j <= i
<1> DEFINE Desde(i) == {j \in A : j >= i}
           T == {Desde(i) : i \in A}
<1>1. IsWellFoundedOn(StrictSubsetOrdering(A), SUBSET A)
  BY FS_StrictSubsetOrderingWellFounded, FS_FiniteSubsetsOfFinite
<1>2. T \subseteq SUBSET A /\ T # {}
  <2>1. PICK a \in A : TRUE  OBVIOUS
  <2>2. Desde(a) \in T  OBVIOUS
  <2>3. \A i \in A : Desde(i) \in SUBSET A  OBVIOUS
  <2> QED  BY <2>2, <2>3
<1> HIDE DEF T
<1>3. PICK U \in T : \A V \in T : ~(<<V, U>> \in StrictSubsetOrdering(A))  BY <1>1, <1>2, WFMin
<1> USE DEF T
<1>4. PICK i \in A : U = Desde(i)  BY <1>3
<1>5. ASSUME NEW j \in A, ~(j <= i)
      PROVE  FALSE
  <2>1. j > i /\ i \notin Desde(j) /\ i \in Desde(i)  BY <1>5
  <2>6. j \in Int /\ i \in Int  OBVIOUS
  <2>4. ASSUME NEW k \in Desde(j) PROVE k \in Desde(i)  BY <2>1, <2>6
  <2>7. \A k \in A : Desde(k) \in SUBSET A  OBVIOUS
  <2> HIDE DEF Desde
  <2>2. <<Desde(j), U>> \in StrictSubsetOrdering(A)
    BY <2>1, <2>4, <1>4, <2>7 DEF StrictSubsetOrdering
  <2>3. Desde(j) \in T  BY DEF T
  <2> QED  BY <2>2, <2>3, <1>3
<1> QED  BY <1>5

\* The filter on estatus and the order by id: what is read is an active row, and nothing
\* is read only if there is none.
LEMMA ActivaEs ==
    ASSUME TypeOK, NEW s \in Suscriptores
    PROVE  /\ ActivaDe(s) # 0 =>
                /\ ActivaDe(s) \in Ids /\ suscripciones[ActivaDe(s)] \in Fila
                /\ suscripciones[ActivaDe(s)].suscriptor = s
                /\ suscripciones[ActivaDe(s)].estatus = "activa"
           /\ ActivaDe(s) = 0 <=>
                \A i \in Ids : suscripciones[i].suscriptor = s =>
                                  suscripciones[i].estatus # "activa"
<1> DEFINE A == {i \in FilasDe(s) : suscripciones[i].estatus = "activa"}
<1>1. A \subseteq Ids /\ A \subseteq Int  BY DEF FilasDe, Ids
<1>2. CASE A = {}  BY <1>2 DEF ActivaDe, FilasDe
<1>3. CASE A # {}
  <2>5. IsFiniteSet(Ids)  BY FS_Interval DEF Ids
  <2>1. IsFiniteSet(A)  BY <1>1, <2>5, FS_Subset
  <2>2. \E i \in A : \A j \in A : j <= i  BY <1>1, <1>3, <2>1, HayMayor
  <2>3. ActivaDe(s) = CHOOSE i \in A : \A j \in A : j <= i  BY <1>3 DEF ActivaDe
  <2>4. ActivaDe(s) \in A  BY <2>2, <2>3
  <2>6. suscripciones[ActivaDe(s)] \in Fila  BY <1>1, <2>4 DEF TypeOK, FilasDe, NoFila
  <2> QED  BY <1>1, <2>4, <2>6 DEF FilasDe, Ids
<1> QED  BY <1>2, <1>3

LEMMA RangoEs ==
    ASSUME mes \in Meses, NEW r
    PROVE  CalcularRangoCiclo(mes, r) \in Rangos
<1>1. CASE r \in {"anual", "una_vez"}  BY <1>1 DEF Rangos, Resets
<1>2. CASE r \notin {"anual", "una_vez"}  BY <1>2 DEF CalcularRangoCiclo, Rangos, Resets
<1> QED  BY <1>1, <1>2

LEMMA IdleEs == Idle \in Worker
  BY DEF Idle, Worker, Ops, Pasos, Cuenta, Cero

\* A row is not the absence of a row.
LEMMA FilaNoEs == NoFila \notin Fila /\ NoFila.suscriptor \notin Suscriptores
  BY DEF NoFila, Fila

LEMMA GoesEs ==
    ASSUME worker \in [Workers -> Worker], NEW m \in Workers, NEW w, Goes(m, w)
    PROVE  /\ worker'[m] = w /\ \A n \in Workers : n # m => worker'[n] = worker[n]
           /\ w \in Worker => worker' \in [Workers -> Worker]
  BY DEF Goes

\* Who holds nothing of a subscriber is in nobody's way.
LEMMA Aparte ==
    ASSUME NEW v, NEW w, w.paso \notin EnConsumo
    PROVE  Par(v, w) /\ Par(w, v)
  BY DEF Par, EnConsumo, ConFila

LEMMA SoloIdle == Solo(Idle)
  BY DEF Solo, Forma, PorCancelar, PorGuardar, PorCobrar, SinActiva, AlDia, Idle,
         OpsDePlan, EnConsumo, EnAlta, ConFila

--------------------
(* Frames: what a step leaves of the requests it does not move.            *)

\* Rows may only appear, and change their estatus and who pays.
FilasSiguen == \A i \in Ids : suscripciones[i] # NoFila =>
    /\ suscripciones'[i] # NoFila
    /\ suscripciones'[i].suscriptor = suscripciones[i].suscriptor
    /\ suscripciones'[i].membresia = suscripciones[i].membresia

\* What is locked for a request is not touched.
RespetaA(w) ==
    /\ w.paso \in ConFila => suscripciones'[w.id] = suscripciones[w.id]
    /\ w.paso \in EnConsumo => \A i \in Ids :
         suscripciones'[i].suscriptor = w.suscriptor /\ suscripciones'[i].estatus = "activa" =>
         suscripciones[i].suscriptor = w.suscriptor /\ suscripciones[i].estatus = "activa"
    /\ w.paso = "consume" => \A k \in Claves : k[1] = w.id =>
         (IF ciclos'[k] = NoCiclo THEN Cero ELSE ciclos'[k]) = Usados(k)

LEMMA OtroSigue ==
    ASSUME NEW n \in Workers, worker'[n] = worker[n], Solo(worker[n]),
           siguiente \in Int, siguiente' \in Int, siguiente' >= siguiente,
           worker[n].id \in Int,
           FilasSiguen, RespetaA(worker[n])
    PROVE  Solo(worker[n])'
<1> DEFINE w == worker[n]
<1>1. Forma(w)'  BY DEF Solo, Forma
<1>2. PorCancelar(w)'  BY DEF Solo, PorCancelar, FilasSiguen
<1>3. PorGuardar(w)'  BY DEF Solo, PorGuardar, FilasSiguen
<1>4. PorCobrar(w)'  BY DEF Solo, PorCobrar, RespetaA, Ids
<1>5. SinActiva(w)'  BY DEF Solo, SinActiva, PorCobrar, RespetaA, EnConsumo, ConFila
<1>6. AlDia(w)'
  <2> SUFFICES ASSUME w.paso = "consume"
               PROVE  w.rango \in Rangos /\ w'.usados = Usados(<<w.id, w.rango>>)'
    BY DEF AlDia
  <2>1. w.rango \in Rangos /\ w.usados = Usados(<<w.id, w.rango>>) /\ w.id \in Ids
    BY DEF Solo, AlDia, PorCobrar, ConFila
  <2>2. <<w.id, w.rango>> \in Claves /\ <<w.id, w.rango>>[1] = w.id  BY <2>1 DEF Claves
  <2> QED  BY <2>1, <2>2 DEF RespetaA, Usados
<1> QED  BY <1>1, <1>2, <1>3, <1>4, <1>5, <1>6 DEF Solo

LEMMA SoloSinTablas ==
    ASSUME NEW n \in Workers, NEW v, Solo(v), worker'[n] = v,
           UNCHANGED <<suscripciones, siguiente, ciclos>>
    PROVE  Solo(worker[n])'
<1>1. Forma(worker[n])' /\ PorCancelar(worker[n])'  BY DEF Solo, Forma, PorCancelar
<1>2. PorGuardar(worker[n])' /\ PorCobrar(worker[n])'  BY DEF Solo, PorGuardar, PorCobrar
<1>3. SinActiva(worker[n])'  BY DEF Solo, SinActiva
<1>4. AlDia(worker[n])'  BY DEF Solo, AlDia, Usados
<1> QED  BY <1>1, <1>2, <1>3, <1>4 DEF Solo

\* A request takes a step that writes no table.
LEMMA Leyendo ==
    ASSUME IInv, NEW m \in Workers, NEW w \in Worker, Goes(m, w), Solo(w),
           \A n \in Workers : n # m => Par(worker[n], w) /\ Par(w, worker[n]),
           UNCHANGED <<mes, suscripciones, siguiente, ciclos, membresiaDe, concedidas>>,
           pedidos' \in 0 .. MaxPedidos, faults' \in 0 .. MaxFaults
    PROVE  IInv'
<1>1. /\ worker' \in [Workers -> Worker] /\ worker'[m] = w
      /\ \A n \in Workers : n # m => worker'[n] = worker[n]
  BY GoesEs DEF IInv, TypeOK
<1>2. TypeOK'  BY <1>1 DEF IInv, TypeOK
<1>3. EnOrden' /\ Cupo'  BY DEF IInv, EnOrden, Cupo, Usados
<1>4. ASSUME NEW n \in Workers PROVE Solo(worker[n])'  BY <1>1, SoloSinTablas DEF IInv, Solos
<1>5. ASSUME NEW a \in Workers, NEW n \in Workers, a # n
      PROVE  Par(worker[a], worker[n])'
  <2>1. Par(worker[a], worker[n])  BY <1>5 DEF IInv, Pares
  <2>2. CASE a = m  BY <1>1, <1>5, <2>2 DEF Par
  <2>3. CASE n = m  BY <1>1, <1>5, <2>3 DEF Par
  <2>4. CASE a # m /\ n # m  BY <1>1, <2>1, <2>4 DEF Par
  <2> QED  BY <2>2, <2>3, <2>4
<1> QED  BY <1>2, <1>3, <1>4, <1>5 DEF IInv, Solos, Pares

--------------------
(* The requests arrive, end and fail.                                      *)

LEMMA PideSigue ==
    ASSUME IInv, NEW m \in Workers, NEW w \in Worker, Pide(m, w), Solo(w),
           w.paso \notin EnConsumo
    PROVE  IInv'
<1>1. \A n \in Workers : Par(worker[n], w) /\ Par(w, worker[n])  BY Aparte
<1>2. pedidos' \in 0 .. MaxPedidos /\ faults' \in 0 .. MaxFaults  BY DEF Pide, IInv, TypeOK
<1> QED  BY <1>1, <1>2, Leyendo DEF Pide

LEMMA AcabaSigue ==
    ASSUME IInv, NEW m \in Workers, Goes(m, Idle),
           UNCHANGED <<mes, suscripciones, siguiente, ciclos, membresiaDe, concedidas>>,
           pedidos' \in 0 .. MaxPedidos, faults' \in 0 .. MaxFaults
    PROVE  IInv'
<1>1. \A n \in Workers : Par(worker[n], Idle) /\ Par(Idle, worker[n])  BY Aparte DEF Idle, EnConsumo
<1> QED  BY <1>1, IdleEs, SoloIdle, Leyendo

LEMMA AbandonaSigue ==
    ASSUME IInv, NEW m \in Workers, Abandona(m)
    PROVE  IInv'
  BY AcabaSigue DEF Abandona, IInv, TypeOK

LEMMA FallaSigue ==
    ASSUME IInv, NEW m \in Workers, Falla(m)
    PROVE  IInv'
<1>1. pedidos' \in 0 .. MaxPedidos /\ faults' \in 0 .. MaxFaults  BY DEF Falla, Fault, IInv, TypeOK
<1> QED  BY <1>1, AcabaSigue DEF Falla

LEMMA PedidoEs ==
    ASSUME NEW op \in Ops \ {"none"}, NEW s \in Suscriptores
    PROVE  /\ Pedido(op, s) \in Worker
           /\ Pedido(op, s).op = op /\ Pedido(op, s).suscriptor = s
           /\ Pedido(op, s).paso = (CASE op = "cambiar" -> "leeCambio"
                                      [] op = "crear" -> "leeAlta" [] OTHER -> "lee")
<1> DEFINE p == CASE op = "cambiar" -> "leeCambio" [] op = "crear" -> "leeAlta" [] OTHER -> "lee"
<1>1. p \in Pasos  BY DEF Pasos
<1>2. Pedido(op, s) = [Idle EXCEPT !.op = op, !.suscriptor = s, !.paso = p]  BY DEF Pedido
<1> HIDE DEF p
<1> QED  BY <1>1, <1>2, IdleEs DEF Worker, p

\* The first step of a request, which has read nothing yet.
LEMMA PrimerPaso ==
    ASSUME NEW w, w.paso \in {"lee", "leeCambio", "leeAlta"}, w.suscriptor \in Suscriptores,
           w.op = "consumir" => w.tipo \in Tipos,
           w.op \in OpsDePlan => w.membresia \in Membresias,
           w.paso \in {"leeCambio", "leeAlta"} => w.op \in OpsDePlan,
           w.op = "cancelar" => /\ w.id \in Ids /\ suscripciones[w.id] # NoFila
                                /\ suscripciones[w.id].suscriptor = w.suscriptor
    PROVE  Solo(w) /\ w.paso \notin EnConsumo
  BY DEF Solo, Forma, PorCancelar, PorGuardar, PorCobrar, SinActiva, AlDia, EnConsumo,
         EnAlta, ConFila

LEMMA PedidosSiguen ==
    ASSUME IInv, NEW m \in Workers, NEW s \in Suscriptores,
           \/ \E t \in Tipos : ConsumirCuota(m, s, t)
           \/ \E b \in Membresias : CambiarPlan(m, s, b) \/ CrearSuscripcion(m, s, b)
                                    \/ RenovarOCrear(m, s, b)
           \/ SetAutoRenew(m, s) \/ Resumen(m, s)
    PROVE  IInv'
<1>1. ASSUME NEW t \in Tipos, ConsumirCuota(m, s, t) PROVE IInv'
  <2> DEFINE p == Pedido("consumir", s)
             w == [p EXCEPT !.tipo = t]
  <2>1. p \in Worker /\ p.op = "consumir" /\ p.suscriptor = s /\ p.paso = "lee"  BY PedidoEs DEF Ops
  <2>2. Pide(m, w)  BY <1>1 DEF ConsumirCuota
  <2> HIDE DEF p
  <2>3. w \in Worker /\ w.op = "consumir" /\ w.suscriptor = s /\ w.paso = "lee" /\ w.tipo = t
    BY <2>1 DEF Worker
  <2> HIDE DEF w
  <2>4. Solo(w) /\ w.paso \notin EnConsumo  BY <2>3, PrimerPaso DEF OpsDePlan
  <2> QED  BY <2>2, <2>3, <2>4, PideSigue
<1>2. ASSUME NEW b \in Membresias, NEW op \in OpsDePlan,
             Pide(m, [Pedido(op, s) EXCEPT !.membresia = b]) PROVE IInv'
  <2> DEFINE p == Pedido(op, s)
             w == [p EXCEPT !.membresia = b]
  <2>1. p \in Worker /\ p.op = op /\ p.suscriptor = s /\ p.paso \in {"lee", "leeCambio", "leeAlta"}
    BY PedidoEs DEF Ops, OpsDePlan
  <2>2. Pide(m, w)  BY <1>2
  <2> HIDE DEF p
  <2>3. w \in Worker /\ w.op = op /\ w.suscriptor = s /\ w.membresia = b
        /\ w.paso \in {"lee", "leeCambio", "leeAlta"}
    BY <2>1 DEF Worker
  <2> HIDE DEF w
  <2>4. Solo(w) /\ w.paso \notin EnConsumo  BY <2>3, PrimerPaso DEF OpsDePlan
  <2> QED  BY <2>2, <2>3, <2>4, PideSigue
<1>3. ASSUME NEW op \in {"autoRenew", "resumen"}, Pide(m, Pedido(op, s)) PROVE IInv'
  <2> DEFINE w == Pedido(op, s)
  <2>1. w \in Worker /\ w.op = op /\ w.suscriptor = s /\ w.paso = "lee"  BY PedidoEs DEF Ops
  <2>2. Pide(m, w)  BY <1>3
  <2> HIDE DEF w
  <2>3. Solo(w) /\ w.paso \notin EnConsumo  BY <2>1, PrimerPaso DEF OpsDePlan
  <2> QED  BY <2>1, <2>2, <2>3, PideSigue
<1>4. ASSUME NEW b \in Membresias,
             CambiarPlan(m, s, b) \/ CrearSuscripcion(m, s, b) \/ RenovarOCrear(m, s, b)
      PROVE  IInv'
  BY <1>2, <1>4 DEF CambiarPlan, CrearSuscripcion, RenovarOCrear, OpsDePlan
<1>5. ASSUME SetAutoRenew(m, s) \/ Resumen(m, s) PROVE IInv'
  BY <1>3, <1>5 DEF SetAutoRenew, Resumen
<1> QED  BY <1>1, <1>4, <1>5

LEMMA CancelarSigue ==
    ASSUME IInv, NEW m \in Workers, NEW i \in Ids, Cancelar(m, i)
    PROVE  IInv'
<1> DEFINE s == suscripciones[i].suscriptor
           p == Pedido("cancelar", s)
           w == [p EXCEPT !.id = i]
<1>1. s \in Suscriptores /\ suscripciones[i] # NoFila  BY DEF Cancelar, IInv, TypeOK, Fila
<1>2. Pide(m, w)  BY DEF Cancelar
<1>3. p \in Worker /\ p.op = "cancelar" /\ p.suscriptor = s /\ p.paso = "lee"
  BY <1>1, PedidoEs DEF Ops
<1> HIDE DEF p, s
<1>6. i \in 0 .. MaxSusc  BY DEF Ids
<1>4. w \in Worker /\ w.op = "cancelar" /\ w.suscriptor = s /\ w.paso = "lee" /\ w.id = i
  BY <1>3, <1>6 DEF Worker
<1> HIDE DEF w
<1>5. Solo(w) /\ w.paso \notin EnConsumo  BY <1>1, <1>4, PrimerPaso DEF OpsDePlan, s
<1> QED  BY <1>2, <1>4, <1>5, PideSigue

--------------------
(* The reads.                                                              *)

\* Where a request is, and what it may carry.
LEMMA TrabajaEs ==
    ASSUME IInv, NEW m \in Workers
    PROVE  /\ worker[m] \in Worker /\ Solo(worker[m])
           /\ worker[m].paso # "idle" => worker[m].suscriptor \in Suscriptores
           /\ \A n \in Workers : n # m =>
                 Par(worker[m], worker[n]) /\ Par(worker[n], worker[m]) /\ Solo(worker[n])
  BY DEF IInv, TypeOK, Solos, Solo, Forma, Pares

\* What a request that holds a row has read.
LEMMA ConFilaEs ==
    ASSUME IInv, NEW m \in Workers, worker[m].paso \in ConFila
    PROVE  /\ worker[m].id \in Ids /\ worker[m].id < siguiente
           /\ worker[m].fila \in Fila /\ worker[m].fila.estatus = "activa"
           /\ worker[m].fila.suscriptor = worker[m].suscriptor
           /\ suscripciones[worker[m].id] \in {NoFila, worker[m].fila}
           /\ worker[m].op = "consumir" /\ worker[m].tipo \in Tipos
           /\ worker[m].suscriptor \in Suscriptores
  BY TrabajaEs DEF Solo, PorCobrar, Forma, ConFila, EnConsumo

\* The rows of a subscriber are locked to whoever comes to consume.
LEMMA LeeLibreEs ==
    ASSUME IInv, NEW s \in Suscriptores, LeeLibre(s), NEW n \in Workers
    PROVE  /\ worker[n].paso \in ConFila => worker[n].suscriptor # s /\ worker[n].id \notin FilasDe(s)
           /\ worker[n].paso \in EnConsumo /\ worker[n].suscriptor = s => FilasDe(s) = {}
<1>1. n \in Consumiendo(s) => worker[n].paso = "provisiona" /\ FilasDe(s) = {}  BY DEF LeeLibre, At
<1>2. worker[n].paso \in EnConsumo /\ worker[n].suscriptor = s => n \in Consumiendo(s)
  BY DEF Consumiendo, TitularDe, EnConsumo
<1>3. worker[n].paso \in ConFila => worker[n].suscriptor # s  BY <1>1, <1>2 DEF ConFila, EnConsumo
<1>4. worker[n].paso \in ConFila => worker[n].id \notin FilasDe(s)
  BY <1>3, ConFilaEs, FilaNoEs DEF FilasDe
<1> QED  BY <1>1, <1>2, <1>3, <1>4

LEMMA LeeActivaBloqueandoSigue ==
    ASSUME IInv, NEW m \in Workers, LeeActivaBloqueando(m)
    PROVE  IInv'
<1> DEFINE s == worker[m].suscriptor
           i == ActivaDe(s)
           w == [worker[m] EXCEPT !.paso = IF i = 0 THEN "provisiona" ELSE "ciclo",
                                  !.id = i,
                                  !.fila = IF i = 0 THEN NoFila ELSE suscripciones[i]]
<1>1. /\ worker[m].paso = "lee" /\ worker[m].op = "consumir" /\ LeeLibre(s) /\ Goes(m, w)
      /\ UNCHANGED <<mes, suscripciones, siguiente, ciclos, membresiaDe, concedidas, pedidos, faults>>
  BY DEF LeeActivaBloqueando, At, Es, TitularDe
<1>2. s \in Suscriptores /\ worker[m] \in Worker /\ worker[m].tipo \in Tipos
  BY <1>1, TrabajaEs DEF Solo, Forma
<1>3. /\ i # 0 => /\ i \in Ids /\ suscripciones[i] \in Fila /\ suscripciones[i].suscriptor = s
                  /\ suscripciones[i].estatus = "activa" /\ i \in FilasDe(s)
      /\ i = 0 => \A j \in Ids : suscripciones[j].suscriptor = s => suscripciones[j].estatus # "activa"
  BY <1>2, ActivaEs DEF IInv, FilasDe
<1>4. i \in 0 .. MaxSusc  BY <1>3 DEF Ids
<1> HIDE DEF i
<1>5. /\ w \in Worker /\ w.op = "consumir" /\ w.suscriptor = s /\ w.tipo \in Tipos /\ w.id = i
      /\ w.paso = IF i = 0 THEN "provisiona" ELSE "ciclo"
      /\ w.fila = IF i = 0 THEN NoFila ELSE suscripciones[i]
  BY <1>1, <1>2, <1>3, <1>4 DEF Worker, Pasos
<1> HIDE DEF w, s
<1>6. i # 0 => i < siguiente /\ suscripciones[i] # NoFila  BY <1>3, FilaNoEs DEF IInv, EnOrden
<1>7. Solo(w)
  BY <1>2, <1>3, <1>5, <1>6 DEF Solo, Forma, PorCancelar, PorGuardar, PorCobrar, SinActiva, AlDia,
         EnConsumo, EnAlta, ConFila, OpsDePlan
<1>8. ASSUME NEW n \in Workers, n # m
      PROVE  Par(worker[n], w) /\ Par(w, worker[n])
  BY <1>1, <1>2, LeeLibreEs, <1>3, <1>5 DEF Par, ConFila, EnConsumo
<1>9. pedidos' \in 0 .. MaxPedidos /\ faults' \in 0 .. MaxFaults  BY <1>1 DEF IInv, TypeOK
<1> QED  BY <1>1, <1>5, <1>7, <1>8, <1>9, Leyendo

LEMMA CicloActualBloqueadoSigue ==
    ASSUME IInv, NEW m \in Workers, CicloActualBloqueado(m)
    PROVE  IInv'
<1> DEFINE r == CalcularRangoCiclo(mes, Reset[worker[m].fila.membresia])
           u == Usados(<<worker[m].id, r>>)
           w == [worker[m] EXCEPT !.paso = "consume", !.rango = r, !.usados = u]
<1>1. /\ worker[m].paso = "ciclo" /\ Goes(m, w)
      /\ UNCHANGED <<mes, suscripciones, siguiente, ciclos, membresiaDe, concedidas, pedidos, faults>>
  BY DEF CicloActualBloqueado, At, Usados
<1>2. /\ worker[m] \in Worker /\ Solo(worker[m]) /\ worker[m].id \in Ids
      /\ worker[m].op = "consumir"
  BY <1>1, TrabajaEs, ConFilaEs DEF ConFila
<1>3. r \in Rangos  BY RangoEs DEF IInv, TypeOK
<1>4. u \in Cuenta  BY <1>2, <1>3 DEF Claves, Cero, Cuenta, Usados, IInv, TypeOK
<1> HIDE DEF r
<1>5. u = Usados(<<worker[m].id, r>>)  OBVIOUS
<1> HIDE DEF u
<1>6. /\ w \in Worker /\ w.op = "consumir" /\ w.suscriptor = worker[m].suscriptor
      /\ w.id = worker[m].id /\ w.paso = "consume" /\ w.fila = worker[m].fila
      /\ w.tipo = worker[m].tipo /\ w.rango = r /\ w.usados = u
  BY <1>2, <1>3, <1>4 DEF Worker, Pasos
<1> HIDE DEF w
<1>7. Solo(w)
  BY <1>1, <1>2, <1>3, <1>5, <1>6
     DEF Solo, Forma, PorCancelar, PorGuardar, PorCobrar, SinActiva, AlDia,
         EnConsumo, EnAlta, ConFila, OpsDePlan
<1>8. ASSUME NEW n \in Workers, n # m
      PROVE  Par(worker[n], w) /\ Par(w, worker[n])
  BY <1>1, <1>6, <1>8, TrabajaEs DEF Par, ConFila, EnConsumo
<1>9. pedidos' \in 0 .. MaxPedidos /\ faults' \in 0 .. MaxFaults  BY <1>1 DEF IInv, TypeOK
<1> QED  BY <1>1, <1>6, <1>7, <1>8, <1>9, Leyendo

\* A read that takes no lock.
LEMMA LeeSigue ==
    ASSUME IInv, NEW m \in Workers,
           NEW paso \in {"leeAlta", "leeCambio", "cancela", "inserta", "alta", "guarda", "abre"},
           Lee(m, paso), worker[m].paso # "idle", worker[m].op # "consumir",
           paso \in EnAlta => worker[m].op \in OpsDePlan,
           paso \in {"cancela", "guarda", "abre"} => HayActiva(m)
    PROVE  IInv'
<1> DEFINE s == worker[m].suscriptor
           i == ActivaDe(s)
           w == [worker[m] EXCEPT !.paso = paso, !.id = i,
                                  !.fila = IF i = 0 THEN NoFila ELSE suscripciones[i]]
<1>1. /\ Goes(m, w)
      /\ UNCHANGED <<mes, suscripciones, siguiente, ciclos, membresiaDe, concedidas, pedidos, faults>>
  BY DEF Lee, TitularDe
<1>2. s \in Suscriptores /\ worker[m] \in Worker /\ Solo(worker[m])  BY <1>1, TrabajaEs
<1>3. /\ i # 0 => i \in Ids /\ suscripciones[i] \in Fila /\ suscripciones[i].suscriptor = s
      /\ paso \in {"cancela", "guarda", "abre"} => i # 0
  BY <1>2, ActivaEs DEF IInv, HayActiva, TitularDe
<1>4. i \in 0 .. MaxSusc  BY <1>3 DEF Ids
<1> HIDE DEF i
<1>5. /\ w \in Worker /\ w.op = worker[m].op /\ w.suscriptor = s /\ w.id = i
      /\ w.paso = paso /\ w.membresia = worker[m].membresia
      /\ w.fila = IF i = 0 THEN NoFila ELSE suscripciones[i]
  <2> DEFINE f == IF i = 0 THEN NoFila ELSE suscripciones[i]
  <2>1. f \in Fila \cup {NoFila} /\ paso \in Pasos  BY <1>3 DEF Pasos
  <2>2. /\ w.op = worker[m].op /\ w.suscriptor = s /\ w.id = i /\ w.paso = paso
        /\ w.membresia = worker[m].membresia /\ w.fila = f
    BY <1>2 DEF Worker
  <2>3. w \in Worker
    <3>1. w = [worker[m] EXCEPT !.paso = paso, !.id = i, !.fila = f]  OBVIOUS
    <3> HIDE DEF f, w
    <3> QED BY <1>2, <1>4, <2>1, <3>1 DEF Worker
  <2> QED BY <2>2, <2>3
<1> HIDE DEF w, s
<1>6. i # 0 => suscripciones[i] # NoFila  BY <1>3, FilaNoEs
<1>7. Solo(w)
  BY <1>2, <1>3, <1>5, <1>6 DEF Solo, Forma, PorCancelar, PorGuardar, PorCobrar, SinActiva, AlDia,
         EnConsumo, EnAlta, ConFila, OpsDePlan
<1>8. \A n \in Workers : Par(worker[n], w) /\ Par(w, worker[n])  BY <1>5, Aparte DEF EnConsumo
<1>9. pedidos' \in 0 .. MaxPedidos /\ faults' \in 0 .. MaxFaults  BY <1>1 DEF IInv, TypeOK
<1> QED  BY <1>1, <1>5, <1>7, <1>8, <1>9, Leyendo

LEMMA LecturasSiguen ==
    ASSUME IInv, NEW m \in Workers,
           LeeParaRenovar(m) \/ LeeParaCambiar(m) \/ LeeParaCrear(m) \/ LeeParaGuardar(m)
    PROVE  IInv'
<1>1. Forma(worker[m])  BY TrabajaEs DEF Solo
<1>2. CASE LeeParaRenovar(m)  BY <1>2, LeeSigue DEF LeeParaRenovar, At, Es, EnAlta, OpsDePlan
<1>3. CASE LeeParaCambiar(m)
  BY <1>3, <1>1, LeeSigue DEF LeeParaCambiar, At, Forma, EnAlta, OpsDePlan
<1>4. CASE LeeParaCrear(m)
  BY <1>4, <1>1, LeeSigue, AbandonaSigue DEF LeeParaCrear, At, Forma, EnAlta, OpsDePlan
<1>5. CASE LeeParaGuardar(m)  BY <1>5, LeeSigue, AbandonaSigue DEF LeeParaGuardar, At, EnAlta
<1> QED  BY <1>2, <1>3, <1>4, <1>5

\* cambiarPlan takes the lock of the row that it cancels.
LEMMA CancelaAnteriorSigue ==
    ASSUME IInv, NEW m \in Workers, CancelaAnterior(m)
    PROVE  IInv'
<1> DEFINE w == [worker[m] EXCEPT !.paso = "inserta"]
<1>1. /\ worker[m].paso = "cancela" /\ Goes(m, w)
      /\ UNCHANGED <<mes, suscripciones, siguiente, ciclos, membresiaDe, concedidas, pedidos, faults>>
  BY DEF CancelaAnterior, At, Step
<1>2. worker[m] \in Worker /\ Solo(worker[m])  BY TrabajaEs
<1>3. /\ w \in Worker /\ w.op = worker[m].op /\ w.suscriptor = worker[m].suscriptor
      /\ w.id = worker[m].id /\ w.paso = "inserta" /\ w.membresia = worker[m].membresia
  BY <1>2 DEF Worker, Pasos
<1> HIDE DEF w
<1>4. Solo(w)
  BY <1>1, <1>2, <1>3 DEF Solo, Forma, PorCancelar, PorGuardar, PorCobrar, SinActiva, AlDia,
         EnConsumo, EnAlta, ConFila, OpsDePlan
<1>5. \A n \in Workers : Par(worker[n], w) /\ Par(w, worker[n])  BY <1>3, Aparte DEF EnConsumo
<1>6. pedidos' \in 0 .. MaxPedidos /\ faults' \in 0 .. MaxFaults  BY <1>1 DEF IInv, TypeOK
<1> QED  BY <1>1, <1>3, <1>4, <1>5, <1>6, Leyendo

LEMMA LeeParaCancelarSigue ==
    ASSUME IInv, NEW m \in Workers, LeeParaCancelar(m)
    PROVE  IInv'
<1> DEFINE i == worker[m].id
           f == [suscripciones[i] EXCEPT !.estatus = "cancelada"]
           w == [worker[m] EXCEPT !.paso = "guarda", !.fila = f]
<1>1. /\ worker[m].paso = "lee" /\ worker[m].op = "cancelar"
      /\ Goes(m, Idle) \/ Goes(m, w)
      /\ UNCHANGED <<mes, suscripciones, siguiente, ciclos, membresiaDe, concedidas, pedidos, faults>>
  BY DEF LeeParaCancelar, At, Es
<1>2. /\ worker[m] \in Worker /\ Solo(worker[m]) /\ i \in Ids
      /\ suscripciones[i] # NoFila /\ suscripciones[i] \in Fila
  BY <1>1, TrabajaEs DEF Solo, PorCancelar, IInv, TypeOK
<1>3. /\ f \in Fila /\ f.suscriptor = suscripciones[i].suscriptor
      /\ f.membresia = suscripciones[i].membresia
  BY <1>2 DEF Fila
<1> HIDE DEF f
<1>4. /\ w \in Worker /\ w.op = "cancelar" /\ w.suscriptor = worker[m].suscriptor
      /\ w.id = i /\ w.paso = "guarda" /\ w.fila = f
  BY <1>1, <1>2, <1>3 DEF Worker, Pasos
<1> HIDE DEF w
<1>5. Solo(w)
  BY <1>1, <1>2, <1>3, <1>4 DEF Solo, Forma, PorCancelar, PorGuardar, PorCobrar, SinActiva, AlDia,
         EnConsumo, EnAlta, ConFila, OpsDePlan
<1>6. \A n \in Workers : Par(worker[n], w) /\ Par(w, worker[n])  BY <1>4, Aparte DEF EnConsumo
<1>7. pedidos' \in 0 .. MaxPedidos /\ faults' \in 0 .. MaxFaults  BY <1>1 DEF IInv, TypeOK
<1>8. CASE Goes(m, Idle)  BY <1>1, <1>7, <1>8, AcabaSigue
<1>9. CASE Goes(m, w)  BY <1>1, <1>4, <1>5, <1>6, <1>7, <1>9, Leyendo
<1> QED  BY <1>1, <1>8, <1>9

--------------------
(* The writes.                                                             *)

\* One request moves and writes tables; what the others hold is respected.
LEMMA Escribiendo ==
    ASSUME IInv, NEW m \in Workers, NEW w \in Worker, Goes(m, w), Solo(worker[m])',
           siguiente' \in Int, siguiente' >= siguiente, FilasSiguen,
           \A n \in Workers : n # m =>
               RespetaA(worker[n]) /\ Par(worker[n], w) /\ Par(w, worker[n])
    PROVE  worker' \in [Workers -> Worker] /\ Solos' /\ Pares'
<1>1. /\ worker' \in [Workers -> Worker] /\ worker'[m] = w
      /\ \A n \in Workers : n # m => worker'[n] = worker[n]
  BY GoesEs DEF IInv, TypeOK
<1>2. ASSUME NEW n \in Workers PROVE Solo(worker[n])'
  <2>1. CASE n # m  BY <1>1, <2>1, TrabajaEs, OtroSigue DEF IInv, TypeOK, Worker
  <2> QED  BY <2>1
<1>3. ASSUME NEW a \in Workers, NEW n \in Workers, a # n
      PROVE  Par(worker[a], worker[n])'
  <2>1. Par(worker[a], worker[n])  BY <1>3 DEF IInv, Pares
  <2>2. CASE a = m  BY <1>1, <1>3, <2>2 DEF Par
  <2>3. CASE n = m  BY <1>1, <1>3, <2>3 DEF Par
  <2>4. CASE a # m /\ n # m  BY <1>1, <2>1, <2>4 DEF Par
  <2> QED  BY <2>2, <2>3, <2>4
<1> QED  BY <1>1, <1>2, <1>3 DEF Solos, Pares

LEMMA SoloIdlePrima ==
    ASSUME NEW m \in Workers, worker'[m] = Idle
    PROVE  Solo(worker[m])'
  BY DEF Solo, Forma, PorCancelar, PorGuardar, PorCobrar, SinActiva, AlDia, Idle,
         OpsDePlan, EnConsumo, EnAlta, ConFila

\* The plan is copied to the subscriber once everything else is done.
LEMMA SoloSincroniza ==
    ASSUME NEW m \in Workers, NEW w, worker'[m] = w, w.paso = "sincroniza",
           w.op = "renovar", w.suscriptor \in Suscriptores, w.membresia \in Membresias
    PROVE  Solo(worker[m])'
  BY DEF Solo, Forma, PorCancelar, PorGuardar, PorCobrar, SinActiva, AlDia,
         OpsDePlan, EnConsumo, EnAlta, ConFila

\* A request that writes ends, or goes on to copy the plan that was paid.
LEMMA Terminando ==
    ASSUME IInv, NEW m \in Workers, worker[m].paso # "idle",
           IF Es(m, "renovar") THEN Step(m, "sincroniza") ELSE Goes(m, Idle),
           siguiente' \in Int, siguiente' >= siguiente, FilasSiguen,
           \A n \in Workers : n # m => RespetaA(worker[n])
    PROVE  worker' \in [Workers -> Worker] /\ Solos' /\ Pares'
<1>1. CASE Goes(m, Idle)
  <2>1. worker'[m] = Idle  BY <1>1, GoesEs DEF IInv, TypeOK
  <2>2. \A n \in Workers : Par(worker[n], Idle) /\ Par(Idle, worker[n])
    BY Aparte DEF Idle, EnConsumo
  <2> QED  BY <1>1, <2>1, <2>2, IdleEs, SoloIdlePrima, Escribiendo
<1>2. CASE worker[m].op = "renovar" /\ Step(m, "sincroniza")
  <2> DEFINE w == [worker[m] EXCEPT !.paso = "sincroniza"]
  <2>1. worker[m] \in Worker /\ Goes(m, w) /\ worker'[m] = w
    BY <1>2, GoesEs, TrabajaEs DEF Step, IInv, TypeOK
  <2>2. worker[m].membresia \in Membresias /\ worker[m].suscriptor \in Suscriptores
    BY <1>2, TrabajaEs DEF Solo, Forma, OpsDePlan
  <2>3. /\ w \in Worker /\ w.op = "renovar" /\ w.paso = "sincroniza"
        /\ w.membresia = worker[m].membresia /\ w.suscriptor = worker[m].suscriptor
    BY <1>2, <2>1 DEF Worker, Pasos
  <2> HIDE DEF w
  <2>4. \A n \in Workers : Par(worker[n], w) /\ Par(w, worker[n])  BY <2>3, Aparte DEF EnConsumo
  <2>5. Solo(worker[m])'  BY <2>1, <2>2, <2>3, SoloSincroniza
  <2> QED  BY <2>1, <2>3, <2>4, <2>5, Escribiendo
<1> QED  BY <1>1, <1>2 DEF Es

LEMMA SincronizaSigue ==
    ASSUME IInv, NEW m \in Workers, SincronizaMembresia(m)
    PROVE  IInv'
<1>1. /\ worker[m].paso = "sincroniza" /\ Goes(m, Idle)
      /\ UNCHANGED <<mes, suscripciones, siguiente, ciclos, concedidas, pedidos, faults>>
  BY DEF SincronizaMembresia, At
<1>2. worker[m].membresia \in Membresias  BY <1>1, TrabajaEs DEF Solo, Forma, EnAlta
<1>3. membresiaDe' \in [Suscriptores -> Membresias \cup {NoMembresia}]
  BY <1>2 DEF SincronizaMembresia, IInv, TypeOK
<1>4. FilasSiguen /\ \A n \in Workers : RespetaA(worker[n])
  BY <1>1 DEF FilasSiguen, RespetaA, Usados
<1>5. siguiente' \in Int /\ siguiente' >= siguiente  BY <1>1 DEF IInv, TypeOK
<1>6. worker'[m] = Idle  BY <1>1, GoesEs DEF IInv, TypeOK
<1>7. \A n \in Workers : Par(worker[n], Idle) /\ Par(Idle, worker[n])  BY Aparte DEF Idle, EnConsumo
<1>8. worker' \in [Workers -> Worker] /\ Solos' /\ Pares'
  BY <1>1, <1>4, <1>5, <1>6, <1>7, IdleEs, SoloIdlePrima, Escribiendo
<1>9. TypeOK'  BY <1>1, <1>3, <1>8 DEF IInv, TypeOK
<1>10. EnOrden' /\ Cupo'  BY <1>1 DEF IInv, EnOrden, Cupo, Usados
<1> QED  BY <1>8, <1>9, <1>10 DEF IInv

\* What opening a cycle does to the counters: nothing that can be read.
LEMMA AbreCicloEs ==
    ASSUME IInv, NEW i \in Ids, NEW b, AbreCiclo(i, b)
    PROVE  /\ ciclos' \in [Claves -> Cuenta \cup {NoCiclo}]
           /\ \A k \in Claves : (IF ciclos'[k] = NoCiclo THEN Cero ELSE ciclos'[k]) = Usados(k)
<1> DEFINE k0 == <<i, CalcularRangoCiclo(mes, Reset[b])>>
<1>1. k0 \in Claves  BY RangoEs DEF Claves, IInv, TypeOK
<1>2. Cero \in Cuenta /\ ciclos \in [Claves -> Cuenta \cup {NoCiclo}]
  BY DEF Cero, Cuenta, IInv, TypeOK
<1>3. ciclos' = ciclos \/ (ciclos[k0] = NoCiclo /\ ciclos' = [ciclos EXCEPT ![k0] = Cero])
  BY DEF AbreCiclo
<1> HIDE DEF k0
<1> QED  BY <1>1, <1>2, <1>3 DEF Usados

LEMMA ObtenerOCrearCicloSigue ==
    ASSUME IInv, NEW m \in Workers, ObtenerOCrearCiclo(m)
    PROVE  IInv'
<1>1. /\ worker[m].paso = "abre"
      /\ AbreCiclo(worker[m].id, worker[m].fila.membresia)
      /\ IF Es(m, "renovar") THEN Step(m, "sincroniza") ELSE Goes(m, Idle)
      /\ UNCHANGED <<mes, suscripciones, siguiente, membresiaDe, concedidas, pedidos, faults>>
  BY DEF ObtenerOCrearCiclo, At
<1>2. worker[m].id \in Ids  BY <1>1, TrabajaEs DEF Solo, PorGuardar
<1>3. /\ ciclos' \in [Claves -> Cuenta \cup {NoCiclo}]
      /\ \A k \in Claves : (IF ciclos'[k] = NoCiclo THEN Cero ELSE ciclos'[k]) = Usados(k)
  BY <1>1, <1>2, AbreCicloEs
<1>4. FilasSiguen /\ \A n \in Workers : RespetaA(worker[n])  BY <1>1, <1>3 DEF FilasSiguen, RespetaA
<1>5. siguiente' \in Int /\ siguiente' >= siguiente  BY <1>1 DEF IInv, TypeOK
<1>6. worker' \in [Workers -> Worker] /\ Solos' /\ Pares'  BY <1>1, <1>4, <1>5, Terminando
<1>7. TypeOK'  BY <1>1, <1>3, <1>6 DEF IInv, TypeOK
<1>8. EnOrden'  BY <1>1 DEF IInv, EnOrden
<1>9. Cupo'  BY <1>1, <1>3 DEF IInv, Cupo, Usados
<1> QED  BY <1>6, <1>7, <1>8, <1>9 DEF IInv

\* The gap where the row goes belongs to this transaction alone.
LEMMA AutoProvisionarSigue ==
    ASSUME IInv, NEW m \in Workers, AutoProvisionar(m)
    PROVE  IInv'
<1> DEFINE s == worker[m].suscriptor
           f == NuevaFila(s, MembresiaAsignada(s), TRUE)
           w == [worker[m] EXCEPT !.paso = "ciclo", !.id = siguiente, !.fila = f]
<1>1. /\ worker[m].paso = "provisiona" /\ HuecoLibre(m, s) /\ siguiente <= MaxSusc
      /\ Goes(m, w) /\ siguiente' = siguiente + 1
      /\ UNCHANGED <<mes, suscripciones, ciclos, membresiaDe, concedidas, pedidos, faults>>
  BY DEF AutoProvisionar, At, TitularDe
<1>2. /\ worker[m] \in Worker /\ Solo(worker[m]) /\ s \in Suscriptores
      /\ worker[m].op = "consumir"
  BY <1>1, TrabajaEs DEF Solo, Forma, EnConsumo
<1>3. f \in Fila /\ f.suscriptor = s /\ f.estatus = "activa"
  BY <1>2 DEF MembresiaAsignada, IInv, TypeOK, NuevaFila, Fila
<1>4. /\ siguiente \in Ids /\ siguiente \in 0 .. MaxSusc /\ siguiente \in Int
      /\ siguiente' \in 1 .. (MaxSusc + 1)
  BY <1>1 DEF IInv, TypeOK, Ids
<1>5. suscripciones[siguiente] = NoFila  BY <1>4 DEF IInv, EnOrden
<1> HIDE DEF f
<1>6. /\ w \in Worker /\ w.op = "consumir" /\ w.suscriptor = s /\ w.id = siguiente
      /\ w.paso = "ciclo" /\ w.fila = f /\ w.tipo = worker[m].tipo
  BY <1>2, <1>3, <1>4 DEF Worker, Pasos
<1> HIDE DEF w, s
<1>7. worker'[m] = w  BY <1>1, GoesEs DEF IInv, TypeOK
<1>8. \A j \in Ids : suscripciones[j].suscriptor = s => suscripciones[j].estatus # "activa"
  BY <1>1, <1>2 DEF Solo, SinActiva, s
<1>9. worker[m].tipo \in Tipos  BY <1>1, <1>2 DEF Solo, Forma
<1>10. Solo(worker[m])'
  <2>1. Forma(worker[m])' /\ PorCancelar(worker[m])' /\ PorGuardar(worker[m])' /\ AlDia(worker[m])'
    BY <1>2, <1>6, <1>7, <1>9 DEF Forma, PorCancelar, PorGuardar, AlDia, EnConsumo, EnAlta, OpsDePlan
  <2>2. PorCobrar(worker[m])'  BY <1>1, <1>3, <1>4, <1>5, <1>6, <1>7 DEF PorCobrar
  <2>3. SinActiva(worker[m])'  BY <1>1, <1>6, <1>7, <1>8 DEF SinActiva
  <2> QED  BY <2>1, <2>2, <2>3 DEF Solo
<1>11. ASSUME NEW n \in Workers, n # m
       PROVE  RespetaA(worker[n]) /\ Par(worker[n], w) /\ Par(w, worker[n])
  <2>1. worker[n].paso \in EnConsumo => worker[n].suscriptor # s
    BY <1>1, <1>11 DEF HuecoLibre, Consumiendo, TitularDe, EnConsumo
  <2>2. worker[n].paso \in ConFila => worker[n].id \in Int /\ worker[n].id < siguiente
    BY ConFilaEs DEF Ids
  <2>3. RespetaA(worker[n])  BY <1>1 DEF RespetaA, Usados
  <2>4. worker[n].paso \in ConFila => worker[n].id # siguiente  BY <2>2, <1>4
  <2>5. worker[n].paso \in ConFila => worker[n].paso \in EnConsumo  BY DEF ConFila, EnConsumo
  <2>6. Par(worker[n], w) /\ Par(w, worker[n])  BY <2>1, <2>4, <2>5, <1>6 DEF Par
  <2> QED  BY <2>3, <2>6
<1>12. FilasSiguen  BY <1>1 DEF FilasSiguen
<1>13. worker' \in [Workers -> Worker] /\ Solos' /\ Pares'
  BY <1>1, <1>4, <1>6, <1>10, <1>11, <1>12, Escribiendo
<1>14. TypeOK'  BY <1>1, <1>4, <1>13 DEF IInv, TypeOK
<1>15. EnOrden'  BY <1>1, <1>4 DEF IInv, EnOrden, Ids
<1>16. Cupo'  BY <1>1 DEF IInv, Cupo, Usados
<1> QED  BY <1>13, <1>14, <1>15, <1>16 DEF IInv

\* The row that is charged is active, and the counters that were read are still good: the
\* unit fits.
LEMMA ConsumeEs ==
    ASSUME IInv, NEW m \in Workers, Consume(m)
    PROVE  LET w == worker[m]  k == <<worker[m].id, worker[m].rango>>
               f == worker[m].fila IN
           /\ w.paso = "consume" /\ k \in Claves /\ w.id \in Ids /\ w.id < siguiente
           /\ f \in Fila /\ f.estatus = "activa" /\ f.suscriptor = w.suscriptor
           /\ w.tipo \in Tipos /\ concedidas[k] \in Cuenta
           /\ concedidas[k][w.tipo] + 1 <= Limite[f.membresia][w.tipo]
           /\ suscripciones[w.id] \in {NoFila, f}
           /\ suscripciones' = [suscripciones EXCEPT ![w.id] = f]
           /\ ciclos' = [ciclos EXCEPT ![k] = [concedidas[k] EXCEPT ![w.tipo] = @ + 1]]
           /\ concedidas' = [concedidas EXCEPT ![k] = [concedidas[k] EXCEPT ![w.tipo] = @ + 1]]
<1> DEFINE w == worker[m]
           k == <<w.id, w.rango>>
           f == w.fila
<1>1. /\ w.paso = "consume" /\ Disponibles(m) > 0
      /\ ciclos' = [ciclos EXCEPT ![k] = [w.usados EXCEPT ![w.tipo] = @ + 1]]
      /\ concedidas' = [concedidas EXCEPT ![k][w.tipo] = @ + 1]
      /\ IF suscripciones[w.id] = NoFila
         THEN suscripciones' = [suscripciones EXCEPT ![w.id] = w.fila]
         ELSE UNCHANGED suscripciones
  BY DEF Consume, At
<1>2. /\ w \in Worker /\ Solo(w) /\ w.id \in Ids /\ w.id < siguiente
      /\ f \in Fila /\ f.estatus = "activa" /\ f.suscriptor = w.suscriptor
      /\ suscripciones[w.id] \in {NoFila, f} /\ w.tipo \in Tipos
  BY <1>1, TrabajaEs, ConFilaEs DEF ConFila
<1>3. w.rango \in Rangos /\ w.usados = Usados(k)  BY <1>1, <1>2 DEF Solo, AlDia
<1>4. k \in Claves  BY <1>2, <1>3 DEF Claves
<1>5. concedidas[k] = w.usados /\ concedidas[k] \in Cuenta  BY <1>3, <1>4 DEF IInv, Cupo, TypeOK
<1>6. concedidas[k][w.tipo] + 1 <= Limite[f.membresia][w.tipo]
  BY <1>2, <1>5, <1>1 DEF Fila, Cuenta, Disponibles
<1>7. suscripciones' = [suscripciones EXCEPT ![w.id] = f]  BY <1>1, <1>2 DEF IInv, TypeOK
<1>8. concedidas' = [concedidas EXCEPT ![k] = [concedidas[k] EXCEPT ![w.tipo] = @ + 1]]  BY <1>1
<1>9. ciclos' = [ciclos EXCEPT ![k] = [concedidas[k] EXCEPT ![w.tipo] = @ + 1]]  BY <1>1, <1>5
<1> QED  BY <1>1, <1>2, <1>4, <1>5, <1>6, <1>7, <1>8, <1>9

\* One unit more on a counter.
LEMMA MasUno ==
    ASSUME NEW g \in Cuenta, NEW t \in Tipos
    PROVE  LET c == [g EXCEPT ![t] = @ + 1] IN
           /\ c \in Cuenta /\ c # NoCiclo /\ c[t] = g[t] + 1
           /\ \A u \in Tipos : u # t => c[u] = g[u]
<1> DEFINE c == [g EXCEPT ![t] = @ + 1]
<1>1. g \in [Tipos -> Nat] /\ g[t] \in Nat  BY DEF Cuenta
<1>2. c \in [Tipos -> Nat] /\ c[t] = g[t] + 1 /\ \A u \in Tipos : u # t => c[u] = g[u]  BY <1>1
<1>3. NoCiclo[t] = -1  BY DEF NoCiclo
<1> HIDE DEF c
<1>4. c # NoCiclo  BY <1>1, <1>2, <1>3
<1> QED  BY <1>2, <1>4 DEF Cuenta, c

LEMMA ConsumeSigue ==
    ASSUME IInv, NEW m \in Workers, Consume(m)
    PROVE  IInv'
<1> DEFINE w == worker[m]
           id == w.id
           k == <<id, w.rango>>
           f == w.fila
           t == w.tipo
           c == [concedidas[k] EXCEPT ![t] = @ + 1]
<1>1. /\ w.paso = "consume" /\ k \in Claves /\ id \in Ids /\ id < siguiente
      /\ f \in Fila /\ f.estatus = "activa" /\ f.suscriptor = w.suscriptor
      /\ t \in Tipos /\ concedidas[k] \in Cuenta
      /\ concedidas[k][t] + 1 <= Limite[f.membresia][t]
      /\ suscripciones[id] \in {NoFila, f}
      /\ suscripciones' = [suscripciones EXCEPT ![id] = f]
      /\ ciclos' = [ciclos EXCEPT ![k] = c]
      /\ concedidas' = [concedidas EXCEPT ![k] = c]
  BY ConsumeEs
<1>2. /\ Goes(m, Idle) /\ UNCHANGED <<mes, siguiente, pedidos, faults>>
      /\ membresiaDe' = membresiaDe
            \/ membresiaDe' = [membresiaDe EXCEPT ![w.suscriptor] =
                                   IF @ = NoMembresia THEN f.membresia ELSE @]
  BY DEF Consume
<1>3. k[1] = id  OBVIOUS
<1>4. c \in Cuenta /\ c # NoCiclo /\ c[t] = concedidas[k][t] + 1
      /\ \A u \in Tipos : u # t => c[u] = concedidas[k][u]
  BY <1>1, MasUno
<1>5. f.membresia \in Membresias  BY <1>1 DEF Fila
<1> HIDE DEF c, k
<1>6. membresiaDe' \in [Suscriptores -> Membresias \cup {NoMembresia}]
  BY <1>2, <1>5 DEF IInv, TypeOK
<1>7. /\ suscripciones \in [Ids -> Fila \cup {NoFila}]
      /\ ciclos \in [Claves -> Cuenta \cup {NoCiclo}] /\ concedidas \in [Claves -> Cuenta]
  BY DEF IInv, TypeOK
<1> HIDE DEF f, t, id
<1>8. /\ suscripciones' \in [Ids -> Fila \cup {NoFila}]
      /\ ciclos' \in [Claves -> Cuenta \cup {NoCiclo}] /\ concedidas' \in [Claves -> Cuenta]
  BY <1>1, <1>4, <1>7
<1>9. /\ suscripciones'[id] = f /\ \A i \in Ids : i # id => suscripciones'[i] = suscripciones[i]
      /\ ciclos'[k] = c /\ concedidas'[k] = c
      /\ \A q \in Claves : q # k => ciclos'[q] = ciclos[q] /\ concedidas'[q] = concedidas[q]
  BY <1>1, <1>7
<1>10. FilasSiguen  BY <1>1, <1>9, FilaNoEs DEF FilasSiguen
<1>11. siguiente' \in Int /\ siguiente' >= siguiente  BY <1>2 DEF IInv, TypeOK
<1>12. ASSUME NEW n \in Workers, n # m
       PROVE  RespetaA(worker[n])
  <2>1. /\ worker[n].paso \in EnConsumo => worker[n].suscriptor # w.suscriptor
        /\ worker[n].paso \in ConFila => worker[n].id # id /\ worker[n].id \in Ids
    BY <1>1, <1>12, TrabajaEs, ConFilaEs DEF Par, ConFila, id
  <2>2. worker[n].paso \in ConFila => suscripciones'[worker[n].id] = suscripciones[worker[n].id]
    BY <2>1, <1>9
  <2>3. worker[n].paso \in EnConsumo => \A i \in Ids :
           suscripciones'[i].suscriptor = worker[n].suscriptor /\ suscripciones'[i].estatus = "activa" =>
           suscripciones[i].suscriptor = worker[n].suscriptor /\ suscripciones[i].estatus = "activa"
    BY <2>1, <1>1, <1>9
  <2>4. worker[n].paso = "consume" => \A q \in Claves : q[1] = worker[n].id =>
           (IF ciclos'[q] = NoCiclo THEN Cero ELSE ciclos'[q]) = Usados(q)
    BY <2>1, <1>3, <1>9 DEF Usados, ConFila
  <2> QED  BY <2>2, <2>3, <2>4 DEF RespetaA
<1>13. worker'[m] = Idle  BY <1>2, GoesEs DEF IInv, TypeOK
<1>14. \A n \in Workers : Par(worker[n], Idle) /\ Par(Idle, worker[n])
  BY Aparte DEF Idle, EnConsumo
<1>15. worker' \in [Workers -> Worker] /\ Solos' /\ Pares'
  BY <1>2, <1>10, <1>11, <1>12, <1>13, <1>14, IdleEs, SoloIdlePrima, Escribiendo
<1>16. TypeOK'  BY <1>2, <1>6, <1>8, <1>15 DEF IInv, TypeOK
<1>17. EnOrden'  BY <1>1, <1>2, <1>9 DEF IInv, EnOrden
<1>18. ASSUME NEW q \in Claves
       PROVE  /\ concedidas'[q] = Usados(q)'
              /\ \A u \in Tipos : concedidas'[q][u] > 0 =>
                   /\ suscripciones'[q[1]] # NoFila
                   /\ concedidas'[q][u] <= Limite[suscripciones'[q[1]].membresia][u]
  <2>1. /\ concedidas[q] = Usados(q) /\ q[1] \in Ids
        /\ \A u \in Tipos : concedidas[q][u] > 0 =>
             /\ suscripciones[q[1]] # NoFila
             /\ concedidas[q][u] <= Limite[suscripciones[q[1]].membresia][u]
    BY DEF IInv, Cupo, Claves
  <2>2. concedidas'[q] = Usados(q)'  BY <2>1, <1>4, <1>9 DEF Usados
  <2>3. ASSUME NEW u \in Tipos, concedidas[q][u] > 0
        PROVE  /\ suscripciones'[q[1]] # NoFila
               /\ concedidas[q][u] <= Limite[suscripciones'[q[1]].membresia][u]
    BY <2>1, <2>3, <1>10 DEF FilasSiguen
  <2>4. ASSUME NEW u \in Tipos, concedidas'[q][u] > 0
        PROVE  /\ suscripciones'[q[1]] # NoFila
               /\ concedidas'[q][u] <= Limite[suscripciones'[q[1]].membresia][u]
    <3>1. CASE q = k /\ u = t  BY <3>1, <1>1, <1>3, <1>4, <1>9, FilaNoEs
    <3>2. CASE ~(q = k /\ u = t)  BY <3>2, <1>4, <1>9, <2>3, <2>4
    <3> QED  BY <3>1, <3>2
  <2> QED  BY <2>2, <2>4
<1>19. Cupo'  BY <1>18 DEF Cupo
<1> QED  BY <1>15, <1>16, <1>17, <1>19 DEF IInv

\* Rows change and no unit is granted: what was granted is still within the plan.
LEMMA CupoSigue ==
    ASSUME IInv, FilasSiguen, UNCHANGED concedidas,
           \A k \in Claves : (IF ciclos'[k] = NoCiclo THEN Cero ELSE ciclos'[k]) = Usados(k)
    PROVE  Cupo'
<1> SUFFICES ASSUME NEW k \in Claves
             PROVE  /\ concedidas'[k] = Usados(k)'
                    /\ \A t \in Tipos : concedidas'[k][t] > 0 =>
                         /\ suscripciones'[k[1]] # NoFila
                         /\ concedidas'[k][t] <= Limite[suscripciones'[k[1]].membresia][t]
  BY DEF Cupo
<1>1. /\ concedidas[k] = Usados(k) /\ k[1] \in Ids
      /\ \A t \in Tipos : concedidas[k][t] > 0 =>
           /\ suscripciones[k[1]] # NoFila
           /\ concedidas[k][t] <= Limite[suscripciones[k[1]].membresia][t]
  BY DEF IInv, Cupo, Claves
<1>2. concedidas'[k] = Usados(k)'  BY <1>1 DEF Usados
<1>3. ASSUME NEW t \in Tipos, concedidas'[k][t] > 0
      PROVE  /\ suscripciones'[k[1]] # NoFila
             /\ concedidas'[k][t] <= Limite[suscripciones'[k[1]].membresia][t]
  BY <1>1, <1>3 DEF FilasSiguen
<1> QED  BY <1>2, <1>3

\* Who is about to insert a row for s, and has waited for the gap, is alone with s.
LEMMA HuecoEs ==
    ASSUME IInv, NEW m \in Workers, NEW s, HuecoLibre(m, s), NEW n \in Workers, n # m
    PROVE  /\ worker[n].paso \in EnConsumo => worker[n].suscriptor # s
           /\ worker[n].paso \in ConFila =>
                 /\ worker[n].id \in Ids /\ worker[n].id < siguiente
                 /\ worker[n].suscriptor # s
                 /\ suscripciones[worker[n].id] # NoFila =>
                       suscripciones[worker[n].id].suscriptor # s
<1>1. worker[n].paso \in EnConsumo => worker[n].suscriptor # s
  BY DEF HuecoLibre, Consumiendo, TitularDe, EnConsumo
<1>2. worker[n].paso \in ConFila => worker[n].paso \in EnConsumo  BY DEF ConFila, EnConsumo
<1> QED  BY <1>1, <1>2, ConFilaEs

\* The row goes where nothing was read yet.
LEMMA SiguienteEs ==
    ASSUME IInv, siguiente <= MaxSusc
    PROVE  /\ siguiente \in Ids /\ siguiente \in 0 .. MaxSusc /\ siguiente \in Int
           /\ siguiente + 1 \in 1 .. (MaxSusc + 1) /\ suscripciones[siguiente] = NoFila
           /\ \A i \in Ids : suscripciones[i] # NoFila => i # siguiente /\ i < siguiente + 1
  BY DEF IInv, TypeOK, EnOrden, Ids

LEMMA InsertaNuevaSigue ==
    ASSUME IInv, NEW m \in Workers, InsertaNueva(m)
    PROVE  IInv'
<1> DEFINE w == worker[m]
           s == w.suscriptor
           f == NuevaFila(s, w.membresia, FALSE)
           c(i) == [suscripciones[i] EXCEPT !.estatus = "cancelada"]
<1>1. /\ w.paso = "inserta" /\ HuecoLibre(m, s) /\ siguiente <= MaxSusc
      /\ suscripciones' = [i \in Ids |-> IF i = siguiente THEN f
             ELSE IF i = w.id THEN c(i) ELSE suscripciones[i]]
      /\ siguiente' = siguiente + 1 /\ AbreCiclo(siguiente, w.membresia)
      /\ IF Es(m, "renovar") THEN Step(m, "sincroniza") ELSE Goes(m, Idle)
      /\ UNCHANGED <<mes, membresiaDe, concedidas, pedidos, faults>>
  BY DEF InsertaNueva, At
<1>2. /\ w \in Worker /\ s \in Suscriptores /\ w.membresia \in Membresias
      /\ w.id # 0 => /\ w.id \in Ids /\ suscripciones[w.id] # NoFila
                     /\ suscripciones[w.id].suscriptor = s
  BY <1>1, TrabajaEs DEF Solo, Forma, PorCancelar, EnAlta
<1>3. f \in Fila /\ f.suscriptor = s  BY <1>2 DEF NuevaFila, Fila
<1>4. \A i \in Ids : suscripciones[i] # NoFila =>
         /\ suscripciones[i] \in Fila /\ c(i) \in Fila
         /\ c(i).suscriptor = suscripciones[i].suscriptor
         /\ c(i).membresia = suscripciones[i].membresia /\ c(i).estatus = "cancelada"
  BY DEF IInv, TypeOK, Fila
<1>5. /\ siguiente \in Ids /\ siguiente \in Int /\ suscripciones[siguiente] = NoFila
      /\ siguiente' \in 1 .. (MaxSusc + 1)
      /\ \A i \in Ids : suscripciones[i] # NoFila => i # siguiente /\ i < siguiente + 1
  BY <1>1, SiguienteEs
<1> HIDE DEF f, c
<1>6. \A i \in Ids : suscripciones'[i] = IF i = siguiente THEN f
                                         ELSE IF i = w.id THEN c(i) ELSE suscripciones[i]
  BY <1>1
<1>7. \A i \in Ids : i = w.id => suscripciones[i] # NoFila /\ suscripciones[i].suscriptor = s
  BY <1>2 DEF Ids
<1> HIDE DEF w, s
<1>8. suscripciones' \in [Ids -> Fila \cup {NoFila}]
  BY <1>3, <1>4, <1>6, <1>7, <1>1 DEF IInv, TypeOK
<1>9. FilasSiguen  BY <1>4, <1>5, <1>6, <1>7, FilaNoEs DEF FilasSiguen
<1>10. /\ ciclos' \in [Claves -> Cuenta \cup {NoCiclo}]
       /\ \A k \in Claves : (IF ciclos'[k] = NoCiclo THEN Cero ELSE ciclos'[k]) = Usados(k)
  BY <1>1, <1>5, AbreCicloEs
<1>11. ASSUME NEW n \in Workers, n # m
       PROVE  RespetaA(worker[n])
  <2>1. /\ worker[n].paso \in EnConsumo => worker[n].suscriptor # s
        /\ worker[n].paso \in ConFila =>
              /\ worker[n].id \in Ids /\ worker[n].id < siguiente
              /\ suscripciones[worker[n].id] # NoFila => suscripciones[worker[n].id].suscriptor # s
    BY <1>1, <1>11, HuecoEs
  <2>2. worker[n].paso \in ConFila => worker[n].id # siguiente  BY <2>1, <1>5 DEF Ids
  <2>3. worker[n].paso \in ConFila => suscripciones'[worker[n].id] = suscripciones[worker[n].id]
    BY <2>1, <2>2, <1>6, <1>7
  <2>4. worker[n].paso \in EnConsumo => \A i \in Ids :
           suscripciones'[i].suscriptor = worker[n].suscriptor /\ suscripciones'[i].estatus = "activa" =>
           suscripciones[i].suscriptor = worker[n].suscriptor /\ suscripciones[i].estatus = "activa"
    BY <2>1, <1>3, <1>4, <1>6, <1>7
  <2> QED  BY <2>3, <2>4, <1>10 DEF RespetaA
<1>12. siguiente' \in Int /\ siguiente' >= siguiente /\ worker[m].paso # "idle"  BY <1>1, <1>5 DEF w
<1>13. worker' \in [Workers -> Worker] /\ Solos' /\ Pares'  BY <1>1, <1>9, <1>11, <1>12, Terminando
<1>14. TypeOK'  BY <1>1, <1>5, <1>8, <1>10, <1>13 DEF IInv, TypeOK
<1>15. EnOrden'  BY <1>6, <1>7, <1>1, <1>5 DEF EnOrden
<1>16. Cupo'  BY <1>1, <1>9, <1>10, CupoSigue
<1> QED  BY <1>13, <1>14, <1>15, <1>16 DEF IInv

LEMMA AltaSigue ==
    ASSUME IInv, NEW m \in Workers, Alta(m)
    PROVE  IInv'
<1> DEFINE s == worker[m].suscriptor
           f == NuevaFila(s, worker[m].membresia, FALSE)
           w == [worker[m] EXCEPT !.paso = "abre", !.id = siguiente, !.fila = f]
<1>1. /\ worker[m].paso = "alta" /\ HuecoLibre(m, s) /\ siguiente <= MaxSusc
      /\ suscripciones' = [suscripciones EXCEPT ![siguiente] = f]
      /\ siguiente' = siguiente + 1 /\ Goes(m, w)
      /\ UNCHANGED <<mes, ciclos, membresiaDe, concedidas, pedidos, faults>>
  BY DEF Alta, At
<1>2. /\ worker[m] \in Worker /\ s \in Suscriptores /\ worker[m].membresia \in Membresias
      /\ Solo(worker[m]) /\ worker[m].op \in OpsDePlan
  BY <1>1, TrabajaEs DEF Solo, Forma, EnAlta
<1>3. f \in Fila /\ f.suscriptor = s  BY <1>2 DEF NuevaFila, Fila
<1>4. /\ siguiente \in Ids /\ siguiente \in 0 .. MaxSusc /\ siguiente \in Int
      /\ suscripciones[siguiente] = NoFila /\ siguiente' \in 1 .. (MaxSusc + 1)
      /\ \A i \in Ids : suscripciones[i] # NoFila => i # siguiente /\ i < siguiente + 1
  BY <1>1, SiguienteEs
<1> HIDE DEF f
<1>5. /\ w \in Worker /\ w.op = worker[m].op /\ w.suscriptor = s /\ w.id = siguiente
      /\ w.paso = "abre" /\ w.fila = f /\ w.membresia = worker[m].membresia
  BY <1>2, <1>3, <1>4 DEF Worker, Pasos
<1> HIDE DEF w, s
<1>6. /\ suscripciones' \in [Ids -> Fila \cup {NoFila}] /\ suscripciones'[siguiente] = f
      /\ \A i \in Ids : i # siguiente => suscripciones'[i] = suscripciones[i]
  BY <1>1, <1>3, <1>4 DEF IInv, TypeOK
<1>7. FilasSiguen  BY <1>4, <1>6 DEF FilasSiguen
<1>8. worker'[m] = w  BY <1>1, GoesEs DEF IInv, TypeOK
<1>9. Solo(worker[m])'
  <2>1. Forma(worker[m])' /\ PorCancelar(worker[m])' /\ PorCobrar(worker[m])'
        /\ SinActiva(worker[m])' /\ AlDia(worker[m])'
    BY <1>2, <1>5, <1>8 DEF Forma, PorCancelar, PorCobrar, SinActiva, AlDia,
                            EnConsumo, EnAlta, ConFila, OpsDePlan
  <2>2. PorGuardar(worker[m])'  BY <1>3, <1>4, <1>5, <1>6, <1>8, FilaNoEs DEF PorGuardar
  <2> QED  BY <2>1, <2>2 DEF Solo
<1>10. ASSUME NEW n \in Workers, n # m
       PROVE  RespetaA(worker[n]) /\ Par(worker[n], w) /\ Par(w, worker[n])
  <2>1. /\ worker[n].paso \in EnConsumo => worker[n].suscriptor # s
        /\ worker[n].paso \in ConFila => worker[n].id \in Ids /\ worker[n].id < siguiente
    BY <1>1, <1>10, HuecoEs DEF s
  <2>2. worker[n].paso \in ConFila => suscripciones'[worker[n].id] = suscripciones[worker[n].id]
    BY <2>1, <1>4, <1>6 DEF Ids
  <2>3. worker[n].paso \in EnConsumo => \A i \in Ids :
           suscripciones'[i].suscriptor = worker[n].suscriptor /\ suscripciones'[i].estatus = "activa" =>
           suscripciones[i].suscriptor = worker[n].suscriptor /\ suscripciones[i].estatus = "activa"
    BY <2>1, <1>3, <1>6
  <2>4. RespetaA(worker[n])  BY <1>1, <2>2, <2>3 DEF RespetaA, Usados
  <2>5. Par(worker[n], w) /\ Par(w, worker[n])  BY <1>5, Aparte DEF EnConsumo
  <2> QED  BY <2>4, <2>5
<1>11. siguiente' \in Int /\ siguiente' >= siguiente  BY <1>1, <1>4
<1>12. worker' \in [Workers -> Worker] /\ Solos' /\ Pares'
  BY <1>1, <1>5, <1>7, <1>9, <1>10, <1>11, Escribiendo
<1>13. TypeOK'  BY <1>1, <1>4, <1>6, <1>12 DEF IInv, TypeOK
<1>14. EnOrden'  BY <1>6, <1>1, <1>4 DEF EnOrden
<1>15. Cupo'  BY <1>1, <1>7, CupoSigue DEF Usados
<1> QED  BY <1>12, <1>13, <1>14, <1>15 DEF IInv

\* save puts back what it read, on a row that nobody holds.
LEMMA GuardaSigue ==
    ASSUME IInv, NEW m \in Workers, Guarda(m)
    PROVE  IInv'
<1> DEFINE w == worker[m]
           i == w.id
           f == [w.fila EXCEPT !.auto = IF Es(m, "renovar") THEN FALSE ELSE @]
<1>1. /\ w.paso = "guarda" /\ FilaLibre(i)
      /\ suscripciones' = [suscripciones EXCEPT ![i] = f]
      /\ IF Es(m, "renovar") THEN Step(m, "sincroniza") ELSE Goes(m, Idle)
      /\ UNCHANGED <<mes, siguiente, ciclos, membresiaDe, concedidas, pedidos, faults>>
  BY DEF Guarda, At
<1>2. /\ i \in Ids /\ suscripciones[i] # NoFila /\ w.fila \in Fila
      /\ suscripciones[i].suscriptor = w.fila.suscriptor
      /\ suscripciones[i].membresia = w.fila.membresia
  BY <1>1, TrabajaEs DEF Solo, PorGuardar
<1>3. f \in Fila /\ f.suscriptor = w.fila.suscriptor /\ f.membresia = w.fila.membresia
  <2>1. CASE Es(m, "renovar")  BY <2>1, <1>2 DEF Fila
  <2>2. CASE ~Es(m, "renovar")  BY <2>2, <1>2 DEF Fila
  <2> QED  BY <2>1, <2>2
<1> HIDE DEF f
<1>4. /\ suscripciones' \in [Ids -> Fila \cup {NoFila}] /\ suscripciones'[i] = f
      /\ \A j \in Ids : j # i => suscripciones'[j] = suscripciones[j]
  BY <1>1, <1>2, <1>3 DEF IInv, TypeOK
<1>5. FilasSiguen  BY <1>2, <1>3, <1>4, FilaNoEs DEF FilasSiguen
<1>6. ASSUME NEW n \in Workers
      PROVE  RespetaA(worker[n])
  <2>1. worker[n].paso \in EnConsumo => worker[n].suscriptor # suscripciones[i].suscriptor
    BY <1>1 DEF FilaLibre, Consumiendo, TitularDe, EnConsumo
  <2>2. worker[n].paso \in ConFila => worker[n].id # i
    BY <2>1, <1>2, ConFilaEs DEF ConFila, EnConsumo
  <2>3. worker[n].paso \in ConFila => worker[n].id \in Ids  BY ConFilaEs
  <2>4. worker[n].paso \in EnConsumo => \A j \in Ids :
           suscripciones'[j].suscriptor = worker[n].suscriptor /\ suscripciones'[j].estatus = "activa" =>
           suscripciones[j].suscriptor = worker[n].suscriptor /\ suscripciones[j].estatus = "activa"
    BY <2>1, <1>2, <1>3, <1>4
  <2> QED  BY <2>2, <2>3, <2>4, <1>1, <1>4 DEF RespetaA, Usados
<1>7. siguiente' \in Int /\ siguiente' >= siguiente  BY <1>1 DEF IInv, TypeOK
<1>8. worker' \in [Workers -> Worker] /\ Solos' /\ Pares'  BY <1>1, <1>5, <1>6, <1>7, Terminando
<1>9. TypeOK'  BY <1>1, <1>4, <1>8 DEF IInv, TypeOK
<1>10. EnOrden'  BY <1>1, <1>2, <1>4 DEF IInv, EnOrden
<1>11. Cupo'  BY <1>1, <1>5, CupoSigue DEF Usados
<1> QED  BY <1>8, <1>9, <1>10, <1>11 DEF IInv

\* The UPDATE of eliminarCuenta waits for whoever consumes for the subscriber.
LEMMA EliminarCuentaSigue ==
    ASSUME IInv, NEW s \in Suscriptores, EliminarCuenta(s)
    PROVE  IInv'
<1> DEFINE c(i) == [suscripciones[i] EXCEPT !.estatus = "cancelada"]
<1>1. /\ LeeLibre(s) /\ pedidos < MaxPedidos /\ pedidos' = pedidos + 1
      /\ suscripciones' = [i \in Ids |-> IF i \in FilasDe(s) THEN c(i) ELSE suscripciones[i]]
      /\ UNCHANGED <<mes, siguiente, ciclos, membresiaDe, concedidas, worker, faults>>
  BY DEF EliminarCuenta
<1>2. \A i \in Ids : i \in FilasDe(s) =>
         /\ suscripciones[i] # NoFila /\ c(i) \in Fila
         /\ c(i).suscriptor = suscripciones[i].suscriptor
         /\ c(i).membresia = suscripciones[i].membresia /\ c(i).estatus = "cancelada"
  <2>1. ASSUME NEW i \in Ids, i \in FilasDe(s)
        PROVE  suscripciones[i] # NoFila /\ suscripciones[i] \in Fila
    BY <2>1, FilaNoEs DEF FilasDe, IInv, TypeOK
  <2> QED  BY <2>1 DEF Fila
<1> HIDE DEF c
<1>3. \A i \in Ids : suscripciones'[i] = IF i \in FilasDe(s) THEN c(i) ELSE suscripciones[i]
  BY <1>1
<1>4. suscripciones' \in [Ids -> Fila \cup {NoFila}]  BY <1>2, <1>3, <1>1 DEF IInv, TypeOK
<1>5. FilasSiguen  BY <1>2, <1>3, FilaNoEs DEF FilasSiguen
<1>6. ASSUME NEW n \in Workers
      PROVE  Solo(worker[n])'
  <2>1. /\ worker[n].paso \in ConFila => worker[n].id \notin FilasDe(s) /\ worker[n].id \in Ids
    BY <1>1, LeeLibreEs, ConFilaEs
  <2>2. \A i \in Ids : suscripciones'[i].estatus = "activa" =>
           suscripciones'[i] = suscripciones[i]
    BY <1>2, <1>3
  <2>3. RespetaA(worker[n])  BY <2>1, <2>2, <1>1, <1>3 DEF RespetaA, Usados
  <2>4. siguiente \in Int /\ worker[n].id \in Int /\ Solo(worker[n])
    BY TrabajaEs DEF IInv, TypeOK, Worker
  <2> QED  BY <1>1, <1>5, <2>3, <2>4, OtroSigue
<1>7. TypeOK'  BY <1>1, <1>4 DEF IInv, TypeOK
<1>8. EnOrden'  BY <1>1, <1>2, <1>3 DEF IInv, EnOrden
<1>9. Cupo'  BY <1>1, <1>5, CupoSigue DEF Usados
<1>10. Pares'  BY <1>1 DEF IInv, Pares, Par
<1> QED  BY <1>6, <1>7, <1>8, <1>9, <1>10 DEF IInv, Solos

\* The requests do not look at the calendar but to find the cycle of the moment.
LEMMA PasaElMesSigue ==
    ASSUME IInv, PasaElMes
    PROVE  IInv'
<1>1. TypeOK'  BY DEF PasaElMes, IInv, TypeOK, Meses
<1>2. EnOrden' /\ Cupo'  BY DEF PasaElMes, IInv, EnOrden, Cupo, Usados
<1>3. ASSUME NEW n \in Workers PROVE Solo(worker[n])'  BY TrabajaEs, SoloSinTablas DEF PasaElMes
<1>4. Pares'  BY DEF PasaElMes, IInv, Pares, Par
<1> QED  BY <1>1, <1>2, <1>3, <1>4 DEF IInv, Solos

--------------------
(* The theorems.                                                           *)

LEMMA EmpiezaBien ==
    ASSUME Init
    PROVE  IInv
<1>1. /\ 0 \in 0 .. MaxPedidos /\ 0 \in 0 .. MaxFaults /\ 1 \in 1 .. (MaxSusc + 1)
      /\ PrimerMes \in Meses /\ Cero \in Cuenta
  BY DEF Meses, Cero, Cuenta
<1>2. TypeOK  BY IdleEs, <1>1 DEF Init, TypeOK
<1>3. EnOrden  BY DEF Init, EnOrden
<1>4. Cupo  BY DEF Init, Cupo, Usados, Cero
<1>5. Solos  BY SoloIdle DEF Init, Solos
<1>6. Pares  BY Aparte DEF Init, Pares, Idle, EnConsumo
<1> QED  BY <1>2, <1>3, <1>4, <1>5, <1>6 DEF IInv

LEMMA SuscripcionesSigue ==
    ASSUME IInv, [Next]_vars
    PROVE  IInv'
<1>1. CASE UNCHANGED vars
  <2>1. TypeOK' /\ EnOrden' /\ Cupo' /\ Pares'
    BY <1>1 DEF vars, IInv, TypeOK, EnOrden, Cupo, Usados, Pares, Par
  <2>2. ASSUME NEW n \in Workers PROVE Solo(worker[n])'  BY <1>1, TrabajaEs, SoloSinTablas DEF vars
  <2> QED  BY <2>1, <2>2 DEF IInv, Solos
<1>2. ASSUME NEW m \in Workers, Consumir(m) PROVE IInv'
  BY <1>2, LeeActivaBloqueandoSigue, AutoProvisionarSigue, AbandonaSigue,
     CicloActualBloqueadoSigue, ConsumeSigue DEF Consumir, Interbloqueo, Agotada
<1>3. ASSUME NEW m \in Workers, Cambia(m) PROVE IInv'
  BY <1>3, LecturasSiguen, LeeParaCancelarSigue, CancelaAnteriorSigue, InsertaNuevaSigue,
     AltaSigue, ObtenerOCrearCicloSigue, GuardaSigue, SincronizaSigue DEF Cambia
<1>4. ASSUME NEW m \in Workers, Falla(m) PROVE IInv'  BY <1>4, FallaSigue
<1>5. ASSUME NEW m \in Workers, NEW s \in Suscriptores,
             \/ \E t \in Tipos : ConsumirCuota(m, s, t)
             \/ \E b \in Membresias : CambiarPlan(m, s, b) \/ CrearSuscripcion(m, s, b)
                                      \/ RenovarOCrear(m, s, b)
             \/ SetAutoRenew(m, s) \/ Resumen(m, s)
      PROVE  IInv'
  BY <1>5, PedidosSiguen
<1>6. ASSUME NEW m \in Workers, NEW i \in Ids, Cancelar(m, i) PROVE IInv'  BY <1>6, CancelarSigue
<1>7. ASSUME NEW s \in Suscriptores, EliminarCuenta(s) PROVE IInv'  BY <1>7, EliminarCuentaSigue
<1>8. ASSUME PasaElMes PROVE IInv'  BY <1>8, PasaElMesSigue
<1> QED  BY <1>1, <1>2, <1>3, <1>4, <1>5, <1>6, <1>7, <1>8 DEF Next

LEMMA SiempreIInv == Spec => []IInv
<1>1. Init => IInv  BY EmpiezaBien
<1>2. IInv /\ [Next]_vars => IInv'  BY SuscripcionesSigue
<1> QED  BY <1>1, <1>2, PTL DEF Spec

(* Every table keeps the shape of its rows, and every request carries what *)
(* the step it is at needs.                                                *)
THEOREM FormaDeLasTablas == Spec => []TypeOK
<1>1. IInv => TypeOK  BY DEF IInv
<1> QED  BY <1>1, SiempreIInv, PTL

(* A cycle counts every unit it granted and never grants more than the     *)
(* membership allows, for any number of requests that consume, change of   *)
(* plan, cancel or delete the account at once: consumirCuota reads the     *)
(* counters after its lock and nobody writes them until it commits.        *)
THEOREM CupoSiempreRespetado == Spec => []CupoRespetado
<1>1. IInv => CupoRespetado
  <2> SUFFICES ASSUME IInv, NEW k \in Claves, NEW t \in Tipos
               PROVE  /\ concedidas[k][t] = IF ciclos[k] = NoCiclo THEN 0 ELSE ciclos[k][t]
                      /\ concedidas[k][t] > 0 =>
                            concedidas[k][t] <= Limite[suscripciones[k[1]].membresia][t]
    BY DEF CupoRespetado
  <2>1. concedidas[k] = IF ciclos[k] = NoCiclo THEN Cero ELSE ciclos[k]  BY DEF IInv, Cupo, Usados
  <2>2. Cero[t] = 0  BY DEF Cero
  <2>3. concedidas[k][t] > 0 => concedidas[k][t] <= Limite[suscripciones[k[1]].membresia][t]
    BY DEF IInv, Cupo
  <2> QED  BY <2>1, <2>2, <2>3
<1> QED  BY <1>1, SiempreIInv, PTL

LEMMA SoloConsumeConcede ==
    ASSUME [Next]_vars
    PROVE  UNCHANGED concedidas \/ \E m \in Workers : Consume(m)
<1>1. CASE UNCHANGED vars  BY <1>1 DEF vars
<1>2. ASSUME NEW m \in Workers, Consumir(m)
      PROVE  UNCHANGED concedidas \/ Consume(m)
  BY <1>2 DEF Consumir, LeeActivaBloqueando, AutoProvisionar, Interbloqueo, Abandona,
              CicloActualBloqueado, Agotada
<1>3. ASSUME NEW m \in Workers, Cambia(m) \/ Falla(m)
      PROVE  UNCHANGED concedidas
  BY <1>3 DEF Cambia, Falla, LeeParaRenovar, LeeParaCambiar, LeeParaCrear, LeeParaGuardar, Lee,
              Abandona, LeeParaCancelar, CancelaAnterior, InsertaNueva, Alta,
              ObtenerOCrearCiclo, Guarda, SincronizaMembresia
<1>4. ASSUME NEW m \in Workers, NEW w, Pide(m, w)
      PROVE  UNCHANGED concedidas
  BY <1>4 DEF Pide
<1>5. ASSUME NEW m \in Workers, NEW s \in Suscriptores,
             \/ \E t \in Tipos : ConsumirCuota(m, s, t)
             \/ \E b \in Membresias : CambiarPlan(m, s, b) \/ CrearSuscripcion(m, s, b)
                                      \/ RenovarOCrear(m, s, b)
             \/ SetAutoRenew(m, s) \/ Resumen(m, s)
      PROVE  UNCHANGED concedidas
  BY <1>4, <1>5 DEF ConsumirCuota, CambiarPlan, CrearSuscripcion, RenovarOCrear, SetAutoRenew, Resumen
<1>6. ASSUME NEW m \in Workers, NEW i \in Ids, Cancelar(m, i)
      PROVE  UNCHANGED concedidas
  BY <1>4, <1>6 DEF Cancelar
<1>7. (\E s \in Suscriptores : EliminarCuenta(s)) \/ PasaElMes => UNCHANGED concedidas
  BY DEF EliminarCuenta, PasaElMes
<1> QED  BY <1>1, <1>2, <1>3, <1>5, <1>6, <1>7 DEF Next

(* No cancellation, change of plan or deletion of the account comes        *)
(* between the lock of consumirCuota and its commit: the subscription that *)
(* is charged is active when it is charged.                                *)
THEOREM ConsumeDeUnaActiva == Spec => ConsumoEnActiva
<1>1. ASSUME IInv, [Next]_vars
      PROVE  \A k \in Claves : concedidas'[k] # concedidas[k] =>
                 suscripciones'[k[1]].estatus = "activa"
  <2> SUFFICES ASSUME NEW m \in Workers, Consume(m), NEW q \in Claves,
                      concedidas'[q] # concedidas[q]
               PROVE  suscripciones'[q[1]].estatus = "activa"
    BY <1>1, SoloConsumeConcede
  <2> DEFINE k == <<worker[m].id, worker[m].rango>>
             f == worker[m].fila
             c == [concedidas[k] EXCEPT ![worker[m].tipo] = @ + 1]
  <2>1. /\ worker[m].id \in Ids /\ f.estatus = "activa"
        /\ suscripciones' = [suscripciones EXCEPT ![worker[m].id] = f]
        /\ concedidas' = [concedidas EXCEPT ![k] = c]
    BY <1>1, ConsumeEs
  <2>2. k[1] = worker[m].id  OBVIOUS
  <2> HIDE DEF c, f, k
  <2>3. q = k  BY <1>1, <2>1 DEF IInv, TypeOK
  <2> QED  BY <1>1, <2>1, <2>2, <2>3 DEF IInv, TypeOK
<1>2. IInv /\ [Next]_vars =>
          [\A k \in Claves : concedidas'[k] # concedidas[k] =>
              suscripciones'[k[1]].estatus = "activa"]_vars
  BY <1>1
<1> QED  BY <1>2, SiempreIInv, PTL DEF Spec, ConsumoEnActiva

\* What was not there is still not there, or was not provided by the system.
NadaAuto == \A i \in Ids : suscripciones[i] = NoFila => suscripciones'[i].auto = FALSE

LEMMA SoloConsumeProvee ==
    ASSUME IInv, [Next]_vars
    PROVE  NadaAuto \/ \E m \in Workers : Consume(m)
<1>1. UNCHANGED suscripciones => NadaAuto  BY DEF NadaAuto, NoFila
<1>2. CASE UNCHANGED vars  BY <1>1, <1>2 DEF vars
<1>3. ASSUME NEW m \in Workers, Consumir(m)
      PROVE  NadaAuto \/ Consume(m)
  BY <1>1, <1>3 DEF Consumir, LeeActivaBloqueando, AutoProvisionar, Interbloqueo, Abandona,
              CicloActualBloqueado, Agotada
<1>4. ASSUME NEW m \in Workers, InsertaNueva(m)
      PROVE  NadaAuto
  BY <1>4, TrabajaEs DEF Solo, InsertaNueva, At, PorCancelar, Ids, NadaAuto, NuevaFila, NoFila
<1>5. ASSUME NEW m \in Workers, Alta(m)
      PROVE  NadaAuto
  BY <1>5 DEF Alta, IInv, TypeOK, NadaAuto, NuevaFila, NoFila
<1>6. ASSUME NEW m \in Workers, Guarda(m)
      PROVE  NadaAuto
  <2>1. PorGuardar(worker[m]) /\ worker[m].paso = "guarda"  BY <1>6, TrabajaEs DEF Solo, Guarda, At
  <2>2. \A i \in Ids : suscripciones[i] = NoFila => suscripciones'[i] = NoFila
    BY <1>6, <2>1 DEF PorGuardar, Guarda, IInv, TypeOK
  <2> QED  BY <2>2 DEF NadaAuto, NoFila
<1>7. ASSUME NEW m \in Workers, Cambia(m) \/ Falla(m)
      PROVE  NadaAuto
  <2>1. CASE InsertaNueva(m) \/ Alta(m) \/ Guarda(m)  BY <2>1, <1>4, <1>5, <1>6
  <2>2. CASE ~(InsertaNueva(m) \/ Alta(m) \/ Guarda(m))
    BY <2>2, <1>1, <1>7
       DEF Cambia, Falla, LeeParaRenovar, LeeParaCambiar, LeeParaCrear, LeeParaGuardar, Lee,
           Abandona, LeeParaCancelar, CancelaAnterior, ObtenerOCrearCiclo, SincronizaMembresia
  <2> QED  BY <2>1, <2>2
<1>8. ASSUME NEW m \in Workers, NEW w, Pide(m, w)
      PROVE  NadaAuto
  BY <1>1, <1>8 DEF Pide
<1>9. ASSUME NEW m \in Workers, NEW s \in Suscriptores,
             \/ \E t \in Tipos : ConsumirCuota(m, s, t)
             \/ \E b \in Membresias : CambiarPlan(m, s, b) \/ CrearSuscripcion(m, s, b)
                                      \/ RenovarOCrear(m, s, b)
             \/ SetAutoRenew(m, s) \/ Resumen(m, s)
      PROVE  NadaAuto
  BY <1>8, <1>9 DEF ConsumirCuota, CambiarPlan, CrearSuscripcion, RenovarOCrear, SetAutoRenew, Resumen
<1>10. ASSUME NEW m \in Workers, NEW i \in Ids, Cancelar(m, i)
      PROVE  NadaAuto
  BY <1>8, <1>10 DEF Cancelar
<1>11. ASSUME NEW s \in Suscriptores, EliminarCuenta(s)
       PROVE  NadaAuto
  BY FilaNoEs, <1>11 DEF FilasDe, EliminarCuenta, NadaAuto, NoFila
<1>12. ASSUME PasaElMes PROVE NadaAuto  BY <1>1, <1>12 DEF PasaElMes
<1> QED  BY <1>2, <1>3, <1>7, <1>9, <1>10, <1>11, <1>12 DEF Next

(* The free subscription that consumirCuota gives on its own only appears  *)
(* when the subscriber has no active one, although nothing was there to be *)
(* locked when it was looked for.                                          *)
THEOREM ProveeAQuienNoTiene == Spec => AutoProvisionUnica
<1>1. ASSUME IInv, [Next]_vars
      PROVE  \A i \in Ids : suscripciones[i] = NoFila /\ suscripciones'[i].auto =>
                 ActivaDe(suscripciones'[i].suscriptor) = 0
  <2>1. CASE NadaAuto  BY <2>1 DEF NadaAuto
  <2>2. ASSUME NEW m \in Workers, Consume(m), NEW i \in Ids,
               suscripciones[i] = NoFila, suscripciones'[i].auto
        PROVE  ActivaDe(suscripciones'[i].suscriptor) = 0
    <3> DEFINE w == worker[m]
    <3>1. /\ w.paso = "consume" /\ w.id \in Ids /\ w.fila \in Fila
          /\ w.fila.suscriptor = w.suscriptor
          /\ suscripciones' = [suscripciones EXCEPT ![w.id] = w.fila]
      BY <1>1, <2>2, ConsumeEs
    <3>2. i = w.id  BY <1>1, <2>2, <3>1 DEF NoFila, IInv, TypeOK
    <3>3. suscripciones'[i].suscriptor = w.suscriptor  BY <1>1, <3>1, <3>2 DEF IInv, TypeOK
    <3>4. SinActiva(w) /\ w.suscriptor \in Suscriptores  BY <1>1, <3>1, TrabajaEs DEF Solo
    <3>5. \A j \in Ids : suscripciones[j].suscriptor = w.suscriptor =>
                            suscripciones[j].estatus # "activa"
      BY <2>2, <3>1, <3>2, <3>4 DEF SinActiva, ConFila
    <3> QED  BY <1>1, <3>3, <3>4, <3>5, ActivaEs DEF IInv
  <2> QED  BY <1>1, <2>1, <2>2, SoloConsumeProvee
<1>2. IInv /\ [Next]_vars =>
          [\A i \in Ids : suscripciones[i] = NoFila /\ suscripciones'[i].auto =>
              ActivaDe(suscripciones'[i].suscriptor) = 0]_vars
  BY <1>1
<1> QED
  BY <1>2, SiempreIInv, PTL DEF Spec, AutoProvisionUnica
HIDE SuscripcionesAssumption DEF SuscripcionesAssumption

--------------------
(* The account of a subscriber (Cuentas).  What a call is about to save is *)
(* a row that was not emptied, and what it has closed already stays closed *)
(* unless a call admitted before the deletion writes after it.             *)

LEMMA CuentasDatos ==
    /\ MaxPapeleos \in Nat /\ MaxEdicionesCuenta \in Nat /\ NoCorreo \notin Correos
  BY CuentasAssumption DEF CuentasAssumption
USE CuentasDatos

\* Of a call at work: whose it is, what it is about to save, and what it has closed already.
PorGuardarFila(w) ==
    w.paso = "guarda" =>
        /\ w.fila \in FilaCuenta /\ ~w.fila.anonima
        /\ w.ruta = "eliminar-me" => w.fila.eliminado /\ w.fila.fechaEliminacion
EnBaja(w) == w.ruta = "eliminar-me" /\ w.paso \in Cosas
PorCerrar(w) ==
    /\ w.paso = "abre" => w.cosa \in Cosas
    /\ w.paso \in {"sesion", "suscripcion"} => w.ruta = "eliminar-me"
    /\ EnBaja(w) => w.persona \in pedidas
    /\ EnBaja(w) /\ w.persona \notin encimadas =>
         /\ w.paso # "sesion" => "sesion" \notin abierto[w.persona]
         /\ w.paso = "suscripcion" => "token" \notin abierto[w.persona]
CuentasInv ==
    /\ CuentasTypeOK /\ CuentasEnRegla
    /\ \A t \in Tramitadores : PorGuardarFila(papeleo[t]) /\ PorCerrar(papeleo[t])

LEMMA PapeleoForma ==
    ASSUME CuentasTypeOK, NEW t \in Tramitadores
    PROVE  LET w == papeleo[t]
           IN  /\ w = SinPapeleo \/ w \in Papeleo
               /\ w.paso # "libre" => w.persona \in Personas /\ w \in Papeleo
               /\ w.paso = "libre" => w = SinPapeleo
               /\ w.paso = "abre" => w.ruta \in Ruta \cup {"abrir"}
               /\ w.paso \in Cosas => w.persona \in Personas
  BY DEF CuentasTypeOK, Papeleo, SinPapeleo, Cosas

LEMMA FilaForma ==
    ASSUME CuentasTypeOK, NEW p \in Personas
    PROVE  /\ cuenta[p] = SinCuenta \/ cuenta[p] \in FilaCuenta
           /\ ~cuenta[p].eliminado \/ cuenta[p].fechaEliminacion =>
                cuenta[p] \in FilaCuenta
           /\ abierto[p] \in SUBSET Cosas
           /\ cuenta[p] \notin FilaCuenta => cuenta[p] = SinCuenta
  BY DEF CuentasTypeOK, SinCuenta

LEMMA CuentasEmpieza == CuentasInit => CuentasInv
<1> SUFFICES ASSUME CuentasInit PROVE CuentasInv  OBVIOUS
<1>1. CuentaNueva \in FilaCuenta /\ ~CuentaNueva.anonima /\ ~SinCuenta.anonima
  BY DEF CuentaNueva, SinCuenta, FilaCuenta, PlanDeCuenta
<1>2. \A p \in Personas : cuenta[p] \in FilaCuenta \cup {SinCuenta} /\ ~cuenta[p].anonima
  BY <1>1 DEF CuentasInit
<1>3. cuenta \in [Personas -> FilaCuenta \cup {SinCuenta}]  BY <1>1 DEF CuentasInit
<1>4. CuentasTypeOK  BY <1>3 DEF CuentasInit, CuentasTypeOK
<1>5. CuentasEnRegla
  BY <1>2 DEF CuentasInit, CuentasEnRegla, BajaDefinitiva, BajaCompleta, SinRastro
<1>6. \A t \in Tramitadores : PorGuardarFila(papeleo[t]) /\ PorCerrar(papeleo[t])
  BY DEF CuentasInit, SinPapeleo, PorGuardarFila, PorCerrar, EnBaja, Cosas
<1> QED BY <1>4, <1>5, <1>6 DEF CuentasInv

\* A call comes in with w and nothing else changes.
LEMMA EntraPapeleo ==
    ASSUME CuentasInv, NEW t \in Tramitadores, NEW w \in Papeleo, papeleo[t] = SinPapeleo,
           papeleo' = [papeleo EXCEPT ![t] = w], PorGuardarFila(w), w.paso \notin Cosas,
           w.paso = "abre" => w.cosa \in Cosas,
           papeleos' \in 0 .. MaxPapeleos, edicionesCuenta' \in 0 .. MaxEdicionesCuenta,
           UNCHANGED <<cuenta, abierto, pedidas, concluidas, encimadas>>
    PROVE  CuentasInv'
<1>1. CuentasTypeOK'  BY DEF CuentasInv, CuentasTypeOK
<1>2. CuentasEnRegla'  BY DEF CuentasInv, CuentasEnRegla, BajaDefinitiva, BajaCompleta, SinRastro
<1>3. ASSUME NEW o \in Tramitadores PROVE (PorGuardarFila(papeleo[o]) /\ PorCerrar(papeleo[o]))'
  <2>1. CASE o = t
    <3>1. papeleo'[o] = w  BY <2>1 DEF CuentasInv, CuentasTypeOK
    <3> QED BY <3>1 DEF PorGuardarFila, PorCerrar, EnBaja, Cosas
  <2>2. CASE o # t  BY <2>2 DEF CuentasInv, CuentasTypeOK, PorGuardarFila, PorCerrar, EnBaja
  <2> QED BY <2>1, <2>2
<1> QED BY <1>1, <1>2, <1>3 DEF CuentasInv

LEMMA LeeBien ==
    ASSUME CuentasInv, NEW t \in Tramitadores, NEW p \in Personas, NEW ruta \in Ruta,
           NEW fila \in FilaCuenta, ~fila.anonima,
           ruta = "eliminar-me" => fila.eliminado /\ fila.fechaEliminacion,
           LeeFila(t, p, ruta, fila), edicionesCuenta' \in 0 .. MaxEdicionesCuenta
    PROVE  CuentasInv'
<1>1. PICK w : w = [SinPapeleo EXCEPT !.paso = "guarda", !.ruta = ruta, !.persona = p,
                                      !.fila = fila]
  OBVIOUS
<1>2. /\ w \in Papeleo /\ w.paso = "guarda" /\ w.ruta = ruta /\ w.fila = fila
  BY <1>1 DEF SinPapeleo, Papeleo
<1>3. PorGuardarFila(w) /\ w.paso \notin Cosas  BY <1>2 DEF PorGuardarFila, Cosas
<1>4. papeleo[t] = SinPapeleo /\ papeleo' = [papeleo EXCEPT ![t] = w]
      /\ papeleos' \in 0 .. MaxPapeleos
      /\ UNCHANGED <<cuenta, abierto, pedidas, concluidas, encimadas>>
  BY <1>1 DEF LeeFila, NuevoPapeleo, CuentasInv, CuentasTypeOK
<1> QED BY <1>2, <1>3, <1>4, EntraPapeleo

\* An account that is read is one that was signed up, and it was not emptied.
LEMMA SeLee ==
    ASSUME CuentasInv, NEW p \in Personas, ObtenerPorId(p)
    PROVE  cuenta[p] \in FilaCuenta /\ ~cuenta[p].anonima
  BY FilaForma DEF CuentasInv, ObtenerPorId, CuentasEnRegla, SinRastro

LEMMA EditaBien ==
    ASSUME CuentasInv, NEW t \in Tramitadores, NEW p \in Personas,
           NEW ruta \in Ruta \ {"eliminar-me"}, NEW fila, EditaCuenta(t, p, ruta, fila),
           cuenta[p] \in FilaCuenta => fila \in FilaCuenta /\ fila.anonima = cuenta[p].anonima
    PROVE  CuentasInv'
<1>1. ObtenerPorId(p) /\ LeeFila(t, p, ruta, fila) /\ edicionesCuenta' \in 0 .. MaxEdicionesCuenta
  BY DEF EditaCuenta, LeeFila, CuentasInv, CuentasTypeOK
<1>2. fila \in FilaCuenta /\ ~fila.anonima  BY <1>1, SeLee
<1> QED BY <1>1, <1>2, LeeBien

LEMMA Edita ==
    ASSUME CuentasInv, NEW t \in Tramitadores, NEW p \in Personas,
           \/ CompletarRegistro(t, p) \/ UpdateDatosFiscales(t, p)
           \/ \E correo \in Correos : Actualizar(t, p, correo)
           \/ \E plan \in PlanDeCuenta : CompletarPerfil(t, p, plan)
           \/ \E permiso \in {"si", "no"} : UpdatePermisos(t, p, permiso)
    PROVE  CuentasInv'
<1>1. CASE CompletarRegistro(t, p)
  <2>1. PICK fila : fila = [cuenta[p] EXCEPT !.registroCompleto = TRUE]  OBVIOUS
  <2>2. cuenta[p] \in FilaCuenta => fila \in FilaCuenta /\ fila.anonima = cuenta[p].anonima
    BY <2>1 DEF FilaCuenta
  <2>3. EditaCuenta(t, p, "completar", fila)  BY <1>1, <2>1 DEF CompletarRegistro
  <2> QED BY <2>2, <2>3, EditaBien DEF Ruta
<1>2. CASE UpdateDatosFiscales(t, p)
  <2>1. PICK fila : fila = [cuenta[p] EXCEPT !.fiscales = TRUE]  OBVIOUS
  <2>2. cuenta[p] \in FilaCuenta => fila \in FilaCuenta /\ fila.anonima = cuenta[p].anonima
    BY <2>1 DEF FilaCuenta
  <2>3. EditaCuenta(t, p, "datos-fiscales", fila)  BY <1>2, <2>1 DEF UpdateDatosFiscales
  <2> QED BY <2>2, <2>3, EditaBien DEF Ruta
<1>3. ASSUME NEW correo \in Correos, Actualizar(t, p, correo) PROVE CuentasInv'
  <2>1. PICK fila : fila = [cuenta[p] EXCEPT !.correo = correo]  OBVIOUS
  <2>2. cuenta[p] \in FilaCuenta => fila \in FilaCuenta /\ fila.anonima = cuenta[p].anonima
    BY <2>1 DEF FilaCuenta
  <2>3. EditaCuenta(t, p, "actualizar", fila)  BY <1>3, <2>1 DEF Actualizar
  <2> QED BY <2>2, <2>3, EditaBien DEF Ruta
<1>4. ASSUME NEW plan \in PlanDeCuenta, CompletarPerfil(t, p, plan) PROVE CuentasInv'
  <2>0. PICK tiene \in BOOLEAN : tiene = (plan = "gratis")  OBVIOUS
  <2>1. PICK fila : fila = [cuenta[p] EXCEPT !.plan = plan, !.tieneNegocios = tiene,
                                             !.registroCompleto = TRUE]
    OBVIOUS
  <2>2. cuenta[p] \in FilaCuenta => fila \in FilaCuenta /\ fila.anonima = cuenta[p].anonima
    BY <2>0, <2>1 DEF FilaCuenta
  <2>3. EditaCuenta(t, p, "completar-perfil", fila)  BY <1>4, <2>0, <2>1 DEF CompletarPerfil
  <2> QED BY <2>2, <2>3, EditaBien DEF Ruta
<1>5. ASSUME NEW permiso \in {"si", "no"}, UpdatePermisos(t, p, permiso) PROVE CuentasInv'
  <2>1. PICK fila : fila = [cuenta[p] EXCEPT !.permiso = permiso]  OBVIOUS
  <2>2. cuenta[p] \in FilaCuenta => fila \in FilaCuenta /\ fila.anonima = cuenta[p].anonima
    BY <2>1 DEF FilaCuenta
  <2>3. EditaCuenta(t, p, "permisos", fila)  BY <1>5, <2>1 DEF UpdatePermisos
  <2> QED BY <2>2, <2>3, EditaBien DEF Ruta
<1> QED BY <1>1, <1>2, <1>3, <1>4, <1>5

LEMMA PideBaja ==
    ASSUME CuentasInv, NEW t \in Tramitadores, NEW p \in Personas,
           Eliminar(t, p) \/ EliminarMiCuenta(t, p)
    PROVE  CuentasInv'
<1>1. ObtenerPorId(p) /\ edicionesCuenta' \in 0 .. MaxEdicionesCuenta
  BY DEF Eliminar, EliminarMiCuenta, LeeFila, CuentasInv, CuentasTypeOK
<1>2. cuenta[p] \in FilaCuenta /\ ~cuenta[p].anonima  BY <1>1, SeLee
<1>3. CASE Eliminar(t, p)
  <2>1. PICK fila : fila = [cuenta[p] EXCEPT !.eliminado = TRUE]  OBVIOUS
  <2>2. fila \in FilaCuenta /\ ~fila.anonima  BY <1>2, <2>1 DEF FilaCuenta
  <2>3. LeeFila(t, p, "eliminar", fila)  BY <1>3, <2>1 DEF Eliminar
  <2> QED BY <1>1, <2>2, <2>3, LeeBien DEF Ruta
<1>4. CASE EliminarMiCuenta(t, p)
  <2>1. PICK fila : fila = [cuenta[p] EXCEPT !.eliminado = TRUE, !.fechaEliminacion = TRUE]  OBVIOUS
  <2>2. fila \in FilaCuenta /\ ~fila.anonima /\ fila.eliminado /\ fila.fechaEliminacion
    BY <1>2, <2>1 DEF FilaCuenta
  <2>3. LeeFila(t, p, "eliminar-me", fila)  BY <1>4, <2>1 DEF EliminarMiCuenta
  <2> QED BY <1>1, <2>2, <2>3, LeeBien DEF Ruta
<1> QED BY <1>3, <1>4

LEMMA SeAdmite ==
    ASSUME CuentasInv, NEW t \in Tramitadores, NEW p \in Personas, NEW cosa \in Cosas,
           Admite(t, p, cosa)
    PROVE  CuentasInv'
<1>1. PICK w : w = [SinPapeleo EXCEPT !.paso = "abre", !.ruta = "abrir", !.persona = p,
                                      !.cosa = cosa]
  OBVIOUS
<1>2. w \in Papeleo /\ w.paso = "abre" /\ w.cosa = cosa  BY <1>1 DEF SinPapeleo, Papeleo
<1>3. PorGuardarFila(w) /\ w.paso \notin Cosas  BY <1>2 DEF PorGuardarFila, Cosas
<1>4. papeleo[t] = SinPapeleo /\ papeleo' = [papeleo EXCEPT ![t] = w]
      /\ papeleos' \in 0 .. MaxPapeleos /\ edicionesCuenta' \in 0 .. MaxEdicionesCuenta
      /\ UNCHANGED <<cuenta, abierto, pedidas, concluidas, encimadas>>
  BY <1>1 DEF Admite, NuevoPapeleo, CuentasInv, CuentasTypeOK
<1> QED BY <1>2, <1>3, <1>4, EntraPapeleo

LEMMA CreaBien ==
    ASSUME CuentasInv, NEW p \in Personas, NEW correo \in Correos \cup {NoCorreo},
           CrearCuenta(p, correo)
    PROVE  CuentasInv'
<1>1. PICK fila : fila = [CuentaNueva EXCEPT !.correo = correo]  OBVIOUS
<1>2. fila \in FilaCuenta /\ ~fila.anonima
  BY <1>1 DEF CuentaNueva, SinCuenta, FilaCuenta, PlanDeCuenta
<1>3. /\ cuenta' = [cuenta EXCEPT ![p] = fila] /\ cuenta[p] = SinCuenta
      /\ papeleos' \in 0 .. MaxPapeleos
      /\ UNCHANGED <<abierto, papeleo, edicionesCuenta, pedidas, concluidas, encimadas>>
  BY <1>1 DEF CrearCuenta, CuentasInv, CuentasTypeOK
<1>4. p \notin pedidas \ encimadas
  BY <1>3 DEF CuentasInv, CuentasEnRegla, BajaDefinitiva, SinCuenta
<1>5. CuentasTypeOK'  BY <1>2, <1>3 DEF CuentasInv, CuentasTypeOK
<1>6. \A o \in Personas : cuenta'[o] = IF o = p THEN fila ELSE cuenta[o]
  BY <1>3 DEF CuentasInv, CuentasTypeOK
<1>7. BajaDefinitiva'
  BY <1>3, <1>4, <1>6 DEF CuentasInv, CuentasTypeOK, CuentasEnRegla, BajaDefinitiva
<1>8. BajaCompleta'  BY <1>3 DEF CuentasInv, CuentasEnRegla, BajaCompleta
<1>9. SinRastro'  BY <1>2, <1>6 DEF CuentasInv, CuentasEnRegla, SinRastro
<1>10. \A t \in Tramitadores : (PorGuardarFila(papeleo[t]) /\ PorCerrar(papeleo[t]))'
  BY <1>3 DEF CuentasInv, PorGuardarFila, PorCerrar, EnBaja
<1> QED BY <1>5, <1>7, <1>8, <1>9, <1>10 DEF CuentasInv, CuentasEnRegla

\* Where a call goes on.
LEMMA SigueBien ==
    ASSUME CuentasTypeOK, NEW t \in Tramitadores, papeleo[t] \in Papeleo,
           NEW paso \in {"sesion", "token", "suscripcion", "fin"}, Sigue(t, paso)
    PROVE  /\ papeleo' \in [Tramitadores -> Papeleo \cup {SinPapeleo}]
           /\ \A o \in Tramitadores : o # t => papeleo'[o] = papeleo[o]
           /\ paso = "fin" => papeleo'[t] = SinPapeleo
           /\ paso # "fin" => /\ papeleo'[t].paso = paso /\ papeleo'[t].ruta = papeleo[t].ruta
                              /\ papeleo'[t].persona = papeleo[t].persona
<1>1. PICK w : w = IF paso = "fin" THEN SinPapeleo ELSE [papeleo[t] EXCEPT !.paso = paso]  OBVIOUS
<1>2. papeleo' = [papeleo EXCEPT ![t] = w]  BY <1>1 DEF Sigue, CuentasTypeOK
<1>3. /\ w \in Papeleo \cup {SinPapeleo}
      /\ paso = "fin" => w = SinPapeleo
      /\ paso # "fin" => /\ w.paso = paso /\ w.ruta = papeleo[t].ruta
                         /\ w.persona = papeleo[t].persona
  BY <1>1 DEF Papeleo
<1> QED BY <1>2, <1>3 DEF CuentasTypeOK

LEMMA GuardaBien ==
    ASSUME CuentasInv, NEW t \in Tramitadores, GuardaCuenta(t)
    PROVE  CuentasInv'
<1>1. PICK w : w = papeleo[t]  OBVIOUS
<1>2. PICK p : p = w.persona  OBVIOUS
<1>3. w.paso = "guarda" /\ w \in Papeleo /\ p \in Personas
  BY <1>1, <1>2, PapeleoForma DEF GuardaCuenta, CuentasInv
<1>4. /\ w.fila \in FilaCuenta /\ ~w.fila.anonima
      /\ w.ruta = "eliminar-me" => w.fila.eliminado /\ w.fila.fechaEliminacion
  BY <1>1, <1>3 DEF CuentasInv, PorGuardarFila
<1>5. PICK paso \in {"sesion", "token", "fin"} :
         /\ Sigue(t, paso)
         /\ paso = "sesion" <=> w.ruta = "eliminar-me"
  BY <1>1 DEF GuardaCuenta
<1>6. PICK fila : fila = w.fila  OBVIOUS
<1>7. /\ cuenta' = [cuenta EXCEPT ![p] = fila]
      /\ pedidas' = IF w.ruta = "eliminar-me" THEN pedidas \cup {p} ELSE pedidas
      /\ encimadas' = IF cuenta[p].eliminado /\ ~(fila.eliminado /\ fila.fechaEliminacion)
                      THEN encimadas \cup {p} ELSE encimadas
      /\ UNCHANGED <<abierto, papeleos, edicionesCuenta, concluidas>>
  BY <1>1, <1>2, <1>6 DEF GuardaCuenta
<1>8. /\ papeleo' \in [Tramitadores -> Papeleo \cup {SinPapeleo}]
      /\ \A o \in Tramitadores : o # t => papeleo'[o] = papeleo[o]
      /\ paso = "fin" => papeleo'[t] = SinPapeleo
      /\ paso # "fin" => /\ papeleo'[t].paso = paso /\ papeleo'[t].ruta = w.ruta
                         /\ papeleo'[t].persona = p
  BY <1>1, <1>2, <1>3, <1>5, SigueBien DEF CuentasInv
<1>9. /\ \A o \in Personas : cuenta'[o] = IF o = p THEN fila ELSE cuenta[o]
      /\ fila \in FilaCuenta
  BY <1>4, <1>6, <1>7 DEF CuentasInv, CuentasTypeOK
<1>10. CuentasTypeOK'  BY <1>3, <1>7, <1>8, <1>9 DEF CuentasInv, CuentasTypeOK
<1>11. BajaDefinitiva'
  <2> SUFFICES ASSUME NEW q \in pedidas' \ encimadas'
               PROVE  cuenta'[q].eliminado /\ cuenta'[q].fechaEliminacion
    BY DEF BajaDefinitiva
  <2>1. CASE q = p
    <3>1. CASE w.ruta = "eliminar-me"  BY <1>3, <1>4, <1>6, <1>9, <2>1, <3>1
    <3>2. CASE w.ruta # "eliminar-me"
      BY <1>7, <3>2, <1>3, <1>9, <2>1 DEF CuentasInv, CuentasEnRegla, BajaDefinitiva
    <3> QED BY <3>1, <3>2
  <2>2. CASE q # p
    BY <1>7, <1>9, <2>2 DEF CuentasInv, CuentasTypeOK, CuentasEnRegla, BajaDefinitiva
  <2> QED BY <2>1, <2>2
<1>12. BajaCompleta'  BY <1>7 DEF CuentasInv, CuentasEnRegla, BajaCompleta
<1>13. SinRastro'  BY <1>4, <1>6, <1>9 DEF CuentasInv, CuentasEnRegla, SinRastro
<1>14. ASSUME NEW o \in Tramitadores PROVE (PorGuardarFila(papeleo[o]) /\ PorCerrar(papeleo[o]))'
  <2>1. CASE o = t
    <3>1. CASE paso = "fin"
      BY <1>8, <2>1, <3>1 DEF PorGuardarFila, PorCerrar, EnBaja, SinPapeleo, Cosas
    <3>2. CASE paso = "token"  BY <1>5, <1>8, <2>1, <3>2 DEF PorGuardarFila, PorCerrar, EnBaja
    <3>3. CASE paso = "sesion"
      BY <1>5, <1>7, <1>8, <2>1, <3>3 DEF PorGuardarFila, PorCerrar, EnBaja
    <3> QED BY <3>1, <3>2, <3>3
  <2>2. CASE o # t  BY <1>8, <2>2, <1>7 DEF CuentasInv, PorGuardarFila, PorCerrar, EnBaja
  <2> QED BY <2>1, <2>2
<1> QED BY <1>10, <1>11, <1>12, <1>13, <1>14 DEF CuentasInv, CuentasEnRegla

LEMMA CierraBien ==
    ASSUME CuentasInv, NEW t \in Tramitadores, CierraCosa(t)
    PROVE  CuentasInv'
<1>1. PICK w : w = papeleo[t]  OBVIOUS
<1>2. PICK p : p = w.persona  OBVIOUS
<1>3. w.paso \in Cosas /\ w \in Papeleo /\ p \in Personas
  BY <1>1, <1>2, PapeleoForma DEF CierraCosa, CuentasInv, Cosas
<1>4. PorCerrar(w)  BY <1>1 DEF CuentasInv
<1>5. PICK paso \in {"token", "suscripcion", "fin"} :
         /\ Sigue(t, paso)
         /\ paso = "token" <=> w.paso = "sesion"
         /\ paso = "suscripcion" <=> w.paso = "token" /\ w.ruta = "eliminar-me"
  <2>1. PICK paso : paso = CASE w.paso = "sesion" -> "token"
                  [] w.paso = "token" /\ w.ruta = "eliminar-me" -> "suscripcion"
                  [] OTHER -> "fin"
    OBVIOUS
  <2>2. /\ paso \in {"token", "suscripcion", "fin"}
        /\ paso = "token" <=> w.paso = "sesion"
        /\ paso = "suscripcion" <=> w.paso = "token" /\ w.ruta = "eliminar-me"
    BY <2>1
  <2>3. Sigue(t, paso)  BY <1>1, <2>1 DEF CierraCosa
  <2> QED BY <2>2, <2>3
<1>6. /\ abierto' = [abierto EXCEPT ![p] = @ \ {w.paso}]
      /\ concluidas' = IF w.paso = "suscripcion" THEN concluidas \cup {p} ELSE concluidas
      /\ UNCHANGED <<cuenta, papeleos, edicionesCuenta, pedidas, encimadas>>
  BY <1>1, <1>2 DEF CierraCosa
<1>7. /\ papeleo' \in [Tramitadores -> Papeleo \cup {SinPapeleo}]
      /\ \A o \in Tramitadores : o # t => papeleo'[o] = papeleo[o]
      /\ paso = "fin" => papeleo'[t] = SinPapeleo
      /\ paso # "fin" => /\ papeleo'[t].paso = paso /\ papeleo'[t].ruta = w.ruta
                         /\ papeleo'[t].persona = p
  BY <1>1, <1>2, <1>3, <1>5, SigueBien DEF CuentasInv
<1>8. \A o \in Personas : abierto'[o] = IF o = p THEN abierto[o] \ {w.paso} ELSE abierto[o]
  BY <1>3, <1>6 DEF CuentasInv, CuentasTypeOK
<1>9. /\ w.paso \in {"sesion", "suscripcion"} => w.ruta = "eliminar-me"
      /\ w.ruta = "eliminar-me" => p \in pedidas
      /\ w.ruta = "eliminar-me" /\ p \notin encimadas =>
           /\ w.paso # "sesion" => "sesion" \notin abierto[p]
           /\ w.paso = "suscripcion" => "token" \notin abierto[p]
  BY <1>2, <1>3, <1>4 DEF PorCerrar, EnBaja
<1>10. CuentasTypeOK'  BY <1>3, <1>6, <1>9, <1>7 DEF CuentasInv, CuentasTypeOK
<1>11. BajaDefinitiva' /\ SinRastro'
  BY <1>6 DEF CuentasInv, CuentasEnRegla, BajaDefinitiva, SinRastro
<1>12. BajaCompleta'
  <2> SUFFICES ASSUME NEW q \in concluidas' \ encimadas' PROVE abierto'[q] = {}  BY DEF BajaCompleta
  <2>0. q \in Personas  BY <1>10 DEF CuentasTypeOK
  <2>1. CASE q \in concluidas
    <3>1. abierto[q] = {}  BY <1>6, <2>1 DEF CuentasInv, CuentasEnRegla, BajaCompleta
    <3> QED BY <1>8, <2>0, <3>1
  <2>2. CASE q \notin concluidas
    BY <1>6, <2>2, <1>9, <1>3, <1>8, <2>0 DEF CuentasInv, CuentasTypeOK, Cosas
  <2> QED BY <2>1, <2>2
<1>13. ASSUME NEW o \in Tramitadores PROVE (PorGuardarFila(papeleo[o]) /\ PorCerrar(papeleo[o]))'
  <2>1. CASE o = t
    <3>1. CASE paso = "fin"
      BY <1>7, <2>1, <3>1 DEF PorGuardarFila, PorCerrar, EnBaja, SinPapeleo, Cosas
    <3>2. CASE paso # "fin"
      <4>1. papeleo'[o].paso = paso /\ papeleo'[o].ruta = w.ruta /\ papeleo'[o].persona = p
        BY <1>7, <2>1, <3>2
      <4>2. w.ruta = "eliminar-me"  BY <1>5, <1>9, <3>2
      <4>3. abierto'[p] = abierto[p] \ {w.paso}  BY <1>3, <1>8
      <4>4. p \notin encimadas' => /\ "sesion" \notin abierto'[p]
                                   /\ paso = "suscripcion" => "token" \notin abierto'[p]
        BY <1>5, <1>6, <1>9, <3>2, <4>2, <4>3
      <4> QED BY <1>5, <1>6, <1>9, <3>2, <4>1, <4>2, <4>4 DEF PorGuardarFila, PorCerrar, EnBaja
    <3> QED BY <3>1, <3>2
  <2>2. CASE o # t
    BY <1>7, <2>2, PapeleoForma, <1>8, <1>6 DEF EnBaja, CuentasInv, PorGuardarFila, PorCerrar
  <2> QED BY <2>1, <2>2
<1> QED BY <1>10, <1>11, <1>12, <1>13 DEF CuentasInv, CuentasEnRegla

LEMMA AbreBien ==
    ASSUME CuentasInv, NEW t \in Tramitadores, AbreCosa(t)
    PROVE  CuentasInv'
<1>1. PICK w : w = papeleo[t]  OBVIOUS
<1>2. PICK p : p = w.persona  OBVIOUS
<1>3. w.paso = "abre" /\ w \in Papeleo /\ p \in Personas
  BY <1>1, <1>2, PapeleoForma DEF AbreCosa, CuentasInv
<1>4. /\ papeleo' = [papeleo EXCEPT ![t] = SinPapeleo]
      /\ abierto' = [abierto EXCEPT ![p] = @ \cup {w.cosa}]
      /\ encimadas' = IF cuenta[p].eliminado THEN encimadas \cup {p} ELSE encimadas
      /\ UNCHANGED <<cuenta, papeleos, edicionesCuenta, pedidas, concluidas>>
  BY <1>1, <1>2 DEF AbreCosa, Sigue
<1>5. /\ papeleo'[t] = SinPapeleo /\ \A o \in Tramitadores : o # t => papeleo'[o] = papeleo[o]
      /\ \A q \in Personas : abierto'[q] = IF q = p THEN abierto[q] \cup {w.cosa} ELSE abierto[q]
      /\ p \in pedidas => p \in encimadas'
      /\ encimadas \subseteq encimadas'
  BY <1>3, <1>4 DEF CuentasInv, CuentasTypeOK, CuentasEnRegla, BajaDefinitiva
<1>6. CuentasTypeOK'
  <2>1. CASE w.cosa \in Cosas  BY <1>3, <1>4, <2>1 DEF CuentasInv, CuentasTypeOK
  <2>2. w.cosa \in Cosas  BY <1>1, <1>3 DEF CuentasInv, PorCerrar
  <2> QED BY <2>1, <2>2
<1>7. BajaDefinitiva' /\ SinRastro'
  BY <1>4 DEF CuentasInv, CuentasEnRegla, BajaDefinitiva, SinRastro
<1>8. BajaCompleta'  BY <1>4, <1>5 DEF CuentasInv, CuentasTypeOK, CuentasEnRegla, BajaCompleta
<1>9. ASSUME NEW o \in Tramitadores PROVE (PorGuardarFila(papeleo[o]) /\ PorCerrar(papeleo[o]))'
  <2>1. CASE o = t  BY <1>5, <2>1 DEF PorGuardarFila, PorCerrar, EnBaja, SinPapeleo, Cosas
  <2>2. CASE o # t
    BY <1>5, <2>2, PapeleoForma, <1>4 DEF EnBaja, CuentasInv, PorCerrar, PorGuardarFila
  <2> QED BY <2>1, <2>2
<1> QED BY <1>6, <1>7, <1>8, <1>9 DEF CuentasInv, CuentasEnRegla

LEMMA FallaBien ==
    ASSUME CuentasInv, NEW t \in Tramitadores, FallaPapeleo(t)
    PROVE  CuentasInv'
<1>1. /\ papeleo' = [papeleo EXCEPT ![t] = SinPapeleo]
      /\ UNCHANGED <<cuenta, abierto, papeleos, edicionesCuenta, pedidas, concluidas, encimadas>>
  BY DEF FallaPapeleo, Sigue
<1>2. CuentasTypeOK'  BY <1>1 DEF CuentasInv, CuentasTypeOK
<1>3. CuentasEnRegla'
  BY <1>1 DEF CuentasInv, CuentasEnRegla, BajaDefinitiva, BajaCompleta, SinRastro
<1>4. ASSUME NEW o \in Tramitadores PROVE (PorGuardarFila(papeleo[o]) /\ PorCerrar(papeleo[o]))'
  BY <1>1 DEF CuentasInv, CuentasTypeOK, PorGuardarFila, PorCerrar, EnBaja, SinPapeleo, Cosas
<1> QED BY <1>2, <1>3, <1>4 DEF CuentasInv

LEMMA TokenBien ==
    ASSUME CuentasInv, NEW p \in Personas, CierraToken(p)
    PROVE  CuentasInv'
<1>1. /\ abierto' = [abierto EXCEPT ![p] = @ \ {"token"}]
      /\ UNCHANGED <<cuenta, papeleo, papeleos, edicionesCuenta, pedidas, concluidas, encimadas>>
  BY DEF CierraToken
<1>2. CuentasTypeOK' /\ \A q \in Personas : abierto'[q] \subseteq abierto[q]
  BY <1>1 DEF CuentasInv, CuentasTypeOK
<1>3. CuentasEnRegla'
  BY <1>1, <1>2 DEF CuentasInv, CuentasTypeOK, CuentasEnRegla, BajaDefinitiva, BajaCompleta,
     SinRastro
<1>4. ASSUME NEW o \in Tramitadores PROVE (PorGuardarFila(papeleo[o]) /\ PorCerrar(papeleo[o]))'
  BY PapeleoForma, <1>1, <1>2 DEF EnBaja, CuentasInv, PorGuardarFila, PorCerrar
<1> QED BY <1>2, <1>3, <1>4 DEF CuentasInv

LEMMA VaciaBien ==
    ASSUME CuentasInv, NEW p \in Personas, Anonimizar(p)
    PROVE  CuentasInv'
<1>1. PICK fila : fila = [cuenta[p] EXCEPT !.anonima = TRUE, !.correo = NoCorreo,
                                           !.permiso = "nulo", !.fiscales = FALSE]
  OBVIOUS
<1>2. cuenta[p] \in FilaCuenta /\ cuenta[p].eliminado /\ cuenta[p].fechaEliminacion
  BY FilaForma DEF Anonimizar, CuentasInv
<1>3. /\ fila \in FilaCuenta /\ fila.eliminado /\ fila.fechaEliminacion
      /\ fila.correo = NoCorreo /\ fila.permiso = "nulo" /\ ~fila.fiscales
  BY <1>1, <1>2 DEF FilaCuenta
<1>4. PICK borra \in SUBSET {"sesion"} : abierto' = [abierto EXCEPT ![p] = @ \ borra]
  BY DEF Anonimizar
<1>5. /\ cuenta' = [cuenta EXCEPT ![p] = fila]
      /\ UNCHANGED <<papeleo, papeleos, edicionesCuenta, pedidas, concluidas, encimadas>>
  BY <1>1 DEF Anonimizar
<1>6. /\ CuentasTypeOK'
      /\ \A q \in Personas : abierto'[q] \subseteq abierto[q]
      /\ \A q \in Personas : cuenta'[q] = IF q = p THEN fila ELSE cuenta[q]
  BY <1>3, <1>4, <1>5 DEF CuentasInv, CuentasTypeOK
<1>7. BajaDefinitiva'
  BY <1>3, <1>5, <1>6 DEF CuentasInv, CuentasTypeOK, CuentasEnRegla, BajaDefinitiva
<1>8. BajaCompleta'  BY <1>5, <1>6 DEF CuentasInv, CuentasTypeOK, CuentasEnRegla, BajaCompleta
<1>9. SinRastro'  BY <1>3, <1>6 DEF CuentasInv, CuentasEnRegla, SinRastro
<1>10. ASSUME NEW o \in Tramitadores PROVE (PorGuardarFila(papeleo[o]) /\ PorCerrar(papeleo[o]))'
  BY PapeleoForma, <1>5, <1>6 DEF EnBaja, CuentasInv, PorGuardarFila, PorCerrar
<1> QED BY <1>6, <1>7, <1>8, <1>9, <1>10 DEF CuentasInv, CuentasEnRegla

LEMMA CuentasSigue == CuentasInv /\ [CuentasNext]_cuentasVars => CuentasInv'
<1> SUFFICES ASSUME CuentasInv, [CuentasNext]_cuentasVars PROVE CuentasInv'  OBVIOUS
<1>1. CASE UNCHANGED cuentasVars
  <2>1. /\ cuenta' = cuenta /\ abierto' = abierto /\ papeleo' = papeleo
        /\ papeleos' = papeleos /\ edicionesCuenta' = edicionesCuenta
        /\ pedidas' = pedidas /\ concluidas' = concluidas /\ encimadas' = encimadas
    BY <1>1 DEF cuentasVars
  <2> QED BY <2>1 DEF CuentasInv, CuentasTypeOK, CuentasEnRegla, BajaDefinitiva, BajaCompleta,
                      SinRastro, PorGuardarFila, PorCerrar, EnBaja
<1>2. CASE CuentasNext
  BY <1>2, TokenBien, VaciaBien, CreaBien, Edita, PideBaja, SeAdmite, GuardaBien, CierraBien,
     FallaBien, AbreBien DEF CuentasNext
<1> QED BY <1>1, <1>2

LEMMA CuentasSiempre == CuentasSpec => []CuentasInv
  BY CuentasEmpieza, CuentasSigue, PTL DEF CuentasSpec
HIDE CuentasDatos

--------------------
(* The cards (MetodosPago).  While no two requests were creating the       *)
(* customer at once, whoever creates it finds none and is alone.           *)

LEMMA MetodosDatos ==
    /\ NoTarjeta \notin Tarjetas
    /\ MaxClientes \in Nat /\ MaxCobranzas \in Nat /\ MaxFallasStripe \in Nat
  BY MetodosAssumption DEF MetodosAssumption
USE MetodosDatos

\* Of a request at work, its customer is one that Stripe made.
ConCliente(w, n) ==
    /\ w.cliente \in 0 .. n
    /\ w.paso \in {"guarda", "usa"} => w.cliente # 0
\* While nobody made a customer beside another, there is one, or somebody is making it.
UnSoloCliente ==
    /\ secretos \subseteq {clienteId}
    /\ \A t \in Tarjetas : tarjeta[t] \in {0, clienteId}
    /\ \A k \in Cajeros :
         /\ cajero[k].paso = "usa" => cajero[k].cliente = clienteId
         /\ cajero[k].paso \in {"crea", "guarda"} => clienteId = 0
    /\ \A k, o \in Cajeros :
         cajero[k].paso \in {"crea", "guarda"} /\ cajero[o].paso \in {"crea", "guarda"} => k = o
MetodosInv ==
    /\ MetodosTypeOK
    /\ secretos \subseteq 1 .. clientes
    /\ \A k \in Cajeros : ConCliente(cajero[k], clientes)
    /\ \A c \in Cliente, t \in Tarjetas : predeterminada[c] = t => tarjeta[t] = c
    /\ ~pisado => UnSoloCliente

LEMMA MetodosCumplen == MetodosInv => TarjetasALaVista
<1> SUFFICES ASSUME MetodosInv, ~pisado
             PROVE  /\ {t \in Tarjetas : tarjeta[t] # 0} = ListPaymentMethods
                    /\ \A t \in Tarjetas : EsDefault(t) => t \in ListPaymentMethods
  BY DEF TarjetasALaVista
<1>1. UnSoloCliente /\ clienteId \in 0 .. MaxClientes  BY DEF MetodosInv, MetodosTypeOK
<1>2. \A t \in Tarjetas : tarjeta[t] # 0 <=> t \in ListPaymentMethods
  BY <1>1 DEF UnSoloCliente, ListPaymentMethods
<1>3. ListPaymentMethods \subseteq Tarjetas  BY DEF ListPaymentMethods
<1>4. ASSUME NEW t \in Tarjetas, EsDefault(t) PROVE t \in ListPaymentMethods
  BY <1>1, <1>4 DEF EsDefault, Cliente, MetodosInv, ListPaymentMethods
<1> QED BY <1>2, <1>3, <1>4

LEMMA MetodosEmpieza == MetodosInit => MetodosInv
<1> SUFFICES ASSUME MetodosInit PROVE MetodosInv  OBVIOUS
<1>1. MetodosTypeOK
  <2>1. clientes = 0 /\ clienteId = 0 /\ secretos = {} /\ cobranzas = 0 /\ fallasStripe = 0
        /\ pisado = FALSE /\ tarjeta = [t \in Tarjetas |-> 0]
    BY DEF MetodosInit
  <2>2. predeterminada \in [Cliente -> Tarjetas \cup {NoTarjeta}]  BY DEF MetodosInit
  <2>3. cajero \in [Cajeros -> Cajero \cup {SinCajero}]  BY DEF MetodosInit
  <2>4. tarjeta \in [Tarjetas -> 0 .. clientes]  BY <2>1
  <2>5. clienteId \in 0 .. clientes /\ clientes \in 0 .. MaxClientes /\ secretos \subseteq Cliente
        /\ cobranzas \in 0 .. MaxCobranzas /\ fallasStripe \in 0 .. MaxFallasStripe
    BY <2>1
  <2>6. pisado \in BOOLEAN  BY DEF MetodosInit
  <2> QED BY <2>2, <2>3, <2>4, <2>5, <2>6 DEF MetodosTypeOK
<1>2. \A k \in Cajeros : ConCliente(cajero[k], clientes) /\ cajero[k].paso = "libre"
  BY DEF MetodosInit, ConCliente, SinCajero
<1>3. \A c \in Cliente, t \in Tarjetas : predeterminada[c] # t  BY DEF MetodosInit
<1>4. UnSoloCliente /\ secretos \subseteq 1 .. clientes  BY <1>2 DEF MetodosInit, UnSoloCliente
<1> QED BY <1>1, <1>2, <1>3, <1>4 DEF MetodosInv

\* A request goes on with w, and the tables of Stripe stay.
Queda == UNCHANGED <<tarjeta, predeterminada, secretos>>

LEMMA CambiaCajero ==
    ASSUME MetodosInv, NEW k \in Cajeros, NEW w \in Cajero \cup {SinCajero}, Va(k, w)
    PROVE  /\ cajero' \in [Cajeros -> Cajero \cup {SinCajero}]
           /\ \A o \in Cajeros : cajero'[o] = IF o = k THEN w ELSE cajero[o]
  BY DEF MetodosInv, MetodosTypeOK, Va

LEMMA SinCajeroEs ==
    /\ SinCajero.paso = "libre" /\ SinCajero.cliente = 0 /\ SinCajero.tarjeta = NoTarjeta
  BY DEF SinCajero

LEMMA EntraCajero ==
    ASSUME MetodosInv, NEW k \in Cajeros, NEW w \in Cajero, Va(k, w), cajero[k] = SinCajero,
           w.cliente = clienteId, w.paso = "usa" => clienteId # 0,
           w.paso \in {"crea", "usa", "perfil"}, w.paso = "crea" => clienteId = 0,
           pisado' \in BOOLEAN, pisado => pisado',
           w.paso = "crea" /\ ~pisado' =>
               \A o \in Cajeros : cajero[o].paso \notin {"crea", "guarda"},
           cobranzas' \in 0 .. MaxCobranzas, Queda,
           UNCHANGED <<clienteId, clientes, fallasStripe>>
    PROVE  MetodosInv'
<1>1. /\ cajero' \in [Cajeros -> Cajero \cup {SinCajero}]
      /\ \A o \in Cajeros : cajero'[o] = IF o = k THEN w ELSE cajero[o]
  BY CambiaCajero
<1>2. MetodosTypeOK'  BY <1>1 DEF MetodosInv, MetodosTypeOK, Queda
<1>3. \A o \in Cajeros : ConCliente(cajero[o], clientes)'
  BY <1>1 DEF MetodosInv, MetodosTypeOK, ConCliente
<1>4. ~pisado' => UnSoloCliente'  BY <1>1 DEF MetodosInv, UnSoloCliente, Queda
<1> QED BY <1>2, <1>3, <1>4 DEF MetodosInv, Queda

LEMMA Cobra ==
    ASSUME MetodosInv, NEW k \in Cajeros, NuevaCobranza(k)
    PROVE  cajero[k] = SinCajero /\ cobranzas' \in 0 .. MaxCobranzas
  BY DEF MetodosInv, MetodosTypeOK, NuevaCobranza

LEMMA Asegura ==
    ASSUME MetodosInv, NEW k \in Cajeros, NEW oficio \in Oficio, EnsureStripeCustomer(k, oficio)
    PROVE  MetodosInv'
<1>1. PICK w : w = [paso |-> IF clienteId = 0 THEN "crea" ELSE "usa", oficio |-> oficio,
                    cliente |-> clienteId, tarjeta |-> NoTarjeta]
  OBVIOUS
<1>2. clienteId \in 0 .. MaxClientes /\ pisado \in BOOLEAN  BY DEF MetodosInv, MetodosTypeOK
<1>3. /\ w \in Cajero /\ w.cliente = clienteId
      /\ w.paso \in {"crea", "usa"} /\ (w.paso = "crea" <=> clienteId = 0)
  BY <1>1, <1>2 DEF Cajero
<1>4. /\ Va(k, w) /\ Queda
      /\ UNCHANGED <<clienteId, clientes, fallasStripe>>
      /\ cajero[k] = SinCajero /\ cobranzas' \in 0 .. MaxCobranzas
  BY <1>1, Cobra DEF EnsureStripeCustomer, Queda
<1>5. /\ pisado' \in BOOLEAN /\ (pisado => pisado')
      /\ clienteId = 0 /\ ~pisado' =>
           \A o \in Cajeros : cajero[o].paso \notin {"crea", "guarda"}
  BY DEF EnsureStripeCustomer
<1> QED BY <1>3, <1>4, <1>5, EntraCajero

LEMMA Perfil ==
    ASSUME MetodosInv, NEW k \in Cajeros, LeePerfil(k)
    PROVE  MetodosInv'
<1>1. PICK w : w = [paso |-> "perfil", oficio |-> "perfil", cliente |-> clienteId,
                    tarjeta |-> NoTarjeta]
  OBVIOUS
<1>2. clienteId \in 0 .. MaxClientes /\ pisado \in BOOLEAN  BY DEF MetodosInv, MetodosTypeOK
<1>3. w \in Cajero /\ w.cliente = clienteId /\ w.paso = "perfil"  BY <1>1, <1>2 DEF Cajero, Oficio
<1>4. /\ Va(k, w) /\ Queda /\ pisado' = pisado
      /\ UNCHANGED <<clienteId, clientes, fallasStripe>>
      /\ cajero[k] = SinCajero /\ cobranzas' \in 0 .. MaxCobranzas
  BY <1>1, Cobra DEF LeePerfil, Queda
<1> QED BY <1>2, <1>3, <1>4, EntraCajero

LEMMA Tarjeta ==
    ASSUME MetodosInv, NEW k \in Cajeros, NEW oficio \in Oficio, NEW t \in Tarjetas,
           AssertPaymentMethodOwnedBySuscriptor(k, oficio, t)
    PROVE  MetodosInv'
<1>1. PICK w : w = [paso |-> "usa", oficio |-> oficio, cliente |-> clienteId, tarjeta |-> t]
  OBVIOUS
<1>2. clienteId \in 0 .. MaxClientes /\ pisado \in BOOLEAN  BY DEF MetodosInv, MetodosTypeOK
<1>3. w \in Cajero /\ w.cliente = clienteId /\ w.paso = "usa"  BY <1>1, <1>2 DEF Cajero
<1>4. /\ Va(k, w) /\ Queda /\ pisado' = pisado /\ clienteId # 0
      /\ UNCHANGED <<clienteId, clientes, fallasStripe>>
      /\ cajero[k] = SinCajero /\ cobranzas' \in 0 .. MaxCobranzas
  BY <1>1, Cobra DEF AssertPaymentMethodOwnedBySuscriptor, Queda
<1> QED BY <1>2, <1>3, <1>4, EntraCajero

LEMMA Crea ==
    ASSUME MetodosInv, NEW k \in Cajeros, CreaCliente(k)
    PROVE  MetodosInv'
<1>1. PICK n : n = clientes + 1  OBVIOUS
<1>2. clientes \in Nat /\ n \in 1 .. MaxClientes /\ n = clientes + 1 /\ clientes' = n
  BY <1>1 DEF CreaCliente, MetodosInv, MetodosTypeOK
<1>3. PICK v : v = cajero[k]  OBVIOUS
<1>4. v.paso = "crea" /\ v \in Cajero  BY <1>3 DEF CreaCliente, MetodosInv, MetodosTypeOK, SinCajero
<1>5. PICK w : w = [v EXCEPT !.paso = "guarda", !.cliente = n]  OBVIOUS
<1>6. w \in Cajero /\ w.paso = "guarda" /\ w.cliente = n
  <2>1. n \in 0 .. MaxClientes  BY <1>2
  <2> QED BY <1>4, <1>5, <2>1 DEF Cajero
<1>7. Va(k, w) /\ Queda /\ UNCHANGED <<clienteId, cobranzas, fallasStripe, pisado>>
  BY <1>1, <1>3, <1>5 DEF CreaCliente, Queda
<1>8. /\ cajero' \in [Cajeros -> Cajero \cup {SinCajero}]
      /\ \A o \in Cajeros : cajero'[o] = IF o = k THEN w ELSE cajero[o]
  BY <1>6, <1>7, CambiaCajero
<1>9. MetodosTypeOK'  BY <1>2, <1>7, <1>8 DEF MetodosInv, MetodosTypeOK, Queda
<1>10. \A o \in Cajeros : ConCliente(cajero[o], clientes)'
  BY <1>2, <1>6, <1>8 DEF MetodosInv, MetodosTypeOK, ConCliente
<1>11. ~pisado' => UnSoloCliente'
  BY <1>3, <1>4, <1>6, <1>7, <1>8 DEF MetodosInv, UnSoloCliente, Queda
<1> QED BY <1>2, <1>7, <1>9, <1>10, <1>11 DEF MetodosInv, Queda

LEMMA GuardaElCliente ==
    ASSUME MetodosInv, NEW k \in Cajeros, GuardaCliente(k)
    PROVE  MetodosInv'
<1>3. PICK v : v = cajero[k]  OBVIOUS
<1>4. /\ v.paso = "guarda" /\ v \in Cajero /\ v.cliente \in 1 .. clientes
      /\ clientes \in 0 .. MaxClientes
  BY <1>3 DEF GuardaCliente, MetodosInv, MetodosTypeOK, SinCajero, ConCliente
<1>5. PICK w : w = [v EXCEPT !.paso = "usa"]  OBVIOUS
<1>6. w \in Cajero /\ w.paso = "usa" /\ w.cliente = v.cliente  BY <1>4, <1>5 DEF Cajero
<1>7. /\ Va(k, w) /\ Queda /\ UNCHANGED <<clientes, cobranzas, fallasStripe, pisado>>
      /\ clienteId' = v.cliente
  BY <1>3, <1>5 DEF GuardaCliente, EscribeCliente, Queda
<1>8. /\ cajero' \in [Cajeros -> Cajero \cup {SinCajero}]
      /\ \A o \in Cajeros : cajero'[o] = IF o = k THEN w ELSE cajero[o]
  BY <1>6, <1>7, CambiaCajero
<1>9. MetodosTypeOK'  BY <1>4, <1>7, <1>8 DEF MetodosInv, MetodosTypeOK, Queda
<1>10. \A o \in Cajeros : ConCliente(cajero[o], clientes)'
  BY <1>4, <1>6, <1>7, <1>8 DEF MetodosInv, MetodosTypeOK, ConCliente
<1>11. ASSUME ~pisado' PROVE UnSoloCliente'
  BY <1>3, <1>4, <1>7, <1>11, <1>6, <1>8 DEF MetodosInv, UnSoloCliente, ConCliente, Queda
<1> QED BY <1>7, <1>9, <1>10, <1>11 DEF MetodosInv, Queda

LEMMA GuardaElPerfil ==
    ASSUME MetodosInv, NEW k \in Cajeros, GuardaPerfil(k)
    PROVE  MetodosInv'
<1>3. PICK v : v = cajero[k]  OBVIOUS
<1>4. v.cliente \in 0 .. clientes /\ clientes \in 0 .. MaxClientes
  BY <1>3 DEF GuardaPerfil, MetodosInv, MetodosTypeOK, ConCliente
<1>7. /\ Va(k, SinCajero) /\ Queda /\ UNCHANGED <<clientes, cobranzas, fallasStripe>>
      /\ clienteId' = v.cliente /\ pisado' \in BOOLEAN
      /\ (~pisado' => ~pisado /\ clienteId = v.cliente)
  BY <1>3 DEF GuardaPerfil, Acaba, Queda
<1>8. /\ cajero' \in [Cajeros -> Cajero \cup {SinCajero}]
      /\ \A o \in Cajeros : cajero'[o] = IF o = k THEN SinCajero ELSE cajero[o]
  BY <1>7, CambiaCajero
<1>9. MetodosTypeOK'  BY <1>4, <1>7, <1>8 DEF MetodosInv, MetodosTypeOK, Queda
<1>10. \A o \in Cajeros : ConCliente(cajero[o], clientes)'
  BY <1>4, <1>7, <1>8, SinCajeroEs DEF MetodosInv, ConCliente
<1>11. ~pisado' => UnSoloCliente'  BY <1>7, <1>8, SinCajeroEs DEF MetodosInv, UnSoloCliente, Queda
<1> QED BY <1>7, <1>9, <1>10, <1>11 DEF MetodosInv, Queda

LEMMA FallaElCajero ==
    ASSUME MetodosInv, NEW k \in Cajeros, FallaCajero(k)
    PROVE  MetodosInv'
<1>7. /\ Va(k, SinCajero) /\ Queda /\ UNCHANGED <<clienteId, clientes, cobranzas, pisado>>
      /\ fallasStripe' \in 0 .. MaxFallasStripe
  BY DEF FallaCajero, Acaba, Queda, MetodosInv, MetodosTypeOK
<1>8. /\ cajero' \in [Cajeros -> Cajero \cup {SinCajero}]
      /\ \A o \in Cajeros : cajero'[o] = IF o = k THEN SinCajero ELSE cajero[o]
  BY <1>7, CambiaCajero
<1>9. MetodosTypeOK'  BY <1>7, <1>8 DEF MetodosInv, MetodosTypeOK, Queda
<1>10. \A o \in Cajeros : ConCliente(cajero[o], clientes)'
  BY <1>7, <1>8, SinCajeroEs DEF MetodosInv, MetodosTypeOK, ConCliente
<1>11. ~pisado' => UnSoloCliente'  BY <1>7, <1>8, SinCajeroEs DEF MetodosInv, UnSoloCliente, Queda
<1> QED BY <1>7, <1>9, <1>10, <1>11 DEF MetodosInv, Queda

LEMMA Confirma ==
    ASSUME MetodosInv, NEW c \in Cliente, NEW t \in Tarjetas, ConfirmaTarjeta(c, t)
    PROVE  MetodosInv'
<1>1. /\ c \in 1 .. clientes /\ tarjeta[t] = 0 /\ tarjeta' = [tarjeta EXCEPT ![t] = c]
      /\ secretos' = secretos \ {c} /\ (~pisado => c = clienteId)
      /\ UNCHANGED <<clienteId, clientes, predeterminada, cajero, cobranzas, fallasStripe, pisado>>
  BY DEF ConfirmaTarjeta, MetodosInv, UnSoloCliente
<1>2. \A o \in Tarjetas : tarjeta'[o] = IF o = t THEN c ELSE tarjeta[o]
  BY <1>1 DEF MetodosInv, MetodosTypeOK
<1>3. MetodosTypeOK'  BY <1>1 DEF MetodosInv, MetodosTypeOK
<1>4. ASSUME NEW d \in Cliente, NEW o \in Tarjetas, predeterminada[d] = o PROVE tarjeta'[o] = d
  <2>1. tarjeta[o] = d /\ d # 0  BY <1>4 DEF MetodosInv, Cliente
  <2> QED BY <1>1, <1>2, <2>1
<1>5. ~pisado' => UnSoloCliente'  BY <1>1, <1>2 DEF MetodosInv, UnSoloCliente
<1> QED BY <1>1, <1>3, <1>4, <1>5 DEF MetodosInv

LEMMA Atiende ==
    ASSUME MetodosInv, NEW k \in Cajeros, AtiendeStripe(k)
    PROVE  MetodosInv'
<1>1. PICK w : w = cajero[k]  OBVIOUS
<1>2. /\ w.paso = "usa" /\ w \in Cajero /\ w.cliente \in 1 .. clientes
      /\ w.tarjeta \in Tarjetas \cup {NoTarjeta}
      /\ (~pisado => w.cliente = clienteId) /\ clientes \in 0 .. MaxClientes
  BY <1>1 DEF AtiendeStripe, MetodosInv, MetodosTypeOK, SinCajero, Cajero, ConCliente, UnSoloCliente
<1>3. /\ Va(k, SinCajero) /\ UNCHANGED <<clienteId, clientes, cobranzas, fallasStripe, pisado>>
      /\ secretos' \subseteq secretos \cup {w.cliente}
  BY <1>1 DEF AtiendeStripe, Acaba
<1>4. /\ cajero' \in [Cajeros -> Cajero \cup {SinCajero}]
      /\ \A o \in Cajeros : cajero'[o] = IF o = k THEN SinCajero ELSE cajero[o]
  BY <1>3, CambiaCajero
<1>5. /\ tarjeta' \in [Tarjetas -> 0 .. clientes]
      /\ \A t \in Tarjetas : tarjeta'[t] = IF w.oficio = "borra" /\ t = w.tarjeta THEN 0
                                           ELSE tarjeta[t]
  <2>1. tarjeta \in [Tarjetas -> 0 .. clientes] /\ 0 \in 0 .. clientes
    BY <1>2 DEF MetodosInv, MetodosTypeOK
  <2>2. tarjeta' = IF w.oficio = "borra" THEN [tarjeta EXCEPT ![w.tarjeta] = 0] ELSE tarjeta
    BY <1>1 DEF AtiendeStripe
  <2>3. CASE w.oficio = "borra"  BY <2>1, <2>2, <2>3
  <2>4. CASE w.oficio # "borra"  BY <2>1, <2>2, <2>4
  <2> QED BY <2>3, <2>4
<1>6. /\ predeterminada' \in [Cliente -> Tarjetas \cup {NoTarjeta}]
      /\ \A c \in Cliente, t \in Tarjetas : predeterminada'[c] = t => tarjeta'[t] = c
  <2>1. CASE w.oficio = "borra"
    <3>1. predeterminada' = [c \in Cliente |-> IF predeterminada[c] = w.tarjeta
                                               THEN NoTarjeta ELSE predeterminada[c]]
      BY <1>1, <2>1 DEF AtiendeStripe
    <3>2. ASSUME NEW c \in Cliente, NEW t \in Tarjetas, predeterminada'[c] = t
          PROVE  tarjeta'[t] = c
      BY <3>1, <3>2, <1>5 DEF MetodosInv
    <3> QED BY <3>1, <3>2 DEF MetodosInv, MetodosTypeOK
  <2>2. CASE w.oficio = "default" /\ w.tarjeta # NoTarjeta /\ tarjeta[w.tarjeta] = w.cliente
    BY <1>1, <2>2, <1>2, <1>5 DEF AtiendeStripe, MetodosInv, MetodosTypeOK, Cliente
  <2>3. CASE /\ w.oficio # "borra"
             /\ ~(w.oficio = "default" /\ w.tarjeta # NoTarjeta /\ tarjeta[w.tarjeta] = w.cliente)
    BY <1>1, <2>3, <1>5 DEF AtiendeStripe, MetodosInv, MetodosTypeOK
  <2> QED BY <2>1, <2>2, <2>3
<1>7. MetodosTypeOK'  BY <1>2, <1>3, <1>4, <1>5, <1>6 DEF MetodosInv, MetodosTypeOK, Cliente
<1>8. \A o \in Cajeros : ConCliente(cajero[o], clientes)'
  BY <1>2, <1>3, <1>4, SinCajeroEs DEF MetodosInv, ConCliente
<1>9. ~pisado' => UnSoloCliente'
  BY <1>2, <1>3, <1>4, <1>5, SinCajeroEs DEF MetodosInv, UnSoloCliente
<1>10. secretos' \subseteq 1 .. clientes'  BY <1>2, <1>3 DEF MetodosInv
<1> QED BY <1>6, <1>7, <1>8, <1>9, <1>10 DEF MetodosInv

LEMMA MetodosSigue == MetodosInv /\ [MetodosNext]_metodosVars => MetodosInv'
<1> SUFFICES ASSUME MetodosInv, [MetodosNext]_metodosVars PROVE MetodosInv'  OBVIOUS
<1>1. CASE UNCHANGED metodosVars
  BY <1>1 DEF metodosVars, MetodosInv, MetodosTypeOK, ConCliente, UnSoloCliente
<1>2. ASSUME NEW k \in Cajeros,
             GetOrCreateCustomer(k) \/ CreateSetupIntent(k) \/ CreateCheckout(k)
      PROVE  MetodosInv'
  BY <1>2, Asegura DEF GetOrCreateCustomer, CreateSetupIntent, CreateCheckout, Oficio
<1>3. ASSUME NEW k \in Cajeros, NEW t \in Tarjetas,
             DeletePaymentMethod(k, t) \/ SetDefaultPaymentMethod(k, t)
      PROVE  MetodosInv'
  BY <1>3, Tarjeta DEF DeletePaymentMethod, SetDefaultPaymentMethod, Oficio
<1>4. CASE MetodosNext
  BY <1>2, <1>3, <1>4, Perfil, Crea, GuardaElCliente, GuardaElPerfil, FallaElCajero, Confirma,
     Atiende
     DEF MetodosNext
<1> QED BY <1>1, <1>4

LEMMA MetodosSiempre == MetodosSpec => []MetodosInv
  BY MetodosEmpieza, MetodosSigue, PTL DEF MetodosSpec
HIDE MetodosDatos

--------------------
(* The dashboards (Tableros).  A counter is never ahead of its rows but by *)
(* those that are being written and those that were lost; that two queries *)
(* agree is a matter of the state alone, of sums taken two ways (Sumas).   *)

LEMMA TablerosDatos ==
    /\ IsFiniteSet(Puntos) /\ IsFiniteSet(Ciudades) /\ IsFiniteSet(Lectores)
    /\ NoPunto \notin Puntos /\ NoCiudad \notin Ciudades
    /\ Casas # {} /\ MaxAvisos \in Nat /\ MaxMes \in Nat /\ MesesDelAnio \in 1 .. MaxMes + 1
  BY TablerosAssumption DEF TablerosAssumption
USE TablerosDatos

\* A row of detail, and one about to be inserted: what gave nothing was a search, what came
\* for a branch names one, and what was counted is a search that gave something, which came
\* for the branch it was counted of.
RenglonBien(fila) == /\ fila.sinResultados => fila.tipo = "busqueda"
                     /\ fila.entidad # NoPunto => fila.sucursal \in Puntos
LectorBien(w) ==
    w.op = "detalle" =>
        /\ RenglonBien(w.fila)
        /\ w.cuenta # NoPunto =>
             w.fila.entidad = w.cuenta /\ w.fila.tipo = "busqueda" /\ ~w.fila.sinResultados
DeTipo(op) == {w \in Lectores : lector[w].op = op}
PorContar(s) == {w \in Lectores : lector[w].op = "detalle" /\ lector[w].cuenta = s}
Contados(s) ==
    {i \in DOMAIN renglon : renglon[i].entidad = s /\ renglon[i].tipo = "busqueda"
                              /\ ~renglon[i].sinResultados}
\* No table holds more than the events there were.
Caben ==
    /\ Len(renglon) + Cardinality(DeTipo("detalle")) <= avisos
    /\ Len(venta) + Cardinality(DeTipo("venta")) <= avisos
    /\ \A e \in Puntos \cup Casas : conteo[e]["busqueda"] <= avisos
    /\ \A s \in Puntos : /\ local[s].likes <= avisos /\ local[s].promos <= avisos
                         /\ perdidos[s] + Cardinality(PorContar(s)) <= avisos
TablerosInv ==
    /\ TablerosTypeOK /\ Caben
    /\ \A i \in DOMAIN renglon : RenglonBien(renglon[i])
    /\ \A w \in Lectores : LectorBien(lector[w])
    /\ \A s \in Puntos :
         conteo[s]["busqueda"] <= Cardinality(Contados(s)) + perdidos[s]
                                    + Cardinality(PorContar(s))

LEMMA LaCasa == \A s \in Puntos : CasaDe[s] \in Casas
  BY DEF CasaDe

LEMMA SumaEs == ASSUME NEW f, NEW S PROVE SumaDe(f, S) = Sumatoria(f, S)
  BY DEF SumaDe, Sumatoria

LEMMA LectoresFinitos ==
    /\ \A op : IsFiniteSet(DeTipo(op)) /\ Cardinality(DeTipo(op)) \in Nat
    /\ \A s : IsFiniteSet(PorContar(s)) /\ Cardinality(PorContar(s)) \in Nat
<1>1. \A op : DeTipo(op) \subseteq Lectores  BY DEF DeTipo
<1>2. \A s : PorContar(s) \subseteq Lectores  BY DEF PorContar
<1> QED BY <1>1, <1>2, FS_Subset, FS_CardinalityType

LEMMA RenglonesFinitos ==
    ASSUME renglon \in Seq(Renglon)
    PROVE  \A T : T \subseteq DOMAIN renglon => IsFiniteSet(T) /\ Cardinality(T) \in Nat
<1>1. PICK n \in Nat : n = Len(renglon)  OBVIOUS
<1>2. DOMAIN renglon = 1 .. n  BY <1>1
<1>3. IsFiniteSet(1 .. n)  BY ONLY FS_Interval, 1 \in Int, n \in Int
<1> QED BY <1>2, <1>3, FS_Subset, FS_CardinalityType

LEMMA LectorForma ==
    ASSUME TablerosTypeOK, NEW w \in Lectores
    PROVE  LET v == lector[w]
           IN  /\ v.op \in {"libre", "detalle", "venta"}
               /\ v.op = "libre" => v = SinLector
               /\ v.op = "detalle" => v.fila \in Renglon /\ v.cuenta \in Puntos \cup {NoPunto}
               /\ v.op = "venta" => v.fila \in Venta
  BY DEF TablerosTypeOK, Lector, SinLector

LEMMA TablerosEmpieza == TablerosInit => TablerosInv
<1> SUFFICES ASSUME TablerosInit PROVE TablerosInv  OBVIOUS
<1>1. /\ renglon = <<>> /\ venta = <<>> /\ avisos = 0
      /\ lector = [w \in Lectores |-> SinLector] /\ perdidos = [s \in Puntos |-> 0]
      /\ conteo = [e \in Puntos \cup Casas |-> [c \in Campo |-> 0]]
      /\ local = [s \in Puntos |-> [likes |-> 0, promos |-> 0, vivo |-> TRUE]]
      /\ mesTablero \in {0, MesesDelAnio - 1}
  BY DEF TablerosInit
<1>2. TablerosTypeOK
  <2>1. conteo \in [Puntos \cup Casas -> [Campo -> 0 .. MaxAvisos]]  BY <1>1
  <2>2. renglon \in Seq(Renglon) /\ Len(renglon) <= MaxAvisos  BY <1>1
  <2>3. venta \in Seq(Venta) /\ Len(venta) <= MaxAvisos  BY <1>1
  <2>4. local \in [Puntos -> [likes : 0 .. MaxAvisos, promos : 0 .. MaxAvisos, vivo : BOOLEAN]]
    BY <1>1
  <2>5. lector \in [Lectores -> Lector]  BY <1>1 DEF Lector
  <2>6. avisos \in 0 .. MaxAvisos /\ mesTablero \in 0 .. MaxMes  BY <1>1
  <2>7. perdidos \in [Puntos -> 0 .. MaxAvisos]  BY <1>1
  <2> QED BY <2>1, <2>2, <2>3, <2>4, <2>5, <2>6, <2>7 DEF TablerosTypeOK
<1>3. \A op \in {"detalle", "venta"} : DeTipo(op) = {}  BY <1>1 DEF DeTipo, SinLector
<1>4. \A s : PorContar(s) = {}  BY <1>1 DEF PorContar, SinLector
<1>5. Cardinality({}) = 0  BY FS_EmptySet
<1>6. Caben
  <2>1. Len(renglon) = 0 /\ Len(venta) = 0 /\ avisos = 0  BY <1>1
  <2>2. \A e \in Puntos \cup Casas : conteo[e]["busqueda"] = 0  BY <1>1 DEF Campo
  <2>3. \A s \in Puntos : local[s].likes = 0 /\ local[s].promos = 0 /\ perdidos[s] = 0  BY <1>1
  <2>4. \A s : Cardinality(PorContar(s)) = 0  BY <1>4, <1>5
  <2>5. Cardinality(DeTipo("detalle")) = 0 /\ Cardinality(DeTipo("venta")) = 0  BY <1>3, <1>5
  <2> QED BY <2>1, <2>2, <2>3, <2>4, <2>5 DEF Caben
<1>7. \A i \in DOMAIN renglon : RenglonBien(renglon[i])  BY <1>1
<1>8. \A w \in Lectores : LectorBien(lector[w])  BY <1>1 DEF LectorBien, SinLector
<1>9. \A s \in Puntos :
         conteo[s]["busqueda"] <= Cardinality(Contados(s)) + perdidos[s]
                                    + Cardinality(PorContar(s))
  <2> SUFFICES ASSUME NEW s \in Puntos
               PROVE  conteo[s]["busqueda"] <= Cardinality(Contados(s)) + perdidos[s]
                                    + Cardinality(PorContar(s))
    OBVIOUS
  <2>1. Contados(s) = {}  BY <1>1 DEF Contados
  <2>2. conteo[s]["busqueda"] = 0 /\ perdidos[s] = 0  BY <1>1 DEF Campo
  <2>3. Cardinality(Contados(s)) = 0 /\ Cardinality(PorContar(s)) = 0  BY <1>4, <1>5, <2>1
  <2> QED BY <2>2, <2>3
<1> QED BY <1>2, <1>6, <1>7, <1>8, <1>9 DEF TablerosInv

\* A request comes in with v.
LEMMA EntraLector ==
    ASSUME TablerosTypeOK, NEW w \in Lectores, NEW v \in Lector, v.op # "libre", Ocupa(w, v)
    PROVE  /\ lector' \in [Lectores -> Lector]
           /\ \A o \in Lectores : lector'[o] = IF o = w THEN v ELSE lector[o]
           /\ \A op \in {"detalle", "venta"} :
                Cardinality(DeTipo(op)') = Cardinality(DeTipo(op)) + IF v.op = op THEN 1 ELSE 0
           /\ \A s \in Puntos :
                Cardinality(PorContar(s)') = Cardinality(PorContar(s))
                    + IF v.op = "detalle" /\ v.cuenta = s THEN 1 ELSE 0
<1>1. /\ lector[w].op = "libre" /\ lector' \in [Lectores -> Lector]
      /\ \A o \in Lectores : lector'[o] = IF o = w THEN v ELSE lector[o]
  BY DEF Ocupa, TablerosTypeOK, SinLector
<1>2. ASSUME NEW op \in {"detalle", "venta"}
      PROVE  Cardinality(DeTipo(op)') = Cardinality(DeTipo(op)) + IF v.op = op THEN 1 ELSE 0
  <2>1. PICK A, B : A = DeTipo(op) /\ B = DeTipo(op)'  OBVIOUS
  <2>2. w \notin A /\ B = IF v.op = op THEN A \cup {w} ELSE A  BY <1>1, <2>1 DEF DeTipo
  <2>3. IsFiniteSet(A) /\ Cardinality(A) \in Nat  BY <2>1, LectoresFinitos
  <2>4. Cardinality(A \cup {w}) = Cardinality(A) + 1  BY ONLY <2>2, <2>3, FS_AddElement
  <2> QED BY <2>1, <2>2, <2>3, <2>4
<1>3. ASSUME NEW s \in Puntos
      PROVE  Cardinality(PorContar(s)') = Cardinality(PorContar(s))
                    + IF v.op = "detalle" /\ v.cuenta = s THEN 1 ELSE 0
  <2>1. PICK A, B : A = PorContar(s) /\ B = PorContar(s)'  OBVIOUS
  <2>2. w \notin A /\ B = IF v.op = "detalle" /\ v.cuenta = s THEN A \cup {w} ELSE A
    BY <1>1, <2>1 DEF PorContar
  <2>3. IsFiniteSet(A) /\ Cardinality(A) \in Nat  BY <2>1, LectoresFinitos
  <2>4. Cardinality(A \cup {w}) = Cardinality(A) + 1  BY ONLY <2>2, <2>3, FS_AddElement
  <2> QED BY <2>1, <2>2, <2>3, <2>4
<1> QED BY <1>1, <1>2, <1>3

\* A request that held v ends.
LEMMA SaleLector ==
    ASSUME TablerosTypeOK, NEW w \in Lectores, NEW v, v = lector[w], v.op # "libre", Desocupa(w)
    PROVE  /\ lector' \in [Lectores -> Lector]
           /\ \A o \in Lectores : lector'[o] = IF o = w THEN SinLector ELSE lector[o]
           /\ \A op \in {"detalle", "venta"} :
                Cardinality(DeTipo(op)') = Cardinality(DeTipo(op)) - IF v.op = op THEN 1 ELSE 0
           /\ \A s \in Puntos :
                Cardinality(PorContar(s)') = Cardinality(PorContar(s))
                    - IF v.op = "detalle" /\ v.cuenta = s THEN 1 ELSE 0
<1>0. SinLector \in Lector /\ SinLector.op = "libre"  BY DEF SinLector, Lector
<1>1. /\ lector' \in [Lectores -> Lector]
      /\ \A o \in Lectores : lector'[o] = IF o = w THEN SinLector ELSE lector[o]
  BY <1>0 DEF Desocupa, TablerosTypeOK
<1>2. ASSUME NEW op \in {"detalle", "venta"}
      PROVE  Cardinality(DeTipo(op)') = Cardinality(DeTipo(op)) - IF v.op = op THEN 1 ELSE 0
  <2>1. PICK A, B : A = DeTipo(op) /\ B = DeTipo(op)'  OBVIOUS
  <2>2. (w \in A <=> v.op = op) /\ B = A \ {w}  BY <1>0, <1>1, <2>1 DEF DeTipo
  <2>3. IsFiniteSet(A) /\ Cardinality(A) \in Nat  BY <2>1, LectoresFinitos
  <2>4. Cardinality(A \ {w}) = IF w \in A THEN Cardinality(A) - 1 ELSE Cardinality(A)
    BY ONLY <2>3, FS_RemoveElement
  <2> QED BY <2>1, <2>2, <2>3, <2>4
<1>3. ASSUME NEW s \in Puntos
      PROVE  Cardinality(PorContar(s)') = Cardinality(PorContar(s))
                    - IF v.op = "detalle" /\ v.cuenta = s THEN 1 ELSE 0
  <2>1. PICK A, B : A = PorContar(s) /\ B = PorContar(s)'  OBVIOUS
  <2>2. (w \in A <=> v.op = "detalle" /\ v.cuenta = s) /\ B = A \ {w}
    BY <1>0, <1>1, <2>1 DEF PorContar
  <2>3. IsFiniteSet(A) /\ Cardinality(A) \in Nat  BY <2>1, LectoresFinitos
  <2>4. Cardinality(A \ {w}) = IF w \in A THEN Cardinality(A) - 1 ELSE Cardinality(A)
    BY ONLY <2>3, FS_RemoveElement
  <2> QED BY <2>1, <2>2, <2>3, <2>4
<1> QED BY <1>1, <1>2, <1>3

\* The numbers of the invariant.
LEMMA Numeros ==
    ASSUME TablerosInv
    PROVE  /\ avisos \in 0 .. MaxAvisos /\ Len(renglon) \in Nat /\ Len(venta) \in Nat
           /\ \A op \in {"detalle", "venta"} : Cardinality(DeTipo(op)) \in Nat
           /\ \A s \in Puntos :
                /\ Cardinality(PorContar(s)) \in Nat /\ Cardinality(Contados(s)) \in Nat
                /\ perdidos[s] \in 0 .. MaxAvisos /\ conteo[s]["busqueda"] \in 0 .. MaxAvisos
           /\ \A e \in Puntos \cup Casas : conteo[e]["busqueda"] \in 0 .. MaxAvisos
<1>1. renglon \in Seq(Renglon) /\ venta \in Seq(Venta)  BY DEF TablerosInv, TablerosTypeOK
<1>2. \A s \in Puntos : Cardinality(Contados(s)) \in Nat  BY <1>1, RenglonesFinitos DEF Contados
<1>3. \A e \in Puntos \cup Casas : conteo[e]["busqueda"] \in 0 .. MaxAvisos
  BY DEF TablerosInv, TablerosTypeOK, Campo
<1> QED BY <1>1, <1>2, <1>3, LectoresFinitos DEF TablerosInv, TablerosTypeOK

SumaEn(e, n) == conteo' = [conteo EXCEPT ![e]["busqueda"] = @ + n]
\* A request comes in with v, which counts in the columns of e or does not.
LEMMA AdmiteLector ==
    ASSUME TablerosInv, NEW w \in Lectores, NEW v \in Lector, v.op # "libre", Ocupa(w, v),
           LectorBien(v), NuevoAviso, NEW e \in Puntos \cup Casas, NEW n \in {0, 1},
           SumaEn(e, n),
           n = 1 /\ e \in Puntos => v.op = "detalle" /\ v.cuenta = e,
           UNCHANGED <<renglon, local, venta, mesTablero, perdidos>>
    PROVE  TablerosInv'
<1>1. /\ lector' \in [Lectores -> Lector]
      /\ \A o \in Lectores : lector'[o] = IF o = w THEN v ELSE lector[o]
      /\ \A op \in {"detalle", "venta"} :
           Cardinality(DeTipo(op)') = Cardinality(DeTipo(op)) + IF v.op = op THEN 1 ELSE 0
      /\ \A s \in Puntos :
           Cardinality(PorContar(s)') = Cardinality(PorContar(s))
               + IF v.op = "detalle" /\ v.cuenta = s THEN 1 ELSE 0
  BY EntraLector DEF TablerosInv
<1>2. avisos \in 0 .. MaxAvisos - 1 /\ avisos' = avisos + 1 /\ avisos' \in 0 .. MaxAvisos
  BY DEF NuevoAviso, TablerosInv, TablerosTypeOK
<1>3. \A d \in Puntos \cup Casas :
        conteo'[d]["busqueda"] = conteo[d]["busqueda"] + IF d = e THEN n ELSE 0
  BY DEF SumaEn, TablerosInv, TablerosTypeOK, Campo
<1>4. \A d \in Puntos \cup Casas : conteo[d]["busqueda"] <= avisos  BY DEF TablerosInv, Caben
<1>5. conteo' \in [Puntos \cup Casas -> [Campo -> 0 .. MaxAvisos]]
  <2>1. conteo[e]["busqueda"] + n \in 0 .. MaxAvisos
    <3>1. PICK a \in Nat : a = conteo[e]["busqueda"]  BY Numeros
    <3>2. a <= avisos  BY <1>4, <3>1
    <3> QED BY ONLY <1>2, <3>1, <3>2, n \in {0, 1}, MaxAvisos \in Nat
  <2> QED BY <2>1 DEF SumaEn, TablerosInv, TablerosTypeOK, Campo
<1>6. TablerosTypeOK'  BY <1>1, <1>2, <1>5 DEF TablerosInv, TablerosTypeOK
<1>7. Caben'
  <2>1. Len(renglon) + Cardinality(DeTipo("detalle"))' <= avisos'
    BY <1>1, <1>2, Numeros DEF TablerosInv, Caben
  <2>2. Len(venta) + Cardinality(DeTipo("venta"))' <= avisos'
    BY <1>1, <1>2, Numeros DEF TablerosInv, Caben
  <2>3. \A d \in Puntos \cup Casas : conteo'[d]["busqueda"] <= avisos'
    <3> SUFFICES ASSUME NEW d \in Puntos \cup Casas PROVE conteo'[d]["busqueda"] <= avisos'  OBVIOUS
    <3>1. PICK a \in Int : a = conteo[d]["busqueda"]  BY Numeros
    <3>2. a <= avisos /\ conteo'[d]["busqueda"] \in {a, a + 1}  BY <1>3, <1>4, <3>1
    <3> QED BY <1>2, <3>2
  <2>4. \A s \in Puntos : local[s].likes <= avisos' /\ local[s].promos <= avisos'
    <3> SUFFICES ASSUME NEW s \in Puntos
                 PROVE  local[s].likes <= avisos' /\ local[s].promos <= avisos'
      OBVIOUS
    <3>0. local[s].likes \in 0 .. MaxAvisos /\ local[s].promos \in 0 .. MaxAvisos
      BY DEF TablerosInv, TablerosTypeOK
    <3>1. PICK a, b \in Int : a = local[s].likes /\ b = local[s].promos  BY <3>0
    <3>2. a <= avisos /\ b <= avisos  BY <3>1 DEF TablerosInv, Caben
    <3> QED BY <1>2, <3>1, <3>2
  <2>5. \A s \in Puntos : perdidos[s] + Cardinality(PorContar(s))' <= avisos'
    <3> SUFFICES ASSUME NEW s \in Puntos
                 PROVE  perdidos[s] + Cardinality(PorContar(s))' <= avisos'
      OBVIOUS
    <3>1. PICK a, b \in Int : a = perdidos[s] /\ b = Cardinality(PorContar(s))  BY Numeros
    <3>2. a + b <= avisos  BY <3>1 DEF TablerosInv, Caben
    <3>3. Cardinality(PorContar(s))' \in {b, b + 1}  BY <1>1, <3>1
    <3> QED BY <1>2, <3>1, <3>2, <3>3
  <2> QED BY <2>1, <2>2, <2>3, <2>4, <2>5 DEF Caben
<1>8. \A i \in DOMAIN renglon' : RenglonBien(renglon[i])'  BY DEF TablerosInv, RenglonBien
<1>9. \A o \in Lectores : LectorBien(lector[o])'  BY <1>1 DEF TablerosInv, LectorBien, RenglonBien
<1>10. ASSUME NEW s \in Puntos
       PROVE  conteo'[s]["busqueda"] <= Cardinality(Contados(s))' + perdidos'[s]
                                    + Cardinality(PorContar(s))'
  <2>1. Contados(s)' = Contados(s)  BY DEF Contados
  <2>2. conteo[s]["busqueda"] <= Cardinality(Contados(s)) + perdidos[s]
                                    + Cardinality(PorContar(s))
    BY DEF TablerosInv
  <2>3. PICK a, b, c, d \in Int : /\ a = conteo[s]["busqueda"] /\ b = Cardinality(Contados(s))
                                 /\ c = perdidos[s] /\ d = Cardinality(PorContar(s))
    BY Numeros
  <2>4. PICK x, y \in Int : x = conteo'[s]["busqueda"] /\ y = Cardinality(PorContar(s)')
    BY <1>1, <1>3, <2>3
  <2>5. /\ x <= a + 1 /\ y >= d
        /\ x = a \/ y = d + 1
    BY <1>1, <1>3, <2>3, <2>4
  <2>6. a <= b + c + d  BY <2>2, <2>3
  <2>7. x <= b + c + y  BY <2>5, <2>6
  <2> QED BY <2>1, <2>3, <2>4, <2>7
<1> QED BY <1>6, <1>7, <1>8, <1>9, <1>10 DEF TablerosInv

LEMMA Evento ==
    ASSUME TablerosInv, NEW w \in Lectores, NEW tipo \in TipoEventoEstadistica,
           NEW e \in Puntos \cup Casas, NEW punto \in Puntos \cup {NoPunto}, NEW origen,
           RegistrarEvento(w, tipo, e, punto, origen)
    PROVE  TablerosInv'
<1>1. PICK fila : fila = [tipo |-> tipo, entidad |-> IF e \in Puntos THEN e ELSE NoPunto,
                          sucursal |-> SucursalId(e, punto),
                          origen |-> NormalizeOrigen(origen), sinResultados |-> FALSE]
  OBVIOUS
<1>2. PICK quien : quien = IF e \in Puntos /\ tipo \in Campo THEN e ELSE NoPunto  OBVIOUS
<1>3. PICK v : v = [op |-> "detalle", fila |-> fila, cuenta |-> quien]  OBVIOUS
<1>4. /\ SucursalId(e, punto) \in Puntos \cup {NoPunto}
      /\ e \in Puntos => SucursalId(e, punto) \in Puntos
      /\ NormalizeOrigen(origen) \in Origen
  BY DEF SucursalId, NormalizeOrigen, Origen, RegistrarEvento
<1>5. fila \in Renglon  BY <1>1, <1>4 DEF Renglon
<1>6. v \in Lector /\ v.op = "detalle" /\ v.fila = fila /\ v.cuenta = quien
  BY <1>2, <1>3, <1>5 DEF Lector
<1>7. LectorBien(v)  BY <1>1, <1>2, <1>4, <1>6 DEF LectorBien, RenglonBien, Campo
<1>8. Ocupa(w, v) /\ NuevoAviso /\ UNCHANGED <<renglon, local, venta, mesTablero, perdidos>>
  BY <1>1, <1>2, <1>3 DEF RegistrarEvento
<1>9. CASE tipo \in Campo
  BY <1>9, <1>2, <1>6, <1>7, <1>8, AdmiteLector DEF Campo, SumaEn, RegistrarEvento
<1>10. CASE tipo \notin Campo
  <2>1. conteo' = conteo  BY <1>10 DEF RegistrarEvento
  <2>2. SumaEn(e, 0)  BY <2>1 DEF SumaEn, TablerosInv, TablerosTypeOK, Campo
  <2> QED BY <1>6, <1>7, <1>8, <2>2, AdmiteLector
<1> QED BY <1>9, <1>10

LEMMA NoCuenta ==
    ASSUME TablerosInv
    PROVE  \E e \in Puntos \cup Casas : conteo = [conteo EXCEPT ![e]["busqueda"] = @ + 0]
<1>1. PICK e : e \in Casas  OBVIOUS
<1>2. conteo = [conteo EXCEPT ![e]["busqueda"] = @ + 0]
  BY <1>1 DEF TablerosInv, TablerosTypeOK, Campo
<1> QED BY <1>1, <1>2

LEMMA SinResultados ==
    ASSUME TablerosInv, NEW w \in Lectores, NEW punto \in Puntos \cup {NoPunto}, NEW origen,
           RegistrarBusquedaSinResultados(w, punto, origen)
    PROVE  TablerosInv'
<1>1. PICK fila : fila = [tipo |-> "busqueda", entidad |-> punto, sucursal |-> punto,
                          origen |-> NormalizeOrigen(origen), sinResultados |-> TRUE]
  OBVIOUS
<1>2. PICK v : v = [op |-> "detalle", fila |-> fila, cuenta |-> NoPunto]  OBVIOUS
<1>3. fila \in Renglon /\ fila.tipo = "busqueda" /\ fila.entidad = fila.sucursal
  BY <1>1 DEF Renglon, TipoEventoEstadistica, NormalizeOrigen, Origen
<1>4. v \in Lector /\ v.op = "detalle" /\ v.fila = fila /\ v.cuenta = NoPunto
  BY <1>2, <1>3 DEF Lector
<1>5. LectorBien(v)  BY <1>3, <1>4 DEF LectorBien, RenglonBien, Renglon
<1>6. Ocupa(w, v) /\ NuevoAviso /\ UNCHANGED <<renglon, local, venta, mesTablero, perdidos>>
      /\ conteo' = conteo
  BY <1>1, <1>2 DEF RegistrarBusquedaSinResultados
<1>7. PICK e \in Puntos \cup Casas : conteo = [conteo EXCEPT ![e]["busqueda"] = @ + 0]  BY NoCuenta
<1>8. SumaEn(e, 0)  BY <1>6, <1>7 DEF SumaEn
<1> QED BY <1>4, <1>5, <1>6, <1>8, AdmiteLector

LEMMA Vende ==
    ASSUME TablerosInv, NEW w \in Lectores, NEW fila \in Venta, Registrar(w, fila)
    PROVE  TablerosInv'
<1>1. PICK v : v = [op |-> "venta", fila |-> fila]  OBVIOUS
<1>2. v \in Lector /\ v.op = "venta" /\ LectorBien(v)  BY <1>1 DEF Lector, LectorBien
<1>3. Ocupa(w, v) /\ NuevoAviso /\ UNCHANGED <<renglon, local, venta, mesTablero, perdidos>>
      /\ conteo' = conteo
  BY <1>1 DEF Registrar
<1>4. PICK e \in Puntos \cup Casas : conteo = [conteo EXCEPT ![e]["busqueda"] = @ + 0]  BY NoCuenta
<1>5. SumaEn(e, 0)  BY <1>3, <1>4 DEF SumaEn
<1> QED BY <1>2, <1>3, <1>5, AdmiteLector

\* A list of as many rows, and one more.
LEMMA UnoMas ==
    ASSUME NEW T, NEW s \in Seq(T), NEW x \in T
    PROVE  /\ Append(s, x) \in Seq(T) /\ Len(s) \in Nat /\ Len(Append(s, x)) = Len(s) + 1
           /\ DOMAIN s = 1 .. Len(s)
           /\ DOMAIN Append(s, x) = DOMAIN s \cup {Len(s) + 1}
           /\ Len(s) + 1 \notin DOMAIN s
           /\ \A i \in DOMAIN s : Append(s, x)[i] = s[i]
           /\ Append(s, x)[Len(s) + 1] = x
  OBVIOUS

LEMMA Detalle ==
    ASSUME TablerosInv, NEW w \in Lectores, RegistrarEventoDetallado(w)
    PROVE  TablerosInv'
<1>1. PICK v : v = lector[w]  OBVIOUS
<1>2. /\ v.op = "detalle" /\ v.fila \in Renglon /\ v.cuenta \in Puntos \cup {NoPunto}
      /\ LectorBien(v)
  BY <1>1, LectorForma DEF RegistrarEventoDetallado, TablerosInv
<1>3. /\ Desocupa(w) /\ renglon' = Append(renglon, v.fila)
      /\ UNCHANGED <<conteo, local, venta, avisos, mesTablero, perdidos>>
  BY <1>1 DEF RegistrarEventoDetallado
<1>4. /\ lector' \in [Lectores -> Lector]
      /\ \A o \in Lectores : lector'[o] = IF o = w THEN SinLector ELSE lector[o]
      /\ \A op \in {"detalle", "venta"} :
           Cardinality(DeTipo(op)') = Cardinality(DeTipo(op)) - IF v.op = op THEN 1 ELSE 0
      /\ \A s \in Puntos :
           Cardinality(PorContar(s)') = Cardinality(PorContar(s))
               - IF v.op = "detalle" /\ v.cuenta = s THEN 1 ELSE 0
  BY <1>1, <1>2, <1>3, SaleLector DEF TablerosInv
<1>5. renglon \in Seq(Renglon)  BY DEF TablerosInv, TablerosTypeOK
<1>6. PICK n \in Nat : n = Len(renglon)  BY <1>5
<1>7. /\ renglon' \in Seq(Renglon) /\ Len(renglon') = n + 1
      /\ DOMAIN renglon' = DOMAIN renglon \cup {n + 1} /\ n + 1 \notin DOMAIN renglon
      /\ \A i \in DOMAIN renglon : renglon'[i] = renglon[i]
      /\ renglon'[n + 1] = v.fila
  BY <1>2, <1>3, <1>5, <1>6, UnoMas
<1>8. PICK d \in Nat : d = Cardinality(DeTipo("detalle"))  BY Numeros
<1>9. n + d <= avisos /\ Cardinality(DeTipo("detalle"))' = d - 1 /\ avisos \in 0 .. MaxAvisos
      /\ Cardinality(DeTipo("detalle"))' \in Nat
  <2>1. Cardinality(DeTipo("detalle"))' = d - 1  BY <1>2, <1>4, <1>8
  <2>2. w \in DeTipo("detalle")  BY <1>1, <1>2 DEF DeTipo
  <2>3. d # 0  BY <1>8, <2>2, LectoresFinitos, FS_EmptySet
  <2> QED BY <1>6, <1>8, <2>1, <2>3 DEF TablerosInv, Caben, TablerosTypeOK
<1>10. TablerosTypeOK'  BY <1>3, <1>4, <1>7, <1>9 DEF TablerosInv, TablerosTypeOK
<1>11. Caben'
  <2>1. Len(renglon') + Cardinality(DeTipo("detalle"))' <= avisos'  BY <1>3, <1>7, <1>9
  <2>2. Cardinality(DeTipo("venta"))' = Cardinality(DeTipo("venta"))  BY <1>2, <1>4, Numeros
  <2>3. \A s \in Puntos : perdidos[s] + Cardinality(PorContar(s))' <= avisos'
    <3> SUFFICES ASSUME NEW s \in Puntos
                 PROVE  perdidos[s] + Cardinality(PorContar(s))' <= avisos'
      OBVIOUS
    <3>1. PICK a, b \in Int : a = perdidos[s] /\ b = Cardinality(PorContar(s))  BY Numeros
    <3>2. a + b <= avisos  BY <3>1 DEF TablerosInv, Caben
    <3>3. Cardinality(PorContar(s))' \in {b, b - 1}  BY <1>4, <3>1
    <3> QED BY <1>3, <1>9, <3>1, <3>2, <3>3
  <2> QED BY <1>3, <2>1, <2>2, <2>3 DEF TablerosInv, Caben
<1>12. \A i \in DOMAIN renglon' : RenglonBien(renglon'[i])
  BY <1>2, <1>7 DEF TablerosInv, LectorBien
<1>13. \A o \in Lectores : LectorBien(lector[o])'
  BY <1>4 DEF TablerosInv, LectorBien, RenglonBien, SinLector
<1>14. ASSUME NEW s \in Puntos
       PROVE  conteo'[s]["busqueda"] <= Cardinality(Contados(s))' + perdidos'[s]
                                    + Cardinality(PorContar(s))'
  <2>1. PICK A, B : A = Contados(s) /\ B = Contados(s)'  OBVIOUS
  <2>2. /\ B \in {A, A \cup {n + 1}} /\ n + 1 \notin A
        /\ v.cuenta = s => B = A \cup {n + 1}
    <3>1. A = {i \in DOMAIN renglon : renglon[i].entidad = s /\ renglon[i].tipo = "busqueda"
                                        /\ ~renglon[i].sinResultados}
      BY <2>1 DEF Contados
    <3>2. B = {i \in DOMAIN renglon' : renglon'[i].entidad = s /\ renglon'[i].tipo = "busqueda"
                                        /\ ~renglon'[i].sinResultados}
      BY <2>1 DEF Contados
    <3>3. B = IF v.fila.entidad = s /\ v.fila.tipo = "busqueda" /\ ~v.fila.sinResultados
              THEN A \cup {n + 1} ELSE A
      BY <1>7, <3>1, <3>2
    <3>4. v.cuenta = s => v.fila.entidad = s /\ v.fila.tipo = "busqueda" /\ ~v.fila.sinResultados
      BY <1>2 DEF LectorBien
    <3> QED BY <1>7, <3>1, <3>3, <3>4
  <2>3. IsFiniteSet(A) /\ Cardinality(A) \in Nat  BY <1>5, <2>1, RenglonesFinitos DEF Contados
  <2>4. Cardinality(A \cup {n + 1}) = Cardinality(A) + 1  BY ONLY <2>2, <2>3, FS_AddElement
  <2>5. PICK a, b, c, e \in Int : /\ a = conteo[s]["busqueda"] /\ b = Cardinality(A)
                                 /\ c = perdidos[s] /\ e = Cardinality(PorContar(s))
    BY <2>3, Numeros
  <2>6. a <= b + c + e  BY <2>1, <2>5 DEF TablerosInv
  <2>70. Cardinality(B) \in Int  BY <2>2, <2>3, <2>4
  <2>71. Cardinality(PorContar(s))' \in Int  BY <1>4, <2>5
  <2>7. PICK x, y \in Int : x = Cardinality(B) /\ y = Cardinality(PorContar(s))'  BY <2>70, <2>71
  <2>8. x \in {b, b + 1} /\ y = e - (IF v.cuenta = s THEN 1 ELSE 0) /\ (v.cuenta = s => x = b + 1)
    BY <1>2, <1>4, <2>2, <2>4, <2>5, <2>7
  <2>9. a <= x + c + y  BY <2>6, <2>8
  <2> QED BY <1>3, <2>1, <2>5, <2>7, <2>9
<1> QED BY <1>10, <1>11, <1>12, <1>13, <1>14 DEF TablerosInv

LEMMA GuardaLaVenta ==
    ASSUME TablerosInv, NEW w \in Lectores, GuardaVenta(w)
    PROVE  TablerosInv'
<1>1. PICK v : v = lector[w]  OBVIOUS
<1>2. v.op = "venta" /\ v.fila \in Venta  BY <1>1, LectorForma DEF GuardaVenta, TablerosInv
<1>21. PICK fila : fila = [v.fila EXCEPT !.fecha = mesTablero]  OBVIOUS
<1>22. fila \in Venta  BY <1>2, <1>21 DEF Venta, TablerosInv, TablerosTypeOK
<1>3. /\ Desocupa(w) /\ venta' = Append(venta, fila)
      /\ UNCHANGED <<conteo, renglon, local, avisos, mesTablero, perdidos>>
  BY <1>1, <1>21 DEF GuardaVenta
<1>4. /\ lector' \in [Lectores -> Lector]
      /\ \A o \in Lectores : lector'[o] = IF o = w THEN SinLector ELSE lector[o]
      /\ \A op \in {"detalle", "venta"} :
           Cardinality(DeTipo(op)') = Cardinality(DeTipo(op)) - IF v.op = op THEN 1 ELSE 0
      /\ \A s \in Puntos :
           Cardinality(PorContar(s)') = Cardinality(PorContar(s))
               - IF v.op = "detalle" /\ v.cuenta = s THEN 1 ELSE 0
  BY <1>1, <1>2, <1>3, SaleLector DEF TablerosInv
<1>5. venta \in Seq(Venta)  BY DEF TablerosInv, TablerosTypeOK
<1>6. PICK n \in Nat : n = Len(venta)  BY <1>5
<1>7. venta' \in Seq(Venta) /\ Len(venta') = n + 1  BY <1>3, <1>5, <1>6, <1>22, UnoMas
<1>8. PICK d \in Nat : d = Cardinality(DeTipo("venta"))  BY Numeros
<1>9. n + d <= avisos /\ Cardinality(DeTipo("venta"))' = d - 1 /\ avisos \in 0 .. MaxAvisos
      /\ Cardinality(DeTipo("venta"))' \in Nat
  <2>1. Cardinality(DeTipo("venta"))' = d - 1  BY <1>2, <1>4, <1>8
  <2>2. w \in DeTipo("venta")  BY <1>1, <1>2 DEF DeTipo
  <2>3. d # 0  BY <1>8, <2>2, LectoresFinitos, FS_EmptySet
  <2> QED BY <1>6, <1>8, <2>1, <2>3 DEF TablerosInv, Caben, TablerosTypeOK
<1>10. TablerosTypeOK'  BY <1>3, <1>4, <1>7, <1>9 DEF TablerosInv, TablerosTypeOK
<1>11. \A s \in Puntos : Cardinality(PorContar(s))' = Cardinality(PorContar(s))
  BY <1>2, <1>4, Numeros
<1>12. Caben'
  <2>1. Len(renglon') + Cardinality(DeTipo("detalle"))' <= avisos'
    <3>1. Cardinality(DeTipo("detalle"))' = Cardinality(DeTipo("detalle"))
      BY <1>2, <1>4, Numeros
    <3> QED BY <1>3, <3>1 DEF TablerosInv, Caben
  <2>2. Len(venta') + Cardinality(DeTipo("venta"))' <= avisos'  BY <1>3, <1>7, <1>9
  <2>3. \A e \in Puntos \cup Casas : conteo'[e]["busqueda"] <= avisos'
    BY <1>3 DEF TablerosInv, Caben
  <2>4. \A s \in Puntos : /\ local'[s].likes <= avisos' /\ local'[s].promos <= avisos'
                         /\ perdidos'[s] + Cardinality(PorContar(s))' <= avisos'
    BY <1>3, <1>11 DEF TablerosInv, Caben
  <2> QED BY <2>1, <2>2, <2>3, <2>4 DEF Caben
<1>13. \A o \in Lectores : LectorBien(lector[o])'
  BY <1>4 DEF TablerosInv, LectorBien, RenglonBien, SinLector
<1>14. \A i \in DOMAIN renglon' : RenglonBien(renglon[i])'  BY <1>3 DEF TablerosInv, RenglonBien
<1>15. \A s \in Puntos : Contados(s)' = Contados(s)  BY <1>3 DEF Contados
<1> QED BY <1>3, <1>10, <1>11, <1>12, <1>13, <1>14, <1>15 DEF TablerosInv

LEMMA FallaElLector ==
    ASSUME TablerosInv, NEW w \in Lectores, FallaLector(w)
    PROVE  TablerosInv'
<1>1. PICK v : v = lector[w]  OBVIOUS
<1>2. v.op \in {"detalle", "venta"} /\ (v.op = "detalle" => v.cuenta \in Puntos \cup {NoPunto})
  BY <1>1, LectorForma DEF FallaLector, TablerosInv
<1>3. /\ Desocupa(w)
      /\ UNCHANGED <<conteo, renglon, local, venta, avisos, mesTablero>>
      /\ perdidos' = IF v.op = "detalle" /\ v.cuenta # NoPunto
                     THEN [perdidos EXCEPT ![v.cuenta] = @ + 1] ELSE perdidos
  BY <1>1 DEF FallaLector
<1>4. /\ lector' \in [Lectores -> Lector]
      /\ \A o \in Lectores : lector'[o] = IF o = w THEN SinLector ELSE lector[o]
      /\ \A op \in {"detalle", "venta"} :
           Cardinality(DeTipo(op)') = Cardinality(DeTipo(op)) - IF v.op = op THEN 1 ELSE 0
      /\ \A s \in Puntos :
           Cardinality(PorContar(s)') = Cardinality(PorContar(s))
               - IF v.op = "detalle" /\ v.cuenta = s THEN 1 ELSE 0
  BY <1>1, <1>2, <1>3, SaleLector DEF TablerosInv
<1>5. ASSUME NEW s \in Puntos
      PROVE  /\ perdidos'[s] = perdidos[s] + IF v.op = "detalle" /\ v.cuenta = s THEN 1 ELSE 0
             /\ perdidos[s] \in Nat /\ Cardinality(PorContar(s)) \in Nat
             /\ perdidos'[s] + Cardinality(PorContar(s))' = perdidos[s] + Cardinality(PorContar(s))
             /\ perdidos'[s] \in 0 .. MaxAvisos
  <2>1. perdidos'[s] = perdidos[s] + IF v.op = "detalle" /\ v.cuenta = s THEN 1 ELSE 0
    BY <1>2, <1>3 DEF TablerosInv, TablerosTypeOK
  <2>2. PICK a, b \in Nat : a = perdidos[s] /\ b = Cardinality(PorContar(s))  BY Numeros
  <2>3. PICK c \in {0, 1} : c = IF v.op = "detalle" /\ v.cuenta = s THEN 1 ELSE 0  OBVIOUS
  <2>4. perdidos'[s] = a + c /\ Cardinality(PorContar(s))' = b - c  BY <1>4, <2>1, <2>2, <2>3
  <2>5. a + b <= avisos /\ avisos \in 0 .. MaxAvisos  BY <2>2 DEF TablerosInv, Caben, TablerosTypeOK
  <2>6. Cardinality(PorContar(s))' \in Nat
    <3>1. c = 1 => w \in PorContar(s)  BY <1>1, <2>3 DEF PorContar
    <3>2. c = 1 => b # 0  BY <2>2, <3>1, LectoresFinitos, FS_EmptySet
    <3> QED BY <2>2, <2>3, <2>4, <3>2
  <2>7. a + c \in 0 .. MaxAvisos  BY <2>2, <2>3, <2>4, <2>5, <2>6
  <2> QED BY <2>1, <2>2, <2>4, <2>7
<1>6. perdidos' \in [Puntos -> 0 .. MaxAvisos]  BY <1>3, <1>5 DEF TablerosInv, TablerosTypeOK
<1>7. TablerosTypeOK'  BY <1>3, <1>4, <1>6 DEF TablerosInv, TablerosTypeOK
<1>8. Caben'
  <2>1. Len(renglon) + Cardinality(DeTipo("detalle"))' <= avisos
    BY <1>4, Numeros DEF TablerosInv, Caben
  <2>2. Len(venta) + Cardinality(DeTipo("venta"))' <= avisos
    BY <1>4, Numeros DEF TablerosInv, Caben
  <2> QED BY <1>3, <1>5, <2>1, <2>2 DEF TablerosInv, Caben
<1>9. \A o \in Lectores : LectorBien(lector[o])'
  BY <1>4 DEF TablerosInv, LectorBien, RenglonBien, SinLector
<1>10. \A i \in DOMAIN renglon' : RenglonBien(renglon[i])'  BY <1>3 DEF TablerosInv, RenglonBien
<1>11. ASSUME NEW s \in Puntos
       PROVE  conteo'[s]["busqueda"] <= Cardinality(Contados(s))' + perdidos'[s]
                                    + Cardinality(PorContar(s))'
  <2>1. Contados(s)' = Contados(s)  BY <1>3 DEF Contados
  <2>2. PICK a, b, c, d \in Int : /\ a = conteo[s]["busqueda"] /\ b = Cardinality(Contados(s))
                                 /\ c = perdidos[s] /\ d = Cardinality(PorContar(s))
    BY Numeros
  <2>3. PICK x, y \in Int : x = perdidos'[s] /\ y = Cardinality(PorContar(s))' /\ x + y = c + d
    BY <1>4, <1>5, <2>2
  <2>4. a <= b + c + d  BY <2>2 DEF TablerosInv
  <2>5. a <= b + x + y  BY <2>3, <2>4
  <2> QED BY <1>3, <2>1, <2>2, <2>3, <2>5
<1> QED BY <1>7, <1>8, <1>9, <1>10, <1>11 DEF TablerosInv

\* Steps that touch neither the requests nor what they count.
LEMMA LoDemas ==
    ASSUME TablerosInv, NuevoAviso, UNCHANGED <<conteo, renglon, venta, lector, perdidos>>,
           mesTablero' \in 0 .. MaxMes,
           local' \in [Puntos -> [likes : Nat, promos : Nat, vivo : BOOLEAN]],
           \A s \in Puntos : local'[s].likes <= local[s].likes + 1
                               /\ local'[s].promos <= local[s].promos + 1
    PROVE  TablerosInv'
<1>1. avisos \in 0 .. MaxAvisos - 1 /\ avisos' = avisos + 1 /\ avisos' \in 0 .. MaxAvisos
  BY DEF NuevoAviso, TablerosInv, TablerosTypeOK
<1>2. /\ \A op \in {"detalle", "venta"} : DeTipo(op)' = DeTipo(op)
      /\ \A s \in Puntos : PorContar(s)' = PorContar(s) /\ Contados(s)' = Contados(s)
  BY DEF DeTipo, PorContar, Contados
<1>3. ASSUME NEW s \in Puntos
      PROVE  local'[s].likes \in 0 .. avisos' /\ local'[s].promos \in 0 .. avisos'
  <2>0. local[s].likes \in 0 .. MaxAvisos /\ local[s].promos \in 0 .. MaxAvisos
        /\ local'[s].likes \in Nat /\ local'[s].promos \in Nat
    BY DEF TablerosInv, TablerosTypeOK
  <2>1. PICK a, b \in Nat : a = local[s].likes /\ b = local[s].promos  BY <2>0
  <2>2. a <= avisos /\ b <= avisos  BY <2>1 DEF TablerosInv, Caben
  <2>3. PICK x, y \in Nat : x = local'[s].likes /\ y = local'[s].promos /\ x <= a + 1 /\ y <= b + 1
    BY <2>0, <2>1
  <2>4. x \in 0 .. avisos' /\ y \in 0 .. avisos'  BY <1>1, <2>2, <2>3
  <2> QED BY <2>3, <2>4
<1>4. local' \in [Puntos -> [likes : 0 .. MaxAvisos, promos : 0 .. MaxAvisos, vivo : BOOLEAN]]
  <2> SUFFICES ASSUME NEW s \in Puntos
               PROVE  local'[s] \in [likes : 0 .. MaxAvisos, promos : 0 .. MaxAvisos,
                                    vivo : BOOLEAN]
    OBVIOUS
  <2>1. local'[s].likes \in 0 .. MaxAvisos /\ local'[s].promos \in 0 .. MaxAvisos  BY <1>1, <1>3
  <2>2. local'[s] \in [likes : Nat, promos : Nat, vivo : BOOLEAN]  OBVIOUS
  <2> QED BY <2>1, <2>2
<1>5. TablerosTypeOK'  BY <1>1, <1>4 DEF TablerosInv, TablerosTypeOK
<1>6. Caben'
  <2>1. Len(renglon) + Cardinality(DeTipo("detalle")) <= avisos'
    BY <1>1, Numeros DEF TablerosInv, Caben
  <2>2. Len(venta) + Cardinality(DeTipo("venta")) <= avisos'
    BY <1>1, Numeros DEF TablerosInv, Caben
  <2>3. \A e \in Puntos \cup Casas : conteo[e]["busqueda"] <= avisos'
    <3> SUFFICES ASSUME NEW e \in Puntos \cup Casas PROVE conteo[e]["busqueda"] <= avisos'  OBVIOUS
    <3>1. PICK a \in Int : a = conteo[e]["busqueda"]  BY Numeros
    <3>2. a <= avisos  BY <3>1 DEF TablerosInv, Caben
    <3> QED BY <1>1, <3>1, <3>2
  <2>4. \A s \in Puntos : perdidos[s] + Cardinality(PorContar(s)) <= avisos'
    <3> SUFFICES ASSUME NEW s \in Puntos PROVE perdidos[s] + Cardinality(PorContar(s)) <= avisos'
      OBVIOUS
    <3>1. PICK a, b \in Int : a = perdidos[s] /\ b = Cardinality(PorContar(s))  BY Numeros
    <3>2. a + b <= avisos  BY <3>1 DEF TablerosInv, Caben
    <3> QED BY <1>1, <3>1, <3>2
  <2>5. \A s \in Puntos : local'[s].likes <= avisos' /\ local'[s].promos <= avisos'  BY <1>1, <1>3
  <2> QED BY <1>2, <2>1, <2>2, <2>3, <2>4, <2>5 DEF Caben
<1>7. \A o \in Lectores : LectorBien(lector[o])'  BY DEF TablerosInv, LectorBien, RenglonBien
<1>8. \A i \in DOMAIN renglon' : RenglonBien(renglon[i])'  BY DEF TablerosInv, RenglonBien
<1> QED BY <1>2, <1>5, <1>6, <1>7, <1>8 DEF TablerosInv

LEMMA CambiaElLocal ==
    ASSUME TablerosInv, NEW s \in Puntos, NEW columna \in {"likes", "promos", "vivo"},
           CambiaLocal(s, columna)
    PROVE  TablerosInv'
<1>0. local \in [Puntos -> [likes : Nat, promos : Nat, vivo : BOOLEAN]]
  BY DEF TablerosInv, TablerosTypeOK
<1>1. NuevoAviso /\ UNCHANGED <<conteo, renglon, venta, lector, perdidos>>
      /\ mesTablero' \in 0 .. MaxMes
  BY DEF CambiaLocal, TablerosInv, TablerosTypeOK
<1>2. /\ local' \in [Puntos -> [likes : Nat, promos : Nat, vivo : BOOLEAN]]
      /\ \A t \in Puntos : local'[t].likes <= local[t].likes + 1
                             /\ local'[t].promos <= local[t].promos + 1
  <2>1. CASE columna = "vivo"
    <3>1. PICK no \in BOOLEAN : no = FALSE  OBVIOUS
    <3>2. local' = [local EXCEPT ![s].vivo = no]  BY <2>1, <3>1 DEF CambiaLocal
    <3>3. \A t \in Puntos : local'[t] = IF t = s THEN [local[t] EXCEPT !.vivo = no] ELSE local[t]
      BY <1>0, <3>2
    <3>4. \A t \in Puntos : /\ local'[t] \in [likes : Nat, promos : Nat, vivo : BOOLEAN]
                            /\ local'[t].likes = local[t].likes
                            /\ local'[t].promos = local[t].promos
      BY <1>0, <3>3
    <3>5. local' \in [Puntos -> [likes : Nat, promos : Nat, vivo : BOOLEAN]]  BY <1>0, <3>2, <3>4
    <3>6. \A t \in Puntos : local[t].likes \in Nat /\ local[t].promos \in Nat  BY <1>0
    <3> QED BY <3>4, <3>5, <3>6
  <2>2. CASE columna = "likes"  BY <2>2, <1>0 DEF CambiaLocal
  <2>3. CASE columna = "promos"  BY <2>3, <1>0 DEF CambiaLocal
  <2> QED BY <2>1, <2>2, <2>3
<1> QED BY <1>1, <1>2, LoDemas

LEMMA Mes == TablerosInv /\ PasaMes => TablerosInv'
<1> SUFFICES ASSUME TablerosInv, PasaMes PROVE TablerosInv'  OBVIOUS
<1>0. local \in [Puntos -> [likes : Nat, promos : Nat, vivo : BOOLEAN]]
  BY DEF TablerosInv, TablerosTypeOK
<1>1. NuevoAviso /\ UNCHANGED <<conteo, renglon, venta, lector, perdidos>> /\ local' = local
      /\ mesTablero' \in 0 .. MaxMes
  BY DEF PasaMes, TablerosInv, TablerosTypeOK
<1>2. \A t \in Puntos : local'[t].likes <= local[t].likes + 1
                          /\ local'[t].promos <= local[t].promos + 1
  BY <1>0, <1>1
<1> QED BY <1>0, <1>1, <1>2, LoDemas

LEMMA TablerosSigue == TablerosInv /\ [TablerosNext]_tablerosVars => TablerosInv'
<1> SUFFICES ASSUME TablerosInv, [TablerosNext]_tablerosVars PROVE TablerosInv'  OBVIOUS
<1>1. CASE UNCHANGED tablerosVars
  <2>1. /\ conteo' = conteo /\ renglon' = renglon /\ local' = local /\ venta' = venta
        /\ lector' = lector /\ avisos' = avisos /\ mesTablero' = mesTablero /\ perdidos' = perdidos
    BY <1>1 DEF tablerosVars
  <2> QED BY <2>1 DEF TablerosInv, TablerosTypeOK, Caben, RenglonBien, LectorBien, DeTipo,
                      PorContar, Contados
<1>2. Range(CasaDe) \subseteq Casas  BY LaCasa DEF CasaDe, Range
<1>3. CASE TablerosNext
  BY <1>2, <1>3, Evento, SinResultados, Vende, Detalle, GuardaLaVenta, FallaElLector,
     CambiaElLocal, Mes
     DEF TablerosNext
<1> QED BY <1>1, <1>3

LEMMA DeLaCasa ==
    ASSUME NEW c, NEW columna, \A s \in Puntos : columna[s] \in Nat
    PROVE  /\ Agrupa(c, columna) = Sumatoria(columna, PuntosDe(c))
           /\ IsFiniteSet(PuntosDe(c)) /\ PuntosDe(c) \subseteq Puntos
<1>1. PICK f : f = [s \in Puntos |-> IF CasaDe[s] = c /\ local[s].vivo THEN columna[s] ELSE 0]
  OBVIOUS
<1>2. PICK R : R = PuntosDe(c)  OBVIOUS
<1>3. /\ R \subseteq Puntos
      /\ \A s \in R : f[s] = columna[s]
      /\ \A s \in Puntos \ R : f[s] = 0
      /\ \A s \in Puntos : f[s] \in Nat
  BY <1>1, <1>2 DEF PuntosDe
<1>4. IsFiniteSet(R)  BY <1>3, FS_Subset
<1>5. Sumatoria(f, R) = Sumatoria(f, Puntos)  BY ONLY <1>3, IsFiniteSet(Puntos), SumaParte
<1>6. Sumatoria(f, R) = Sumatoria(columna, R)  BY ONLY <1>3, <1>4, SumaIgual
<1>7. Agrupa(c, columna) = Sumatoria(f, Puntos)  BY <1>1, SumaEs DEF Agrupa
<1> QED BY <1>2, <1>3, <1>4, <1>5, <1>6, <1>7

\* The sums of the joins are those of the rows.
LEMMA DeAcuerdo == TablerosInv => TablerosDeAcuerdo
<1> SUFFICES ASSUME TablerosInv, NEW c \in Casas
             PROVE  ResumenNegocio(c) = GetGlobalMetricsNegocio(c)
  BY DEF TablerosDeAcuerdo
<1>1. PICK unos, bus, lik, pro :
        /\ unos = [s \in Puntos |-> 1]
        /\ bus = [s \in Puntos |-> conteo[s]["busqueda"]]
        /\ lik = [s \in Puntos |-> local[s].likes]
        /\ pro = [s \in Puntos |-> local[s].promos]
  OBVIOUS
<1>2. \A s \in Puntos : unos[s] \in Nat /\ bus[s] \in Nat /\ lik[s] \in Nat /\ pro[s] \in Nat
  BY <1>1, Numeros DEF TablerosInv, TablerosTypeOK
<1>3. PICK P : P = PuntosDe(c)  OBVIOUS
<1>4. IsFiniteSet(P) /\ P \subseteq Puntos  BY <1>1, <1>2, <1>3, DeLaCasa
<1>5. Agrupa(c, unos) = Cardinality(P)  BY <1>2, <1>3, DeLaCasa, <1>1, <1>4, SumaDeUnos
<1>6. ASSUME NEW f, NEW g, \A s \in Puntos : f[s] \in Nat /\ g[s] = f[s]
      PROVE  SumaDe(g, PuntosDe(c)) = Agrupa(c, f)
  <2>1. Agrupa(c, f) = Sumatoria(f, P)  BY <1>3, <1>6, DeLaCasa
  <2>2. Sumatoria(g, P) = Sumatoria(f, P)
    <3>1. \A s \in P : g[s] = f[s]  BY <1>4, <1>6
    <3> QED BY ONLY <1>4, <3>1, SumaIgual
  <2> QED BY <1>3, <2>1, <2>2, SumaEs
<1>7. PICK a, b : a = ResumenNegocio(c).totales /\ b = GetGlobalMetricsNegocio(c).totales  OBVIOUS
<1>8. a = [busquedas |-> Agrupa(c, bus), likes |-> Agrupa(c, lik),
           promociones |-> Agrupa(c, pro)]
  <2>1. a = [busquedas |-> Agrupa(c, [s \in Puntos |-> conteo[s]["busqueda"]]),
             likes |-> Agrupa(c, [s \in Puntos |-> local[s].likes]),
             promociones |-> Agrupa(c, [s \in Puntos |-> local[s].promos])]
    BY <1>7 DEF ResumenNegocio
  <2>2. /\ Agrupa(c, [s \in Puntos |-> conteo[s]["busqueda"]]) = Agrupa(c, bus)
        /\ Agrupa(c, [s \in Puntos |-> local[s].likes]) = Agrupa(c, lik)
        /\ Agrupa(c, [s \in Puntos |-> local[s].promos]) = Agrupa(c, pro)
    BY <1>1, Zenon
  <2> QED BY <2>1, <2>2, Zenon
<1>9. b = [k \in Columnas |-> SumaDe([s \in Puntos |-> FilaSucursal(s)[k]], PuntosDe(c))]
  BY <1>7 DEF GetGlobalMetricsNegocio
<1>10. ASSUME NEW k \in Columnas PROVE a[k] = b[k]
  <2>1. PICK g : g = [s \in Puntos |-> FilaSucursal(s)[k]]  OBVIOUS
  <2>2. b[k] = SumaDe(g, PuntosDe(c))  BY <1>9, <2>1
  <2>3. CASE k = "busquedas"  BY <1>1, <2>1, <2>3, <1>2, <1>6, <1>8, <2>2 DEF FilaSucursal
  <2>4. CASE k = "likes"  BY <1>1, <2>1, <2>4, <1>2, <1>6, <1>8, <2>2 DEF FilaSucursal
  <2>5. CASE k = "promociones"  BY <1>1, <2>1, <2>5, <1>2, <1>6, <1>8, <2>2 DEF FilaSucursal
  <2> QED BY <2>3, <2>4, <2>5 DEF Columnas
<1>11. a = b
  <2>1. a = [k \in Columnas |-> a[k]]  BY <1>8 DEF Columnas
  <2>2. b = [k \in Columnas |-> b[k]]  BY <1>9
  <2> QED BY ONLY <2>1, <2>2, <1>10, Zenon
<1>12. ResumenNegocio(c).sucursales = GetGlobalMetricsNegocio(c).sucursales
  BY <1>1, <1>3, <1>5 DEF ResumenNegocio, GetGlobalMetricsNegocio
<1>13. /\ ResumenNegocio(c) = [sucursales |-> ResumenNegocio(c).sucursales, totales |-> a]
       /\ GetGlobalMetricsNegocio(c) =
            [sucursales |-> GetGlobalMetricsNegocio(c).sucursales, totales |-> b]
  BY <1>7 DEF ResumenNegocio, GetGlobalMetricsNegocio
<1> QED BY <1>11, <1>12, <1>13

\* A set told apart in three.
Partes(U, A, B, C) ==
    /\ U = (A \cup B) \cup C /\ A \cap B = {} /\ A \cap C = {} /\ B \cap C = {}
    /\ IsFiniteSet(A) /\ IsFiniteSet(B) /\ IsFiniteSet(C)
LEMMA EnTres ==
    ASSUME NEW U, NEW A, NEW B, NEW C, Partes(U, A, B, C)
    PROVE  /\ Cardinality(U) = Cardinality(A) + Cardinality(B) + Cardinality(C)
           /\ Cardinality(A) \in Nat /\ Cardinality(B) \in Nat /\ Cardinality(C) \in Nat
<1>0. /\ U = (A \cup B) \cup C /\ A \cap B = {} /\ A \cap C = {} /\ B \cap C = {}
      /\ IsFiniteSet(A) /\ IsFiniteSet(B) /\ IsFiniteSet(C)
  BY DEF Partes
<1>1. Cardinality({}) = 0 /\ Cardinality(A) \in Nat /\ Cardinality(B) \in Nat
      /\ Cardinality(C) \in Nat
  BY <1>0, FS_EmptySet, FS_CardinalityType
<1>2. /\ IsFiniteSet(A \cup B)
      /\ Cardinality(A \cup B) = Cardinality(A) + Cardinality(B) - Cardinality(A \cap B)
  BY ONLY <1>0, FS_Union
<1>3. PICK D : D = A \cup B  OBVIOUS
<1>4. D \cap C = {} /\ IsFiniteSet(D)  BY <1>0, <1>2, <1>3
<1>5. Cardinality(D \cup C) = Cardinality(D) + Cardinality(C) - Cardinality(D \cap C)
  BY ONLY <1>0, <1>4, FS_Union
<1>6. Cardinality(A \cap B) = 0 /\ Cardinality(D \cap C) = 0  BY <1>0, <1>1, <1>4
<1>7. PICK a, b, d \in Int : a = Cardinality(A) /\ b = Cardinality(B) /\ d = Cardinality(C)  BY <1>1
<1>8. Cardinality(D) = a + b  BY <1>2, <1>3, <1>6, <1>7
<1>9. Cardinality(D \cup C) = a + b + d  BY <1>5, <1>6, <1>7, <1>8
<1> QED BY <1>0, <1>1, <1>3, <1>7, <1>9

\* A sum of two.
LEMMA SumaDeDos ==
    ASSUME NEW f, NEW x, NEW y, x # y, f[x] \in Int, f[y] \in Int
    PROVE  Sumatoria(f, {x, y}) = f[x] + f[y]
<1>1. PICK S : S = {x, y}  OBVIOUS
<1>2. IsFiniteSet({x}) /\ IsFiniteSet({y}) /\ {x} \cap {y} = {} /\ {x} \cup {y} = S
  BY <1>1, FS_Singleton
<1>3. IsFiniteSet(S)  BY ONLY <1>2, FS_Union
<1>4. x \in S /\ S \ {x} = {y} /\ y \in {y} /\ {y} \ {y} = {}  BY <1>1
<1>5. \A i \in S : f[i] \in Int  BY <1>1
<1>6. Sumatoria(f, S) = f[x] + Sumatoria(f, S \ {x})  BY ONLY <1>3, <1>4, <1>5, SumaQuita
<1>7. \A i \in {y} : f[i] \in Int  OBVIOUS
<1>8. Sumatoria(f, {y}) = f[y] + Sumatoria(f, {y} \ {y})  BY ONLY <1>2, <1>4, <1>7, SumaQuita
<1>9. Sumatoria(f, {y} \ {y}) = 0  BY <1>4, SumaVacia
<1>10. Sumatoria(f, S) = f[x] + Sumatoria(f, {y})  BY <1>4, <1>6
<1>11. PICK a, b \in Int : a = f[x] /\ b = f[y]  OBVIOUS
<1>12. Sumatoria(f, {y}) = b  BY <1>8, <1>9, <1>11
<1>13. Sumatoria(f, S) = a + b  BY <1>10, <1>11, <1>12
<1> QED BY <1>1, <1>11, <1>13

\* The rows of a kind, of both origins.
LEMMA DeUnTipo ==
    ASSUME TablerosInv, NEW s, NEW tipo
    PROVE  LET T == {i \in RenglonesDe(s) : renglon[i].tipo = tipo /\ ~renglon[i].sinResultados}
           IN  /\ SumaDe(PorOrigen(s, tipo), Origen) = Cardinality(T)
               /\ T \subseteq DOMAIN renglon
<1>0. renglon \in Seq(Renglon) /\ RenglonesDe(s) \subseteq DOMAIN renglon
  BY DEF TablerosInv, TablerosTypeOK, RenglonesDe
<1>00. \A i \in DOMAIN renglon : renglon[i].origen \in {"chat", "unknown"}
  <2> SUFFICES ASSUME NEW i \in DOMAIN renglon PROVE renglon[i].origen \in {"chat", "unknown"}
    OBVIOUS
  <2>1. renglon[i] \in Renglon  BY <1>0
  <2> QED BY <2>1 DEF Renglon, Origen
<1>1. PICK T : T = {i \in RenglonesDe(s) : renglon[i].tipo = tipo /\ ~renglon[i].sinResultados}
  OBVIOUS
<1>2. PICK A, B :
        /\ A = {i \in RenglonesDe(s) : renglon[i].tipo = tipo /\ renglon[i].origen = "chat"
                                         /\ ~renglon[i].sinResultados}
        /\ B = {i \in RenglonesDe(s) : renglon[i].tipo = tipo /\ renglon[i].origen = "unknown"
                                         /\ ~renglon[i].sinResultados}
  OBVIOUS
<1>3. A \cap B = {} /\ A \cup B = T /\ A \subseteq DOMAIN renglon /\ B \subseteq DOMAIN renglon
  BY <1>0, <1>00, <1>1, <1>2
<1>4. IsFiniteSet(A) /\ IsFiniteSet(B)  BY <1>0, <1>3, RenglonesFinitos
<1>5. /\ Cardinality(T) = Cardinality(A) + Cardinality(B)
      /\ Cardinality(A) \in Nat /\ Cardinality(B) \in Nat
  <2>1. PICK Z : Z = {} /\ IsFiniteSet(Z) /\ Cardinality(Z) = 0  BY FS_EmptySet
  <2>2. Partes(T, A, B, Z)  BY <1>3, <1>4, <2>1 DEF Partes
  <2>3. /\ Cardinality(T) = Cardinality(A) + Cardinality(B) + Cardinality(Z)
        /\ Cardinality(A) \in Nat /\ Cardinality(B) \in Nat
    BY ONLY <2>2, EnTres
  <2> QED BY <2>1, <2>3
<1>6. PICK f : f = PorOrigen(s, tipo)  OBVIOUS
<1>7. f["chat"] = Cardinality(A) /\ f["unknown"] = Cardinality(B)
  BY <1>2, <1>6 DEF PorOrigen, Origen
<1>8. Sumatoria(f, {"chat", "unknown"}) = f["chat"] + f["unknown"]
  <2>1. f["chat"] \in Int /\ f["unknown"] \in Int /\ "chat" # "unknown"  BY <1>5, <1>7
  <2> QED BY ONLY <2>1, SumaDeDos
<1> QED BY <1>1, <1>3, <1>5, <1>6, <1>7, <1>8, SumaEs DEF Origen

\* The rows of a branch are told apart by kind and origin.
LEMMA Desglose == TablerosInv => DesgloseCompleto
<1> SUFFICES ASSUME TablerosInv, NEW s \in Puntos
    PROVE  /\ \A tipo \in Campo :
                GetKpisSucursal(s)[tipo] <= SumaDe(PorOrigen(s, tipo), Origen) + perdidos[s]
                    + Cardinality(Ajenos(s))
                    + Cardinality({w \in Lectores : lector[w].op = "detalle"
                                                      /\ lector[w].cuenta = s})
           /\ Cardinality(RenglonesDe(s)) = BusquedasSinResultado(s)
                + SumaDe([t \in TipoEventoEstadistica |-> SumaDe(PorOrigen(s, t), Origen)],
                         TipoEventoEstadistica)
  BY DEF DesgloseCompleto
<1>0. renglon \in Seq(Renglon)  BY DEF TablerosInv, TablerosTypeOK
<1>1. GetKpisSucursal(s)["busqueda"] <= SumaDe(PorOrigen(s, "busqueda"), Origen) + perdidos[s]
                    + Cardinality(Ajenos(s))
                    + Cardinality({w \in Lectores : lector[w].op = "detalle"
                                                      /\ lector[w].cuenta = s})
  <2>1. PICK T, J, C :
          /\ T = {i \in RenglonesDe(s) : renglon[i].tipo = "busqueda" /\ ~renglon[i].sinResultados}
          /\ J = Ajenos(s) /\ C = Contados(s)
    OBVIOUS
  <2>2. SumaDe(PorOrigen(s, "busqueda"), Origen) = Cardinality(T)  BY <2>1, DeUnTipo
  <2>3. T \subseteq DOMAIN renglon /\ J \subseteq DOMAIN renglon /\ C \subseteq T \cup J
    <3>1. \A i \in C : i \in DOMAIN renglon /\ renglon[i].entidad = s /\ renglon[i].sucursal \in Puntos
      BY <2>1 DEF Contados, TablerosInv, RenglonBien
    <3> QED BY <2>1, <3>1 DEF Contados, RenglonesDe, Ajenos
  <2>4. IsFiniteSet(T) /\ IsFiniteSet(J) /\ Cardinality(T) \in Nat /\ Cardinality(J) \in Nat
    BY <1>0, <2>3, RenglonesFinitos
  <2>5. Cardinality(C) <= Cardinality(T) + Cardinality(J) /\ Cardinality(C) \in Nat
    <3>1. IsFiniteSet(T \cup J) /\ IsFiniteSet(T \cap J)
          /\ Cardinality(T \cup J) = Cardinality(T) + Cardinality(J) - Cardinality(T \cap J)
      BY ONLY <2>4, FS_Union, FS_Intersection
    <3>2. Cardinality(T \cap J) \in Nat /\ Cardinality(T \cup J) \in Nat
      BY ONLY <3>1, FS_CardinalityType
    <3>3. IsFiniteSet(C) /\ Cardinality(C) <= Cardinality(T \cup J)  BY ONLY <2>3, <3>1, FS_Subset
    <3>4. Cardinality(C) \in Nat  BY ONLY <3>3, FS_CardinalityType
    <3>5. PICK a, b, c, d, e \in Int : /\ a = Cardinality(T) /\ b = Cardinality(J)
             /\ c = Cardinality(T \cap J) /\ d = Cardinality(T \cup J) /\ e = Cardinality(C)
      BY <2>4, <3>2, <3>4
    <3>6. d = a + b - c /\ c >= 0 /\ e <= d  BY <3>1, <3>2, <3>3, <3>5
    <3> QED BY <3>4, <3>5, <3>6
  <2>6. PorContar(s) = {w \in Lectores : lector[w].op = "detalle" /\ lector[w].cuenta = s}
    BY DEF PorContar
  <2>7. GetKpisSucursal(s)["busqueda"] = conteo[s]["busqueda"]  BY DEF GetKpisSucursal
  <2>8. conteo[s]["busqueda"] <= Cardinality(C) + perdidos[s] + Cardinality(PorContar(s))
    BY <2>1 DEF TablerosInv
  <2>9. /\ Cardinality(T) \in Int /\ Cardinality(J) \in Int /\ Cardinality(C) \in Int
        /\ perdidos[s] \in Int /\ Cardinality(PorContar(s)) \in Int
        /\ conteo[s]["busqueda"] \in Int
    BY <2>4, <2>5, Numeros
  <2>91. PICK a, b, c \in Int : a = Cardinality(T) /\ b = Cardinality(J) /\ c = Cardinality(C)
    BY <2>9
  <2>92. PICK p, q, k \in Int :
           p = perdidos[s] /\ q = Cardinality(PorContar(s)) /\ k = conteo[s]["busqueda"]
    BY <2>9
  <2>10. k <= a + p + b + q
    <3>1. c <= a + b  BY <2>5, <2>91
    <3>2. k <= c + p + q  BY <2>8, <2>91, <2>92
    <3> QED BY <3>1, <3>2
  <2>11. /\ SumaDe(PorOrigen(s, "busqueda"), Origen) = a /\ Cardinality(Ajenos(s)) = b
         /\ GetKpisSucursal(s)["busqueda"] = k /\ perdidos[s] = p
    BY <2>1, <2>2, <2>7, <2>91, <2>92
  <2>12. Cardinality({w \in Lectores : lector[w].op = "detalle" /\ lector[w].cuenta = s}) = q
    BY <2>6, <2>92
  <2> QED BY <2>10, <2>11, <2>12
<1>2. Cardinality(RenglonesDe(s)) = BusquedasSinResultado(s)
                + SumaDe([t \in TipoEventoEstadistica |-> SumaDe(PorOrigen(s, t), Origen)],
                         TipoEventoEstadistica)
  <2>1. PICK A, B, C :
        /\ A = {i \in RenglonesDe(s) : renglon[i].tipo = "busqueda" /\ ~renglon[i].sinResultados}
        /\ B = {i \in RenglonesDe(s) : renglon[i].tipo = "favorito" /\ ~renglon[i].sinResultados}
        /\ C = {i \in RenglonesDe(s) : renglon[i].tipo = "busqueda" /\ renglon[i].sinResultados}
    OBVIOUS
  <2>2. RenglonesDe(s) \subseteq DOMAIN renglon  BY DEF RenglonesDe
  <2>3. \A i \in DOMAIN renglon : /\ renglon[i].tipo \in {"busqueda", "favorito"}
                                  /\ renglon[i].sinResultados => renglon[i].tipo = "busqueda"
    <3> SUFFICES ASSUME NEW i \in DOMAIN renglon
                 PROVE  /\ renglon[i].tipo \in {"busqueda", "favorito"}
                        /\ renglon[i].sinResultados => renglon[i].tipo = "busqueda"
      OBVIOUS
    <3>1. renglon[i] \in Renglon  BY <1>0
    <3>2. RenglonBien(renglon[i])  BY DEF TablerosInv
    <3> QED BY <3>1, <3>2 DEF RenglonBien, Renglon, TipoEventoEstadistica
  <2>4. /\ (A \cup B) \cup C = RenglonesDe(s) /\ A \cap B = {} /\ A \cap C = {} /\ B \cap C = {}
        /\ A \subseteq DOMAIN renglon /\ B \subseteq DOMAIN renglon /\ C \subseteq DOMAIN renglon
    BY <2>1, <2>2, <2>3
  <2>5. IsFiniteSet(A) /\ IsFiniteSet(B) /\ IsFiniteSet(C)  BY <1>0, <2>4, RenglonesFinitos
  <2>6. /\ Cardinality(RenglonesDe(s)) = Cardinality(A) + Cardinality(B) + Cardinality(C)
        /\ Cardinality(A) \in Nat /\ Cardinality(B) \in Nat /\ Cardinality(C) \in Nat
    <3>1. PICK U : U = RenglonesDe(s)  OBVIOUS
    <3>2. Partes(U, A, B, C)  BY <2>4, <2>5, <3>1 DEF Partes
    <3>3. /\ Cardinality(U) = Cardinality(A) + Cardinality(B) + Cardinality(C)
          /\ Cardinality(A) \in Nat /\ Cardinality(B) \in Nat /\ Cardinality(C) \in Nat
      BY ONLY <3>2, EnTres
    <3> QED BY <3>1, <3>3
  <2>7. PICK g : g = [t \in TipoEventoEstadistica |-> SumaDe(PorOrigen(s, t), Origen)]  OBVIOUS
  <2>8. g["busqueda"] = Cardinality(A) /\ g["favorito"] = Cardinality(B)
    BY <2>1, <2>7, DeUnTipo DEF TipoEventoEstadistica
  <2>9. Sumatoria(g, {"busqueda", "favorito"}) = g["busqueda"] + g["favorito"]
    <3>1. g["busqueda"] \in Int /\ g["favorito"] \in Int /\ "busqueda" # "favorito"  BY <2>6, <2>8
    <3> QED BY ONLY <3>1, SumaDeDos
  <2>10. SumaDe(g, TipoEventoEstadistica) = Cardinality(A) + Cardinality(B)
    BY <2>8, <2>9, SumaEs DEF TipoEventoEstadistica
  <2>11. BusquedasSinResultado(s) = Cardinality(C)  BY <2>1 DEF BusquedasSinResultado
  <2>12. PICK a, b, d \in Int : a = Cardinality(A) /\ b = Cardinality(B) /\ d = Cardinality(C)
    BY <2>6
  <2>13. Cardinality(RenglonesDe(s)) = a + b + d  BY <2>4, <2>6, <2>12
  <2>14. BusquedasSinResultado(s) + SumaDe(g, TipoEventoEstadistica) = d + (a + b)
    BY <2>10, <2>11, <2>12
  <2> QED BY <2>7, <2>13, <2>14
<1> QED BY <1>1, <1>2 DEF Campo

\* What a report adds up of a sale.
DeLaVenta(columna) ==
    [i \in DOMAIN venta |-> IF columna = "vendidas" THEN 1 ELSE Monto(venta[i].membresia)]
ClavesDe(S, clave) == {clave[i] : i \in S}
EsReporte(R, S, clave) ==
    R = [k \in {clave[i] : i \in S} |->
            [vendidas |-> Cardinality(ConClave(S, clave, k)),
             recaudado |-> Recaudado(ConClave(S, clave, k))]]

LEMMA Ventas ==
    ASSUME TablerosInv
    PROVE  /\ \A T : T \subseteq DOMAIN venta => IsFiniteSet(T)
           /\ \A columna : \A i \in DOMAIN venta : DeLaVenta(columna)[i] \in Int
           /\ \A i \in DOMAIN venta : venta[i] \in Venta
<1>0. venta \in Seq(Venta)  BY DEF TablerosInv, TablerosTypeOK
<1>1. PICK n \in Nat : n = Len(venta)  BY <1>0
<1>2. DOMAIN venta = 1 .. n  BY <1>0, <1>1
<1>3. IsFiniteSet(1 .. n)  BY ONLY FS_Interval, 1 \in Int, n \in Int
<1> QED BY <1>0, <1>2, <1>3, FS_Subset DEF DeLaVenta, Monto

\* A group of sales: the two columns of its row are sums over it.
LEMMA Renglones ==
    ASSUME TablerosInv, NEW G, G \subseteq DOMAIN venta
    PROVE  /\ Sumatoria(DeLaVenta("vendidas"), G) = Cardinality(G)
           /\ Sumatoria(DeLaVenta("recaudado"), G) = Recaudado(G)
<1>0. IsFiniteSet(G)  BY Ventas
<1>1. \A i \in G : DeLaVenta("vendidas")[i] = 1  BY DEF DeLaVenta
<1>2. Sumatoria(DeLaVenta("vendidas"), G) = Cardinality(G)  BY ONLY <1>0, <1>1, SumaDeUnos
<1>3. PICK f : f = [i \in DOMAIN venta |-> Monto(venta[i].membresia)]  OBVIOUS
<1>4. Recaudado(G) = Sumatoria(f, G)  BY <1>3, SumaEs DEF Recaudado
<1>5. \A i \in G : DeLaVenta("recaudado")[i] = f[i]  BY <1>3 DEF DeLaVenta
<1>6. Sumatoria(DeLaVenta("recaudado"), G) = Sumatoria(f, G)  BY ONLY <1>0, <1>5, SumaIgual
<1> QED BY <1>2, <1>4, <1>6

\* A report adds up to what it was made of, whatever it is grouped by.
LEMMA TotalDelReporte ==
    ASSUME TablerosInv, NEW S, S \subseteq DOMAIN venta, NEW clave, NEW R, EsReporte(R, S, clave),
           NEW columna \in {"vendidas", "recaudado"}
    PROVE  /\ Total(R, columna) = Sumatoria(DeLaVenta(columna), S)
           /\ Sumatoria(DeLaVenta(columna), S) \in Int
           /\ DOMAIN R = ClavesDe(S, clave)
           /\ \A k \in DOMAIN R :
                R[k][columna] = Sumatoria(DeLaVenta(columna), ConClave(S, clave, k))
<1>1. PICK K : K = {clave[i] : i \in S}  OBVIOUS
<1>2. PICK f : f = DeLaVenta(columna)  OBVIOUS
<1>3. IsFiniteSet(S) /\ \A i \in S : f[i] \in Int  BY <1>2, Ventas
<1>4. IsFiniteSet(K)  BY <1>1, <1>3, ClavesFinitas
<1>5. DOMAIN R = K  BY <1>1 DEF EsReporte
<1>6. ASSUME NEW k \in K PROVE R[k][columna] = Sumatoria(f, ConClave(S, clave, k))
  <2>1. ConClave(S, clave, k) \subseteq DOMAIN venta  BY DEF ConClave
  <2>2. R[k] = [vendidas |-> Cardinality(ConClave(S, clave, k)),
                recaudado |-> Recaudado(ConClave(S, clave, k))]
    BY <1>1 DEF EsReporte
  <2>3. CASE columna = "vendidas"  BY <1>2, <2>1, <2>2, <2>3, Renglones
  <2>4. CASE columna = "recaudado"  BY <1>2, <2>1, <2>2, <2>4, Renglones
  <2> QED BY <2>3, <2>4
<1>7. PICK g : g = [k \in DOMAIN R |-> R[k][columna]]  OBVIOUS
<1>8. \A k \in K : g[k] = Sumatoria(f, ConClave(S, clave, k))  BY <1>5, <1>6, <1>7
<1>9. \A i \in S : clave[i] \in K  BY <1>1
<1>10. Sumatoria(g, K) = Sumatoria(f, S)  BY ONLY <1>3, <1>4, <1>8, <1>9, SumaPorClave
<1>11. Total(R, columna) = Sumatoria(g, K)  BY <1>5, <1>7, SumaEs DEF Total
<1>12. Sumatoria(f, S) \in Int  BY ONLY <1>3, SumaInt
<1> QED BY <1>1, <1>2, <1>5, <1>6, <1>10, <1>11, <1>12 DEF ClavesDe

\* The reports of the sales, by what they group them.
LEMMA LosReportes ==
    /\ \A ciudades : EsReporte(ResumenVentas(ciudades), ConstruirFiltros(Anios, ciudades),
                               [i \in DOMAIN venta |-> venta[i].membresia])
    /\ EsReporte(ReportePorCiudad, ConstruirFiltros(Anios, Todas),
                 [i \in DOMAIN venta |-> <<venta[i].ciudad, venta[i].membresia>>])
    /\ \A anio : EsReporte(ReporteMensual(anio), ConstruirFiltros({anio}, Todas),
                           [i \in DOMAIN venta |-> venta[i].fecha % MesesDelAnio])
    /\ EsReporte(ReporteAnual, ConstruirFiltros(Anios, Todas), [i \in DOMAIN venta |-> Anio(i)])
<1>0. \A anios, ciudades : ConstruirFiltros(anios, ciudades) \subseteq DOMAIN venta
  BY DEF ConstruirFiltros
<1>1. ASSUME NEW ciudades
      PROVE  EsReporte(ResumenVentas(ciudades), ConstruirFiltros(Anios, ciudades),
                       [i \in DOMAIN venta |-> venta[i].membresia])
  <2>1. PICK S, c : /\ S = ConstruirFiltros(Anios, ciudades)
                    /\ c = [i \in DOMAIN venta |-> venta[i].membresia]
    OBVIOUS
  <2>2. \A i \in S : c[i] = venta[i].membresia  BY <1>0, <2>1
  <2>3. ResumenVentas(ciudades) =
          [k \in {venta[i].membresia : i \in S} |->
             [vendidas |-> Cardinality({i \in S : venta[i].membresia = k}),
              recaudado |-> Recaudado({i \in S : venta[i].membresia = k})]]
    BY <2>1 DEF ResumenVentas, Reporte
  <2>4. {venta[i].membresia : i \in S} = {c[i] : i \in S}  BY <2>2
  <2>5. \A k : {i \in S : venta[i].membresia = k} = ConClave(S, c, k)  BY <2>2 DEF ConClave
  <2>6. \A k : /\ Cardinality({i \in S : venta[i].membresia = k})
                    = Cardinality(ConClave(S, c, k))
               /\ Recaudado({i \in S : venta[i].membresia = k})
                    = Recaudado(ConClave(S, c, k))
    BY ONLY <2>5, Zenon
  <2>7. ResumenVentas(ciudades) =
          [k \in {c[i] : i \in S} |->
             [vendidas |-> Cardinality(ConClave(S, c, k)),
              recaudado |-> Recaudado(ConClave(S, c, k))]]
    BY ONLY <2>3, <2>4, <2>6
  <2> QED BY <2>1, <2>7 DEF EsReporte
<1>2. EsReporte(ReportePorCiudad, ConstruirFiltros(Anios, Todas),
                       [i \in DOMAIN venta |-> <<venta[i].ciudad, venta[i].membresia>>])
  <2>1. PICK S, c : /\ S = ConstruirFiltros(Anios, Todas)
                    /\ c = [i \in DOMAIN venta |-> <<venta[i].ciudad, venta[i].membresia>>]
    OBVIOUS
  <2>2. \A i \in S : c[i] = <<venta[i].ciudad, venta[i].membresia>>  BY <1>0, <2>1
  <2>3. ReportePorCiudad =
          [k \in {<<venta[i].ciudad, venta[i].membresia>> : i \in S} |->
             [vendidas |-> Cardinality({i \in S : <<venta[i].ciudad, venta[i].membresia>> = k}),
              recaudado |-> Recaudado({i \in S : <<venta[i].ciudad, venta[i].membresia>> = k})]]
    BY <2>1 DEF ReportePorCiudad, Reporte
  <2>4. {<<venta[i].ciudad, venta[i].membresia>> : i \in S} = {c[i] : i \in S}  BY <2>2
  <2>5. \A k : {i \in S : <<venta[i].ciudad, venta[i].membresia>> = k} = ConClave(S, c, k)
    BY <2>2 DEF ConClave
  <2>6. \A k : /\ Cardinality({i \in S : <<venta[i].ciudad, venta[i].membresia>> = k})
                    = Cardinality(ConClave(S, c, k))
               /\ Recaudado({i \in S : <<venta[i].ciudad, venta[i].membresia>> = k})
                    = Recaudado(ConClave(S, c, k))
    BY ONLY <2>5, Zenon
  <2>7. ReportePorCiudad =
          [k \in {c[i] : i \in S} |->
             [vendidas |-> Cardinality(ConClave(S, c, k)),
              recaudado |-> Recaudado(ConClave(S, c, k))]]
    BY ONLY <2>3, <2>4, <2>6
  <2> QED BY <2>1, <2>7 DEF EsReporte
<1>3. ASSUME NEW anio
      PROVE  EsReporte(ReporteMensual(anio), ConstruirFiltros({anio}, Todas),
                       [i \in DOMAIN venta |-> venta[i].fecha % MesesDelAnio])
  <2>1. PICK S, c : /\ S = ConstruirFiltros({anio}, Todas)
                    /\ c = [i \in DOMAIN venta |-> venta[i].fecha % MesesDelAnio]
    OBVIOUS
  <2>2. \A i \in S : c[i] = venta[i].fecha % MesesDelAnio  BY <1>0, <2>1
  <2>3. ReporteMensual(anio) =
          [k \in {venta[i].fecha % MesesDelAnio : i \in S} |->
             [vendidas |-> Cardinality({i \in S : venta[i].fecha % MesesDelAnio = k}),
              recaudado |-> Recaudado({i \in S : venta[i].fecha % MesesDelAnio = k})]]
    BY <2>1 DEF ReporteMensual, Reporte
  <2>4. {venta[i].fecha % MesesDelAnio : i \in S} = {c[i] : i \in S}  BY <2>2
  <2>5. \A k : {i \in S : venta[i].fecha % MesesDelAnio = k} = ConClave(S, c, k)
    BY <2>2 DEF ConClave
  <2>6. \A k : /\ Cardinality({i \in S : venta[i].fecha % MesesDelAnio = k})
                    = Cardinality(ConClave(S, c, k))
               /\ Recaudado({i \in S : venta[i].fecha % MesesDelAnio = k})
                    = Recaudado(ConClave(S, c, k))
    BY ONLY <2>5, Zenon
  <2>7. ReporteMensual(anio) =
          [k \in {c[i] : i \in S} |->
             [vendidas |-> Cardinality(ConClave(S, c, k)),
              recaudado |-> Recaudado(ConClave(S, c, k))]]
    BY ONLY <2>3, <2>4, <2>6
  <2> QED BY <2>1, <2>7 DEF EsReporte
<1>4. EsReporte(ReporteAnual, ConstruirFiltros(Anios, Todas),
                       [i \in DOMAIN venta |-> Anio(i)])
  <2>1. PICK S, c : /\ S = ConstruirFiltros(Anios, Todas)
                    /\ c = [i \in DOMAIN venta |-> Anio(i)]
    OBVIOUS
  <2>2. \A i \in S : c[i] = Anio(i)  BY <1>0, <2>1
  <2>3. ReporteAnual =
          [k \in {Anio(i) : i \in S} |->
             [vendidas |-> Cardinality({i \in S : Anio(i) = k}),
              recaudado |-> Recaudado({i \in S : Anio(i) = k})]]
    BY <2>1 DEF ReporteAnual, Reporte
  <2>4. {Anio(i) : i \in S} = {c[i] : i \in S}  BY <2>2
  <2>5. \A k : {i \in S : Anio(i) = k} = ConClave(S, c, k)  BY <2>2 DEF ConClave
  <2>6. \A k : /\ Cardinality({i \in S : Anio(i) = k})
                    = Cardinality(ConClave(S, c, k))
               /\ Recaudado({i \in S : Anio(i) = k})
                    = Recaudado(ConClave(S, c, k))
    BY ONLY <2>5, Zenon
  <2>7. ReporteAnual =
          [k \in {c[i] : i \in S} |->
             [vendidas |-> Cardinality(ConClave(S, c, k)),
              recaudado |-> Recaudado(ConClave(S, c, k))]]
    BY ONLY <2>3, <2>4, <2>6
  <2> QED BY <2>1, <2>7 DEF EsReporte
<1> QED BY <1>1, <1>2, <1>3, <1>4

\* So two reports of the same sales add up the same.
LEMMA Cuadran == TablerosInv => VentasCuadran
<1> SUFFICES ASSUME TablerosInv, NEW columna \in {"vendidas", "recaudado"}
    PROVE  LET todo == Total(ResumenVentas(Todas), columna)
           IN  /\ Total(ReportePorCiudad, columna) = todo
               /\ Total(ReporteAnual, columna) = todo
               /\ \A anio \in DOMAIN ReporteAnual :
                    Total(ReporteMensual(anio), columna) = ReporteAnual[anio][columna]
               /\ todo = Total(ResumenVentas({NoCiudad}), columna)
                    + SumaDe([c \in Ciudades |-> Total(ResumenVentas({c}), columna)], Ciudades)
  BY DEF VentasCuadran
<1>1. PICK F, f : F = ConstruirFiltros(Anios, Todas) /\ f = DeLaVenta(columna)  OBVIOUS
<1>2. \A anios, ciudades : ConstruirFiltros(anios, ciudades) \subseteq DOMAIN venta
  BY DEF ConstruirFiltros
<1>3. \A i \in DOMAIN venta : f[i] \in Int  BY <1>1, Ventas
<1>4. \A ciudades : /\ Total(ResumenVentas(ciudades), columna)
                         = Sumatoria(f, ConstruirFiltros(Anios, ciudades))
                    /\ Sumatoria(f, ConstruirFiltros(Anios, ciudades)) \in Int
  BY <1>1, <1>2, LosReportes, TotalDelReporte
<1>5. Total(ReportePorCiudad, columna) = Sumatoria(f, F)
  BY <1>1, <1>2, LosReportes, TotalDelReporte
<1>6. PICK c : c = [i \in DOMAIN venta |-> Anio(i)]  OBVIOUS
<1>7. /\ Total(ReporteAnual, columna) = Sumatoria(f, F)
      /\ DOMAIN ReporteAnual = ClavesDe(F, c)
      /\ \A k \in DOMAIN ReporteAnual : ReporteAnual[k][columna] = Sumatoria(f, ConClave(F, c, k))
  <2>1. PICK R : R = ReporteAnual  OBVIOUS
  <2>2. EsReporte(R, F, c) /\ F \subseteq DOMAIN venta  BY <1>1, <1>2, <1>6, <2>1, LosReportes
  <2>3. /\ Total(R, columna) = Sumatoria(f, F) /\ DOMAIN R = ClavesDe(F, c)
        /\ \A k \in DOMAIN R : R[k][columna] = Sumatoria(f, ConClave(F, c, k))
    BY ONLY <1>1, <2>2, TablerosInv, columna \in {"vendidas", "recaudado"}, TotalDelReporte
  <2> QED BY <2>1, <2>3
<1>8. ASSUME NEW anio \in DOMAIN ReporteAnual
      PROVE  Total(ReporteMensual(anio), columna) = ReporteAnual[anio][columna]
  <2>1. PICK j \in F : anio = c[j]  BY <1>7 DEF ClavesDe
  <2>2. anio \in Anios  BY <1>1, <1>2, <1>6, <2>1 DEF ConstruirFiltros
  <2>3. ConstruirFiltros({anio}, Todas) = ConClave(F, c, anio)
    BY <1>1, <1>6, <2>2 DEF ConstruirFiltros, ConClave
  <2>4. Total(ReporteMensual(anio), columna) = Sumatoria(f, ConstruirFiltros({anio}, Todas))
    BY <1>1, <1>2, LosReportes, TotalDelReporte
  <2> QED BY <1>7, <2>3, <2>4
<1>9. PICK k, g : /\ k = [i \in DOMAIN venta |-> venta[i].ciudad]
                  /\ g = [d \in Todas |-> Total(ResumenVentas({d}), columna)]
  OBVIOUS
<1>10. ASSUME NEW d \in Todas PROVE g[d] = Sumatoria(f, ConClave(F, k, d)) /\ g[d] \in Int
  <2>1. ConstruirFiltros(Anios, {d}) = ConClave(F, k, d)
    BY <1>1, <1>9 DEF ConstruirFiltros, ConClave
  <2> QED BY <1>4, <1>9, <2>1
<1>11. IsFiniteSet(Todas) /\ IsFiniteSet(F)  BY <1>1, <1>2, FS_AddElement, Ventas DEF Todas
<1>12. \A i \in F : k[i] \in Todas /\ f[i] \in Int  BY <1>1, <1>2, <1>3, <1>9 DEF ConstruirFiltros
<1>13. Sumatoria(g, Todas) = Sumatoria(f, F)  BY ONLY <1>10, <1>11, <1>12, SumaPorClave
<1>14. \A d \in Ciudades \cup {NoCiudad} : g[d] \in Int  BY <1>10 DEF Todas
<1>15. Sumatoria(g, Ciudades \cup {NoCiudad}) = g[NoCiudad] + Sumatoria(g, Ciudades)
  BY ONLY <1>14, TablerosDatos, SumaPone
<1>16. PICK h : h = [d \in Ciudades |-> Total(ResumenVentas({d}), columna)]  OBVIOUS
<1>17. \A d \in Ciudades : h[d] = g[d]  BY <1>9, <1>16 DEF Todas
<1>18. Sumatoria(h, Ciudades) = Sumatoria(g, Ciudades)  BY ONLY <1>17, TablerosDatos, SumaIgual
<1>19. Sumatoria(f, F) = Total(ResumenVentas({NoCiudad}), columna) + SumaDe(h, Ciudades)
  BY <1>9, <1>13, <1>15, <1>18, SumaEs DEF Todas
<1> QED BY <1>1, <1>4, <1>5, <1>7, <1>8, <1>16, <1>19

\* A list of the first n: what is known of it.
EsDeLosPrimeros(L, S, valor, n) ==
    /\ L \subseteq S /\ IsFiniteSet(L)
    /\ Cardinality(L) <= n
    /\ Cardinality(S) <= n => L = S
    /\ ~(Cardinality(S) < n) => Cardinality(L) = n
    /\ \A s \in L, t \in S \ L : valor[s] >= valor[t]

LEMMA LosPrimeros ==
    ASSUME NEW S, IsFiniteSet(S), NEW valor, NEW n \in Nat, NEW L \in PrimerosDe(S, valor, n)
    PROVE  EsDeLosPrimeros(L, S, valor, n)
<1>1. /\ L \subseteq S
      /\ Cardinality(L) = (IF Cardinality(S) < n THEN Cardinality(S) ELSE n)
      /\ \A s \in L, t \in S \ L : valor[s] >= valor[t]
  BY DEF PrimerosDe
<1>2. /\ IsFiniteSet(L) /\ Cardinality(S) \in Nat /\ Cardinality(L) \in Nat
      /\ Cardinality(L) = Cardinality(S) => L = S
  BY <1>1, FS_Subset, FS_CardinalityType
<1>3. PICK a, b \in Int : a = Cardinality(S) /\ b = Cardinality(L)  BY <1>2
<1>4. b = IF a < n THEN a ELSE n  BY <1>1, <1>3
<1>5. b <= n /\ (a <= n => b = a)  BY <1>4
<1> QED BY <1>1, <1>2, <1>3, <1>4, <1>5 DEF EsDeLosPrimeros

\* All of them, when there are no more.
LEMMA TodosEllos ==
    ASSUME NEW S, IsFiniteSet(S), NEW valor, NEW n \in Nat, Cardinality(S) <= n
    PROVE  PrimerosDe(S, valor, n) = {S}
<1>1. \A L \in PrimerosDe(S, valor, n) : L = S  BY LosPrimeros DEF EsDeLosPrimeros
<1>2. Cardinality(S) \in Nat  BY FS_CardinalityType
<1>3. Cardinality(S) = (IF Cardinality(S) < n THEN Cardinality(S) ELSE n)  BY <1>2
<1>4. S \in PrimerosDe(S, valor, n)  BY <1>3 DEF PrimerosDe
<1> QED BY <1>1, <1>4

LEMMA PuntosFinitos ==
    \A T : T \subseteq Puntos => /\ IsFiniteSet(T) /\ Cardinality(T) \in Nat
                              /\ Cardinality(T) <= Cardinality(Puntos)
  BY FS_Subset, FS_CardinalityType

LEMMA RankingPublico ==
    ASSUME NEW S, S \subseteq Puntos, NEW valor, NEW margen \in Nat, NEW n \in Nat,
           NEW L \in DelRanking(S, valor, margen, n)
    PROVE  L \subseteq Publicas /\ L \subseteq S /\ Cardinality(L) <= n
<1>1. PICK alta \in PrimerosDe(S, valor, margen) : L \in PrimerosDe(alta \cap Publicas, valor, n)
  BY DEF DelRanking
<1>2. alta \subseteq S  BY <1>1 DEF PrimerosDe
<1>3. PICK A : A = alta \cap Publicas  OBVIOUS
<1>4. A \subseteq Puntos  BY <1>2, <1>3
<1>5. EsDeLosPrimeros(L, A, valor, n)  BY <1>1, <1>3, <1>4, PuntosFinitos, LosPrimeros
<1> QED BY <1>2, <1>3, <1>5 DEF EsDeLosPrimeros

\* The whole ranking fits its margin.
LEMMA RankingEntero ==
    ASSUME NEW S, S \subseteq Puntos, NEW valor, NEW margen \in Nat, NEW n \in Nat,
           Cardinality(Puntos) <= margen
    PROVE  DelRanking(S, valor, margen, n) = PrimerosDe(S \cap Publicas, valor, n)
<1>1. IsFiniteSet(S) /\ Cardinality(S) <= margen
  <2>1. PICK a, b \in Int : a = Cardinality(S) /\ b = Cardinality(Puntos)  BY PuntosFinitos
  <2>2. IsFiniteSet(S) /\ a <= b  BY <2>1, PuntosFinitos
  <2> QED BY <2>1, <2>2
<1>2. PrimerosDe(S, valor, margen) = {S}  BY <1>1, TodosEllos
<1> QED BY <1>2 DEF DelRanking

\* Those suggested: some with a promotion, then the rest.
LEMMA Sugeridas ==
    ASSUME NEW n \in 1 .. 2, NEW L \in Sugeridos(n)
    PROVE  /\ L \subseteq Publicas /\ Cardinality(L) <= n
           /\ Cardinality(L) = n \/ L = Publicas
           /\ L \subseteq ConPromo \/ ConPromo \subseteq L
<1>1. PICK A : A \in PrimerosDe(ConPromo, [s \in Puntos |-> 0], n)
               /\ L \in {A \cup recientes :
                    recientes \in PrimerosDe(Publicas \ A, [s \in Puntos |-> 0],
                                             n - Cardinality(A))}
  BY DEF Sugeridos
<1>2. PICK B : B \in PrimerosDe(Publicas \ A, [s \in Puntos |-> 0], n - Cardinality(A))
               /\ L = A \cup B
  BY <1>1
<1>3. ConPromo \subseteq Publicas /\ Publicas \subseteq Puntos  BY DEF ConPromo, Publicas
<1>4. PICK z, R : z = [s \in Puntos |-> 0] /\ R = Publicas \ A  OBVIOUS
<1>5. IsFiniteSet(ConPromo) /\ IsFiniteSet(R) /\ IsFiniteSet(Publicas)
      /\ Cardinality(ConPromo) \in Nat /\ Cardinality(R) \in Nat
  BY <1>3, <1>4, PuntosFinitos
<1>6. EsDeLosPrimeros(A, ConPromo, z, n)  BY <1>1, <1>4, <1>5, LosPrimeros
<1>7. IsFiniteSet(A) /\ Cardinality(A) \in Nat  BY <1>6, FS_CardinalityType DEF EsDeLosPrimeros
<1>8. PICK a \in Nat : a = Cardinality(A) /\ a <= n  BY <1>6, <1>7 DEF EsDeLosPrimeros
<1>9. n - a \in Nat  BY <1>8
<1>10. EsDeLosPrimeros(B, R, z, n - a)  BY <1>2, <1>4, <1>5, <1>8, <1>9, LosPrimeros
<1>11. IsFiniteSet(B) /\ Cardinality(B) \in Nat /\ B \subseteq R /\ Cardinality(B) <= n - a
  BY <1>10, FS_CardinalityType DEF EsDeLosPrimeros
<1>12. PICK b \in Nat : b = Cardinality(B) /\ b <= n - a  BY <1>11
<1>13. A \cap B = {} /\ A \subseteq ConPromo  BY <1>4, <1>6, <1>11 DEF EsDeLosPrimeros
<1>14. Cardinality(L) = a + b
  <2>1. Cardinality(A \cup B) = Cardinality(A) + Cardinality(B) - Cardinality(A \cap B)
    BY ONLY <1>7, <1>11, FS_Union
  <2>2. Cardinality(A \cap B) = 0  BY <1>13, FS_EmptySet
  <2> QED BY <1>2, <1>8, <1>12, <2>1, <2>2
<1>15. Cardinality(L) <= n  BY <1>8, <1>12, <1>14
<1>16. L \subseteq Publicas  BY <1>2, <1>3, <1>4, <1>11, <1>13
<1>17. Cardinality(L) = n \/ L = Publicas
  <2>1. PICK r \in Nat : r = Cardinality(R)  BY <1>5
  <2>2. CASE r <= n - a
    <3>1. B = R  BY <1>10, <2>1, <2>2 DEF EsDeLosPrimeros
    <3> QED BY <1>2, <1>3, <1>4, <1>13, <3>1
  <2>3. CASE ~(r <= n - a)  BY <1>9, <2>3, <1>10, <2>1, <1>8, <1>12, <1>14 DEF EsDeLosPrimeros
  <2> QED BY <2>2, <2>3
<1>18. L \subseteq ConPromo \/ ConPromo \subseteq L
  <2>1. PICK p \in Nat : p = Cardinality(ConPromo)  BY <1>5
  <2>2. CASE p <= n
    <3>1. A = ConPromo  BY <1>6, <2>1, <2>2 DEF EsDeLosPrimeros
    <3> QED BY <1>2, <3>1
  <2>3. CASE ~(p <= n)
    <3>1. ~(p < n)  BY <2>3
    <3>2. a = n  BY <1>6, <1>8, <2>1, <3>1 DEF EsDeLosPrimeros
    <3>3. b = 0  BY <1>12, <3>2
    <3>4. B = {}  BY <1>11, <1>12, <3>3, FS_EmptySet
    <3> QED BY <1>2, <1>13, <3>4
  <2> QED BY <2>2, <2>3
<1> QED BY <1>15, <1>16, <1>17, <1>18

SoloPublicas(n) ==
    \A L \in MasLikes(n) \cup MasBuscados(n) \cup Sugeridos(n) :
        L \subseteq Publicas /\ Cardinality(L) <= n
LosMas(n) ==
    Cardinality(Puntos) <= n * 3 =>
        /\ MasLikes(n) = PrimerosDe({s \in Publicas : Gustado[s] > 0}, Gustado, n)
        /\ \A L \in MasBuscados(n) :
             \A s \in L, t \in Publicas \ L : Buscado[s] >= Buscado[t]
Antes(n) ==
    \A L \in Sugeridos(n) :
        /\ Cardinality(L) = n \/ L = Publicas
        /\ L \subseteq ConPromo \/ ConPromo \subseteq L
LEMMA Portada == TablerosInv => PortadaFiel
<1> SUFFICES ASSUME TablerosInv, NEW n \in 1 .. 2
             PROVE  SoloPublicas(n) /\ LosMas(n) /\ Antes(n)
  BY DEF PortadaFiel, SoloPublicas, LosMas, Antes
<1>1. n \in Nat /\ n * 3 \in Nat /\ n * 5 \in Nat  OBVIOUS
<1>2. Publicas \subseteq Puntos  BY DEF Publicas
<1>3. \A s \in Puntos : Buscado[s] \in Nat  BY Numeros DEF Buscado
<1>4. PICK G, H : G = {s \in Puntos : Gustado[s] > 0} /\ H = {s \in Puntos : Buscado[s] > 0}
  OBVIOUS
<1>5. G \subseteq Puntos /\ H \subseteq Puntos  BY <1>4
<1>6. /\ MasLikes(n) = DelRanking(G, Gustado, n * 3, n)
      /\ H = {} => MasBuscados(n) = PrimerosDe(Publicas, [s \in Puntos |-> 0], n)
      /\ H # {} => MasBuscados(n) = DelRanking(H, Buscado, n * 5, n)
  BY <1>4 DEF MasLikes, MasBuscados
<1>7. \A L \in MasLikes(n) : L \subseteq Publicas /\ Cardinality(L) <= n
  BY <1>1, <1>5, <1>6, RankingPublico
<1>8. \A L \in MasBuscados(n) : L \subseteq Publicas /\ Cardinality(L) <= n
  <2>1. CASE H = {}  BY <1>1, <1>2, <1>6, <2>1, PuntosFinitos, LosPrimeros DEF EsDeLosPrimeros
  <2>2. CASE H # {}  BY <1>1, <1>5, <1>6, <2>2, RankingPublico
  <2> QED BY <2>1, <2>2
<1>9. ASSUME Cardinality(Puntos) <= n * 3
      PROVE  MasLikes(n) = PrimerosDe({s \in Publicas : Gustado[s] > 0}, Gustado, n)
  BY <1>2, <1>4, <1>1, <1>5, <1>6, <1>9, RankingEntero
<1>10. ASSUME Cardinality(Puntos) <= n * 3, NEW L \in MasBuscados(n), NEW s \in L,
              NEW t \in Publicas \ L
       PROVE  Buscado[s] >= Buscado[t]
  <2>0. s \in Puntos /\ t \in Puntos  BY <1>2, <1>8
  <2>1. CASE H = {}
    <3>1. Buscado[t] = 0  BY <1>3, <1>4, <2>0, <2>1
    <3> QED BY <1>3, <2>0, <3>1
  <2>2. CASE H # {}
    <3>1. PICK a \in Nat : a = Cardinality(Puntos)  BY PuntosFinitos
    <3>2. Cardinality(Puntos) <= n * 5  BY <1>10, <3>1
    <3>3. PICK K : K = H \cap Publicas  OBVIOUS
    <3>4. MasBuscados(n) = PrimerosDe(K, Buscado, n)
      BY <1>1, <1>5, <1>6, <2>2, <3>2, <3>3, RankingEntero
    <3>5. EsDeLosPrimeros(L, K, Buscado, n)  BY <1>1, <1>2, <3>3, <3>4, PuntosFinitos, LosPrimeros
    <3>6. CASE t \in H  BY <3>3, <3>5, <3>6 DEF EsDeLosPrimeros
    <3>7. CASE t \notin H  BY <1>3, <1>4, <2>0, <3>7
    <3> QED BY <3>6, <3>7
  <2> QED BY <2>1, <2>2
<1>11. \A L \in Sugeridos(n) : L \subseteq Publicas /\ Cardinality(L) <= n  BY Sugeridas
<1>12. SoloPublicas(n)
  <2> SUFFICES ASSUME NEW L \in MasLikes(n) \cup MasBuscados(n) \cup Sugeridos(n)
               PROVE  L \subseteq Publicas /\ Cardinality(L) <= n
    BY DEF SoloPublicas
  <2>1. CASE L \in MasLikes(n)  BY <1>7, <2>1
  <2>2. CASE L \in MasBuscados(n)  BY <1>8, <2>2
  <2>3. CASE L \in Sugeridos(n)  BY <2>3, Sugeridas
  <2> QED BY <2>1, <2>2, <2>3
<1>13. Antes(n)  BY Sugeridas DEF Antes
<1>14. LosMas(n)  BY <1>9, <1>10 DEF LosMas
<1> QED BY <1>12, <1>13, <1>14

LEMMA TablerosCumplen == TablerosInv => TablerosEnRegla
  BY DeAcuerdo, Desglose, Cuadran, Portada DEF TablerosEnRegla
HIDE TablerosDatos

--------------------
(* The four together (MCSuscripciones).                                    *)

SuscriptorInv ==
    /\ ambito \in {"suscripciones", "cuentas", "metodos", "tableros"}
    /\ IInv /\ CuentasInv /\ MetodosInv /\ TablerosInv

LEMMA SuscriptorEmpieza == SuscriptorInit => SuscriptorInv
  BY EmpiezaBien, CuentasEmpieza, MetodosEmpieza, TablerosEmpieza
     DEF SuscriptorInit, SuscriptorInv

LEMMA SuscriptorSigue == SuscriptorInv /\ [SuscriptorNext]_suscriptorVars => SuscriptorInv'
<1> SUFFICES ASSUME SuscriptorInv, [SuscriptorNext]_suscriptorVars PROVE SuscriptorInv'  OBVIOUS
<1>1. ambito' = ambito  BY DEF SuscriptorNext, suscriptorVars
<1>2. /\ [Next]_vars /\ [CuentasNext]_cuentasVars
      /\ [MetodosNext]_metodosVars /\ [TablerosNext]_tablerosVars
  BY DEF SuscriptorNext, suscriptorVars
<1>3. IInv'  BY <1>2, SuscripcionesSigue DEF SuscriptorInv
<1>4. CuentasInv'  BY <1>2, CuentasSigue DEF SuscriptorInv
<1>5. MetodosInv'  BY <1>2, MetodosSigue DEF SuscriptorInv
<1>6. TablerosInv'  BY <1>2, TablerosSigue DEF SuscriptorInv
<1> QED BY <1>1, <1>3, <1>4, <1>5, <1>6 DEF SuscriptorInv

LEMMA SuscriptorSiempre == SuscriptorSpec => []SuscriptorInv
  BY SuscriptorEmpieza, SuscriptorSigue, PTL DEF SuscriptorSpec

(* Subscriptions, accounts, cards and dashboards keep the shape of their   *)
(* rows, and every call that works on them carries what its step needs.    *)
THEOREM SuscriptorTypes == SuscriptorSpec => []SuscriptorTypeOK
<1>1. SuscriptorInv => SuscriptorTypeOK
  BY DEF SuscriptorInv, IInv, CuentasInv, MetodosInv, TablerosInv, SuscriptorTypeOK
<1> QED BY <1>1, SuscriptorSiempre, PTL

(* An account its owner deleted stays deleted, with all that hangs from it *)
(* closed but for what a call admitted before left; while no two requests  *)
(* were creating the customer at once every card saved is in the list; and *)
(* the dashboards, the breakdowns, the reports of sales and the front page *)
(* agree with one another and with what was counted.                       *)
THEOREM SuscriptorSiempreEnRegla == SuscriptorSpec => []SuscriptorEnRegla
<1>1. SuscriptorInv => SuscriptorEnRegla
  BY MetodosCumplen, TablerosCumplen DEF SuscriptorInv, CuentasInv, SuscriptorEnRegla
<1> QED BY <1>1, SuscriptorSiempre, PTL
=============================================================================

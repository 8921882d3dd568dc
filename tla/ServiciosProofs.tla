----------------------------- MODULE ServiciosProofs -----------------------------
(***************************************************************************)
(* Pagos, for any number of payments, subscribers, deliveries, connections,*)
(* failures and crashes: what was paid is in the account of the subscriber,*)
(* with the balance that follows.  And four components of MCServicios.     *)
(* Horarios, for any number of days, hours, edits and requests: the table  *)
(* of hours keeps one row a day; what is shown as open follows what the    *)
(* owner was told is kept; and the label of a result agrees with the       *)
(* filter.  Facturas, for any number of requests, payments and amounts:    *)
(* every invoice breaks its total down to the centavo, and a payment has   *)
(* one live invoice while no two requests overlapped and none was          *)
(* cancelled.  Anuncios, for any number of adverts, managers, slots and    *)
(* months: an active advert was charged, what a month charges is within    *)
(* its quota, and those that run fit in the slots.  Codigos, for any number*)
(* of requests, codes, attempts, accounts deleted and calls that fail: one *)
(* code in force, that is good for one use.                                *)
(***************************************************************************)
EXTENDS Pagos, Horarios, Facturas, Anuncios, Codigos, Sumas, FiniteSetTheorems, TLAPS

--------------------
(* Pagos.  A payment succeeded is an entry of the account, once.             *)
LEMMA PagosCotas == /\ MaxMonto \in Nat /\ PoolSize \in Nat
               /\ MaxManuales \in Nat /\ MaxRepetidas \in Nat
               /\ MaxFaults \in Nat /\ MaxCrashes \in Nat
  BY PagosAssumption DEF PagosAssumption

USE PagosCotas DEF Montos, Refs, bounds, stripeVars

LEMMA Constantes ==
    /\ NoPago \notin Pagos /\ NoSuscriptor \notin Suscriptores
    /\ \A p \in Pagos : Monto[p] \in Montos /\ Monto[p] > 0
    /\ NoEvento \notin Evento
  BY PagosAssumption DEF PagosAssumption, NoEvento, Evento

\* An event names a payment; a delivery's payment is that of its event.
LEMMA EventoPago ==
    /\ \A e \in Evento : e.pago \in Pagos
    /\ \A p \in Pagos : /\ Succeeded(p) \in Evento /\ Succeeded(p).pago = p
                        /\ Failed(p) \in Evento /\ Failed(p).pago = p
    /\ NoEvento.pago = NoPago
  BY DEF Evento, Succeeded, Failed, NoEvento

--------------------
(* Types.                                                                  *)

\* The steps between the moment an amount is known and its movement.
Asentando == {"update", "connect", "saldo", "insert"}

\* What the step of a delivery, or of an administrator, says about its locals.
LocalesOK(w) ==
    /\ w.paso \notin {"idle", "saldo", "insert"} => w.evento \in Evento
    /\ w.paso \in {"attach", "begin"} => w.cargo = 0
    /\ w.paso \in Asentando => /\ w.suscriptor \in Suscriptores
                               /\ (w.cargo > 0) # (w.abono > 0)

\* A payment that is requested, announced or being settled has its row.
RegistroOK ==
    /\ \A p \in Pagos : Existe(p) <=> pedidos[p] # "none"
    /\ \A p \in Pagos : Existe(p) => pagos[p].suscriptor \in Suscriptores
    /\ \A e \in emitted : Existe(e.pago)
    /\ \A m \in Workers : worker[m].evento \in Evento => Existe(PagoDe(m))

TypeInv == TypeOK /\ RegistroOK /\ \A m \in Workers : LocalesOK(worker[m])

LEMMA IdleOK == /\ Idle \in Worker /\ LocalesOK(Idle) /\ Idle.paso = "idle"
                /\ Idle.evento = NoEvento /\ Idle.cargo = 0
  BY Constantes DEF Idle, Worker, PasosWorker, LocalesOK, Asentando

LEMMA TypeInit == Init => TypeInv
<1> SUFFICES ASSUME Init PROVE TypeInv  OBVIOUS
<1>1. TypeOK  BY IdleOK DEF NoPagoRow, Pago, Init, TypeOK
<1>2. RegistroOK  BY IdleOK, Constantes DEF Init, Existe, NoPagoRow, RegistroOK
<1> QED BY <1>1, <1>2, IdleOK DEF TypeInv, Init

\* A step of one delivery keeps the locals of all of them in order, and a
\* delivery only ever gets an event that Stripe has emitted.
EventosOK == \A q \in Workers : worker'[q].evento \in Evento =>
                 worker'[q].evento \in emitted \/ worker'[q].evento = worker[q].evento

WorkersOK == /\ worker' \in [Workers -> Worker]
             /\ \A q \in Workers : LocalesOK(worker'[q])
             /\ EventosOK

LEMMA WorkerStep ==
    ASSUME TypeInv, NEW m \in Workers, NEW w \in Worker, LocalesOK(w), Goes(m, w),
           w.evento \in Evento => w.evento \in emitted \/ w.evento = worker[m].evento
    PROVE  WorkersOK
  BY DEF TypeInv, TypeOK, Goes, WorkersOK, EventosOK

LEMMA WorkerSame == ASSUME TypeInv, UNCHANGED worker PROVE WorkersOK
  BY DEF TypeInv, TypeOK, WorkersOK, EventosOK

LEMMA WorkerEnds == ASSUME TypeInv, NEW m \in Workers, Goes(m, Idle) PROVE WorkersOK
  BY IdleOK, Constantes, WorkerStep

LEMMA WorkerMoves ==
    ASSUME TypeInv, NEW m \in Workers, NEW x \in PasosWorker, Step(m, x),
           worker[m].paso \notin {"idle", "saldo", "insert"} \/ worker[m].evento \in Evento
               \/ x \in {"idle", "saldo", "insert"},
           x \notin {"attach", "begin"} \/ worker[m].paso \in {"attach", "begin"},
           x \notin Asentando \/ worker[m].paso \in Asentando
    PROVE  WorkersOK
<1> DEFINE w == [worker[m] EXCEPT !.paso = x]
<1>1. worker[m] \in Worker /\ LocalesOK(worker[m])  BY DEF TypeInv, TypeOK
<1>2. /\ w \in Worker /\ w.paso = x /\ w.evento = worker[m].evento /\ w.cargo = worker[m].cargo
      /\ w.abono = worker[m].abono /\ w.suscriptor = worker[m].suscriptor
  BY <1>1 DEF Worker
<1>3. LocalesOK(w)
  <2> HIDE DEF w
  <2> QED BY <1>1, <1>2 DEF LocalesOK
<1>4. Goes(m, w)  BY DEF Step
<1> HIDE DEF w
<1> QED BY <1>2, <1>3, <1>4, WorkerStep

\* What every step but the creation of a payment leaves as it is.
Conserva ==
    \A p \in Pagos : /\ pedidos'[p] = "none" <=> pedidos[p] = "none"
                     /\ pagos'[p].estatus = "none" <=> pagos[p].estatus = "none"
                     /\ pagos'[p].suscriptor = pagos[p].suscriptor

LEMMA RegistroStep ==
    ASSUME TypeInv, Conserva,
           \A e \in emitted' : e \in emitted \/ (e.pago \in Pagos /\ Existe(e.pago)),
           WorkersOK
    PROVE  RegistroOK'
<1>1. \A p \in Pagos : Existe(p)' <=> Existe(p)  BY DEF Conserva, Existe
<1>2. \A p \in Pagos : Existe(p)' <=> pedidos'[p] # "none"
  BY <1>1 DEF TypeInv, RegistroOK, Conserva
<1>3. \A p \in Pagos : Existe(p)' => pagos'[p].suscriptor \in Suscriptores
  BY <1>1 DEF TypeInv, RegistroOK, Conserva
<1>4. \A e \in emitted : e.pago \in Pagos /\ Existe(e.pago)
  BY EventoPago DEF TypeInv, TypeOK, RegistroOK
<1>5. \A e \in emitted' : Existe(e.pago)'  BY <1>1, <1>4 DEF Existe
<1>6. \A m \in Workers : worker'[m].evento \in Evento => Existe(PagoDe(m))'
  <2> SUFFICES ASSUME NEW m \in Workers, NEW p \in Pagos, worker'[m].evento \in Evento,
                      p = worker'[m].evento.pago
               PROVE  Existe(p)'
    BY EventoPago DEF PagoDe
  <2>1. CASE worker'[m].evento \in emitted  BY <1>4, <1>1, <2>1
  <2>2. CASE worker'[m].evento = worker[m].evento  BY <1>1, <2>2 DEF TypeInv, RegistroOK, PagoDe
  <2> QED BY <2>1, <2>2 DEF WorkersOK, EventosOK
<1> QED BY <1>2, <1>3, <1>5, <1>6 DEF RegistroOK

\* The three parts of the invariant after a step.
LEMMA TypeStep ==
    ASSUME TypeInv, TypeOK', Conserva, WorkersOK,
           \A e \in emitted' : e \in emitted \/ (e.pago \in Pagos /\ Existe(e.pago))
    PROVE  TypeInv'
  BY RegistroStep DEF TypeInv, WorkersOK

\* A payment row keeps what a step does not assign.
LEMMA FilaStep ==
    ASSUME TypeInv, NEW p, NEW st \in {"pendiente", "pagado", "fallido"}, NEW r \in BOOLEAN,
           \/ pagos' = pagos
           \/ pagos' = [pagos EXCEPT ![p].referencia = r] 
           \/ pagos' = [pagos EXCEPT ![p].estatus = st, ![p].referencia = r] /\ p \in Pagos
                  /\ Existe(p),
           \A q \in Pagos : pedidos'[q] = "none" <=> pedidos[q] = "none"
    PROVE  pagos' \in [Pagos -> Pago] /\ Conserva
<1>1. pagos \in [Pagos -> Pago]  BY DEF TypeInv, TypeOK
<1>2. \A q \in Pagos : pagos'[q] \in Pago  BY <1>1 DEF Pago
<1>3. pagos' \in [Pagos -> Pago]  BY <1>1, <1>2
<1>4. \A q \in Pagos : /\ pagos'[q].estatus = "none" <=> pagos[q].estatus = "none"
                       /\ pagos'[q].suscriptor = pagos[q].suscriptor
  BY <1>1 DEF Pago, Existe
<1> QED BY <1>3, <1>4 DEF Conserva

\* Steps that change neither the payments nor what Stripe knows.
LEMMA TypeQuiet ==
    ASSUME TypeInv, WorkersOK, UNCHANGED <<pedidos, stripeVars, pagos>>, acked' \subseteq Evento,
           movimientos' \in [Suscriptores -> Seq(Movimiento)], activados' \subseteq Pagos,
           manuales' \in 0 .. MaxManuales, repetidas' \in 0 .. MaxRepetidas,
           faults' \in 0 .. MaxFaults, crashes' \in 0 .. MaxCrashes
    PROVE  TypeInv'
<1>1. TypeOK'  BY DEF TypeInv, TypeOK, WorkersOK
<1>2. Conserva  BY DEF Conserva
<1> QED BY <1>1, <1>2, TypeStep

\* The events of a payment that has its row.
LEMMA NuevosEventos ==
    ASSUME NEW p \in Pagos, Existe(p), emitted' \subseteq emitted \cup {Succeeded(p), Failed(p)}
    PROVE  \A e \in emitted' : e \in emitted \/ (e.pago \in Pagos /\ Existe(e.pago))
<1> SUFFICES ASSUME NEW e \in emitted', e \notin emitted
             PROVE  e.pago \in Pagos /\ Existe(e.pago)
  OBVIOUS
<1>1. e = Succeeded(p) \/ e = Failed(p)  OBVIOUS
<1>2. e.pago = p  BY <1>1, EventoPago
<1> QED BY <1>2

LEMMA TypeCheckout ==
    ASSUME TypeInv, NEW p \in Pagos, Checkout(p) \/ Confirm(p)
    PROVE  TypeInv'
<1>1. ASSUME NEW s \in Suscriptores, CreatePayment(p, s) PROVE TypeInv'
  <2>1. WorkersOK  BY <1>1, WorkerSame DEF CreatePayment
  <2> DEFINE fila == [NoPagoRow EXCEPT !.estatus = "pendiente", !.suscriptor = s]
  <2>2. fila \in Pago /\ fila.estatus = "pendiente" /\ fila.suscriptor = s  BY DEF NoPagoRow, Pago
  <2>3. pagos' = [pagos EXCEPT ![p] = fila]  BY <1>1 DEF CreatePayment
  <2> HIDE DEF fila
  <2>4. TypeOK'  BY <1>1, <2>1, <2>2, <2>3 DEF CreatePayment, TypeInv, TypeOK, WorkersOK
  <2>5. \A q \in Pagos : Existe(q)' <=> Existe(q) \/ q = p
    BY <2>2, <2>3 DEF Existe, TypeInv, TypeOK
  <2>6. RegistroOK'
    BY <1>1, <2>2, <2>3, <2>5, EventoPago DEF CreatePayment, TypeInv, TypeOK, RegistroOK, Existe,
        PagoDe
  <2> QED BY <2>1, <2>4, <2>6 DEF TypeInv, WorkersOK
<1>2. ASSUME CreateIntent(p) PROVE TypeInv'
  <2>1. WorkersOK  BY <1>2, WorkerSame DEF CreateIntent
  <2>2. pedidos[p] = "created" /\ Existe(p)  BY <1>2 DEF CreateIntent, TypeInv, RegistroOK
  <2>3. /\ pedidos' = [pedidos EXCEPT ![p] = "attach"] \/ pedidos' = [pedidos EXCEPT ![p] = "dead"]
        /\ intents' \in [Pagos -> {"none", "requires_action", "requires_method",
                              "succeeded", "canceled"}]
        /\ faults' = faults \/ (faults < MaxFaults /\ faults' = faults + 1)
    BY <1>2 DEF CreateIntent, TypeInv, TypeOK, Fault
  <2>4. emitted' \subseteq emitted \cup {Succeeded(p), Failed(p)}  BY <1>2 DEF CreateIntent
  <2>5. \A e \in emitted' : e \in emitted \/ (e.pago \in Pagos /\ Existe(e.pago))
    BY <2>2, <2>4, NuevosEventos
  <2>6. Conserva  BY <1>2, <2>2, <2>3 DEF CreateIntent, Conserva, TypeInv, TypeOK
  <2>7. TypeOK'
    <3>1. pedidos' \in [Pagos -> {"none", "created", "attach", "done", "dead"}]
      BY <2>3 DEF TypeInv, TypeOK
    <3>2. emitted' \subseteq Evento  BY <2>4, EventoPago DEF TypeInv, TypeOK
    <3>3. UNCHANGED <<acked, pagos, movimientos, activados, worker, manuales, repetidas, crashes>>
      BY <1>2 DEF CreateIntent
    <3>4. faults' \in 0 .. MaxFaults  BY <2>3 DEF TypeInv, TypeOK
    <3> QED BY <2>3, <3>1, <3>2, <3>3, <3>4 DEF TypeInv, TypeOK
  <2> QED BY <2>1, <2>5, <2>6, <2>7, TypeStep
<1>3. ASSUME AttachReference(p) PROVE TypeInv'
  <2>1. WorkersOK  BY <1>3, WorkerSame DEF AttachReference
  <2>2. /\ pedidos' = [pedidos EXCEPT ![p] = "done"] /\ pedidos[p] = "attach"
        /\ pagos' = [pagos EXCEPT ![p].referencia = TRUE]
    BY <1>3 DEF AttachReference
  <2>3. \A q \in Pagos : pedidos'[q] = "none" <=> pedidos[q] = "none"  BY <2>2 DEF TypeInv, TypeOK
  <2>4. pagos' \in [Pagos -> Pago] /\ Conserva  BY <2>2, <2>3, FilaStep
  <2>5. TypeOK'  BY <1>3, <2>1, <2>2, <2>4 DEF AttachReference, TypeInv, TypeOK, WorkersOK
  <2>6. emitted' = emitted  BY <1>3 DEF AttachReference
  <2> QED BY <2>1, <2>4, <2>5, <2>6, TypeStep
<1>4. ASSUME CheckoutFails(p) PROVE TypeInv'
  <2>1. WorkersOK  BY <1>4, WorkerSame DEF CheckoutFails
  <2>2. Conserva  BY <1>4 DEF CheckoutFails, Conserva, TypeInv, TypeOK
  <2>3. TypeOK'  BY <1>4, <2>1 DEF CheckoutFails, Fault, TypeInv, TypeOK, WorkersOK
  <2>4. emitted' = emitted  BY <1>4 DEF CheckoutFails
  <2> QED BY <2>1, <2>2, <2>3, <2>4, TypeStep
<1>5. ASSUME Confirm(p) PROVE TypeInv'
  <2>1. WorkersOK  BY <1>5, WorkerSame DEF Confirm
  <2>2. Existe(p)  BY <1>5 DEF Confirm, TypeInv, RegistroOK
  <2>3. emitted' \subseteq emitted \cup {Succeeded(p), Failed(p)}  BY <1>5 DEF Confirm
  <2>4. \A e \in emitted' : e \in emitted \/ (e.pago \in Pagos /\ Existe(e.pago))
    BY <2>2, <2>3, NuevosEventos
  <2>5. TypeOK'  BY <1>5, <2>1, <2>3, EventoPago DEF Confirm, TypeInv, TypeOK, WorkersOK
  <2>6. Conserva  BY <1>5 DEF Confirm, Conserva
  <2> QED BY <2>1, <2>4, <2>5, <2>6, TypeStep
<1> QED BY <1>1, <1>2, <1>3, <1>4, <1>5 DEF Checkout

LEMMA TypeDelivery ==
    ASSUME TypeInv, NEW m \in Workers, NEW e \in Evento, Recibe(m, e)
    PROVE  TypeInv'
<1> DEFINE w == [Idle EXCEPT !.evento = e,
                    !.paso = IF e.tipo = "succeeded" THEN "attach" ELSE "markFailed"]
<1>1. w \in Worker /\ w.evento = e /\ w.cargo = 0 /\ w.paso \in {"attach", "markFailed"}
  BY IdleOK DEF Worker, PasosWorker
<1>2. Goes(m, w) /\ e \in emitted  BY DEF Recibe
<1> HIDE DEF w
<1>3. LocalesOK(w)  BY <1>1 DEF LocalesOK, Asentando
<1>4. WorkersOK  BY <1>1, <1>2, <1>3, WorkerStep
<1>5. repetidas' \in 0 .. MaxRepetidas  BY DEF Recibe, TypeInv, TypeOK
<1>6. /\ UNCHANGED <<pedidos, stripeVars, pagos>> /\ acked' \subseteq Evento
      /\ movimientos' \in [Suscriptores -> Seq(Movimiento)] /\ activados' \subseteq Pagos
      /\ manuales' \in 0 .. MaxManuales /\ faults' \in 0 .. MaxFaults
      /\ crashes' \in 0 .. MaxCrashes
  BY DEF Recibe, TypeInv, TypeOK
<1> QED BY <1>4, <1>5, <1>6, TypeQuiet

\* The event of a delivery at a step that has one.
LEMMA EnCursoOK ==
    ASSUME TypeInv, NEW m \in Workers, worker[m].paso \notin {"idle", "saldo", "insert"}
    PROVE  /\ worker[m].evento \in Evento /\ PagoDe(m) \in Pagos /\ Existe(PagoDe(m))
           /\ acked \cup {worker[m].evento} \subseteq Evento
           /\ pagos[PagoDe(m)].suscriptor \in Suscriptores
  BY EventoPago DEF TypeInv, TypeOK, LocalesOK, RegistroOK, PagoDe

LEMMA TypeMarkAsPaid ==
    ASSUME TypeInv, NEW m \in Workers, MarkAsPaid(m)
    PROVE  TypeInv'
<1>1. ASSUME AttachExternalReferenceIfMissing(m) PROVE TypeInv'
  <2>1. WorkersOK
    BY <1>1, WorkerMoves DEF AttachExternalReferenceIfMissing, At, PasosWorker, Asentando
  <2>2. pagos' \in [Pagos -> Pago] /\ Conserva
    BY <1>1, FilaStep DEF AttachExternalReferenceIfMissing
  <2>3. TypeOK' /\ emitted' = emitted
    BY <1>1, <2>1, <2>2 DEF AttachExternalReferenceIfMissing, TypeInv, TypeOK, WorkersOK
  <2> QED BY <2>1, <2>2, <2>3, TypeStep
<1>2. ASSUME BeginMarkAsPaid(m) PROVE TypeInv'
  <2>1. /\ worker[m] \in Worker /\ worker[m].evento \in Evento /\ worker[m].cargo = 0
        /\ PagoDe(m) \in Pagos /\ pagos[PagoDe(m)].suscriptor \in Suscriptores
        /\ acked \cup {worker[m].evento} \subseteq Evento
    BY <1>2, EnCursoOK DEF BeginMarkAsPaid, At, TypeInv, TypeOK, LocalesOK
  <2> DEFINE w == [worker[m] EXCEPT !.paso = "update",
                            !.suscriptor = pagos[PagoDe(m)].suscriptor,
                            !.abono = Centavos(PagoDe(m))]
  <2>2. /\ w \in Worker /\ w.paso = "update" /\ w.evento = worker[m].evento
        /\ w.cargo = 0 /\ w.abono > 0 /\ w.suscriptor \in Suscriptores
    BY <2>1, Constantes DEF Worker, PasosWorker, Centavos
  <2>3. \/ Goes(m, w) /\ acked' = acked
        \/ Goes(m, Idle) /\ acked' = acked \cup {worker[m].evento}
    BY <1>2 DEF BeginMarkAsPaid, Responde200
  <2> HIDE DEF w
  <2>4. LocalesOK(w)  BY <2>1, <2>2 DEF LocalesOK
  <2>5. WorkersOK  BY <2>2, <2>3, <2>4, WorkerStep, WorkerEnds
  <2>6. acked' \subseteq Evento  BY <2>1, <2>3
  <2>7. UNCHANGED <<pedidos, stripeVars, pagos, movimientos, activados, bounds>>
    BY <1>2 DEF BeginMarkAsPaid
  <2> QED BY <2>5, <2>6, <2>7, TypeQuiet DEF TypeInv, TypeOK
<1>3. ASSUME UpdatePago(m) \/ ConectaMovimiento(m) PROVE TypeInv'
  BY <1>3, WorkerMoves, TypeQuiet DEF UpdatePago, ConectaMovimiento, At, PasosWorker, Asentando,
     TypeInv, TypeOK
<1>4. ASSUME CommitPago(m) PROVE TypeInv'
  <2>1. WorkersOK  BY <1>4, WorkerMoves DEF CommitPago, At, PasosWorker, Asentando
  <2>2. pagos' \in [Pagos -> Pago] /\ Conserva  BY <1>4, EnCursoOK, FilaStep DEF CommitPago, At
  <2>3. TypeOK' /\ emitted' = emitted
    BY <1>4, <2>1, <2>2 DEF CommitPago, TypeInv, TypeOK, WorkersOK
  <2> QED BY <2>1, <2>2, <2>3, TypeStep
<1>5. ASSUME RenovarOCrear(m) PROVE TypeInv'
  <2>1. WorkersOK  BY <1>5, WorkerEnds DEF RenovarOCrear, Responde200
  <2>2. PagoDe(m) \in Pagos /\ acked \cup {worker[m].evento} \subseteq Evento
    BY <1>5, EnCursoOK DEF RenovarOCrear, At
  <2>3. acked' \subseteq Evento /\ activados' \subseteq Pagos /\ faults' \in 0 .. MaxFaults
    BY <1>5, <2>2 DEF RenovarOCrear, Responde200, Fault, TypeInv, TypeOK
  <2>4. UNCHANGED <<pedidos, stripeVars, pagos, movimientos, manuales, repetidas, crashes>>
    BY <1>5 DEF RenovarOCrear
  <2> QED BY <2>1, <2>3, <2>4, TypeQuiet DEF TypeInv, TypeOK
<1> QED BY <1>1, <1>2, <1>3, <1>4, <1>5 DEF MarkAsPaid

LEMMA SaldoEntero ==
    ASSUME NEW movs \in Seq(Movimiento)
    PROVE  Cuenta!Saldo(movs) \in Int
<1>1. CASE movs = <<>>  BY <1>1 DEF Cuenta!Saldo
<1>2. CASE movs # <<>>
  <2>1. Len(movs) \in 1 .. Len(movs)  BY <1>2
  <2>2. movs[Len(movs)] \in Movimiento  BY <2>1
  <2> QED BY <1>2, <2>2 DEF Cuenta!Saldo, Movimiento
<1> QED BY <1>1, <1>2

\* The movement a transaction inserts.
Asiento(m) == [ref |-> PagoDe(m), cargo |-> worker[m].cargo, abono |-> worker[m].abono,
               saldo |-> worker[m].saldo - worker[m].cargo + worker[m].abono]

LEMMA AsientoOK ==
    ASSUME TypeInv, NEW m \in Workers, RegistraMovimiento(m)
    PROVE  /\ worker[m].suscriptor \in Suscriptores /\ Asiento(m) \in Movimiento
           /\ PagoDe(m) \in Refs
           /\ movimientos' = [movimientos EXCEPT ![worker[m].suscriptor] = Append(@, Asiento(m))]
           /\ movimientos' \in [Suscriptores -> Seq(Movimiento)]
<1>1. worker[m] \in Worker /\ LocalesOK(worker[m]) /\ worker[m].paso = "insert"
  BY DEF TypeInv, TypeOK, RegistraMovimiento, At
<1>2. worker[m].suscriptor \in Suscriptores  BY <1>1 DEF LocalesOK, Asentando
<1>3. PagoDe(m) \in Refs  BY <1>1, EventoPago DEF Worker, PagoDe
<1>4. /\ worker[m].cargo \in Montos /\ worker[m].abono \in Montos /\ worker[m].saldo \in Int
      /\ worker[m].saldo - worker[m].cargo + worker[m].abono \in Int
  BY <1>1 DEF Worker
<1>5. Asiento(m) \in Movimiento  BY <1>3, <1>4 DEF Asiento, Movimiento
<1>6. movimientos' = [movimientos EXCEPT ![worker[m].suscriptor] = Append(@, Asiento(m))]
  BY DEF RegistraMovimiento, Asiento
<1>7. movimientos' \in [Suscriptores -> Seq(Movimiento)]  BY <1>2, <1>5, <1>6 DEF TypeInv, TypeOK
<1> QED BY <1>2, <1>3, <1>5, <1>6, <1>7

LEMMA TypeMovimiento ==
    ASSUME TypeInv, NEW m \in Workers, LeeSaldo(m) \/ RegistraMovimiento(m) \/ Interbloqueo(m)
    PROVE  TypeInv'
<1>0. worker[m] \in Worker /\ LocalesOK(worker[m])  BY DEF TypeInv, TypeOK
<1>1. ASSUME LeeSaldo(m) PROVE TypeInv'
  <2> DEFINE sal == Cuenta!Saldo(movimientos[worker[m].suscriptor])
             w == [worker[m] EXCEPT !.paso = "insert", !.saldo = sal]
  <2>1. worker[m].suscriptor \in Suscriptores /\ (worker[m].cargo > 0) # (worker[m].abono > 0)
    BY <1>0, <1>1 DEF LeeSaldo, At, LocalesOK, Asentando
  <2>2. sal \in Int  BY <2>1, SaldoEntero DEF TypeInv, TypeOK
  <2>3. Goes(m, w)  BY <1>1 DEF LeeSaldo
  <2> HIDE DEF sal
  <2>4. /\ w \in Worker /\ w.paso = "insert" /\ w.evento = worker[m].evento
        /\ w.cargo = worker[m].cargo /\ w.abono = worker[m].abono
        /\ w.suscriptor = worker[m].suscriptor
    BY <1>0, <2>2 DEF Worker, PasosWorker
  <2> HIDE DEF w
  <2>5. LocalesOK(w)  BY <2>1, <2>4 DEF LocalesOK
  <2>6. WorkersOK  BY <2>3, <2>4, <2>5, WorkerStep
  <2>7. UNCHANGED <<pedidos, stripeVars, acked, pagos, movimientos, activados, bounds>>
    BY <1>1 DEF LeeSaldo
  <2> QED BY <2>6, <2>7, TypeQuiet DEF TypeInv, TypeOK
<1>2. ASSUME RegistraMovimiento(m) PROVE TypeInv'
  <2>1. PagoDe(m) # NoPago => worker[m].evento \in Evento  BY <1>0, EventoPago DEF Worker, PagoDe
  <2>2. WorkersOK
    BY <1>2, <2>1, WorkerEnds, WorkerMoves DEF RegistraMovimiento, PasosWorker, Asentando
  <2>3. movimientos' \in [Suscriptores -> Seq(Movimiento)]  BY <1>2, AsientoOK
  <2>4. UNCHANGED <<pedidos, stripeVars, acked, pagos, activados, bounds>>
    BY <1>2 DEF RegistraMovimiento
  <2> QED BY <2>2, <2>3, <2>4, TypeQuiet DEF TypeInv, TypeOK
<1>3. ASSUME Interbloqueo(m) PROVE TypeInv'
  BY <1>3, WorkerEnds, TypeQuiet DEF Interbloqueo, Responde400, TypeInv, TypeOK
<1> QED BY <1>1, <1>2, <1>3

LEMMA TypeOtros ==
    ASSUME TypeInv, NEW m \in Workers, MarkAsFailed(m) \/ Falla(m)
    PROVE  TypeInv'
<1>1. ASSUME MarkAsFailed(m) PROVE TypeInv'
  <2>1. WorkersOK  BY <1>1, WorkerEnds DEF MarkAsFailed, Responde200
  <2>2. pagos' \in [Pagos -> Pago] /\ Conserva  BY <1>1, EnCursoOK, FilaStep DEF MarkAsFailed, At
  <2>3. acked' \subseteq Evento  BY <1>1, EnCursoOK DEF MarkAsFailed, Responde200, At
  <2>4. TypeOK' /\ emitted' = emitted
    BY <1>1, <2>1, <2>2, <2>3 DEF MarkAsFailed, TypeInv, TypeOK, WorkersOK
  <2> QED BY <2>1, <2>2, <2>4, TypeStep
<1>2. ASSUME Falla(m) PROVE TypeInv'
  BY <1>2, WorkerEnds, TypeQuiet DEF Falla, Responde400, Fault, TypeInv, TypeOK
<1> QED BY <1>1, <1>2

LEMMA TypeManual ==
    ASSUME TypeInv, NEW m \in Workers, NEW s \in Suscriptores, NEW en \in Entradas,
           CrearMovimiento(m, s, en[1], en[2])
    PROVE  TypeInv'
<1> DEFINE w == [Idle EXCEPT !.paso = "saldo", !.suscriptor = s,
                             !.cargo = en[1], !.abono = en[2]]
<1>1. en[1] \in Montos /\ en[2] \in Montos  BY PagosAssumption DEF PagosAssumption
<1>2. /\ w \in Worker /\ w.paso = "saldo" /\ w.evento = NoEvento
      /\ w.suscriptor = s /\ w.cargo = en[1] /\ w.abono = en[2]
  BY <1>1, IdleOK DEF Worker, PasosWorker
<1>3. Goes(m, w) /\ (en[1] > 0) # (en[2] > 0)  BY DEF CrearMovimiento
<1> HIDE DEF w
<1>4. LocalesOK(w)  BY <1>2, <1>3 DEF LocalesOK
<1>5. WorkersOK  BY <1>2, <1>3, <1>4, Constantes, WorkerStep
<1>6. manuales' \in 0 .. MaxManuales  BY DEF CrearMovimiento, TypeInv, TypeOK
<1>7. UNCHANGED <<pedidos, stripeVars, acked, pagos, movimientos, activados,
                  repetidas, faults, crashes>>
  BY DEF CrearMovimiento
<1> QED BY <1>5, <1>6, <1>7, TypeQuiet DEF TypeInv, TypeOK

LEMMA TypeCrash == ASSUME TypeInv, Crash PROVE TypeInv'
<1>1. worker' = [q \in Workers |-> Idle]  BY DEF Crash
<1>2. WorkersOK  BY <1>1, IdleOK, Constantes DEF WorkersOK, EventosOK
<1>3. Conserva  BY DEF Crash, Conserva
<1>4. TypeOK' /\ emitted' = emitted  BY <1>2 DEF Crash, TypeInv, TypeOK, WorkersOK
<1> QED BY <1>2, <1>3, <1>4, TypeStep

LEMMA TypeNext == TypeInv /\ [Next]_vars => TypeInv'
<1> SUFFICES ASSUME TypeInv, [Next]_vars PROVE TypeInv'  OBVIOUS
<1>1. ASSUME NEW p \in Pagos, Checkout(p) \/ Confirm(p) PROVE TypeInv'  BY <1>1, TypeCheckout
<1>2. ASSUME NEW m \in Workers, Advance(m) \/ Falla(m) PROVE TypeInv'
  BY <1>2, TypeMarkAsPaid, TypeMovimiento, TypeOtros DEF Advance
<1>3. ASSUME NEW m \in Workers, NEW e \in Evento, Recibe(m, e) PROVE TypeInv'  BY <1>3, TypeDelivery
<1>4. ASSUME NEW m \in Workers, NEW s \in Suscriptores, NEW en \in Entradas,
             CrearMovimiento(m, s, en[1], en[2]) PROVE TypeInv'
  BY <1>4, TypeManual
<1>5. CASE Crash  BY <1>5, TypeCrash
<1>6. CASE UNCHANGED vars  BY <1>6 DEF vars, TypeInv, TypeOK, RegistroOK, Existe, PagoDe
<1> QED BY <1>1, <1>2, <1>3, <1>4, <1>5, <1>6 DEF Next

LEMMA TypeAlways == Spec => []TypeInv
  BY TypeInit, TypeNext, PTL DEF Spec

(* Every reachable state has the declared shape: the locals of every       *)
(* delivery fit its step, and every balance is an integer.                 *)
THEOREM TypeCorrect == Spec => []TypeOK
<1>1. TypeInv => TypeOK  BY DEF TypeInv
<1> QED BY <1>1, TypeAlways, PTL

--------------------
(* What a step changes.                                                    *)

\* A payment keeps its row and its subscriber.
LEMMA FilasCrecen ==
    ASSUME TypeInv, [Next]_vars, NEW p \in Pagos, Existe(p)
    PROVE  Existe(p)' /\ pagos'[p].suscriptor = pagos[p].suscriptor
<1>0. /\ pagos \in [Pagos -> Pago] /\ pagos[p].estatus # "none" /\ pedidos[p] # "none"
  BY DEF TypeInv, TypeOK, RegistroOK, Existe
<1>1. ASSUME NEW q \in Pagos, NEW s \in Suscriptores, CreatePayment(q, s)
      PROVE  pagos'[p] = pagos[p]
  BY <1>0, <1>1 DEF CreatePayment
<1>2. ASSUME NEW q, NEW st \in {"pagado", "fallido"},
             \/ pagos' = [pagos EXCEPT ![q].referencia = TRUE]
             \/ pagos' = [pagos EXCEPT ![q].estatus = st, ![q].referencia = TRUE]
      PROVE  pagos'[p].estatus # "none" /\ pagos'[p].suscriptor = pagos[p].suscriptor
  BY <1>0, <1>2 DEF Pago
<1>3. ASSUME NEW q \in Pagos, Checkout(q) \/ Confirm(q)
      PROVE  pagos'[p].estatus # "none" /\ pagos'[p].suscriptor = pagos[p].suscriptor
  BY <1>0, <1>1, <1>2, <1>3
     DEF Checkout, CreateIntent, AttachReference, CheckoutFails, Confirm
<1>4. ASSUME NEW m \in Workers, Advance(m) \/ Falla(m)
      PROVE  pagos'[p].estatus # "none" /\ pagos'[p].suscriptor = pagos[p].suscriptor
  BY <1>0, <1>2, <1>4
     DEF Advance, MarkAsPaid, AttachExternalReferenceIfMissing, BeginMarkAsPaid, UpdatePago,
         ConectaMovimiento, CommitPago, RenovarOCrear, MarkAsFailed, LeeSaldo,
         RegistraMovimiento, Interbloqueo, Falla
<1> QED BY <1>0, <1>3, <1>4 DEF Next, Recibe, CrearMovimiento, Crash, vars, Existe

\* Movements are only appended, and by one action.
LEMMA SoloRegistra ==
    ASSUME [Next]_vars
    PROVE  movimientos' = movimientos \/ \E m \in Workers : RegistraMovimiento(m)
<1>1. ASSUME NEW p \in Pagos, Checkout(p) \/ Confirm(p) PROVE movimientos' = movimientos
  BY <1>1 DEF Checkout, CreatePayment, CreateIntent, AttachReference, CheckoutFails, Confirm
<1>2. ASSUME NEW m \in Workers, Advance(m) \/ Falla(m), ~RegistraMovimiento(m)
      PROVE  movimientos' = movimientos
  BY <1>2 DEF Advance, MarkAsPaid, AttachExternalReferenceIfMissing, BeginMarkAsPaid, UpdatePago,
         ConectaMovimiento, CommitPago, RenovarOCrear, MarkAsFailed, LeeSaldo, Interbloqueo, Falla
<1> QED BY <1>1, <1>2 DEF Next, Recibe, CrearMovimiento, Crash, vars

\* The credits of a payment are not lost.
LEMMA AbonosCrecen ==
    ASSUME TypeInv, [Next]_vars, NEW p \in Pagos, AbonosDe(p) # {}
    PROVE  AbonosDe(p)' # {}
<1>1. Existe(p) /\ Existe(p)' /\ pagos'[p].suscriptor = pagos[p].suscriptor
  BY FilasCrecen DEF AbonosDe
<1> DEFINE s == pagos[p].suscriptor
<1>2. s \in Suscriptores /\ movimientos[s] \in Seq(Movimiento)
  BY <1>1 DEF TypeInv, TypeOK, RegistroOK
<1>3. PICK i \in DOMAIN movimientos[s] :
          movimientos[s][i].ref = p /\ movimientos[s][i].abono = Monto[p]
  BY <1>1 DEF AbonosDe
<1>4. i \in DOMAIN movimientos'[s] /\ movimientos'[s][i] = movimientos[s][i]
  <2>1. CASE movimientos' = movimientos  BY <1>3, <2>1
  <2>2. CASE \E m \in Workers : RegistraMovimiento(m)
    <3>1. PICK m \in Workers : RegistraMovimiento(m)  BY <2>2
    <3>2. /\ movimientos' = [movimientos EXCEPT ![worker[m].suscriptor] = Append(@, Asiento(m))]
          /\ Asiento(m) \in Movimiento /\ movimientos \in [Suscriptores -> Seq(Movimiento)]
      BY <3>1, AsientoOK DEF TypeInv, TypeOK
    <3>3. movimientos'[s] = movimientos[s] \/ movimientos'[s] = Append(movimientos[s], Asiento(m))
      BY <1>2, <3>2
    <3> QED BY <1>2, <1>3, <3>2, <3>3, SMTT(30)
  <2> QED BY <2>1, <2>2, SoloRegistra
<1>5. i \in AbonosDe(p)'  BY <1>1, <1>3, <1>4 DEF AbonosDe
<1> QED BY <1>5

\* A delivery stays, ends, begins, or takes one of the steps of a payment.
LEMMA Trabajo ==
    ASSUME TypeInv, [Next]_vars, NEW q \in Workers
    PROVE  \/ worker'[q] = worker[q]
           \/ worker'[q].paso \in {"idle", "attach", "begin", "markFailed"}
           \/ worker'[q].evento = NoEvento /\ worker'[q].paso = "saldo"
           \/ BeginMarkAsPaid(q) \/ UpdatePago(q) \/ ConectaMovimiento(q)
           \/ LeeSaldo(q) \/ RegistraMovimiento(q) \/ CommitPago(q)
<1>0. worker \in [Workers -> Worker]  BY DEF TypeInv, TypeOK
<1>1. ASSUME NEW p \in Pagos, Checkout(p) \/ Confirm(p) PROVE worker' = worker
  BY <1>1 DEF Checkout, CreatePayment, CreateIntent, AttachReference, CheckoutFails, Confirm
<1>2. ASSUME NEW m \in Workers, Goes(m, Idle)
      PROVE  worker'[q] = worker[q] \/ worker'[q].paso = "idle"
  BY <1>0, <1>2, IdleOK DEF Goes
<1>3. ASSUME NEW m \in Workers, NEW e \in Evento, Recibe(m, e)
      PROVE  worker'[q] = worker[q] \/ worker'[q].paso \in {"attach", "markFailed"}
  BY <1>0, <1>3, IdleOK DEF Recibe, Goes, Worker
<1>4. ASSUME NEW m \in Workers, NEW s \in Suscriptores, NEW en \in Entradas,
             CrearMovimiento(m, s, en[1], en[2])
      PROVE  \/ worker'[q] = worker[q]
             \/ worker'[q].evento = NoEvento /\ worker'[q].paso = "saldo"
  BY <1>0, <1>4, IdleOK DEF CrearMovimiento, Goes, Worker
<1>5. ASSUME NEW m \in Workers, AttachExternalReferenceIfMissing(m)
      PROVE  worker'[q] = worker[q] \/ worker'[q].paso = "begin"
  BY <1>0, <1>5 DEF AttachExternalReferenceIfMissing, Step, Goes, Worker
<1>6. ASSUME NEW m \in Workers, Falla(m) \/ MarkAsFailed(m) \/ Interbloqueo(m) \/ RenovarOCrear(m)
      PROVE  Goes(m, Idle)
  BY <1>6 DEF Falla, MarkAsFailed, Interbloqueo, RenovarOCrear, Responde200, Responde400
<1>7. ASSUME NEW m \in Workers, m # q,
             \/ BeginMarkAsPaid(m) \/ UpdatePago(m) \/ ConectaMovimiento(m)
             \/ LeeSaldo(m) \/ RegistraMovimiento(m) \/ CommitPago(m)
      PROVE  worker'[q] = worker[q]
  BY <1>0, <1>7 DEF BeginMarkAsPaid, UpdatePago, ConectaMovimiento, LeeSaldo,
                    RegistraMovimiento, CommitPago, Responde200, Step, Goes
<1>8. ASSUME NEW m \in Workers, Advance(m) \/ Falla(m)
      PROVE  \/ worker'[q] = worker[q]
             \/ worker'[q].paso \in {"idle", "begin"}
             \/ BeginMarkAsPaid(q) \/ UpdatePago(q) \/ ConectaMovimiento(q)
             \/ LeeSaldo(q) \/ RegistraMovimiento(q) \/ CommitPago(q)
  BY <1>2, <1>5, <1>6, <1>7, <1>8 DEF Advance, MarkAsPaid
<1>9. CASE Crash  BY <1>9, IdleOK DEF Crash
<1> QED BY <1>1, <1>3, <1>4, <1>8, <1>9 DEF Next, vars

--------------------
(* Balances and credits.                                                   *)

\* The balance a transaction is about to use is that of the last movement:
\* its lock kept every other insert away.
SaldoVigente ==
    \A m \in Workers : At(m, "insert") =>
        worker[m].saldo = Cuenta!Saldo(movimientos[worker[m].suscriptor])

\* What a delivery is about to credit is what its payment is worth.
Debido ==
    \A m \in Workers : worker[m].paso \in Asentando /\ worker[m].evento \in Evento =>
        /\ worker[m].abono = Monto[PagoDe(m)]
        /\ worker[m].suscriptor = pagos[PagoDe(m)].suscriptor

\* The outer transaction goes on only after the movement was committed.
Acreditado ==
    \A m \in Workers : worker[m].paso \in {"commit", "renovar"} => AbonosDe(PagoDe(m)) # {}

PagosInv == TypeInv /\ SaldoVigente /\ Debido /\ Acreditado /\ PagadoTieneAbono

LEMMA PagosInvInit == Init => PagosInv
<1> SUFFICES ASSUME Init PROVE PagosInv  OBVIOUS
<1>1. TypeInv  BY TypeInit
<1>2. SaldoVigente /\ Debido /\ Acreditado
  BY IdleOK DEF Init, SaldoVigente, Debido, Acreditado, At, Asentando
<1>3. PagadoTieneAbono  BY DEF Init, PagadoTieneAbono, NoPagoRow
<1> QED BY <1>1, <1>2, <1>3 DEF PagosInv

LEMMA Locales ==
    ASSUME TypeInv, NEW q \in Workers
    PROVE  /\ \A w : Goes(q, w) => worker'[q] = w
           /\ \A x : Step(q, x) =>
                 /\ worker'[q].paso = x /\ worker'[q].evento = worker[q].evento
                 /\ worker'[q].cargo = worker[q].cargo /\ worker'[q].abono = worker[q].abono
                 /\ worker'[q].suscriptor = worker[q].suscriptor
           /\ LeeSaldo(q) =>
                 /\ worker'[q].paso = "insert" /\ worker'[q].evento = worker[q].evento
                 /\ worker'[q].cargo = worker[q].cargo /\ worker'[q].abono = worker[q].abono
                 /\ worker'[q].suscriptor = worker[q].suscriptor
                 /\ worker'[q].saldo = Cuenta!Saldo(movimientos[worker[q].suscriptor])
           /\ BeginMarkAsPaid(q) =>
                 \/ worker'[q] = Idle
                 \/ /\ worker'[q].paso = "update" /\ worker'[q].evento = worker[q].evento
                    /\ worker'[q].suscriptor = pagos[PagoDe(q)].suscriptor
                    /\ worker'[q].abono = Monto[PagoDe(q)]
<1>1. worker \in [Workers -> Worker]  BY DEF TypeInv, TypeOK
<1>2. \A w : Goes(q, w) => worker'[q] = w  BY <1>1 DEF Goes
<1>3. \A x : Step(q, x) => worker'[q] = [worker[q] EXCEPT !.paso = x]  BY <1>2 DEF Step
<1>4. LeeSaldo(q) => worker'[q] = [worker[q] EXCEPT !.paso = "insert",
                         !.saldo = Cuenta!Saldo(movimientos[worker[q].suscriptor])]
  BY <1>2 DEF LeeSaldo
<1>5. BeginMarkAsPaid(q) =>
          \/ worker'[q] = Idle
          \/ worker'[q] = [worker[q] EXCEPT !.paso = "update",
                 !.suscriptor = pagos[PagoDe(q)].suscriptor, !.abono = Monto[PagoDe(q)]]
  BY <1>2 DEF BeginMarkAsPaid, Responde200, Centavos
<1>6. worker[q] \in Worker  BY <1>1
<1>7. ASSUME NEW x, Step(q, x)
      PROVE  /\ worker'[q].paso = x /\ worker'[q].evento = worker[q].evento
             /\ worker'[q].cargo = worker[q].cargo /\ worker'[q].abono = worker[q].abono
             /\ worker'[q].suscriptor = worker[q].suscriptor
  BY <1>3, <1>6, <1>7 DEF Worker
<1>8. ASSUME LeeSaldo(q)
      PROVE  /\ worker'[q].paso = "insert" /\ worker'[q].evento = worker[q].evento
             /\ worker'[q].cargo = worker[q].cargo /\ worker'[q].abono = worker[q].abono
             /\ worker'[q].suscriptor = worker[q].suscriptor
             /\ worker'[q].saldo = Cuenta!Saldo(movimientos[worker[q].suscriptor])
  BY <1>4, <1>6, <1>8 DEF Worker
<1>9. ASSUME BeginMarkAsPaid(q), worker'[q] # Idle
      PROVE  /\ worker'[q].paso = "update" /\ worker'[q].evento = worker[q].evento
             /\ worker'[q].suscriptor = pagos[PagoDe(q)].suscriptor
             /\ worker'[q].abono = Monto[PagoDe(q)]
  BY <1>5, <1>6, <1>9 DEF Worker
<1> QED BY <1>2, <1>7, <1>8, <1>9

LEMMA SaldoStep == PagosInv /\ [Next]_vars => SaldoVigente'
<1> SUFFICES ASSUME PagosInv, [Next]_vars, NEW q \in Workers, worker'[q].paso = "insert"
             PROVE  worker'[q].saldo = Cuenta!Saldo(movimientos[worker[q].suscriptor])'
                    /\ worker'[q].suscriptor = worker[q].suscriptor
  BY DEF SaldoVigente, At, Cuenta!Saldo
<1>0. TypeInv /\ worker \in [Workers -> Worker]  BY DEF PagosInv, TypeInv, TypeOK
<1>1. worker'[q] = worker[q] \/ LeeSaldo(q)
  <2>1. ~(BeginMarkAsPaid(q) \/ UpdatePago(q) \/ ConectaMovimiento(q)
             \/ RegistraMovimiento(q) \/ CommitPago(q))
    BY <1>0, Locales, IdleOK
       DEF UpdatePago, ConectaMovimiento, RegistraMovimiento, CommitPago
  <2> QED BY <1>0, <2>1, Trabajo
<1>2. CASE LeeSaldo(q)  BY <1>2, <1>0, Locales DEF LeeSaldo, Cuenta!Saldo
<1>3. CASE worker'[q] = worker[q]
  <2>1. worker[q].saldo = Cuenta!Saldo(movimientos[worker[q].suscriptor])
    BY <1>3 DEF PagosInv, SaldoVigente, At
  <2>2. CASE movimientos' = movimientos  BY <1>3, <2>1, <2>2 DEF Cuenta!Saldo
  <2>3. ASSUME NEW m \in Workers, RegistraMovimiento(m)
        PROVE  movimientos'[worker[q].suscriptor] = movimientos[worker[q].suscriptor]
    <3>1. m # q  BY <1>0, <1>3, <2>3, Locales, IdleOK DEF RegistraMovimiento
    <3>2. worker[m].suscriptor # worker[q].suscriptor
      BY <1>3, <2>3, <3>1 DEF RegistraMovimiento, Bloquean, At
    <3>3. worker[q].suscriptor \in Suscriptores  BY <1>0, <1>3 DEF TypeInv, LocalesOK, Asentando
    <3>4. /\ movimientos' = [movimientos EXCEPT ![worker[m].suscriptor] = Append(@, Asiento(m))]
          /\ movimientos \in [Suscriptores -> Seq(Movimiento)]
      BY <1>0, <2>3, AsientoOK DEF TypeInv, TypeOK
    <3> QED BY <3>2, <3>3, <3>4
  <2> QED BY <1>3, <2>1, <2>2, <2>3, SoloRegistra DEF Cuenta!Saldo
<1> QED BY <1>1, <1>2, <1>3

LEMMA DebidoStep == PagosInv /\ [Next]_vars => Debido'
<1> SUFFICES ASSUME PagosInv, [Next]_vars, NEW q \in Workers, NEW p \in Pagos,
                    worker'[q].paso \in Asentando, worker'[q].evento \in Evento,
                    p = worker'[q].evento.pago
             PROVE  worker'[q].abono = Monto[p] /\ worker'[q].suscriptor = pagos'[p].suscriptor
  BY EventoPago DEF Debido, PagoDe
<1>0. TypeInv /\ worker \in [Workers -> Worker]  BY DEF PagosInv, TypeInv, TypeOK
<1>1. \/ BeginMarkAsPaid(q)
      \/ /\ worker[q].paso \in Asentando /\ worker'[q].evento = worker[q].evento
         /\ worker'[q].abono = worker[q].abono /\ worker'[q].suscriptor = worker[q].suscriptor
  <2>1. ASSUME UpdatePago(q) \/ ConectaMovimiento(q)
        PROVE  /\ worker[q].paso \in Asentando /\ worker'[q].evento = worker[q].evento
               /\ worker'[q].abono = worker[q].abono
               /\ worker'[q].suscriptor = worker[q].suscriptor
    BY <1>0, <2>1, Locales DEF UpdatePago, ConectaMovimiento, At, Asentando
  <2>2. LeeSaldo(q) => worker[q].paso \in Asentando  BY DEF LeeSaldo, At, Asentando
  <2>3. ~(RegistraMovimiento(q) \/ CommitPago(q))
    BY <1>0, Locales, IdleOK DEF RegistraMovimiento, CommitPago, Asentando
  <2> QED BY <1>0, <2>1, <2>2, <2>3, Trabajo, Locales, Constantes DEF Asentando
<1>2. CASE BeginMarkAsPaid(q)  BY IdleOK, <1>0, <1>2, Locales DEF Asentando, PagoDe, BeginMarkAsPaid
<1>3. ASSUME worker[q].paso \in Asentando, worker'[q].evento = worker[q].evento
      PROVE  /\ worker[q].abono = Monto[p] /\ worker[q].suscriptor = pagos[p].suscriptor
             /\ pagos'[p].suscriptor = pagos[p].suscriptor
  <2>1. Existe(p)  BY <1>0, <1>3 DEF TypeInv, RegistroOK, PagoDe
  <2> QED BY <1>0, <1>3, <2>1, FilasCrecen DEF PagosInv, Debido, PagoDe
<1> QED BY <1>1, <1>2, <1>3

\* The movement a delivery commits is a credit of its payment.
LEMMA RegistraAbona ==
    ASSUME PagosInv, [Next]_vars, NEW m \in Workers, RegistraMovimiento(m),
           worker[m].evento \in Evento, NEW p \in Pagos, PagoDe(m) = p
    PROVE  AbonosDe(p)' # {}
<1> DEFINE s == worker[m].suscriptor
           i == Len(movimientos[s]) + 1
<1>0. TypeInv /\ worker[m].paso = "insert"  BY DEF PagosInv, RegistraMovimiento, At
<1>1. Existe(p)  BY <1>0 DEF TypeInv, RegistroOK
<1>2. s = pagos[p].suscriptor /\ worker[m].abono = Monto[p]  BY <1>0 DEF PagosInv, Debido, Asentando
<1>3. Existe(p)' /\ pagos'[p].suscriptor = s  BY <1>0, <1>1, <1>2, FilasCrecen
<1>4. /\ s \in Suscriptores /\ Asiento(m) \in Movimiento
      /\ movimientos \in [Suscriptores -> Seq(Movimiento)]
      /\ movimientos' = [movimientos EXCEPT ![s] = Append(@, Asiento(m))]
  BY <1>0, AsientoOK DEF TypeInv, TypeOK
<1>5. i \in DOMAIN movimientos'[s] /\ movimientos'[s][i] = Asiento(m)  BY <1>4
<1>6. Asiento(m).ref = p /\ Asiento(m).abono = Monto[p]  BY <1>2 DEF Asiento
<1> HIDE DEF s, i
<1>7. i \in {j \in DOMAIN movimientos'[s] :
                movimientos'[s][j].ref = p /\ movimientos'[s][j].abono = Monto[p]}
  BY <1>5, <1>6
<1> QED BY <1>3, <1>7 DEF AbonosDe

LEMMA AcreditadoStep == PagosInv /\ [Next]_vars => Acreditado'
<1> SUFFICES ASSUME PagosInv, [Next]_vars, NEW q \in Workers, NEW p \in Pagos,
                    worker'[q].paso \in {"commit", "renovar"}, p = worker'[q].evento.pago
             PROVE  AbonosDe(p)' # {}
  <2> SUFFICES ASSUME PagosInv, [Next]_vars, NEW q \in Workers,
                      worker'[q].paso \in {"commit", "renovar"}
               PROVE  worker'[q].evento.pago \in Pagos
    BY DEF Acreditado, PagoDe
  <2>1. TypeInv'  BY TypeNext DEF PagosInv
  <2>2. LocalesOK(worker'[q])  BY <2>1 DEF TypeInv
  <2> QED BY <2>2, EventoPago DEF LocalesOK
<1>0. TypeInv  BY DEF PagosInv
<1>1. \/ worker'[q] = worker[q]
      \/ RegistraMovimiento(q)
      \/ CommitPago(q)
  BY <1>0, Locales, Trabajo, IdleOK DEF UpdatePago, ConectaMovimiento
<1>2. CASE worker'[q] = worker[q]  BY <1>0, <1>2, AbonosCrecen DEF PagosInv, Acreditado, PagoDe
<1>3. CASE CommitPago(q)
  BY <1>0, <1>3, Locales, AbonosCrecen DEF CommitPago, At, PagoDe, PagosInv, Acreditado
<1>4. CASE RegistraMovimiento(q)
  BY <1>0, <1>4, Locales, IdleOK, EventoPago, RegistraAbona DEF RegistraMovimiento, PagoDe, TypeInv,
     TypeOK, Worker
<1> QED BY <1>1, <1>2, <1>3, <1>4

\* A payment becomes paid, or renews, by the hand of a delivery of its own.
LEMMA PagadoPor ==
    ASSUME TypeInv, [Next]_vars, NEW p \in Pagos,
           pagos'[p].estatus = "pagado" \/ p \in activados'
    PROVE  \/ pagos[p].estatus = "pagado" \/ p \in activados
           \/ \E m \in Workers : PagoDe(m) = p /\ worker[m].paso \in {"commit", "renovar"}
<1>0. pagos \in [Pagos -> Pago]  BY DEF TypeInv, TypeOK
<1> DEFINE PagosAntes == pagos[p].estatus = "pagado" \/ p \in activados
<1>1. ASSUME NEW q \in Pagos, Checkout(q) \/ Confirm(q) PROVE PagosAntes
  <2>1. activados' = activados
    BY <1>1 DEF Checkout, CreatePayment, CreateIntent, AttachReference, CheckoutFails, Confirm
  <2>2. ASSUME NEW s \in Suscriptores, CreatePayment(q, s)
        PROVE  pagos'[p].estatus = "pagado" => pagos[p].estatus = "pagado"
    BY <1>0, <2>2 DEF CreatePayment, NoPagoRow
  <2>3. AttachReference(q) => pagos'[p].estatus = pagos[p].estatus
    BY <1>0 DEF AttachReference, Pago
  <2>4. CreateIntent(q) \/ CheckoutFails(q) \/ Confirm(q) => pagos' = pagos
    BY DEF CreateIntent, CheckoutFails, Confirm
  <2> QED BY <1>1, <2>1, <2>2, <2>3, <2>4 DEF Checkout
<1>2. ASSUME NEW m \in Workers, AttachExternalReferenceIfMissing(m) \/ MarkAsFailed(m)
      PROVE PagosAntes
  BY <1>2, <1>0 DEF AttachExternalReferenceIfMissing, MarkAsFailed, Pago
<1>3. ASSUME NEW m \in Workers, CommitPago(m) PROVE PagosAntes \/ PagoDe(m) = p
  BY <1>0, <1>3 DEF CommitPago
<1>4. ASSUME NEW m \in Workers, RenovarOCrear(m) PROVE PagosAntes \/ PagoDe(m) = p
  BY <1>4 DEF RenovarOCrear
<1>5. ASSUME NEW m \in Workers,
             \/ BeginMarkAsPaid(m) \/ UpdatePago(m) \/ ConectaMovimiento(m) \/ LeeSaldo(m)
             \/ RegistraMovimiento(m) \/ Interbloqueo(m) \/ Falla(m)
      PROVE  PagosAntes
  BY <1>5 DEF BeginMarkAsPaid, UpdatePago, ConectaMovimiento, LeeSaldo, RegistraMovimiento,
              Interbloqueo, Falla
<1>6. ASSUME NEW m \in Workers, Advance(m) \/ Falla(m)
      PROVE  PagosAntes \/ (PagoDe(m) = p /\ worker[m].paso \in {"commit", "renovar"})
  BY <1>2, <1>3, <1>4, <1>5, <1>6 DEF Advance, MarkAsPaid, CommitPago, RenovarOCrear, At
<1>7. ASSUME UNCHANGED <<pagos, activados>> PROVE PagosAntes  BY <1>7
<1> QED BY <1>1, <1>6, <1>7 DEF Next, Recibe, CrearMovimiento, Crash, vars

LEMMA PagadoStep == PagosInv /\ [Next]_vars => PagadoTieneAbono'
<1> SUFFICES ASSUME PagosInv, [Next]_vars, NEW p \in Pagos,
                    pagos'[p].estatus = "pagado" \/ p \in activados'
             PROVE  AbonosDe(p)' # {}
  BY DEF PagadoTieneAbono
<1>1. TypeInv  BY DEF PagosInv
<1>2. AbonosDe(p) # {}  BY <1>1, PagadoPor DEF PagosInv, PagadoTieneAbono, Acreditado
<1> QED BY <1>1, <1>2, AbonosCrecen

LEMMA PagosInvAlways == Spec => []PagosInv
<1>1. PagosInv /\ [Next]_vars => PagosInv'
  BY TypeNext, SaldoStep, DebidoStep, AcreditadoStep, PagadoStep DEF PagosInv
<1> QED BY <1>1, PagosInvInit, PTL DEF Spec

(* A payment stands as paid, or has renewed a subscription, only if its    *)
(* amount was credited to its subscriber, for any number of deliveries,    *)
(* failures and restarts, although two transactions are involved.          *)
THEOREM PagadoSiempreAbonado == Spec => []PagadoTieneAbono
<1>1. PagosInv => PagadoTieneAbono  BY DEF PagosInv
<1> QED BY <1>1, PagosInvAlways, PTL

--------------------
(* The account statement.                                                  *)

LEMMA CuentaStep == PagosInv /\ [Next]_vars => [Cuenta!CuentaNext]_movimientos
<1> SUFFICES ASSUME PagosInv, NEW m \in Workers, RegistraMovimiento(m)
             PROVE  Cuenta!CuentaNext
  BY SoloRegistra
<1> DEFINE s == worker[m].suscriptor
           c == worker[m].cargo
           a == worker[m].abono
<1>1. TypeInv /\ worker[m] \in Worker /\ worker[m].paso = "insert"
  BY DEF PagosInv, TypeInv, TypeOK, RegistraMovimiento, At
<1>2. c \in Montos /\ a \in Montos /\ (c > 0) # (a > 0)
  BY <1>1 DEF Worker, TypeInv, LocalesOK, Asentando
<1>3. worker[m].saldo = Cuenta!Saldo(movimientos[s])  BY <1>1 DEF PagosInv, SaldoVigente, At
<1>4. /\ s \in Suscriptores /\ PagoDe(m) \in Refs
      /\ movimientos' = [movimientos EXCEPT ![s] = Append(@, Asiento(m))]
      /\ movimientos \in [Suscriptores -> Seq(Movimiento)]
  BY <1>1, AsientoOK DEF TypeInv, TypeOK
<1>5. Append(movimientos[s], Asiento(m)) = Cuenta!Asiento(movimientos[s], PagoDe(m), c, a)
  BY <1>3 DEF Asiento, Cuenta!Asiento
<1>6. movimientos' = [movimientos EXCEPT ![s] = Cuenta!Asiento(@, PagoDe(m), c, a)]  BY <1>4, <1>5
<1>7. Cuenta!Registra(s, PagoDe(m), c, a)  BY <1>2, <1>6 DEF Cuenta!Registra
<1> HIDE DEF s, c, a
<1> QED BY <1>2, <1>4, <1>7 DEF Cuenta!CuentaNext

(* Pagos implements EstadoCuenta: every step appends at most one movement, *)
(* a charge or a credit, whose balance follows from the movement before    *)
(* it, for any number of concurrent payments and administrators.           *)
THEOREM PagosImplementsCuenta == Spec => EstadoCuentaPromise
<1>1. Init => Cuenta!CuentaInit  BY DEF Init, Cuenta!CuentaInit
<1> QED BY <1>1, CuentaStep, PagosInvAlways, PTL DEF Spec, EstadoCuentaPromise, Cuenta!CuentaSpec

HIDE PagosCotas DEF Montos, Refs, bounds, stripeVars


USE HorariosAssumption DEF HorariosAssumption

\* While no two edits overlapped, an edit that is about to be saved changes the row that
\* is in the table now, and nothing but what its DTO gives.
AlDia(e) ==
    editor[e].paso = "guarda" =>
        \E r \in horarios :
            /\ r.id = editor[e].fila.id /\ r.dia = editor[e].de
            /\ editor[e].fila.jornada = Asigna(r.jornada, editor[e].fila.jornada, editor[e].dto)

\* The table is what was said of each day.
Coincide ==
    /\ \A r \in horarios : dicho[r.dia] = r.jornada
    /\ \A d \in DiasSemana : (\A r \in horarios : r.dia # d) => dicho[d].cerrado

UnoAUno ==
    /\ \A e, f \in EnMarcha : e = f
    /\ \A e \in Editores : AlDia(e)
    /\ Coincide

SinSolapo == ~solapoHorario => UnoAUno

HorariosIInv == HorariosTypeOK /\ SinSolapo

--------------------
\* What Asigna returns is a Jornada, and its given fields are those of the DTO.
LEMMA AsignaTipo ==
    ASSUME NEW base \in Jornada, NEW j \in Jornada, NEW dto
    PROVE  Asigna(base, j, dto) \in Jornada
  BY DEF Asigna, Jornada

\* Assigning the same fields again changes nothing.
LEMMA AsignaDosVeces ==
    ASSUME NEW base \in Jornada, NEW j \in Jornada, NEW dto
    PROVE  Asigna(base, Asigna(base, j, dto), dto) = Asigna(base, j, dto)
  BY DEF Asigna, Jornada

LEMMA SinHorarioTipo == SinHorario \in Jornada
  BY DEF SinHorario, Jornada, Horas

LEMMA CalladosTipo ==
    ASSUME HorariosTypeOK, NEW id
    PROVE  Callados(id) \in [DiasSemana -> Jornada]
  BY SinHorarioTipo DEF Callados, HorariosTypeOK

LEMMA IdEntero ==
    ASSUME HorariosTypeOK, NEW e \in Editores
    PROVE  editor[e].fila.id \in Int
<1>1. editor[e].fila \in FilaHorario \cup {NoFilaHorario}  BY DEF HorariosTypeOK, Editor
<1>2. NoFilaHorario.id \in Int /\ \A r \in FilaHorario : r.id \in Int
  BY DEF FilaHorario, NoFilaHorario
<1> QED  BY <1>1, <1>2

--------------------
\* The initial table is empty and every day is closed.
LEMMA HorariosInitInvariante == HorariosInit => HorariosIInv
<1> SUFFICES ASSUME HorariosInit PROVE HorariosIInv  OBVIOUS
<1>1. 0 \in DiasSemana  BY DEF DiasSemana
<1>2. SinEditor \in Editor /\ SinEditor.paso = "idle" /\ SinEditor.fila.id = 0
  BY <1>1 DEF SinEditor, Editor, NoFilaHorario
<1>3. HorariosTypeOK
  <2>1. editor \in [Editores -> Editor] /\ \A e \in Editores : editor[e] = SinEditor
    BY <1>2 DEF HorariosInit
  <2>2. dicho \in [DiasSemana -> Jornada]  BY SinHorarioTipo DEF HorariosInit
  <2>3. ediciones \in 0 .. MaxEdiciones /\ ediciones = 0  BY DEF HorariosInit
  <2>4. \A e \in Editores : editor[e].paso = "idle" /\ editor[e].fila.id <= ediciones
    <3> SUFFICES ASSUME NEW e \in Editores
                 PROVE  editor[e].paso = "idle" /\ editor[e].fila.id <= ediciones
      OBVIOUS
    <3>1. editor[e].paso = "idle" /\ editor[e].fila.id = 0  BY <1>2, <2>1
    <3> QED  BY <2>3, <3>1
  <2>5. horarios = {} /\ solapoHorario \in BOOLEAN  BY DEF HorariosInit
  <2> HIDE DEF HorariosInit
  <2> QED  BY <2>1, <2>2, <2>3, <2>4, <2>5 DEF HorariosTypeOK
<1>4. SinSolapo  BY <1>2 DEF HorariosInit, SinSolapo, UnoAUno, EnMarcha, AlDia, Coincide, SinHorario
<1> QED  BY <1>3, <1>4 DEF HorariosIInv

--------------------
\* crear: the statement replaces the hours of the day's row or adds one.
LEMMA CrearInvariante ==
    ASSUME HorariosIInv, NEW d \in DiasSemana, NEW j \in Jornadas, Crear(d, j)
    PROVE  HorariosIInv'
<1> USE DEF HorariosIInv
<1>0. j \in Jornada /\ ediciones + 1 \in 1 .. MaxEdiciones /\ ediciones' = ediciones + 1
      /\ editor' = editor /\ dicho' = [dicho EXCEPT ![d] = j]
  BY DEF Crear, LlamaEditor, HorariosTypeOK
<1>1. CASE \E r \in horarios : r.dia = d
  <2>1. PICK q \in horarios : q.dia = d  BY <1>1
  <2> DEFINE T(r) == IF r.dia = d THEN Upsert(r, j) ELSE r
  <2>2. horarios' = {T(r) : r \in horarios}  BY <1>1 DEF Crear
  <2>3. \A r \in horarios : T(r) \in FilaHorario /\ T(r).id = r.id /\ T(r).dia = r.dia
                            /\ (r.dia = d => T(r).jornada = j) /\ (r.dia # d => T(r) = r)
    BY <1>0 DEF Upsert, FilaHorario, HorariosTypeOK
  <2> HIDE DEF T
  <2>4. HorariosTypeOK'
    <3>1. horarios' \subseteq FilaHorario  BY <2>2, <2>3
    <3>2. \A r, s \in horarios' : r.id = s.id \/ r.dia = s.dia => r = s
      BY <2>2, <2>3 DEF HorariosTypeOK
    <3>3. \A r \in horarios' : r.id <= ediciones'
      BY <1>0, <2>2, <2>3 DEF HorariosTypeOK, FilaHorario
    <3>4. \A e \in Editores : editor'[e].fila.id <= ediciones'  BY IdEntero, <1>0 DEF HorariosTypeOK
    <3>5. solapoHorario' \in BOOLEAN /\ dicho' \in [DiasSemana -> Jornada]
      BY <1>0 DEF Crear, LlamaEditor, HorariosTypeOK
    <3> QED  BY <1>0, <3>1, <3>2, <3>3, <3>4, <3>5 DEF HorariosTypeOK
  <2>5. SinSolapo'
    <3> SUFFICES ASSUME ~solapoHorario' PROVE UnoAUno'  BY DEF SinSolapo
    <3>1. ~solapoHorario /\ EnMarcha = {}  BY DEF Crear, LlamaEditor, HorariosTypeOK
    <3>2. EnMarcha' = {}  BY <1>0, <3>1 DEF EnMarcha
    <3>3. \A e \in Editores : AlDia(e)'  BY <1>0, <3>1 DEF EnMarcha, AlDia
    <3>4. Coincide  BY <3>1 DEF SinSolapo, UnoAUno
    <3>5. \A r \in horarios' : dicho'[r.dia] = r.jornada
      BY <1>0, <2>2, <2>3, <3>4 DEF Coincide, HorariosTypeOK
    <3>6. \A e \in DiasSemana : (\A r \in horarios' : r.dia # e) => dicho'[e].cerrado
      <4> SUFFICES ASSUME NEW e \in DiasSemana, \A r \in horarios' : r.dia # e
                   PROVE  dicho'[e].cerrado
        OBVIOUS
      <4>1. \A r \in horarios : r.dia # e  BY <2>2, <2>3
      <4>2. e # d  BY <2>1, <4>1
      <4> QED  BY <1>0, <3>4, <4>1, <4>2 DEF Coincide, HorariosTypeOK
    <3> QED  BY <3>2, <3>3, <3>5, <3>6 DEF UnoAUno, Coincide
  <2> QED  BY <2>4, <2>5
<1>2. CASE ~ \E r \in horarios : r.dia = d
  <2> DEFINE n == [id |-> ediciones + 1, dia |-> d, jornada |-> j]
  <2>1. horarios' = horarios \cup {n}  BY <1>2 DEF Crear
  <2>2. n \in FilaHorario /\ n.id = ediciones + 1 /\ n.dia = d /\ n.jornada = j
    BY <1>0 DEF FilaHorario
  <2> HIDE DEF n
  <2>3. \A r \in horarios : r.id <= ediciones /\ r.id \in Int /\ r.dia # d
    BY <1>2 DEF HorariosTypeOK, FilaHorario
  <2>4. ediciones \in Int  BY DEF HorariosTypeOK
  <2>5. HorariosTypeOK'
    <3>1. \A r, s \in horarios' : r.id = s.id \/ r.dia = s.dia => r = s
      BY <2>2, <2>3, <2>4, <2>1 DEF HorariosTypeOK
    <3>2. \A r \in horarios' : r.id <= ediciones'  BY <1>0, <2>1, <2>2, <2>3, <2>4
    <3>3. \A e \in Editores : editor'[e].fila.id <= ediciones'
      BY IdEntero, <1>0, <2>4 DEF HorariosTypeOK
    <3>4. solapoHorario' \in BOOLEAN /\ dicho' \in [DiasSemana -> Jornada]
      BY <1>0 DEF Crear, LlamaEditor, HorariosTypeOK
    <3>5. horarios' \subseteq FilaHorario  BY <2>1, <2>2 DEF HorariosTypeOK
    <3> QED  BY <1>0, <3>1, <3>2, <3>3, <3>4, <3>5 DEF HorariosTypeOK
  <2>6. SinSolapo'
    <3> SUFFICES ASSUME ~solapoHorario' PROVE UnoAUno'  BY DEF SinSolapo
    <3>1. ~solapoHorario /\ EnMarcha = {}  BY DEF Crear, LlamaEditor, HorariosTypeOK
    <3>2. EnMarcha' = {}  BY <1>0, <3>1 DEF EnMarcha
    <3>3. \A e \in Editores : AlDia(e)'  BY <1>0, <3>1 DEF EnMarcha, AlDia
    <3>4. Coincide  BY <3>1 DEF SinSolapo, UnoAUno
    <3>5. \A r \in horarios' : dicho'[r.dia] = r.jornada
      BY <1>0, <2>1, <2>2, <2>3, <3>4 DEF Coincide, HorariosTypeOK
    <3>6. \A e \in DiasSemana : (\A r \in horarios' : r.dia # e) => dicho'[e].cerrado
      BY <1>0, <2>1, <2>2, <3>4 DEF Coincide, HorariosTypeOK
    <3> QED  BY <3>2, <3>3, <3>5, <3>6 DEF UnoAUno, Coincide
  <2> QED  BY <2>5, <2>6
<1> QED  BY <1>1, <1>2

--------------------
\* actualizar and eliminar begin: e will save or remove the row r it found.
LEMMA LlamadaInvariante ==
    ASSUME HorariosIInv, NEW e \in Editores, NEW r \in horarios, NEW w \in Editor,
           editor[e].paso = "idle", LlamaEditor, editor' = [editor EXCEPT ![e] = w],
           UNCHANGED <<horarios, dicho>>,
           w.paso # "idle", w.fila \in FilaHorario, w.fila.id = r.id, w.de = r.dia,
           w.fila.jornada = Asigna(r.jornada, w.fila.jornada, w.dto) \/ w.paso = "borra"
    PROVE  HorariosIInv'
<1> USE DEF HorariosIInv
<1>1. ediciones' = ediciones + 1 /\ ediciones' \in 0 .. MaxEdiciones /\ ediciones \in Int
      /\ solapoHorario' \in BOOLEAN
  BY DEF LlamaEditor, HorariosTypeOK
<1>2. editor' \in [Editores -> Editor] /\ editor'[e] = w
      /\ \A f \in Editores : f # e => editor'[f] = editor[f]
  BY DEF HorariosTypeOK
<1>3. \A q \in horarios : q.id \in Int /\ q.id <= ediciones  BY DEF HorariosTypeOK, FilaHorario
<1>4. HorariosTypeOK'
  <2>1. \A f \in Editores : editor'[f].fila.id <= ediciones'
    <3> SUFFICES ASSUME NEW f \in Editores PROVE editor'[f].fila.id <= ediciones'  OBVIOUS
    <3>1. CASE f = e  BY <1>1, <1>2, <1>3, <3>1
    <3>2. CASE f # e  BY IdEntero, <1>1, <1>2, <3>2 DEF HorariosTypeOK
    <3> QED  BY <3>1, <3>2
  <2>2. \A f \in Editores : editor'[f].paso # "idle" => editor'[f].fila \in FilaHorario
    BY <1>2 DEF HorariosTypeOK
  <2>3. \A q \in horarios : q.id <= ediciones'  BY <1>1, <1>3
  <2> QED  BY <1>1, <1>2, <2>1, <2>2, <2>3 DEF HorariosTypeOK
<1>5. SinSolapo'
  <2> SUFFICES ASSUME ~solapoHorario' PROVE UnoAUno'  BY DEF SinSolapo
  <2>1. ~solapoHorario /\ EnMarcha = {}  BY DEF LlamaEditor, HorariosTypeOK
  <2>2. \A f \in Editores : f # e => editor'[f].paso = "idle"  BY <1>2, <2>1 DEF EnMarcha
  <2>3. AlDia(e)'  BY <1>2 DEF AlDia
  <2>4. \A f \in Editores : AlDia(f)'  BY <2>2, <2>3 DEF AlDia
  <2>5. \A f, g \in EnMarcha' : f = g  BY <2>2 DEF EnMarcha
  <2>6. Coincide'  BY <2>1 DEF SinSolapo, UnoAUno, Coincide
  <2> QED  BY <2>4, <2>5, <2>6 DEF UnoAUno
<1> QED  BY <1>4, <1>5

LEMMA ActualizarInvariante ==
    ASSUME HorariosIInv, NEW e \in Editores, NEW r \in horarios, NEW d \in DiasSemana,
           NEW j \in Jornadas, NEW dto \in SUBSET Campos, Actualizar(e, r, d, j, dto)
    PROVE  HorariosIInv'
<1> DEFINE g == Asigna(r.jornada, j, dto)
           w == [paso |-> "guarda", de |-> r.dia, dto |-> dto,
                 fila |-> [id |-> r.id, dia |-> d, jornada |-> g]]
<1>1. r \in FilaHorario /\ r.jornada \in Jornada /\ j \in Jornada
  BY DEF HorariosIInv, HorariosTypeOK, FilaHorario
<1>2. g \in Jornada /\ g = Asigna(r.jornada, g, dto)  BY <1>1, AsignaTipo, AsignaDosVeces
<1> HIDE DEF g
<1>3. [id |-> r.id, dia |-> d, jornada |-> g] \in FilaHorario  BY <1>1, <1>2 DEF FilaHorario
<1>4. w \in Editor /\ w.paso = "guarda" /\ w.fila \in FilaHorario /\ w.fila.id = r.id
      /\ w.de = r.dia /\ w.fila.jornada = g /\ w.dto = dto
  BY <1>1, <1>3 DEF Editor, FilaHorario
<1>5. editor[e].paso = "idle" /\ LlamaEditor /\ editor' = [editor EXCEPT ![e] = w]
      /\ UNCHANGED <<horarios, dicho>>
  BY DEF Actualizar, g
<1> HIDE DEF w
<1> QED  BY <1>2, <1>4, <1>5, LlamadaInvariante

LEMMA EliminarInvariante ==
    ASSUME HorariosIInv, NEW e \in Editores, NEW r \in horarios, Eliminar(e, r)
    PROVE  HorariosIInv'
<1> DEFINE w == [paso |-> "borra", fila |-> r, de |-> r.dia, dto |-> {}]
<1>1. r \in FilaHorario  BY DEF HorariosIInv, HorariosTypeOK
<1>2. w \in Editor /\ w.paso = "borra" /\ w.fila = r /\ w.de = r.dia
  BY <1>1 DEF Editor, FilaHorario
<1>3. editor[e].paso = "idle" /\ LlamaEditor /\ editor' = [editor EXCEPT ![e] = w]
      /\ UNCHANGED <<horarios, dicho>>
  BY DEF Eliminar
<1> HIDE DEF w
<1> QED  BY <1>1, <1>2, <1>3, LlamadaInvariante

--------------------
\* A call ends.  What it did to the table must keep one row a day, and the table equal
\* to what was said.
LEMMA DejaInvariante ==
    ASSUME HorariosIInv, NEW e \in Editores, editor[e].paso # "idle", DejaEditor(e),
           horarios' \subseteq FilaHorario, dicho' \in [DiasSemana -> Jornada],
           \A r, s \in horarios' : r.id = s.id \/ r.dia = s.dia => r = s,
           \A r \in horarios' : r.id <= ediciones,
           ~solapoHorario => Coincide'
    PROVE  HorariosIInv'
<1> USE DEF HorariosIInv
<1>1. SinEditor \in Editor /\ SinEditor.paso = "idle" /\ SinEditor.fila.id = 0
  <2>1. 0 \in DiasSemana  BY DEF DiasSemana
  <2> QED  BY <2>1 DEF SinEditor, Editor, NoFilaHorario
<1>2. editor' \in [Editores -> Editor] /\ editor'[e] = SinEditor
      /\ \A f \in Editores : f # e => editor'[f] = editor[f]
  BY <1>1 DEF DejaEditor, HorariosTypeOK
<1>3. ediciones' = ediciones /\ solapoHorario' = solapoHorario  BY DEF DejaEditor
<1>4. ediciones \in 0 .. MaxEdiciones /\ solapoHorario \in BOOLEAN  BY DEF HorariosTypeOK
<1>5. HorariosTypeOK'
  <2>1. \A f \in Editores : editor'[f].paso # "idle" => editor'[f].fila \in FilaHorario
    BY <1>1, <1>2 DEF HorariosTypeOK
  <2>2. \A f \in Editores : editor'[f].fila.id <= ediciones
    <3> SUFFICES ASSUME NEW f \in Editores PROVE editor'[f].fila.id <= ediciones  OBVIOUS
    <3>1. CASE f = e  BY <1>1, <1>2, <1>4, <3>1
    <3>2. CASE f # e  BY <1>2, <3>2 DEF HorariosTypeOK
    <3> QED  BY <3>1, <3>2
  <2> QED  BY <1>2, <1>3, <1>4, <2>1, <2>2 DEF HorariosTypeOK
<1>6. SinSolapo'
  <2> SUFFICES ASSUME ~solapoHorario' PROVE UnoAUno'  BY DEF SinSolapo
  <2>1. \A f \in Editores : f # e => editor[f].paso = "idle"
    BY <1>3 DEF SinSolapo, UnoAUno, EnMarcha
  <2>2. \A f \in Editores : editor'[f].paso = "idle"  BY <1>1, <1>2, <2>1
  <2> QED  BY <1>3, <2>2 DEF UnoAUno, EnMarcha, AlDia
<1> QED  BY <1>5, <1>6

\* Without the row id, the table is what Callados(id) says.
LEMMA CalladosCoincide ==
    ASSUME HorariosTypeOK, Coincide, NEW id
    PROVE  /\ \A r \in Otras(id) : Callados(id)[r.dia] = r.jornada
           /\ \A d \in DiasSemana :
                (\A r \in Otras(id) : r.dia # d) => Callados(id)[d].cerrado
<1>1. ASSUME NEW r \in Otras(id) PROVE Callados(id)[r.dia] = r.jornada
  BY <1>1 DEF Otras, HorariosTypeOK, FilaHorario, Callados, Coincide
<1>2. ASSUME NEW d \in DiasSemana, \A r \in Otras(id) : r.dia # d
      PROVE  Callados(id)[d].cerrado
  <2>1. CASE \E q \in horarios : q.id = id /\ q.dia = d  BY <2>1 DEF Callados, SinHorario
  <2>2. CASE ~ \E q \in horarios : q.id = id /\ q.dia = d
    BY <1>2, <2>2 DEF Otras, Callados, Coincide
  <2> QED  BY <2>1, <2>2
<1> QED  BY <1>1, <1>2

\* The save of an edit is refused, or replaces the row it read.
LEMMA HorariosGuardaInvariante ==
    ASSUME HorariosIInv, NEW e \in Editores, GuardaHorario(e)
    PROVE  HorariosIInv'
<1> DEFINE w == editor[e].fila
<1> USE DEF HorariosIInv
<1>1. editor[e].paso = "guarda" /\ DejaEditor(e) /\ w \in FilaHorario
      /\ editor[e].de \in DiasSemana /\ w.dia \in DiasSemana /\ w.jornada \in Jornada
  BY DEF GuardaHorario, HorariosTypeOK, Editor, FilaHorario
<1>2. CASE \E r \in Otras(w.id) : r.dia = w.dia
  BY <1>2, <1>1, DejaInvariante DEF GuardaHorario, SinSolapo, UnoAUno, Coincide, HorariosTypeOK
<1>3. CASE ~ \E r \in Otras(w.id) : r.dia = w.dia
  <2> DEFINE n == Asigna(dicho[editor[e].de], w.jornada, editor[e].dto)
  <2>1. /\ horarios' = Otras(w.id) \cup {w}
        /\ dicho' = [Callados(w.id) EXCEPT ![w.dia] = n]
    BY <1>3 DEF GuardaHorario
  <2>2. n \in Jornada  BY <1>1, AsignaTipo DEF HorariosTypeOK
  <2>3. Callados(w.id) \in [DiasSemana -> Jornada]  BY CalladosTipo
  <2>4. dicho' \in [DiasSemana -> Jornada] /\ dicho'[w.dia] = n
        /\ \A d \in DiasSemana : d # w.dia => dicho'[d] = Callados(w.id)[d]
    BY <1>1, <2>1, <2>2, <2>3
  <2>5. horarios' \subseteq FilaHorario /\ \A r \in horarios' : r.id <= ediciones
    BY <1>1, <2>1 DEF Otras, HorariosTypeOK
  <2>6. \A r, s \in horarios' : r.id = s.id \/ r.dia = s.dia => r = s
    BY <1>3, <2>1 DEF Otras, HorariosTypeOK
  <2>7. ASSUME ~solapoHorario PROVE Coincide'
    <3>1. Coincide /\ AlDia(e)  BY <2>7 DEF SinSolapo, UnoAUno
    <3>2. n = w.jornada  BY <1>1, <3>1 DEF AlDia, Coincide
    <3>3. \A r \in Otras(w.id) : r.dia # w.dia /\ r.dia \in DiasSemana
      BY <1>3 DEF Otras, HorariosTypeOK, FilaHorario
    <3>4. \A r \in Otras(w.id) : Callados(w.id)[r.dia] = r.jornada  BY <3>1, CalladosCoincide
    <3>5. \A d \in DiasSemana : (\A r \in Otras(w.id) : r.dia # d) => Callados(w.id)[d].cerrado
      BY <3>1, CalladosCoincide
    <3> HIDE DEF n, w
    <3>6. \A r \in horarios' : dicho'[r.dia] = r.jornada  BY <2>1, <2>4, <3>2, <3>3, <3>4
    <3>7. \A d \in DiasSemana : (\A r \in horarios' : r.dia # d) => dicho'[d].cerrado
      BY <2>1, <2>4, <3>5
    <3> QED  BY <3>6, <3>7 DEF Coincide
  <2> QED  BY <1>1, <2>4, <2>5, <2>6, <2>7, DejaInvariante
<1> QED  BY <1>2, <1>3

LEMMA BorraInvariante ==
    ASSUME HorariosIInv, NEW e \in Editores, BorraHorario(e)
    PROVE  HorariosIInv'
<1> DEFINE id == editor[e].fila.id
<1> USE DEF HorariosIInv
<1>1. editor[e].paso # "idle" /\ DejaEditor(e) /\ horarios' = Otras(id) /\ dicho' = Callados(id)
  BY DEF BorraHorario
<1>2. dicho' \in [DiasSemana -> Jornada]  BY <1>1, CalladosTipo
<1>3. \A r \in horarios' : r \in horarios  BY <1>1 DEF Otras
<1>4. ~solapoHorario => Coincide'  BY <1>1, CalladosCoincide DEF SinSolapo, UnoAUno, Coincide
<1> QED  BY <1>1, <1>2, <1>3, <1>4, DejaInvariante DEF HorariosTypeOK

LEMMA HorariosFallaInvariante ==
    ASSUME HorariosIInv, NEW e \in Editores, FallaEditor(e)
    PROVE  HorariosIInv'
<1> USE DEF HorariosIInv
<1>1. editor[e].paso # "idle" /\ DejaEditor(e) /\ UNCHANGED <<horarios, dicho>>  BY DEF FallaEditor
<1>2. ~solapoHorario => Coincide'  BY <1>1 DEF SinSolapo, UnoAUno, Coincide
<1> QED  BY <1>1, <1>2, DejaInvariante DEF HorariosTypeOK

--------------------
LEMMA HorariosPasoInvariante == HorariosIInv /\ [HorariosNext]_horariosVars => HorariosIInv'
<1> SUFFICES ASSUME HorariosIInv, [HorariosNext]_horariosVars PROVE HorariosIInv'  OBVIOUS
<1>1. CASE \E d \in DiasSemana, j \in Jornadas : Crear(d, j)  BY <1>1, CrearInvariante
<1>2. CASE \E e \in Editores, r \in horarios : Eliminar(e, r)  BY <1>2, EliminarInvariante
<1>3. CASE \E e \in Editores, r \in horarios, d \in DiasSemana, j \in Jornadas,
               dto \in SUBSET Campos :
             Actualizar(e, r, d, j, dto)
  BY <1>3, ActualizarInvariante
<1>4. CASE \E e \in Editores : GuardaHorario(e) \/ BorraHorario(e) \/ FallaEditor(e)
  BY <1>4, HorariosGuardaInvariante, BorraInvariante, HorariosFallaInvariante
<1>5. CASE UNCHANGED horariosVars
  BY <1>5 DEF HorariosIInv, HorariosTypeOK, horariosVars, SinSolapo, UnoAUno, EnMarcha, AlDia,
     Coincide
<1> QED  BY <1>1, <1>2, <1>3, <1>4, <1>5 DEF HorariosNext

LEMMA HorariosInvarianteSiempre == HorariosSpec => []HorariosIInv
  BY HorariosInitInvariante, HorariosPasoInvariante, PTL DEF HorariosSpec

\* The table keeps one row a day, whatever overlaps or fails.
THEOREM HorariosTypeOKSiempre == HorariosSpec => []HorariosTypeOK
<1>1. HorariosIInv => HorariosTypeOK  BY DEF HorariosIInv
<1> QED  BY <1>1, HorariosInvarianteSiempre, PTL

\* With the table equal to what was said, what AbiertoAhora shows is what was said, but
\* for the closing minute and the small hours of a crossing day.
LEMMA MuestraLoDicho ==
    ASSUME HorariosTypeOK, Coincide, NEW d \in DiasSemana, NEW h \in Horas,
           NEW incluye \in BOOLEAN
    PROVE  /\ DeVerdad(d, h) => AbiertoAhora(d, h, incluye)
           /\ AbiertoAhora(d, h, incluye) /\ ~DeVerdad(d, h) => Tolerado(d, h, incluye)
<1>1. Ayer(d) \in DiasSemana  BY DEF Ayer, DiasSemana
<1>2. \A r \in horarios : dicho[r.dia] = r.jornada /\ r.jornada.apertura \in Int
                          /\ r.jornada.cierre \in Int
  BY DEF Coincide, HorariosTypeOK, FilaHorario, Jornada, Horas
<1>3. h \in Int  BY DEF Horas
<1>4. ASSUME DeVerdad(d, h) PROVE AbiertoAhora(d, h, incluye)
  <2>1. CASE HastaMedianoche(dicho[d], h)
    <3>1. PICK r \in horarios : r.dia = d  BY <2>1 DEF HastaMedianoche, Coincide
    <3>2. ~r.jornada.cerrado /\ Dentro(r.jornada, h, incluye)
      BY <1>2, <1>3, <2>1, <3>1 DEF HastaMedianoche, Dentro, Antes, Cruza
    <3> QED  BY <3>1, <3>2 DEF AbiertoAhora
  <2>2. CASE Madrugada(dicho[Ayer(d)], h)
    <3>1. PICK r \in horarios : r.dia = Ayer(d)  BY <1>1, <2>2 DEF Madrugada, Coincide
    <3>2. ~r.jornada.cerrado /\ Cruza(r.jornada) /\ Antes(h, r.jornada.cierre, incluye)
      BY <1>2, <2>2, <3>1 DEF Madrugada, Antes
    <3> QED  BY <3>1, <3>2 DEF AbiertoAhora
  <2> QED  BY <1>4, <2>1, <2>2 DEF DeVerdad
<1>5. ASSUME AbiertoAhora(d, h, incluye), ~DeVerdad(d, h) PROVE Tolerado(d, h, incluye)
  <2>1. PICK r \in horarios :
            /\ ~r.jornada.cerrado
            /\ \/ r.dia = d /\ Dentro(r.jornada, h, incluye)
               \/ r.dia = Ayer(d) /\ Cruza(r.jornada) /\ Antes(h, r.jornada.cierre, incluye)
    BY <1>5 DEF AbiertoAhora
  <2>2. CASE r.dia = d /\ Dentro(r.jornada, h, incluye)
    BY <1>2, <1>5, <2>2, <1>3, <2>1 DEF DeVerdad, HastaMedianoche, Dentro, Antes, Cruza, Tolerado
  <2>3. CASE r.dia = Ayer(d) /\ Cruza(r.jornada) /\ Antes(h, r.jornada.cierre, incluye)
    BY <1>2, <1>5, <2>3, <2>1 DEF DeVerdad, Madrugada, Antes, Tolerado
  <2> QED  BY <2>1, <2>2, <2>3
<1> QED  BY <1>4, <1>5

\* While no two edits overlapped, the four readings of "open now" follow the hours the
\* owner was told are kept.
THEOREM AbiertoSegunHorarioSiempre == HorariosSpec => []AbiertoSegunHorario
<1>1. HorariosIInv => AbiertoSegunHorario
  BY MuestraLoDicho DEF HorariosIInv, SinSolapo, UnoAUno, AbiertoSegunHorario
<1> QED  BY <1>1, HorariosInvarianteSiempre, PTL

\* The label and the filter of a search differ in the closing minute and in the night of
\* yesterday only, whatever the table holds.
THEOREM EtiquetaDeAcuerdoSiempre == HorariosSpec => []EtiquetaDeAcuerdo
<1>1. HorariosIInv => EtiquetaDeAcuerdo
  <2> SUFFICES ASSUME HorariosIInv, NEW d \in DiasSemana, NEW h \in Horas, NEW enPunto \in BOOLEAN
               PROVE  /\ Etiqueta(d, h, enPunto) => AbiertoAhora(d, h, TRUE)
                      /\ AbiertoAhora(d, h, TRUE) /\ ~Etiqueta(d, h, enPunto) =>
                           \E r \in horarios :
                              \/ r.dia = d /\ h = r.jornada.cierre
                              \/ r.dia = Ayer(d) /\ Cruza(r.jornada)
    BY DEF EtiquetaDeAcuerdo
  <2>1. \A r \in horarios : DentroEtiqueta(r.jornada, h, enPunto) => Dentro(r.jornada, h, TRUE)
    BY DEF DentroEtiqueta, Dentro, Antes, Cruza
  <2>2. \A r \in horarios : Dentro(r.jornada, h, TRUE) /\ h # r.jornada.cierre
                            => DentroEtiqueta(r.jornada, h, enPunto)
    BY DEF DentroEtiqueta, Dentro, Antes, Cruza
  <2> QED  BY <2>1, <2>2 DEF Etiqueta, AbiertoAhora
<1> QED  BY <1>1, HorariosInvarianteSiempre, PTL

HIDE HorariosAssumption DEF HorariosAssumption

--------------------
USE FacturasAssumption DEF FacturasAssumption

\* The requests that will save an invoice.
Pidiendo == {"perfil", "creaPerfil", "factura"}

\* A request at work has an amount, or the invoice it cancels.
EnTramite ==
    \A s \in Solicitudes :
        /\ solicitud[s].paso \in Pidiendo => solicitud[s].total \in Importes
        /\ solicitud[s].paso = "cancela" =>
             solicitud[s].id \in FacturaIds /\ factura[solicitud[s].id].estatus # "no"

\* Two live invoices of a payment have a cancelled one beside them.
Unica ==
    \A i, j \in FacturaIds :
        (/\ factura[i].estatus = "borrador" /\ factura[j].estatus = "borrador"
         /\ factura[i].pago = factura[j].pago /\ factura[i].pago # SinPago
         /\ ~ \E k \in FacturaIds : factura[k].estatus = "cancelada"
                /\ factura[k].pago = factura[i].pago)
        => i = j

\* While no two overlapped, what the check of a request found still holds.
UnaAUna ==
    /\ \A s, o \in Solicitudes : ~SolicitudLibre(s) /\ ~SolicitudLibre(o) => s = o
    /\ \A s \in Solicitudes :
         solicitud[s].paso \in Pidiendo /\ solicitud[s].pago # SinPago =>
             PuedeFacturar(solicitud[s].pago)
    /\ Unica

FacturasIInv == FacturasTypeOK /\ EnTramite /\ (~solapoFactura => UnaAUna)

--------------------
\* The subtotal is the total over 1.16 to less than half a centavo, and the sum is exact.
LEMMA DesgloseAlCentavo ==
    ASSUME NEW t \in Nat \ {0}
    PROVE  LET m == DesglosarIva(t)
               resto == 100 * m.impuestos - 16 * m.subtotal
           IN  /\ m.subtotal + m.impuestos = m.total /\ m.total > 0
               /\ -100 < resto /\ resto < 100
<1> DEFINE q == (50 * t + 29) \div 58
<1>1. q \in Int /\ 58 * q <= 50 * t + 29 /\ 50 * t + 29 < 58 * q + 58  OBVIOUS
<1>2. DesglosarIva(t) = [subtotal |-> q, impuestos |-> t - q, total |-> t]
  BY DEF DesglosarIva, Subtotal
<1> HIDE DEF q
<1>3. -100 < 100 * (t - q) - 16 * q /\ 100 * (t - q) - 16 * q < 100  BY <1>1
<1> QED  BY <1>1, <1>2, <1>3

LEMMA ImportesPositivos == Importes \subseteq Nat \ {0}
  BY DEF Importes

LEMMA SinSolicitudTipo ==
    SinSolicitud \in Solicitud /\ SinSolicitud.paso = "idle" /\ SinSolicitud.total = 0
  BY DEF SinSolicitud, Solicitud

\* A row is an invoice exactly when it has a state.
LEMMA FilaOFactura ==
    ASSUME FacturasTypeOK, NEW i \in FacturaIds
    PROVE  /\ factura[i].estatus # "no" => factura[i] \in Factura
           /\ factura[i].estatus = "no" => factura[i] = NoFactura
<1>1. factura[i] \in Factura \cup {NoFactura}  BY DEF FacturasTypeOK
<1>2. \A f \in Factura : f.estatus # "no"  BY DEF Factura
<1>3. NoFactura.estatus = "no"  BY DEF NoFactura
<1> QED  BY <1>1, <1>2, <1>3

--------------------
\* No invoice yet, and nobody asks for one.
LEMMA FacturasInitInvariante == FacturasInit => FacturasIInv
<1> SUFFICES ASSUME FacturasInit PROVE FacturasIInv  OBVIOUS
<1>1. \A s \in Solicitudes : solicitud[s] = SinSolicitud  BY DEF FacturasInit
<1>2. \A i \in FacturaIds : factura[i] = NoFactura  BY DEF FacturasInit
<1>3. FacturasTypeOK
  <2>1. solicitud \in [Solicitudes -> Solicitud]  BY SinSolicitudTipo DEF FacturasInit
  <2>2. factura \in [FacturaIds -> Factura \cup {NoFactura}]  BY DEF FacturasInit
  <2>3. perfil \in BOOLEAN /\ solapoFactura \in BOOLEAN  BY DEF FacturasInit
  <2>4. 0 \in 0 .. MaxCancelaciones /\ cancelaciones = 0  BY DEF FacturasInit
  <2> QED  BY <2>1, <2>2, <2>3, <2>4 DEF FacturasTypeOK
<1>4. EnTramite  BY <1>1, SinSolicitudTipo DEF EnTramite, Pidiendo
<1>5. UnaAUna
  BY <1>1, <1>2, SinSolicitudTipo DEF UnaAUna, Unica, SolicitudLibre, Pidiendo, NoFactura
<1> QED  BY <1>3, <1>4, <1>5 DEF FacturasIInv

--------------------
\* solicitar and cancelar begin with the request w, checked against the invoices.
LEMMA EmpiezaInvariante ==
    ASSUME FacturasIInv, NEW s \in Solicitudes, NEW w \in Solicitud, EmpiezaSolicitud(s, w),
           UNCHANGED <<factura, perfil>>, cancelaciones' \in 0 .. MaxCancelaciones,
           w.paso \in Pidiendo => w.total \in Importes,
           w.paso = "cancela" => w.id \in FacturaIds /\ factura[w.id].estatus # "no",
           w.paso \in Pidiendo /\ w.pago # SinPago => PuedeFacturar(w.pago)
    PROVE  FacturasIInv'
<1> USE DEF FacturasIInv
<1>1. solicitud' \in [Solicitudes -> Solicitud] /\ solicitud'[s] = w
      /\ \A o \in Solicitudes : o # s => solicitud'[o] = solicitud[o]
  BY DEF EmpiezaSolicitud, FacturasTypeOK
<1>2. FacturasTypeOK'  BY <1>1 DEF EmpiezaSolicitud, FacturasTypeOK
<1>3. EnTramite'
  <2> SUFFICES ASSUME NEW o \in Solicitudes
               PROVE  /\ solicitud'[o].paso \in Pidiendo => solicitud'[o].total \in Importes
                      /\ solicitud'[o].paso = "cancela" =>
                           solicitud'[o].id \in FacturaIds
                               /\ factura'[solicitud'[o].id].estatus # "no"
    BY DEF EnTramite
  <2>1. CASE o = s  BY <1>1, <2>1
  <2>2. CASE o # s  BY <1>1, <2>2 DEF EnTramite
  <2> QED  BY <2>1, <2>2
<1>4. ASSUME ~solapoFactura' PROVE UnaAUna'
  <2>1. ~solapoFactura /\ \A o \in Solicitudes : SolicitudLibre(o)
    BY <1>4 DEF EmpiezaSolicitud, FacturasTypeOK
  <2>2. \A o \in Solicitudes : o # s => solicitud'[o].paso = "idle"
    BY <1>1, <2>1 DEF SolicitudLibre
  <2>3. \A p : PuedeFacturar(p) => PuedeFacturar(p)'  BY DEF PuedeFacturar, DelPago
  <2>4. Unica'  BY <2>1 DEF UnaAUna, Unica
  <2>5. \A o \in Solicitudes : solicitud'[o].paso \in Pidiendo => o = s  BY <2>2 DEF Pidiendo
  <2>6. \A o \in Solicitudes : solicitud'[o].paso \in Pidiendo /\ solicitud'[o].pago # SinPago
                               => PuedeFacturar(solicitud[o].pago)'
    BY <2>3, <1>1, <2>5
  <2>7. \A o, n \in Solicitudes : ~SolicitudLibre(o)' /\ ~SolicitudLibre(n)' => o = n
    BY <2>2 DEF SolicitudLibre
  <2> QED  BY <2>4, <2>6, <2>7 DEF UnaAUna
<1> QED  BY <1>2, <1>3, <1>4

\* A request goes on to its next call.
LEMMA PasaInvariante ==
    ASSUME FacturasIInv, NEW s \in Solicitudes, NEW p \in Pidiendo, solicitud[s].paso \in Pidiendo,
           PasaSolicitud(s, p), UNCHANGED <<factura, cancelaciones>>, perfil' \in BOOLEAN
    PROVE  FacturasIInv'
<1> USE DEF FacturasIInv
<1>1. p \in {"idle", "perfil", "creaPerfil", "factura", "cancela"} /\ p # "cancela" /\ p # "idle"
  BY DEF Pidiendo
<1>2. /\ solicitud' \in [Solicitudes -> Solicitud]
      /\ solicitud'[s].paso = p /\ solicitud'[s].pago = solicitud[s].pago
      /\ solicitud'[s].total = solicitud[s].total
      /\ \A o \in Solicitudes : o # s => solicitud'[o] = solicitud[o]
  BY <1>1 DEF PasaSolicitud, FacturasTypeOK, Solicitud
<1>3. FacturasTypeOK'  BY <1>2 DEF PasaSolicitud, FacturasTypeOK
<1>4. EnTramite'
  <2> SUFFICES ASSUME NEW o \in Solicitudes
               PROVE  /\ solicitud'[o].paso \in Pidiendo => solicitud'[o].total \in Importes
                      /\ solicitud'[o].paso = "cancela" =>
                           solicitud'[o].id \in FacturaIds
                               /\ factura'[solicitud'[o].id].estatus # "no"
    BY DEF EnTramite
  <2>1. CASE o = s  BY <1>1, <1>2, <2>1 DEF EnTramite
  <2>2. CASE o # s  BY <1>2, <2>2 DEF EnTramite
  <2> QED  BY <2>1, <2>2
<1>5. ASSUME ~solapoFactura' PROVE UnaAUna'
  <2>1. UnaAUna  BY <1>5 DEF PasaSolicitud
  <2>2. \A o \in Solicitudes : SolicitudLibre(o)' <=> SolicitudLibre(o)
    BY <1>1, <1>2 DEF SolicitudLibre, Pidiendo
  <2>3. \A o \in Solicitudes : solicitud'[o].paso \in Pidiendo => solicitud[o].paso \in Pidiendo
    BY <1>2
  <2>4. \A o \in Solicitudes : solicitud'[o].pago = solicitud[o].pago  BY <1>2
  <2>5. \A q : PuedeFacturar(q) => PuedeFacturar(q)'  BY DEF PuedeFacturar, DelPago
  <2>6. \A o \in Solicitudes : solicitud'[o].paso \in Pidiendo /\ solicitud'[o].pago # SinPago
                               => PuedeFacturar(solicitud[o].pago)'
    <3> SUFFICES ASSUME NEW o \in Solicitudes, solicitud'[o].paso \in Pidiendo,
                        solicitud'[o].pago # SinPago
                 PROVE  PuedeFacturar(solicitud[o].pago)'
      OBVIOUS
    <3>1. PuedeFacturar(solicitud[o].pago)  BY <2>1, <2>3, <2>4 DEF UnaAUna
    <3> QED  BY <2>4, <3>1 DEF PuedeFacturar, DelPago
  <2>7. Unica'  BY <2>1 DEF UnaAUna, Unica
  <2> QED  BY <2>1, <2>2, <2>6, <2>7 DEF UnaAUna
<1> QED  BY <1>3, <1>4, <1>5

\* A request ends; it removed no invoice, and left the live ones as they must be.
LEMMA AcabaInvariante ==
    ASSUME FacturasIInv, NEW s \in Solicitudes, ~SolicitudLibre(s), AcabaSolicitud(s),
           factura' \in [FacturaIds -> Factura \cup {NoFactura}], perfil' \in BOOLEAN,
           UNCHANGED cancelaciones,
           \A i \in FacturaIds : factura[i].estatus # "no" => factura'[i].estatus # "no",
           ~solapoFactura => Unica'
    PROVE  FacturasIInv'
<1> USE DEF FacturasIInv
<1>1. /\ solicitud' \in [Solicitudes -> Solicitud] /\ solicitud'[s].paso = "idle"
      /\ \A o \in Solicitudes : o # s => solicitud'[o] = solicitud[o]
  BY SinSolicitudTipo DEF AcabaSolicitud, FacturasTypeOK
<1>2. FacturasTypeOK'  BY <1>1 DEF AcabaSolicitud, FacturasTypeOK
<1>3. EnTramite'
  <2> SUFFICES ASSUME NEW o \in Solicitudes
               PROVE  /\ solicitud'[o].paso \in Pidiendo => solicitud'[o].total \in Importes
                      /\ solicitud'[o].paso = "cancela" =>
                           solicitud'[o].id \in FacturaIds
                               /\ factura'[solicitud'[o].id].estatus # "no"
    BY DEF EnTramite
  <2>1. CASE o = s  BY <1>1, <2>1 DEF Pidiendo
  <2>2. CASE o # s  BY <1>1, <2>2 DEF EnTramite
  <2> QED  BY <2>1, <2>2
<1>4. ASSUME ~solapoFactura' PROVE UnaAUna'
  BY <1>4, <1>1 DEF AcabaSolicitud, UnaAUna, SolicitudLibre, Pidiendo
<1> QED  BY <1>2, <1>3, <1>4

--------------------
LEMMA SolicitarInvariante ==
    ASSUME FacturasIInv, NEW s \in Solicitudes, NEW p \in PagosFacturables \cup {SinPago},
           NEW t \in Importes, Solicitar(s, p, t)
    PROVE  FacturasIInv'
<1> DEFINE w == [SinSolicitud EXCEPT !.paso = "perfil", !.pago = p, !.total = t]
<1>1. w \in Solicitud /\ w.paso = "perfil" /\ w.pago = p /\ w.total = t
  BY DEF SinSolicitud, Solicitud
<1>2. EmpiezaSolicitud(s, w) /\ UNCHANGED <<factura, perfil, cancelaciones>>
      /\ (p # SinPago => PuedeFacturar(p))
  BY DEF Solicitar
<1>3. cancelaciones' \in 0 .. MaxCancelaciones  BY <1>2 DEF FacturasIInv, FacturasTypeOK
<1> HIDE DEF w
<1> QED  BY <1>1, <1>2, <1>3, EmpiezaInvariante

LEMMA CancelarInvariante ==
    ASSUME FacturasIInv, NEW s \in Solicitudes, NEW i \in FacturaIds, Cancelar(s, i)
    PROVE  FacturasIInv'
<1> DEFINE w == [SinSolicitud EXCEPT !.paso = "cancela", !.id = i]
<1>1. w \in Solicitud /\ w.paso = "cancela" /\ w.id = i  BY DEF SinSolicitud, Solicitud
<1>2. EmpiezaSolicitud(s, w) /\ UNCHANGED <<factura, perfil>> /\ factura[i].estatus # "no"
  BY DEF Cancelar
<1>3. cancelaciones' \in 0 .. MaxCancelaciones  BY DEF Cancelar, FacturasIInv, FacturasTypeOK
<1> HIDE DEF w
<1> QED  BY <1>1, <1>2, <1>3, EmpiezaInvariante DEF Pidiendo

LEMMA PerfilInvariante ==
    ASSUME FacturasIInv, NEW s \in Solicitudes, ResolverPerfil(s) \/ CreaPerfil(s)
    PROVE  FacturasIInv'
<1>1. CASE ResolverPerfil(s)
  BY <1>1, PasaInvariante DEF ResolverPerfil, Pidiendo, FacturasIInv, FacturasTypeOK
<1>2. CASE CreaPerfil(s) /\ ~perfil  BY <1>2, PasaInvariante DEF CreaPerfil, Pidiendo
<1>3. CASE CreaPerfil(s) /\ perfil
  BY <1>3, AcabaInvariante DEF CreaPerfil, SolicitudLibre, FacturasIInv, UnaAUna, Unica,
     FacturasTypeOK
<1> QED  BY <1>1, <1>2, <1>3

\* A draft is added: its payment had none, or a cancelled one.
LEMMA FacturasGuardaInvariante ==
    ASSUME FacturasIInv, NEW s \in Solicitudes, GuardaFactura(s)
    PROVE  FacturasIInv'
<1> DEFINE p == solicitud[s].pago
           n == [pago |-> p, estatus |-> "borrador", importe |-> DesglosarIva(solicitud[s].total)]
<1>1. PICK i \in FacturaIds : factura[i] = NoFactura /\ factura' = [factura EXCEPT ![i] = n]
  BY DEF GuardaFactura
<1>2. ~SolicitudLibre(s) /\ solicitud[s].paso \in Pidiendo /\ AcabaSolicitud(s)
      /\ UNCHANGED <<perfil, cancelaciones>>
  BY DEF GuardaFactura, SolicitudLibre, Pidiendo
<1>3. n \in Factura /\ n.pago = p /\ n.estatus = "borrador"
  BY <1>2 DEF FacturasIInv, EnTramite, FacturasTypeOK, Solicitud, Factura
<1> HIDE DEF n
<1>4. /\ factura' \in [FacturaIds -> Factura \cup {NoFactura}] /\ factura'[i] = n
      /\ \A k \in FacturaIds : k # i => factura'[k] = factura[k]
  BY <1>1, <1>3 DEF FacturasIInv, FacturasTypeOK
<1>5. \A k \in FacturaIds : factura[k].estatus # "no" => k # i /\ factura'[k] = factura[k]
  BY <1>1, <1>4 DEF NoFactura
<1>6. ASSUME ~solapoFactura PROVE Unica'
  <2>1. UnaAUna  BY <1>6 DEF FacturasIInv
  <2>2. \A k \in FacturaIds : factura[k].estatus = "cancelada" => factura'[k] = factura[k]  BY <1>5
  <2>3. ASSUME NEW k \in FacturaIds, k # i, factura'[k].estatus = "borrador",
               factura'[k].pago = p, p # SinPago
        PROVE  \E c \in FacturaIds : factura'[c].estatus = "cancelada" /\ factura'[c].pago = p
    <3>1. k \in DelPago(p)  BY <1>4, <2>3 DEF DelPago
    <3>2. PuedeFacturar(p)  BY <1>2, <2>1, <2>3 DEF UnaAUna
    <3>3. PICK c \in DelPago(p) : factura[c].estatus = "cancelada"  BY <3>1, <3>2 DEF PuedeFacturar
    <3> QED  BY <2>2, <3>3 DEF DelPago
  <2>4. SUFFICES ASSUME NEW a \in FacturaIds, NEW b \in FacturaIds, a # b,
                        factura'[a].estatus = "borrador", factura'[b].estatus = "borrador",
                        factura'[a].pago = factura'[b].pago, factura'[a].pago # SinPago
                 PROVE  \E c \in FacturaIds : factura'[c].estatus = "cancelada"
                                              /\ factura'[c].pago = factura'[a].pago
    BY DEF Unica
  <2> HIDE DEF p
  <2>5. CASE a = i  BY <1>3, <1>4, <2>3, <2>4, <2>5
  <2>6. CASE b = i  BY <1>3, <1>4, <2>3, <2>4, <2>6
  <2>7. CASE a # i /\ b # i  BY <1>4, <2>7, <2>1, <2>4, <2>2 DEF UnaAUna, Unica
  <2> QED  BY <2>5, <2>6, <2>7
<1> QED  BY <1>5, <1>2, <1>4, <1>6, AcabaInvariante DEF FacturasIInv, FacturasTypeOK

\* A draft becomes a cancelled invoice of the same payment.
LEMMA CanceladaInvariante ==
    ASSUME FacturasIInv, NEW s \in Solicitudes, GuardaCancelada(s)
    PROVE  FacturasIInv'
<1> DEFINE i == solicitud[s].id
<1>1. /\ ~SolicitudLibre(s) /\ AcabaSolicitud(s) /\ UNCHANGED <<perfil, cancelaciones>>
      /\ factura' = [factura EXCEPT ![i].estatus = "cancelada"]
  BY DEF GuardaCancelada, SolicitudLibre
<1>2. i \in FacturaIds /\ factura[i].estatus # "no"  BY DEF GuardaCancelada, FacturasIInv, EnTramite
<1> HIDE DEF i
<1>3. factura[i] \in Factura  BY <1>2, FilaOFactura DEF FacturasIInv
<1>4. factura \in [FacturaIds -> Factura \cup {NoFactura}]  BY DEF FacturasIInv, FacturasTypeOK
<1> DEFINE n == [factura[i] EXCEPT !.estatus = "cancelada"]
<1>5. n \in Factura /\ n.estatus = "cancelada" /\ n.pago = factura[i].pago  BY <1>3 DEF Factura
<1>6. factura' = [factura EXCEPT ![i] = n]  BY <1>1
<1> HIDE DEF n
<1>7. /\ factura' \in [FacturaIds -> Factura \cup {NoFactura}] /\ factura'[i] = n
      /\ \A k \in FacturaIds : k # i => factura'[k] = factura[k]
  BY <1>2, <1>4, <1>5, <1>6
<1>8. \A k \in FacturaIds : factura'[k].pago = factura[k].pago
        /\ (factura'[k].estatus = "borrador" => factura[k].estatus = "borrador")
        /\ (factura[k].estatus = "cancelada" => factura'[k].estatus = "cancelada")
        /\ (factura[k].estatus # "no" => factura'[k].estatus # "no")
  BY <1>5, <1>7
<1>9. ~solapoFactura => Unica'  BY <1>8 DEF FacturasIInv, UnaAUna, Unica
<1>10. perfil' \in BOOLEAN  BY <1>1 DEF FacturasIInv, FacturasTypeOK
<1> QED  BY <1>1, <1>7, <1>8, <1>9, <1>10, AcabaInvariante

LEMMA FacturasFallaInvariante ==
    ASSUME FacturasIInv, NEW s \in Solicitudes, FallaFactura(s)
    PROVE  FacturasIInv'
<1>1. ~SolicitudLibre(s) /\ AcabaSolicitud(s) /\ UNCHANGED <<factura, perfil, cancelaciones>>
  BY DEF FallaFactura
<1>2. ~solapoFactura => Unica'  BY <1>1 DEF FacturasIInv, UnaAUna, Unica
<1> QED  BY <1>1, <1>2, AcabaInvariante DEF FacturasIInv, FacturasTypeOK

--------------------
LEMMA FacturasPasoInvariante == FacturasIInv /\ [FacturasNext]_facturasVars => FacturasIInv'
<1> SUFFICES ASSUME FacturasIInv, [FacturasNext]_facturasVars PROVE FacturasIInv'  OBVIOUS
<1>1. CASE \E s \in Solicitudes, t \in Totales,
               p \in PagosFacturables \cup {SinPago} : Solicitar(s, p, t)
  BY <1>1, SolicitarInvariante DEF Importes
<1>2. CASE \E s \in Solicitudes, p \in PagosFacturables : Solicitar(s, p, MontoDe[p])
  BY <1>2, SolicitarInvariante DEF Importes
<1>3. CASE \E s \in Solicitudes : ResolverPerfil(s) \/ CreaPerfil(s) \/ GuardaFactura(s)
  BY <1>3, PerfilInvariante, FacturasGuardaInvariante
<1>4. CASE \E s \in Solicitudes, i \in FacturaIds : Cancelar(s, i)  BY <1>4, CancelarInvariante
<1>5. CASE \E s \in Solicitudes : GuardaCancelada(s) \/ FallaFactura(s)
  BY <1>5, CanceladaInvariante, FacturasFallaInvariante
<1>6. CASE UNCHANGED facturasVars
  <2>1. FacturasTypeOK' /\ EnTramite'
    BY <1>6 DEF FacturasIInv, FacturasTypeOK, EnTramite, facturasVars
  <2>2. UnaAUna => UnaAUna'
    BY <1>6 DEF UnaAUna, Unica, SolicitudLibre, PuedeFacturar, DelPago, facturasVars
  <2> QED  BY <1>6, <2>1, <2>2 DEF FacturasIInv, facturasVars
<1> QED  BY <1>1, <1>2, <1>3, <1>4, <1>5, <1>6 DEF FacturasNext

LEMMA FacturasInvarianteSiempre == FacturasSpec => []FacturasIInv
  BY FacturasInitInvariante, FacturasPasoInvariante, PTL DEF FacturasSpec

\* Rows of facturas and requests are what the code keeps, whatever overlaps or fails.
THEOREM FacturasTypeOKSiempre == FacturasSpec => []FacturasTypeOK
<1>1. FacturasIInv => FacturasTypeOK  BY DEF FacturasIInv
<1> QED  BY <1>1, FacturasInvarianteSiempre, PTL

\* The breakdown of every invoice is exact to the centavo, for every amount.
THEOREM DesgloseExactoSiempre == FacturasSpec => []DesgloseExacto
<1>1. FacturasIInv => DesgloseExacto
  <2> SUFFICES ASSUME FacturasIInv, NEW i \in FacturaIds, factura[i].estatus # "no"
               PROVE  LET m == factura[i].importe
                          resto == 100 * m.impuestos - 16 * m.subtotal
                      IN  /\ m.subtotal + m.impuestos = m.total /\ m.total > 0
                          /\ -100 < resto /\ resto < 100
    BY DEF DesgloseExacto
  <2>1. factura[i] \in Factura  BY FilaOFactura DEF FacturasIInv
  <2>2. PICK t \in Importes : factura[i].importe = DesglosarIva(t)  BY <2>1 DEF Factura
  <2> QED  BY <2>2, ImportesPositivos, DesgloseAlCentavo
<1> QED  BY <1>1, FacturasInvarianteSiempre, PTL

\* A payment has one live invoice, while no calls overlapped and none was cancelled.
THEOREM FacturaUnicaSiempre == FacturasSpec => []FacturaUnica
<1>1. FacturasIInv => FacturaUnica  BY DEF FacturasIInv, UnaAUna, Unica, FacturaUnica
<1> QED  BY <1>1, FacturasInvarianteSiempre, PTL

HIDE FacturasAssumption DEF FacturasAssumption

--------------------
USE AnunciosAssumption DEF AnunciosAssumption

\* What a request is made of.  The row of quota it carries may be any.
Claves == {"op", "paso", "a", "next", "ilimitada", "limite", "mes", "fila", "id", "cupo"}
Forma(w) == w = [k \in Claves |-> w[k]]
DeAnuncio(w) == w.op \in {"estatus", "edita"}
PasosAnuncio == {"idle", "reglas", "slots", "cupo", "crea", "addons", "guardaAddon", "base",
                 "guardaBase", "cobra", "guarda"}

\* A request that changes an advert has read it.
Leida(w) ==
    /\ w.op \in {"none", "estatus", "edita", "panel"} /\ w.paso \in PasosAnuncio
    /\ w.next \in Estatus /\ w.ilimitada \in BOOLEAN /\ w.limite \in Nat
    /\ w.paso \in {"reglas", "slots", "cobra", "guarda"} => DeAnuncio(w)
    /\ w.paso = "slots" => w.limite <= techo
    /\ w.op = "none" <=> w.paso = "idle"
    /\ DeAnuncio(w) => w.a \in Creados /\ w.fila \in Anuncio
AnunciosForma ==
    /\ anuncio \in [Anuncios -> Anuncio \cup {NoFilaAnuncio}]
    /\ gestion = [g \in Gestores |-> gestion[g]]
    /\ \A g \in Gestores : Forma(gestion[g]) /\ Leida(gestion[g])
    /\ membresia \in Membresias /\ hoy \in Nat
    /\ techo \in Nat /\ LimiteDe(membresia) <= techo
    /\ solapo \in BOOLEAN /\ gratis \in BOOLEAN /\ movio \in BOOLEAN

\* What a request is about to save as active was charged.
Marcada(w) ==
    DeAnuncio(w) => /\ w.paso = "guarda" /\ w.next = "active" => w.fila.cupoConsumido
                    /\ w.paso \in {"reglas", "slots"} => ~w.ilimitada
ActivosMarcados ==
    ~gratis => /\ \A a \in Creados : anuncio[a].status = "active" => anuncio[a].cupoConsumido
               /\ \A g \in Gestores : Marcada(gestion[g])

\* While none overlapped, a request past the count of the slots still fits in the most
\* slots the business has had.
Corriendo == {a \in Anuncios : Corre(a)}
Cabe(w) ==
    DeAnuncio(w) =>
        /\ w.op = "estatus" => w.fila.vigencia = anuncio[w.a].vigencia
        /\ w.op = "edita" => w.next = anuncio[w.a].status
        /\ w.paso \notin {"reglas", "slots"} /\ w.next = "active" =>
             anuncio[w.a].status = "active" \/ Cardinality(Ocupados(w.a)) < techo
EnLosSlots ==
    ~solapo /\ ~movio =>
        /\ \A g, o \in Gestores : ~EnPaso(g, "idle") /\ ~EnPaso(o, "idle") => g = o
        /\ \A a \in Creados : anuncio[a].status = "active" => anuncio[a].vigencia.inicio <= hoy
        /\ Cardinality(Corriendo) <= techo
        /\ \A g \in Gestores : Cabe(gestion[g])

AnunciosInv == AnunciosForma /\ ActivosMarcados /\ EnLosSlots

--------------------
LEMMA NoFilaNo == NoFilaAnuncio \notin Anuncio
  BY DEF NoFilaAnuncio, Anuncio

LEMMA BorradorTipo ==
    ASSUME NEW v \in Vigencia
    PROVE  Borrador(v) \in Anuncio /\ Borrador(v).status = "paused" /\ Borrador(v) # NoFilaAnuncio
  BY DEF Borrador, Anuncio, Estatus, NoFilaAnuncio

LEMMA SinGestionForma ==
    /\ Forma(SinGestion) /\ SinGestion.op = "none" /\ SinGestion.paso = "idle"
    /\ SinGestion.next = "paused" /\ SinGestion.ilimitada = FALSE /\ SinGestion.limite = 0
  BY DEF SinGestion, Forma, Claves

LEMMA SinGestionLeida == Leida(SinGestion) /\ ~DeAnuncio(SinGestion)
<1>1. 0 \in Nat  OBVIOUS
<1> QED BY <1>1, SinGestionForma DEF Leida, DeAnuncio, PasosAnuncio, Estatus

LEMMA Finitos ==
    /\ IsFiniteSet(Corriendo)
    /\ \A a : IsFiniteSet(Ocupados(a))
<1>1. IsFiniteSet(Anuncios)  BY AnunciosAssumption
<1>2. Corriendo \in SUBSET Anuncios /\ \A a : Ocupados(a) \in SUBSET Anuncios
  BY DEF Corriendo, Ocupados
<1> QED BY ONLY <1>1, <1>2, FS_Subset

LEMMA MenosCaben ==
    ASSUME NEW S, NEW T, IsFiniteSet(T), S \subseteq T
    PROVE  IsFiniteSet(S) /\ Cardinality(S) \in Nat /\ Cardinality(T) \in Nat
           /\ Cardinality(S) <= Cardinality(T)
<1>1. S \in SUBSET T  OBVIOUS
<1> QED BY ONLY <1>1, IsFiniteSet(T), FS_Subset, FS_CardinalityType

LEMMA LimiteDeTipo == \A mb \in Membresias : LimiteDe(mb) \in Nat
<1>1. Cardinality(Anuncios) \in Nat  BY AnunciosAssumption, FS_CardinalityType
<1> QED BY <1>1, AnunciosAssumption DEF LimiteDe

\* With no rules nothing is counted, and no count would have refused.
LEMMA SinReglasCabe ==
    ASSUME AnunciosForma, ~membresia.reglas, NEW a \in Anuncios
    PROVE  Cardinality(Ocupados(a)) < techo
<1>1. Ocupados(a) \cup {a} \in SUBSET Anuncios /\ a \notin Ocupados(a)  BY DEF Ocupados
<1>2. IsFiniteSet(Anuncios)  BY AnunciosAssumption
<1>3. IsFiniteSet(Ocupados(a))  BY Finitos
<1>4. /\ Cardinality(Ocupados(a) \cup {a}) = Cardinality(Ocupados(a)) + 1
      /\ Cardinality(Ocupados(a)) \in Nat
  BY <1>1, <1>3, FS_AddElement, FS_CardinalityType
<1>5. /\ Cardinality(Ocupados(a) \cup {a}) <= Cardinality(Anuncios)
      /\ Cardinality(Anuncios) \in Nat
  BY <1>1, <1>2, MenosCaben
<1>6. Cardinality(Anuncios) <= techo /\ techo \in Nat  BY DEF AnunciosForma, LimiteDe
<1> QED BY <1>4, <1>5, <1>6

\* A step of one request.
LEMMA Pone1 ==
    ASSUME AnunciosForma, NEW g \in Gestores, NEW w, Pone(g, w)
    PROVE  /\ gestion' = [o \in Gestores |-> gestion'[o]]
           /\ gestion'[g] = w
           /\ \A o \in Gestores : o # g => gestion'[o] = gestion[o]
  BY DEF AnunciosForma, Pone

LEMMA AnunciosInvInit == AnunciosInit => AnunciosInv
<1> SUFFICES ASSUME AnunciosInit PROVE AnunciosInv  OBVIOUS
<1>1. /\ anuncio \in [Anuncios -> Anuncio \cup {NoFilaAnuncio}]
      /\ \A a \in Anuncios : anuncio[a] = NoFilaAnuncio \/ anuncio[a].status = "paused"
  BY BorradorTipo DEF AnunciosInit
<1>2. gestion = [g \in Gestores |-> gestion[g]] /\ \A g \in Gestores : gestion[g] = SinGestion
  BY DEF AnunciosInit
<1>3. /\ membresia \in Membresias /\ hoy \in Nat /\ solapo \in BOOLEAN /\ gratis \in BOOLEAN
      /\ movio \in BOOLEAN /\ techo = LimiteDe(membresia)
  BY DEF AnunciosInit
<1>a. techo \in Nat /\ LimiteDe(membresia) <= techo  BY <1>3, LimiteDeTipo
<1>4. AnunciosForma  BY <1>a, <1>1, <1>2, <1>3, SinGestionForma, SinGestionLeida DEF AnunciosForma
<1>5. \A a \in Creados : anuncio[a].status # "active"  BY <1>1 DEF Creados
<1>6. Corriendo = {}  BY <1>5 DEF Corriendo, Corre
<1>7. ActivosMarcados  BY <1>2, <1>5, SinGestionLeida DEF ActivosMarcados, Marcada
<1>8. Cardinality(Corriendo) <= techo  BY <1>6, <1>a, FS_EmptySet
<1>9. EnLosSlots  BY <1>2, <1>5, <1>8, SinGestionForma, SinGestionLeida DEF EnLosSlots, EnPaso, Cabe
<1> QED BY <1>4, <1>7, <1>9 DEF AnunciosInv

\* A request goes on, or ends, and no advert is written.
LEMMA Avance ==
    ASSUME AnunciosInv, NEW g \in Gestores, ~EnPaso(g, "idle"), NEW v, Pone(g, v),
           UNCHANGED <<anuncio, membresia, techo, hoy, solapo, gratis, movio>>,
           \/ v = SinGestion
           \/ /\ Forma(v) /\ v.op = gestion[g].op /\ v.a = gestion[g].a
              /\ v.next = gestion[g].next /\ v.ilimitada = gestion[g].ilimitada
              /\ v.limite \in Nat /\ v.paso \in PasosAnuncio \ {"idle", "reglas"}
              /\ v.paso = "slots" => gestion[g].paso = "reglas" /\ v.limite <= techo
              /\ \/ v.fila = gestion[g].fila
                 \/ /\ gestion[g].paso = "cobra"
                    /\ v.fila = [gestion[g].fila EXCEPT !.cupoConsumido = TRUE]
              /\ v.paso \in {"cobra", "guarda"} => DeAnuncio(gestion[g])
              /\ v.paso = "guarda" => \/ v.fila.cupoConsumido
                                      \/ /\ gestion[g].ilimitada
                                         /\ gestion[g].paso \in {"reglas", "slots"}
              /\ gestion[g].paso \in {"reglas", "slots"} /\ v.paso # "slots" =>
                     Cardinality(Ocupados(gestion[g].a)) < techo
    PROVE  AnunciosInv'
<1> DEFINE w == gestion[g]
<1>1. AnunciosForma /\ Forma(w) /\ Leida(w) /\ w.paso # "idle"
  BY DEF AnunciosInv, AnunciosForma, EnPaso
<1>2. /\ gestion' = [o \in Gestores |-> gestion'[o]]
      /\ gestion'[g] = v
      /\ \A o \in Gestores : o # g => gestion'[o] = gestion[o]
  BY <1>1, Pone1
<1>3. Creados' = Creados /\ Corriendo' = Corriendo /\ \A a : Ocupados(a)' = Ocupados(a)
  BY DEF Creados, Corriendo, Ocupados, Corre, AnuncioEnCurso
<1>4. v = SinGestion \/
        /\ DeAnuncio(v) <=> DeAnuncio(w)
        /\ DeAnuncio(w) => w.fila \in Anuncio /\ v.fila \in Anuncio
                           /\ v.fila.vigencia = w.fila.vigencia
  BY <1>1 DEF Leida, Anuncio, DeAnuncio
<1>5. Forma(v) /\ Leida(v)  BY <1>1, <1>4, SinGestionForma, SinGestionLeida DEF Leida, DeAnuncio
<1>6. AnunciosForma'  BY <1>1, <1>2, <1>5, <1>3 DEF AnunciosForma, Leida, DeAnuncio, Forma
<1>7. ActivosMarcados'
  <2> SUFFICES ASSUME ~gratis
               PROVE  /\ \A a \in Creados : anuncio[a].status = "active"
                                              => anuncio[a].cupoConsumido
                      /\ \A o \in Gestores : Marcada(gestion'[o])
    BY <1>3 DEF ActivosMarcados, Marcada, DeAnuncio
  <2>1. /\ \A a \in Creados : anuncio[a].status = "active" => anuncio[a].cupoConsumido
        /\ \A o \in Gestores : Marcada(gestion[o])
    BY DEF AnunciosInv, ActivosMarcados
  <2>2. Marcada(v)  BY <1>1, <1>4, <2>1, SinGestionLeida DEF Marcada, Leida
  <2> QED BY <1>2, <2>1, <2>2
<1>8. EnLosSlots'
  <2> SUFFICES ASSUME ~solapo, ~movio PROVE EnLosSlots'  BY DEF EnLosSlots
  <2>1. /\ \A h, o \in Gestores : ~EnPaso(h, "idle") /\ ~EnPaso(o, "idle") => h = o
        /\ \A a \in Creados : anuncio[a].status = "active" => anuncio[a].vigencia.inicio <= hoy
        /\ Cardinality(Corriendo) <= techo
        /\ \A o \in Gestores : Cabe(gestion[o])
    BY DEF AnunciosInv, EnLosSlots
  <2>2. Cabe(v)  BY <1>1, <1>4, <2>1, SinGestionLeida DEF Cabe
  <2>3. \A o \in Gestores : Cabe(gestion'[o])  BY <1>2, <2>1, <2>2
  <2>4. \A o \in Gestores : Cabe(gestion[o])'  BY <1>3, <2>3 DEF Cabe, DeAnuncio
  <2>5. \A h, o \in Gestores : ~EnPaso(h, "idle")' /\ ~EnPaso(o, "idle")' => h = o
    BY <1>1, <1>2, <2>1 DEF EnPaso
  <2> QED BY <1>3, <2>1, <2>4, <2>5 DEF EnLosSlots
<1> QED BY <1>6, <1>7, <1>8 DEF AnunciosInv

\* The steps between the reading of an advert and its save.
LEMMA AvanceSimple ==
    ASSUME AnunciosInv, NEW g \in Gestores, ~EnPaso(g, "idle"), NEW v, Pone(g, v),
           UNCHANGED <<anuncio, membresia, techo, hoy, solapo, gratis, movio>>,
           gestion[g].paso \notin {"reglas", "slots"}, v.limite = gestion[g].limite,
           Forma(v), v.op = gestion[g].op, v.a = gestion[g].a, v.next = gestion[g].next,
           v.ilimitada = gestion[g].ilimitada, v.fila = gestion[g].fila,
           \/ v.paso \in PasosAnuncio \ {"idle", "reglas", "slots", "cobra", "guarda"}
           \/ v.paso = "cobra" /\ DeAnuncio(gestion[g])
    PROVE  AnunciosInv'
<1>1. v.paso \in PasosAnuncio \ {"idle", "reglas"} /\ v.paso \notin {"slots", "guarda"}
  BY DEF PasosAnuncio
<1>2. v.paso \in {"cobra", "guarda"} => DeAnuncio(gestion[g])  OBVIOUS
<1>3. v.limite \in Nat  BY DEF AnunciosInv, AnunciosForma, Leida
<1> QED BY <1>1, <1>2, <1>3, Avance

LEMMA DeForma ==
    ASSUME AnunciosInv, NEW g \in Gestores
    PROVE  Forma(gestion[g]) /\ Leida(gestion[g])
  BY DEF AnunciosInv, AnunciosForma

\* What a change of the step leaves.
LEMMA OtroPaso ==
    ASSUME NEW w, Forma(w), NEW p
    PROVE  LET v == [w EXCEPT !.paso = p]
           IN  /\ Forma(v) /\ v.op = w.op /\ v.a = w.a /\ v.next = w.next
               /\ v.ilimitada = w.ilimitada /\ v.limite = w.limite
               /\ v.fila = w.fila /\ v.paso = p
  BY DEF Forma, Claves

\* Where a request goes past the slots, which it fits in.
LEMMA InvTrasSlots ==
    ASSUME AnunciosInv, NEW g \in Gestores, gestion[g].paso \in {"reglas", "slots"},
           UNCHANGED <<anuncio, membresia, techo, hoy, solapo, gratis, movio>>,
           Pone(g, [gestion[g] EXCEPT !.paso = TrasSlots(gestion[g])]),
           Cardinality(Ocupados(gestion[g].a)) < techo
    PROVE  AnunciosInv'
<1>1. Forma(gestion[g]) /\ Leida(gestion[g]) /\ DeAnuncio(gestion[g])  BY DeForma DEF Leida
<1>2. PICK p : p = TrasSlots(gestion[g])  OBVIOUS
<1> DEFINE v == [gestion[g] EXCEPT !.paso = p]
<1>3. Pone(g, v)  BY <1>2
<1>4. /\ Forma(v) /\ v.op = gestion[g].op /\ v.a = gestion[g].a /\ v.next = gestion[g].next
      /\ v.ilimitada = gestion[g].ilimitada /\ v.limite = gestion[g].limite
      /\ v.fila = gestion[g].fila /\ v.paso = p
  BY <1>1, OtroPaso
<1> HIDE DEF v
<1>5. /\ v.paso \in PasosAnuncio \ {"idle", "reglas"} /\ v.paso # "slots"
      /\ v.paso = "guarda" => v.fila.cupoConsumido \/ gestion[g].ilimitada
  BY <1>2, <1>4 DEF PasosAnuncio, TrasSlots
<1>6. v.limite \in Nat /\ ~EnPaso(g, "idle")  BY <1>1, <1>4 DEF Leida, EnPaso
<1> QED BY <1>1, <1>3, <1>4, <1>5, <1>6, Avance

LEMMA InvLeeReglas ==
    ASSUME AnunciosInv, NEW g \in Gestores, LeeReglas(g) PROVE AnunciosInv'
<1>1. /\ UNCHANGED <<anuncio, membresia, techo, hoy, solapo, gratis, movio>>
      /\ gestion[g].paso = "reglas" /\ ~EnPaso(g, "idle")
  BY DEF LeeReglas, anunciosTablas, anunciosMundo, EnPaso
<1>2. /\ Forma(gestion[g]) /\ Leida(gestion[g]) /\ DeAnuncio(gestion[g])
      /\ gestion[g].a \in Anuncios /\ AnunciosForma
  BY <1>1, DeForma DEF Leida, AnunciosInv, Creados
<1>3. CASE membresia.reglas
  <2>1. PICK n : n = membresia.slots  OBVIOUS
  <2>2. n \in Nat /\ n <= techo
    BY <1>2, <1>3, <2>1, AnunciosAssumption DEF AnunciosForma, LimiteDe
  <2> DEFINE v == [gestion[g] EXCEPT !.paso = "slots", !.limite = n]
  <2>3. Pone(g, v)  BY <1>3, <2>1 DEF LeeReglas
  <2>4. /\ Forma(v) /\ v.op = gestion[g].op /\ v.a = gestion[g].a /\ v.next = gestion[g].next
        /\ v.ilimitada = gestion[g].ilimitada /\ v.limite = n
        /\ v.fila = gestion[g].fila /\ v.paso = "slots"
    BY <1>2 DEF Forma, Claves
  <2> HIDE DEF v
  <2>5. "slots" \in PasosAnuncio \ {"idle", "reglas"}  BY DEF PasosAnuncio
  <2> QED BY <1>1, <1>2, <2>2, <2>3, <2>4, <2>5, Avance
<1>4. CASE ~membresia.reglas
  <2>1. Pone(g, [gestion[g] EXCEPT !.paso = TrasSlots(gestion[g])])  BY <1>4 DEF LeeReglas
  <2>2. Cardinality(Ocupados(gestion[g].a)) < techo  BY <1>2, <1>4, SinReglasCabe
  <2> QED BY <1>1, <2>1, <2>2, InvTrasSlots
<1> QED BY <1>3, <1>4

LEMMA InvCuentaSlots ==
    ASSUME AnunciosInv, NEW g \in Gestores, CuentaSlots(g) PROVE AnunciosInv'
<1>1. /\ UNCHANGED <<anuncio, membresia, techo, hoy, solapo, gratis, movio>>
      /\ gestion[g].paso = "slots" /\ ~EnPaso(g, "idle")
  BY DEF CuentaSlots, anunciosTablas, anunciosMundo, EnPaso
<1>2. Forma(gestion[g]) /\ Leida(gestion[g]) /\ DeAnuncio(gestion[g])  BY <1>1, DeForma DEF Leida
<1>3. CASE Cardinality(Ocupados(gestion[g].a)) >= gestion[g].limite
  <2>1. Pone(g, SinGestion)  BY <1>3 DEF CuentaSlots
  <2> QED BY <1>1, <2>1, Avance
<1>4. CASE ~(Cardinality(Ocupados(gestion[g].a)) >= gestion[g].limite)
  <2>1. Pone(g, [gestion[g] EXCEPT !.paso = TrasSlots(gestion[g])])
    BY <1>4 DEF CuentaSlots, Pasa
  <2>2. PICK n, k : n = gestion[g].limite /\ k = Cardinality(Ocupados(gestion[g].a))  OBVIOUS
  <2>3. n \in Nat /\ n <= techo /\ k \in Nat /\ techo \in Nat /\ k < n
    BY <1>1, <1>2, <1>4, <2>2, Finitos, FS_CardinalityType DEF Leida, AnunciosInv, AnunciosForma
  <2>4. k < techo  BY <2>3
  <2> QED BY <1>1, <2>1, <2>2, <2>4, InvTrasSlots
<1> QED BY <1>3, <1>4

LEMMA InvCupos ==
    ASSUME AnunciosInv, NEW g \in Gestores,
           LeeCupo(g) \/ CreaCupo(g) \/ Addons(g) \/ Base(g) \/ GuardaCupo(g)
    PROVE  AnunciosInv'
<1> DEFINE w == gestion[g]
<1>1. /\ UNCHANGED <<anuncio, membresia, techo, hoy, solapo, gratis, movio>>
      /\ w.paso \in {"cupo", "crea", "addons", "base", "guardaAddon", "guardaBase"}
  BY DEF LeeCupo, CreaCupo, Addons, Base, GuardaCupo, anunciosTablas, anunciosMundo, EnPaso
<1>2. ~EnPaso(g, "idle") /\ w.paso \notin {"reglas", "slots"}  BY <1>1 DEF EnPaso
<1>3. Forma(w) /\ Leida(w)  BY DeForma
<1>4. w.op # "panel" => DeAnuncio(w)  BY <1>1, <1>3 DEF Leida, DeAnuncio
<1>5. ASSUME NEW v, Forma(v), v.op = w.op, v.a = w.a, v.next = w.next,
             v.ilimitada = w.ilimitada, v.limite = w.limite, v.fila = w.fila, Pone(g, v),
             \/ v.paso \in PasosAnuncio \ {"idle", "reglas", "slots", "cobra", "guarda"}
             \/ v.paso = "cobra" /\ w.op # "panel"
      PROVE  AnunciosInv'
  BY <1>1, <1>2, <1>4, <1>5, AvanceSimple
<1>6. ASSUME Pone(g, SinGestion) PROVE AnunciosInv'  BY <1>1, <1>2, <1>6, Avance
<1>7. /\ {"addons", "guardaAddon", "base", "guardaBase", "crea"} \subseteq
            PasosAnuncio \ {"idle", "reglas", "slots", "cobra", "guarda"}
  BY DEF PasosAnuncio
<1> HIDE DEF w
<1>8. ASSUME NEW p \in {"addons", "guardaAddon", "base", "guardaBase", "crea"},
             Pone(g, [w EXCEPT !.paso = p])
      PROVE  AnunciosInv'
  <2> DEFINE v == [w EXCEPT !.paso = p]
  <2>1. /\ Forma(v) /\ v.op = w.op /\ v.a = w.a /\ v.next = w.next
        /\ v.ilimitada = w.ilimitada /\ v.limite = w.limite /\ v.fila = w.fila /\ v.paso = p
    BY <1>3, OtroPaso
  <2> HIDE DEF v
  <2> QED BY <1>5, <1>7, <1>8, <2>1 DEF v
<1>9. ASSUME NEW p \in {"addons", "guardaAddon", "base", "guardaBase"}, NEW i, NEW c,
             Pone(g, [w EXCEPT !.paso = p, !.id = i, !.cupo = c])
      PROVE  AnunciosInv'
  <2> DEFINE v == [w EXCEPT !.paso = p, !.id = i, !.cupo = c]
  <2>1. /\ Forma(v) /\ v.op = w.op /\ v.a = w.a /\ v.next = w.next
        /\ v.ilimitada = w.ilimitada /\ v.limite = w.limite /\ v.fila = w.fila /\ v.paso = p
    BY <1>3 DEF Forma, Claves
  <2> HIDE DEF v
  <2> QED BY <1>5, <1>7, <1>9, <2>1 DEF v
<1>10. CASE LeeCupo(g)
  <2>1. CASE Pasa(g, "crea")  BY <2>1, <1>8 DEF Pasa, w
  <2>2. CASE \E i, c : Pone(g, [w EXCEPT !.paso = "addons", !.id = i, !.cupo = c])  BY <2>2, <1>9
  <2> QED BY <1>10, <2>1, <2>2 DEF LeeCupo, w
<1>11. CASE CreaCupo(g)  BY <1>9, <1>11 DEF CreaCupo, w
<1>12. CASE Addons(g)
  <2> DEFINE n == extra[w.mes]
             p == IF w.cupo.addon # n THEN "guardaAddon" ELSE "base"
             v == [w EXCEPT !.cupo.addon = n, !.paso = p]
  <2>1. Pone(g, v) /\ p \in {"guardaAddon", "base"}  BY <1>12 DEF Addons, w
  <2> HIDE DEF p, n
  <2>2. /\ Forma(v) /\ v.op = w.op /\ v.a = w.a /\ v.next = w.next
        /\ v.ilimitada = w.ilimitada /\ v.limite = w.limite /\ v.fila = w.fila /\ v.paso = p
    BY <1>3 DEF Forma, Claves
  <2> HIDE DEF v
  <2> QED BY <1>5, <1>7, <2>1, <2>2
<1>13. ASSUME NEW v, Forma(v), v.op = w.op, v.a = w.a, v.next = w.next,
              v.ilimitada = w.ilimitada, v.limite = w.limite, v.fila = w.fila, Pone(g, TrasCupo(v))
       PROVE  AnunciosInv'
  <2>1. CASE w.op = "panel"  BY <1>6, <1>13, <2>1 DEF TrasCupo
  <2>2. CASE w.op # "panel"
    <3> DEFINE u == [v EXCEPT !.paso = "cobra"]
    <3>1. Pone(g, u)  BY <1>13, <2>2 DEF TrasCupo
    <3>2. /\ Forma(u) /\ u.op = v.op /\ u.a = v.a /\ u.next = v.next
          /\ u.ilimitada = v.ilimitada /\ u.limite = v.limite /\ u.fila = v.fila /\ u.paso = "cobra"
      BY <1>13, OtroPaso
    <3> HIDE DEF u
    <3> QED BY <1>5, <1>13, <2>2, <3>1, <3>2
  <2> QED BY <2>1, <2>2
<1>14. CASE Base(g)
  <2> DEFINE v == [w EXCEPT !.cupo.base = membresia.base]
             u == [v EXCEPT !.paso = "guardaBase"]
  <2>1. Pone(g, u) \/ Pone(g, TrasCupo(v))  BY <1>14 DEF Base, w
  <2>2. /\ Forma(v) /\ v.op = w.op /\ v.a = w.a /\ v.next = w.next
        /\ v.ilimitada = w.ilimitada /\ v.limite = w.limite /\ v.fila = w.fila
    BY <1>3 DEF Forma, Claves
  <2> HIDE DEF v
  <2>3. /\ Forma(u) /\ u.op = v.op /\ u.a = v.a /\ u.next = v.next
        /\ u.ilimitada = v.ilimitada /\ u.limite = v.limite /\ u.fila = v.fila /\ u.paso = "guardaBase"
    BY <2>2, OtroPaso
  <2> HIDE DEF u
  <2> QED BY <1>5, <1>7, <1>13, <2>1, <2>2, <2>3
<1>15. CASE GuardaCupo(g)  BY <1>15, <1>3, <1>8, <1>13 DEF GuardaCupo, w
<1> QED BY <1>10, <1>11, <1>12, <1>14, <1>15

LEMMA InvCobra ==
    ASSUME AnunciosInv, NEW g \in Gestores, Cobra(g) PROVE AnunciosInv'
<1> DEFINE w == gestion[g]
           v == [w EXCEPT !.paso = "guarda", !.fila.cupoConsumido = TRUE]
<1>1. /\ UNCHANGED <<anuncio, membresia, techo, hoy, solapo, gratis, movio>> /\ w.paso = "cobra"
      /\ ~EnPaso(g, "idle")
  BY DEF Cobra, anunciosMundo, EnPaso
<1>2. Forma(w) /\ Leida(w) /\ DeAnuncio(w) /\ w.fila \in Anuncio /\ w.limite \in Nat
  BY <1>1, DeForma DEF Leida
<1>3. Pone(g, SinGestion) \/ Pone(g, v)  BY DEF Cobra
<1>4. /\ Forma(v) /\ v.op = w.op /\ v.a = w.a /\ v.next = w.next
      /\ v.ilimitada = w.ilimitada /\ v.limite = w.limite /\ v.paso = "guarda"
      /\ v.fila = [w.fila EXCEPT !.cupoConsumido = TRUE]
  BY <1>2 DEF Forma, Claves
<1>5. [w.fila EXCEPT !.cupoConsumido = TRUE].cupoConsumido  BY <1>2 DEF Anuncio
<1>6. "guarda" \in PasosAnuncio \ {"idle", "reglas"}  BY DEF PasosAnuncio
<1> HIDE DEF v
<1> QED BY <1>1, <1>2, <1>3, <1>4, <1>5, <1>6, Avance

LEMMA InvFallaAnuncio ==
    ASSUME AnunciosInv, NEW g \in Gestores, FallaAnuncio(g) PROVE AnunciosInv'
  BY Avance DEF FallaAnuncio, anunciosTablas

\* What arrives has read its advert as it is.
LEMMA InvLlega ==
    ASSUME AnunciosInv, NEW g \in Gestores, NEW w, Llega(g, w),
           gratis' \in BOOLEAN, ~gratis' => ~gratis,
           Forma(w), Leida(w), w.paso # "idle",
           ~gratis' => Marcada(w), ~movio => Cabe(w)
    PROVE  AnunciosInv'
<1>1. /\ UNCHANGED <<anuncio, membresia, techo, hoy, movio>> /\ Pone(g, w) /\ EnPaso(g, "idle")
      /\ solapo' = (solapo \/ \E o \in Gestores : ~EnPaso(o, "idle"))
  BY DEF Llega, anunciosTablas
<1>2. /\ gestion' = [o \in Gestores |-> gestion'[o]]
      /\ gestion'[g] = w
      /\ \A o \in Gestores : o # g => gestion'[o] = gestion[o]
  BY <1>1, Pone1 DEF AnunciosInv
<1>3. Creados' = Creados /\ Corriendo' = Corriendo /\ \A a : Ocupados(a)' = Ocupados(a)
  BY <1>1 DEF Creados, Corriendo, Ocupados, Corre, AnuncioEnCurso
<1>4. AnunciosForma'  BY <1>2, <1>3, <1>1 DEF AnunciosForma, AnunciosInv, Leida, DeAnuncio, Forma
<1>5. ActivosMarcados'
  <2> SUFFICES ASSUME ~gratis'
               PROVE  /\ \A a \in Creados : anuncio[a].status = "active"
                                              => anuncio[a].cupoConsumido
                      /\ \A o \in Gestores : Marcada(gestion'[o])
    BY <1>1, <1>3 DEF ActivosMarcados, Marcada, DeAnuncio
  <2> QED BY <1>2 DEF AnunciosInv, ActivosMarcados
<1>6. EnLosSlots'
  <2> SUFFICES ASSUME ~solapo', ~movio PROVE EnLosSlots'  BY <1>1 DEF EnLosSlots
  <2>1. /\ \A a \in Creados : anuncio[a].status = "active" => anuncio[a].vigencia.inicio <= hoy
        /\ Cardinality(Corriendo) <= techo
        /\ \A o \in Gestores : Cabe(gestion[o])
    BY <1>1 DEF AnunciosInv, EnLosSlots
  <2>2. \A o \in Gestores : Cabe(gestion'[o])  BY <1>2, <2>1
  <2>3. \A o \in Gestores : Cabe(gestion[o])'  BY <1>1, <1>3, <2>2 DEF Cabe, DeAnuncio
  <2>4. \A o \in Gestores : EnPaso(o, "idle")  BY <1>1
  <2>5. \A h, o \in Gestores : ~EnPaso(h, "idle")' /\ ~EnPaso(o, "idle")' => h = o
    BY <1>2, <2>4 DEF EnPaso
  <2> QED BY <1>1, <1>3, <2>1, <2>3, <2>5 DEF EnLosSlots
<1> QED BY <1>4, <1>5, <1>6 DEF AnunciosInv

LEMMA InvUpdateStatus ==
    ASSUME AnunciosInv, NEW g \in Gestores, NEW a \in Anuncios, NEW next \in Estatus,
           UpdateStatus(g, a, next)
    PROVE  AnunciosInv'
<1> DEFINE activa == next = "active" /\ anuncio[a].status # "active"
           w == [SinGestion EXCEPT !.op = "estatus",
                  !.paso = IF activa THEN "reglas" ELSE "guarda",
                  !.a = a, !.next = next, !.mes = hoy, !.fila = anuncio[a],
                  !.ilimitada = membresia.ilimitada]
<1>1. a \in Creados /\ Llega(g, w) /\ gratis' = (gratis \/ (activa /\ membresia.ilimitada))
  BY DEF UpdateStatus
<1>2. anuncio[a] \in Anuncio /\ membresia.ilimitada \in BOOLEAN /\ gratis \in BOOLEAN
  BY <1>1, AnunciosAssumption DEF AnunciosInv, AnunciosForma, Creados
<1>3. /\ Forma(w) /\ w.op = "estatus" /\ w.a = a /\ w.next = next /\ w.fila = anuncio[a]
      /\ w.ilimitada = membresia.ilimitada /\ w.limite = 0
      /\ w.paso = IF activa THEN "reglas" ELSE "guarda"
  BY SinGestionForma DEF SinGestion, Forma, Claves
<1> HIDE DEF w
<1>4. DeAnuncio(w) /\ w.paso \in {"reglas", "guarda"}  BY <1>3 DEF DeAnuncio
<1>5. Leida(w) /\ w.paso # "idle"  BY <1>1, <1>2, <1>3, <1>4 DEF Leida, PasosAnuncio
<1>6. gratis' \in BOOLEAN /\ (~gratis' => ~gratis)  BY <1>1, <1>2
<1>7. ASSUME ~gratis' PROVE Marcada(w)
  BY <1>1, <1>6, <1>7, <1>3 DEF AnunciosInv, ActivosMarcados, Marcada
<1>8. Cabe(w)  BY <1>3 DEF Cabe
<1> QED BY <1>1, <1>3, <1>5, <1>6, <1>7, <1>8, InvLlega

LEMMA InvUpdate ==
    ASSUME AnunciosInv, NEW g \in Gestores, NEW a \in Anuncios, NEW v \in Vigencia,
           Update(g, a, v)
    PROVE  AnunciosInv'
<1> DEFINE f == [anuncio[a] EXCEPT !.vigencia = v]
           w == [SinGestion EXCEPT !.op = "edita", !.paso = "guarda", !.a = a,
                  !.next = anuncio[a].status, !.fila = f]
<1>1. a \in Creados /\ Llega(g, w) /\ gratis' = gratis  BY DEF Update
<1>2. anuncio[a] \in Anuncio /\ gratis \in BOOLEAN  BY <1>1 DEF AnunciosInv, AnunciosForma, Creados
<1>3. f \in Anuncio /\ f.cupoConsumido = anuncio[a].cupoConsumido /\ anuncio[a].status \in Estatus
  BY <1>2 DEF Anuncio
<1> HIDE DEF f
<1>4. /\ Forma(w) /\ w.op = "edita" /\ w.a = a /\ w.next = anuncio[a].status /\ w.fila = f
      /\ w.ilimitada = FALSE /\ w.limite = 0 /\ w.paso = "guarda"
  BY SinGestionForma DEF SinGestion, Forma, Claves
<1> HIDE DEF w
<1>0. 0 \in Nat  OBVIOUS
<1>5. Leida(w) /\ w.paso # "idle" /\ DeAnuncio(w)
  BY <1>0, <1>1, <1>3, <1>4 DEF Leida, PasosAnuncio, DeAnuncio
<1>6. ASSUME ~gratis' PROVE Marcada(w)
  BY <1>1, <1>6, <1>3, <1>4 DEF AnunciosInv, ActivosMarcados, Marcada
<1>7. Cabe(w)  BY <1>4 DEF Cabe
<1> QED BY <1>1, <1>2, <1>4, <1>5, <1>6, <1>7, InvLlega

LEMMA InvGetDashboard ==
    ASSUME AnunciosInv, NEW g \in Gestores, GetDashboard(g) PROVE AnunciosInv'
<1> DEFINE w == [SinGestion EXCEPT !.op = "panel", !.paso = "cupo", !.mes = hoy]
<1>1. Llega(g, w) /\ gratis' = gratis  BY DEF GetDashboard
<1>2. gratis \in BOOLEAN  BY DEF AnunciosInv, AnunciosForma
<1>3. Forma(w) /\ w.op = "panel" /\ w.next = "paused" /\ w.ilimitada = FALSE
      /\ w.limite = 0 /\ w.paso = "cupo"
  BY SinGestionForma DEF SinGestion, Forma, Claves
<1> HIDE DEF w
<1>0. 0 \in Nat  OBVIOUS
<1>4. Leida(w) /\ w.paso # "idle" /\ ~DeAnuncio(w)
  BY <1>0, <1>3 DEF Leida, PasosAnuncio, DeAnuncio, Estatus
<1>5. Marcada(w) /\ Cabe(w)  BY <1>4 DEF Marcada, Cabe
<1> QED BY <1>1, <1>2, <1>3, <1>4, <1>5, InvLlega

\* The save of an advert.  What is put back active either ran already, or has a slot.
LEMMA InvGuardaAnuncio ==
    ASSUME AnunciosInv, NEW g \in Gestores, GuardaAnuncio(g) PROVE AnunciosInv'
<1>0. PICK a : a = gestion[g].a  OBVIOUS
<1> DEFINE w == gestion[g]
           f == [w.fila EXCEPT !.status = w.next]
<1>1. /\ w.paso = "guarda" /\ anuncio' = [anuncio EXCEPT ![a] = f] /\ Pone(g, SinGestion)
      /\ UNCHANGED <<membresia, techo, hoy, solapo, gratis>>
      /\ movio' = (movio \/ (/\ f.status = "active"
                             /\ \/ ~AnuncioEnCurso(f.vigencia)
                                \/ f.vigencia # anuncio[a].vigencia))
  BY <1>0 DEF GuardaAnuncio, anunciosMundo, EnPaso
<1>2. Forma(w) /\ Leida(w) /\ DeAnuncio(w) /\ w.op # "none" /\ w.next \in Estatus
      /\ a \in Creados /\ w.fila \in Anuncio /\ AnunciosForma
  BY <1>0, <1>1, DeForma DEF Leida, AnunciosInv
<1>3. /\ f \in Anuncio /\ f.status = w.next /\ f.vigencia = w.fila.vigencia
      /\ f.cupoConsumido = w.fila.cupoConsumido
  BY <1>2 DEF Anuncio
<1>4. a \in Anuncios /\ anuncio[a] \in Anuncio /\ f # NoFilaAnuncio
  BY <1>2, <1>3, NoFilaNo DEF Creados, AnunciosForma
<1> HIDE DEF f
<1>5. /\ anuncio' \in [Anuncios -> Anuncio \cup {NoFilaAnuncio}]
      /\ anuncio'[a] = f /\ \A b \in Anuncios : b # a => anuncio'[b] = anuncio[b]
  BY <1>1, <1>2, <1>3, <1>4 DEF AnunciosForma
<1>6. Creados' = Creados  BY <1>2, <1>4, <1>5 DEF Creados
<1>7. /\ gestion' = [o \in Gestores |-> gestion'[o]]
      /\ gestion'[g] = SinGestion
      /\ \A o \in Gestores : o # g => gestion'[o] = gestion[o]
  BY <1>1, <1>2, Pone1
<1>8. AnunciosForma'
  BY <1>2, <1>7, SinGestionForma, SinGestionLeida, <1>6, <1>1, <1>5 DEF AnunciosForma, Leida,
     DeAnuncio, Forma
<1>9. ActivosMarcados'
  <2> SUFFICES ASSUME ~gratis
               PROVE  /\ \A b \in Creados : anuncio'[b].status = "active"
                                              => anuncio'[b].cupoConsumido
                      /\ \A o \in Gestores : Marcada(gestion'[o])
    BY <1>1, <1>6 DEF ActivosMarcados, Marcada, DeAnuncio
  <2>1. /\ \A b \in Creados : anuncio[b].status = "active" => anuncio[b].cupoConsumido
        /\ \A o \in Gestores : Marcada(gestion[o])
    BY DEF AnunciosInv, ActivosMarcados
  <2>2. f.status = "active" => f.cupoConsumido  BY <1>1, <1>2, <1>3, <2>1 DEF Marcada
  <2>3. Marcada(SinGestion)  BY SinGestionLeida DEF Marcada
  <2>4. \A b \in Creados : anuncio'[b].status = "active" => anuncio'[b].cupoConsumido
    BY <1>5, <2>1, <2>2 DEF Creados
  <2> QED BY <1>7, <2>1, <2>3, <2>4
<1>10. EnLosSlots'
  <2> SUFFICES ASSUME ~solapo, ~movio' PROVE EnLosSlots'  BY <1>1 DEF EnLosSlots
  <2>1. /\ \A h, o \in Gestores : ~EnPaso(h, "idle") /\ ~EnPaso(o, "idle") => h = o
        /\ \A b \in Creados : anuncio[b].status = "active" => anuncio[b].vigencia.inicio <= hoy
        /\ Cardinality(Corriendo) <= techo
        /\ \A o \in Gestores : Cabe(gestion[o])
    BY <1>1 DEF AnunciosInv, EnLosSlots
  <2>2. f.status = "active" => AnuncioEnCurso(f.vigencia) /\ f.vigencia = anuncio[a].vigencia
    BY <1>1
  <2>3. \A o \in Gestores : gestion'[o].paso = "idle" /\ gestion'[o].op = "none"
    BY <1>1, <1>2, <2>1, <1>7, SinGestionForma DEF EnPaso, AnunciosForma, Leida
  <2>4. /\ \A h, o \in Gestores : ~EnPaso(h, "idle")' /\ ~EnPaso(o, "idle")' => h = o
        /\ \A o \in Gestores : Cabe(gestion[o])'
    BY <2>3 DEF EnPaso, Cabe, DeAnuncio
  <2>5. \A b \in Creados : anuncio'[b].status = "active" => anuncio'[b].vigencia.inicio <= hoy
    BY <1>5, <2>1, <2>2 DEF AnuncioEnCurso, Creados
  <2>6. \A b \in Anuncios : b # a => (Corre(b)' <=> Corre(b))
    BY <1>1, <1>5, <1>6 DEF Corre, AnuncioEnCurso
  <2>0. techo \in Nat  BY <1>2 DEF AnunciosForma
  <2>7. Cardinality(Corriendo') <= techo
    <3>1. CASE f.status # "active" \/ anuncio[a].status = "active"
      <4>1. Corre(a)' => Corre(a)  BY <1>1, <1>2, <1>5, <2>2, <3>1 DEF Corre, AnuncioEnCurso
      <4>2. Corriendo' \subseteq Corriendo  BY <2>6, <4>1 DEF Corriendo
      <4>3. /\ Cardinality(Corriendo') \in Nat /\ Cardinality(Corriendo) \in Nat
            /\ Cardinality(Corriendo') <= Cardinality(Corriendo)
        BY <4>2, Finitos, MenosCaben
      <4> QED BY <2>1, <4>3, <2>0
    <3>2. CASE f.status = "active" /\ anuncio[a].status # "active"
      <4>1. Cardinality(Ocupados(a)) < techo  BY <1>0, <1>1, <1>2, <1>3, <2>1, <3>2 DEF Cabe
      <4>2. Corriendo' \subseteq Ocupados(a) \cup {a}  BY <2>6 DEF Corriendo, Ocupados
      <4>3. /\ IsFiniteSet(Ocupados(a) \cup {a})
            /\ Cardinality(Ocupados(a) \cup {a}) = Cardinality(Ocupados(a)) + 1
        <5>1. a \notin Ocupados(a)  BY DEF Ocupados
        <5> QED BY <5>1, Finitos, FS_AddElement
      <4>4. Cardinality(Corriendo') \in Nat /\ Cardinality(Ocupados(a)) \in Nat
            /\ Cardinality(Corriendo') <= Cardinality(Ocupados(a) \cup {a})
        BY <4>2, <4>3, Finitos, MenosCaben, FS_CardinalityType
      <4> QED BY <4>1, <4>3, <4>4, <2>0
    <3> QED BY <3>1, <3>2
  <2> QED BY <1>1, <1>6, <2>4, <2>5, <2>7 DEF EnLosSlots
<1> QED BY <1>8, <1>9, <1>10 DEF AnunciosInv

\* A new advert is a draft, whoever else is at work.
LEMMA InvCreate ==
    ASSUME AnunciosInv, NEW a \in Anuncios, NEW v \in Vigencia, Create(a, v)
    PROVE  AnunciosInv'
<1>1. /\ anuncio[a] = NoFilaAnuncio /\ anuncio' = [anuncio EXCEPT ![a] = Borrador(v)]
      /\ UNCHANGED <<gestion, membresia, techo, hoy, solapo, gratis, movio>>
  BY DEF Create
<1>2. AnunciosForma  BY DEF AnunciosInv
<1>3. /\ anuncio' \in [Anuncios -> Anuncio \cup {NoFilaAnuncio}]
      /\ anuncio'[a] = Borrador(v) /\ \A b \in Anuncios : b # a => anuncio'[b] = anuncio[b]
  BY <1>1, <1>2, BorradorTipo DEF AnunciosForma
<1>4. /\ a \notin Creados /\ anuncio'[a].status # "active" /\ Creados' = Creados \cup {a}
      /\ \A b \in Creados : anuncio'[b] = anuncio[b] /\ b \in Anuncios
  BY <1>1, <1>3, BorradorTipo DEF Creados
<1>5. AnunciosForma'  BY <1>1, <1>2, <1>4, <1>3 DEF AnunciosForma, Forma, Leida, DeAnuncio
<1>6. ActivosMarcados'  BY <1>1, <1>4 DEF AnunciosInv, ActivosMarcados, Marcada, DeAnuncio
<1>7. EnLosSlots'
  <2> SUFFICES ASSUME ~solapo, ~movio PROVE EnLosSlots'  BY <1>1 DEF EnLosSlots
  <2>1. /\ \A h, o \in Gestores : ~EnPaso(h, "idle") /\ ~EnPaso(o, "idle") => h = o
        /\ \A b \in Creados : anuncio[b].status = "active" => anuncio[b].vigencia.inicio <= hoy
        /\ Cardinality(Corriendo) <= techo
        /\ \A o \in Gestores : Cabe(gestion[o])
    BY DEF AnunciosInv, EnLosSlots
  <2>2. \A b \in Anuncios : Corre(b)' <=> Corre(b)  BY <1>1, <1>4 DEF Corre, AnuncioEnCurso
  <2>3. Corriendo' = Corriendo  BY <2>2 DEF Corriendo
  <2>4. \A b : Ocupados(b)' = Ocupados(b)  BY <2>2 DEF Ocupados
  <2>5. \A o \in Gestores : Cabe(gestion[o])'
    <3> SUFFICES ASSUME NEW o \in Gestores, DeAnuncio(gestion[o]) PROVE Cabe(gestion[o])'
      BY <1>1 DEF Cabe, DeAnuncio
    <3>1. anuncio'[gestion[o].a] = anuncio[gestion[o].a]  BY <1>2, <1>4 DEF AnunciosForma, Leida
    <3> QED BY <1>1, <2>1, <2>4, <3>1 DEF Cabe, DeAnuncio
  <2>6. \A h, o \in Gestores : ~EnPaso(h, "idle")' /\ ~EnPaso(o, "idle")' => h = o
    BY <1>1, <2>1 DEF EnPaso
  <2>7. \A b \in Creados' : anuncio'[b].status = "active" => anuncio'[b].vigencia.inicio <= hoy
    BY <1>4, <2>1
  <2> QED BY <1>1, <2>1, <2>3, <2>5, <2>6, <2>7 DEF EnLosSlots
<1> QED BY <1>5, <1>6, <1>7 DEF AnunciosInv

\* A month later no advert begins to run: those that are active had begun.
LEMMA InvPasaMes ==
    ASSUME AnunciosInv, PasaMes PROVE AnunciosInv'
<1>1. /\ hoy' = hoy + 1 /\ UNCHANGED <<anuncio, membresia, techo, gestion, solapo, gratis, movio>>
  BY DEF PasaMes, anunciosTablas
<1>2. AnunciosForma /\ Creados' = Creados  BY <1>1 DEF AnunciosInv, Creados
<1>3. AnunciosForma'  BY <1>1, <1>2 DEF AnunciosForma, Forma, Leida, DeAnuncio
<1>4. ActivosMarcados'  BY <1>1, <1>2 DEF AnunciosInv, ActivosMarcados, Marcada, DeAnuncio
<1>5. EnLosSlots'
  <2> SUFFICES ASSUME ~solapo, ~movio PROVE EnLosSlots'  BY <1>1 DEF EnLosSlots
  <2>1. /\ \A h, o \in Gestores : ~EnPaso(h, "idle") /\ ~EnPaso(o, "idle") => h = o
        /\ \A b \in Creados : anuncio[b].status = "active" => anuncio[b].vigencia.inicio <= hoy
        /\ Cardinality(Corriendo) <= techo
        /\ \A o \in Gestores : Cabe(gestion[o])
    BY DEF AnunciosInv, EnLosSlots
  <2>2. \A b \in Creados : /\ b \in Anuncios /\ anuncio[b] \in Anuncio
                           /\ anuncio[b].vigencia \in Vigencia
    BY <1>2 DEF AnunciosForma, Creados, Anuncio
  <2>3. \A b \in Creados : anuncio[b].vigencia.inicio \in Nat /\ anuncio[b].vigencia.fin \in Nat
    BY <2>2, AnunciosAssumption
  <2>4. hoy \in Nat  BY <1>2 DEF AnunciosForma
  <2>5. \A b \in Anuncios : Corre(b)' => Corre(b)
    BY <1>1, <1>2, <2>1, <2>3, <2>4 DEF Corre, AnuncioEnCurso
  <2>t. techo \in Nat  BY <1>2 DEF AnunciosForma
  <2>6. Cardinality(Corriendo') <= techo
    <3>1. Corriendo' \subseteq Corriendo  BY <2>5 DEF Corriendo
    <3>2. /\ Cardinality(Corriendo') \in Nat /\ Cardinality(Corriendo) \in Nat
          /\ Cardinality(Corriendo') <= Cardinality(Corriendo)
      BY <3>1, Finitos, MenosCaben
    <3> QED BY <2>1, <2>t, <3>2
  <2>7. \A b : Cardinality(Ocupados(b)) < techo => Cardinality(Ocupados(b)') < techo
    <3> SUFFICES ASSUME NEW b, Cardinality(Ocupados(b)) < techo
                 PROVE  Cardinality(Ocupados(b)') < techo
      OBVIOUS
    <3>1. Ocupados(b)' \subseteq Ocupados(b)  BY <2>5 DEF Ocupados
    <3>2. /\ Cardinality(Ocupados(b)') \in Nat /\ Cardinality(Ocupados(b)) \in Nat
          /\ Cardinality(Ocupados(b)') <= Cardinality(Ocupados(b))
      BY <3>1, Finitos, MenosCaben
    <3> QED BY <3>2, <2>t
  <2>8. \A o \in Gestores : Cabe(gestion[o])'
    <3> SUFFICES ASSUME NEW o \in Gestores PROVE Cabe(gestion[o])'  OBVIOUS
    <3>1. PICK b : b = gestion[o].a  OBVIOUS
    <3>2. Cardinality(Ocupados(b)) < techo => Cardinality(Ocupados(b)') < techo  BY <2>7
    <3>3. gestion'[o].a = b  BY <1>1, <3>1
    <3> QED BY <1>1, <2>1, <3>1, <3>2, <3>3 DEF Cabe, DeAnuncio
  <2>9. \A b \in Creados : anuncio[b].status = "active" => anuncio[b].vigencia.inicio <= hoy + 1
    BY <2>1, <2>3, <2>4
  <2> QED BY <1>1, <1>2, <2>1, <2>6, <2>8, <2>9 DEF EnLosSlots, EnPaso
<1> QED BY <1>3, <1>4, <1>5 DEF AnunciosInv

LEMMA InvQuieto ==
    ASSUME AnunciosInv, membresia' \in Membresias, techo' \in Nat, techo <= techo',
           LimiteDe(membresia)' <= techo', UNCHANGED <<anuncio, hoy, gestion, solapo, gratis, movio>>
    PROVE  AnunciosInv'
<1>1. Creados' = Creados /\ Corriendo' = Corriendo /\ \A a : Ocupados(a)' = Ocupados(a)
  BY DEF Creados, Corriendo, Ocupados, Corre, AnuncioEnCurso
<1>2. AnunciosForma'  BY <1>1 DEF AnunciosInv, AnunciosForma, Forma, Leida, DeAnuncio
<1>3. ActivosMarcados'  BY <1>1 DEF AnunciosInv, ActivosMarcados, Marcada, DeAnuncio
<1>4. EnLosSlots'
  <2> SUFFICES ASSUME ~solapo, ~movio PROVE EnLosSlots'  BY DEF EnLosSlots
  <2>1. /\ \A h, o \in Gestores : ~EnPaso(h, "idle") /\ ~EnPaso(o, "idle") => h = o
        /\ \A b \in Creados : anuncio[b].status = "active" => anuncio[b].vigencia.inicio <= hoy
        /\ Cardinality(Corriendo) <= techo
        /\ \A o \in Gestores : Cabe(gestion[o])
    BY DEF AnunciosInv, EnLosSlots
  <2>2. /\ techo \in Nat /\ Cardinality(Corriendo) \in Nat
        /\ \A b : Cardinality(Ocupados(b)) \in Nat
    BY Finitos, FS_CardinalityType DEF AnunciosInv, AnunciosForma
  <2>3. \A o \in Gestores : Cabe(gestion[o])'
    <3> SUFFICES ASSUME NEW o \in Gestores PROVE Cabe(gestion[o])'  OBVIOUS
    <3>1. PICK b : b = gestion[o].a  OBVIOUS
    <3>2. Cardinality(Ocupados(b)) < techo => Cardinality(Ocupados(b)) < techo'  BY <2>2
    <3> QED BY <1>1, <2>1, <3>1, <3>2 DEF Cabe, DeAnuncio
  <2>4. Cardinality(Corriendo)' <= techo'  BY <1>1, <2>1, <2>2
  <2> QED BY <1>1, <2>1, <2>3, <2>4 DEF EnLosSlots, EnPaso
<1> QED BY <1>2, <1>3, <1>4 DEF AnunciosInv

LEMMA InvCambiaMembresia ==
    ASSUME AnunciosInv, NEW mb \in Membresias, CambiaMembresia(mb) PROVE AnunciosInv'
<1>1. techo \in Nat /\ LimiteDe(mb) \in Nat  BY LimiteDeTipo DEF AnunciosInv, AnunciosForma
<1>2. techo' = Max({techo, LimiteDe(mb)}) /\ membresia' = mb  BY DEF CambiaMembresia
<1>3. PICK x, y : x = techo /\ y = LimiteDe(mb)  OBVIOUS
<1>4. x \in Nat /\ y \in Nat  BY <1>1, <1>3
<1>5. Max({x, y}) \in {x, y} /\ Max({x, y}) >= x /\ Max({x, y}) >= y
  <2>1. \E m \in {x, y} : \A k \in {x, y} : m >= k  BY <1>4
  <2> QED BY <2>1 DEF Max
<1>6. techo' \in Nat /\ techo <= techo' /\ LimiteDe(mb) <= techo'  BY <1>2, <1>3, <1>4, <1>5
<1>7. LimiteDe(membresia)' = LimiteDe(mb)  BY <1>2 DEF LimiteDe
<1> QED BY <1>2, <1>6, <1>7, InvQuieto DEF CambiaMembresia, anunciosTablas

LEMMA AnunciosInvNext ==
    ASSUME AnunciosInv, [AnunciosNext]_anunciosVars PROVE AnunciosInv'
<1>q. ASSUME UNCHANGED <<anuncio, membresia, techo, hoy, gestion, solapo, gratis, movio>>
      PROVE  AnunciosInv'
  <2>1. /\ membresia' \in Membresias /\ techo' \in Nat /\ techo <= techo'
        /\ LimiteDe(membresia)' <= techo'
    BY <1>q DEF AnunciosInv, AnunciosForma, LimiteDe
  <2> QED BY <1>q, <2>1, InvQuieto
<1>1. CASE UNCHANGED anunciosVars  BY <1>1, <1>q DEF anunciosVars
<1>2. CASE \E a \in Anuncios, v \in Vigencia : Create(a, v)  BY <1>2, InvCreate
<1>3. CASE \E g \in Gestores, a \in Anuncios, next \in Estatus : UpdateStatus(g, a, next)
  BY <1>3, InvUpdateStatus
<1>4. CASE \E g \in Gestores, a \in Anuncios, v \in Vigencia : Update(g, a, v)  BY <1>4, InvUpdate
<1>5. ASSUME NEW g \in Gestores,
             \/ GetDashboard(g) \/ LeeReglas(g) \/ CuentaSlots(g) \/ LeeCupo(g)
             \/ CreaCupo(g) \/ Addons(g) \/ Base(g) \/ GuardaCupo(g) \/ Cobra(g) \/ GuardaAnuncio(g) \/ FallaAnuncio(g)
      PROVE  AnunciosInv'
  BY <1>5, InvGetDashboard, InvLeeReglas, InvCuentaSlots, InvCupos, InvCobra, InvGuardaAnuncio,
     InvFallaAnuncio
<1>6. CASE PasaMes  BY <1>6, InvPasaMes
<1>7. CASE \E mb \in Membresias : CambiaMembresia(mb)
  BY <1>7, InvCambiaMembresia
<1>8. CASE \E n \in Meses : CompraExtra(n)
  BY <1>8, <1>q DEF CompraExtra, anunciosTablas
<1> QED BY <1>1, <1>2, <1>3, <1>4, <1>5, <1>6, <1>7, <1>8 DEF AnunciosNext

LEMMA AnunciosInvSiempre == AnunciosSpec => []AnunciosInv
<1>1. AnunciosInit => AnunciosInv  BY AnunciosInvInit
<1>2. AnunciosInv /\ [AnunciosNext]_anunciosVars => AnunciosInv'  BY AnunciosInvNext
<1> QED BY <1>1, <1>2, PTL DEF AnunciosSpec

\* Unless some advert was activated under an unlimited membership, an advert is
\* active only if its row says that it was charged (the saves of updateStatus,
\* update and updateAdImage, anuncios.service.ts), whatever overlaps or fails.
THEOREM ActivoConCupoSiempre == AnunciosSpec => []ActivoConCupo
<1>1. AnunciosInv => ActivoConCupo  BY DEF AnunciosInv, ActivosMarcados, ActivoConCupo
<1> QED BY <1>1, AnunciosInvSiempre, PTL

\* While no two requests overlap, and no advert is activated before its dates nor
\* given other dates while active, the count that updateStatus takes of the slots
\* of the placement (anuncios.service.ts:349-385) keeps the adverts that run within
\* the largest limit of the memberships the business has had, through changes of
\* membership between its two queries too, whatever fails.
THEOREM SlotsRespetadosSiempre == AnunciosSpec => []SlotsRespetados
<1>1. AnunciosInv => SlotsRespetados  BY DEF AnunciosInv, EnLosSlots, SlotsRespetados, Corriendo
<1> QED BY <1>1, AnunciosInvSiempre, PTL

--------------------
(* The quota of a month: what a request does to it.                        *)

LEMMA BaseMayorEs == BaseMayor \in Nat /\ \A mb \in Membresias : mb.base \in 0 .. BaseMayor
<1>1. PICK S : S = {mb.base : mb \in Membresias}  OBVIOUS
<1>2. PICK f : f = [mb \in Membresias |-> mb.base]  OBVIOUS
<1>3. f \in Surjection(Membresias, S)  BY <1>1, <1>2 DEF Surjection
<1>4. IsFiniteSet(S)  BY <1>3, FS_Surjection
<1>5. S \subseteq Nat /\ S # {} /\ S \subseteq Int  BY <1>1
<1>6. \E x \in S : \A y \in S : x >= y  BY <1>4, <1>5, MayorDe
<1>7. BaseMayor \in S /\ \A y \in S : BaseMayor >= y  BY <1>1, <1>6 DEF BaseMayor, Max
<1>8. \A mb \in Membresias : mb.base \in S  BY <1>1
<1>9. \A y \in S : y \in 0 .. BaseMayor  BY <1>5, <1>7
<1> QED BY <1>5, <1>7, <1>8, <1>9

\* What a request carries of the quota, past its reading.
PasosCupo == {"addons", "guardaAddon", "base", "guardaBase", "cobra"}
ConCupo(w) == w.paso \in PasosCupo => w.cupo \in Cupo /\ w.id \in CupoIds
AnunciosTipos == AnunciosTypeOK /\ \A g \in Gestores : ConCupo(gestion[g])

LEMMA MesesTipo == Meses \subseteq Nat /\ CupoIds \subseteq Nat /\ 0 \notin Meses /\ 1 \in Meses
  BY DEF Meses, CupoIds

LEMMA NoCupoNo == NoCupo \notin Cupo /\ NoCupo.mes = 0
  BY MesesTipo DEF NoCupo, Cupo

LEMMA SinGestionTipo == SinGestion \in Gestion /\ ConCupo(SinGestion)
<1>1. SinGestion \in Gestion  BY MesesTipo DEF SinGestion, Gestion, Estatus
<1> QED BY <1>1, SinGestionForma DEF ConCupo, PasosCupo

\* Changes of one field, or of some, of a request.
LEMMA CambiaPaso ==
    ASSUME NEW w \in Gestion,
           NEW p \in {"idle", "reglas", "slots", "cupo", "crea", "addons", "guardaAddon", "base",
                      "guardaBase", "cobra", "guarda"},
           NEW v, v = [w EXCEPT !.paso = p]
    PROVE  /\ v \in Gestion /\ v.paso = p /\ v.op = w.op /\ v.a = w.a /\ v.next = w.next
           /\ v.ilimitada = w.ilimitada /\ v.mes = w.mes /\ v.fila = w.fila /\ v.id = w.id
           /\ v.cupo = w.cupo
  BY DEF Gestion

\* The limit that was read.
ConLimite(w, n) == [w EXCEPT !.paso = "slots", !.limite = n]
LEMMA ConLimiteTipo ==
    ASSUME NEW w \in Gestion, NEW n \in Nat
    PROVE  LET v == ConLimite(w, n)
           IN  /\ v \in Gestion /\ v.paso = "slots" /\ v.op = w.op /\ v.a = w.a
               /\ v.next = w.next /\ v.ilimitada = w.ilimitada /\ v.mes = w.mes
               /\ v.fila = w.fila
  BY DEF Gestion, ConLimite

\* The request goes on with its row of quota.
ConFila(w, i, c) == [w EXCEPT !.paso = "addons", !.id = i, !.cupo = c]

LEMMA ConFilaTipo ==
    ASSUME NEW w \in Gestion, NEW i \in CupoIds, NEW c \in Cupo
    PROVE  LET v == ConFila(w, i, c)
           IN  /\ v \in Gestion /\ v.paso = "addons" /\ v.op = w.op /\ v.a = w.a
               /\ v.next = w.next /\ v.ilimitada = w.ilimitada /\ v.mes = w.mes
               /\ v.fila = w.fila /\ v.id = i /\ v.cupo = c
<1>1. i \in 0 .. MaxCupos /\ c \in Cupo \cup {NoCupo}  BY DEF CupoIds
<1>2. ConFila(w, i, c) \in Gestion  BY <1>1 DEF Gestion, ConFila
<1> QED BY <1>2 DEF Gestion, ConFila

\* The request goes on, ends, or begins; what it carries is of its type.
LEMMA TiposPone ==
    ASSUME AnunciosTipos, NEW g \in Gestores, NEW v, v \in Gestion, ConCupo(v), Pone(g, v)
    PROVE  gestion' \in [Gestores -> Gestion] /\ \A o \in Gestores : ConCupo(gestion'[o])
  BY DEF AnunciosTipos, AnunciosTypeOK, Pone

LEMMA TiposInit == AnunciosInit => AnunciosTipos
<1> SUFFICES ASSUME AnunciosInit PROVE AnunciosTipos  OBVIOUS
<1>1. anuncio \in [Anuncios -> Anuncio \cup {NoFilaAnuncio}]  BY BorradorTipo DEF AnunciosInit
<1>2. cupo \in [CupoIds -> Cupo \cup {NoCupo}] /\ extra \in [Meses -> 0 .. MaxExtra]
  BY DEF AnunciosInit
<1>3. gestion \in [Gestores -> Gestion] /\ \A g \in Gestores : ConCupo(gestion[g])
  BY SinGestionTipo DEF AnunciosInit
<1>4. /\ membresia \in Membresias /\ hoy \in Meses /\ techo \in Nat
      /\ gestiones \in 0 .. MaxGestiones /\ cambios \in 0 .. MaxCambios
      /\ fallasAnuncios \in 0 .. MaxFallasAnuncios
      /\ solapo \in BOOLEAN /\ gratis \in BOOLEAN /\ movio \in BOOLEAN
  <2>1. membresia \in Membresias /\ hoy \in Meses /\ techo \in Nat
    BY MesesTipo, LimiteDeTipo DEF AnunciosInit
  <2>2. /\ gestiones \in 0 .. MaxGestiones /\ cambios \in 0 .. MaxCambios
        /\ fallasAnuncios \in 0 .. MaxFallasAnuncios
    BY DEF AnunciosInit
  <2>3. solapo \in BOOLEAN /\ gratis \in BOOLEAN /\ movio \in BOOLEAN  BY DEF AnunciosInit
  <2> QED BY <2>1, <2>2, <2>3
<1> QED BY <1>1, <1>2, <1>3, <1>4 DEF AnunciosTipos, AnunciosTypeOK

\* A step of a request that touches neither the adverts nor the world.
LEMMA TiposAvance ==
    ASSUME AnunciosTipos, NEW g \in Gestores, NEW v, v \in Gestion, ConCupo(v), Pone(g, v),
           cupo' \in [CupoIds -> Cupo \cup {NoCupo}], UNCHANGED <<anuncio, anunciosMundo, movio>>
    PROVE  AnunciosTipos'
<1>1. gestion' \in [Gestores -> Gestion] /\ \A o \in Gestores : ConCupo(gestion'[o])  BY TiposPone
<1>2. UNCHANGED <<extra, membresia, hoy, gestiones, cambios, fallasAnuncios, solapo, techo, gratis>>
      /\ UNCHANGED <<anuncio, movio>>
  BY DEF anunciosMundo
<1>3. AnunciosTypeOK'  BY <1>1, <1>2 DEF AnunciosTipos, AnunciosTypeOK
<1>4. \A o \in Gestores : ConCupo(gestion[o])'  BY <1>1 DEF ConCupo
<1> QED BY <1>3, <1>4 DEF AnunciosTipos

LEMMA TotalSuma == ASSUME NEW f, NEW S PROVE Total(f, S) = Sumatoria(f, S)
  BY DEF Total, Sumatoria

LEMMA UsadosSuma ==
  /\ Usados = Sumatoria([i \in CupoIds |-> UsadosDe(i)], CupoIds)
  /\ Usados' = Sumatoria([i \in CupoIds |-> UsadosDe(i)'], CupoIds)
  BY TotalSuma DEF Usados, CupoIds

LEMMA CuposFinitos == IsFiniteSet(CupoIds)
<1>1. 1 \in Int /\ MaxCupos \in Int  OBVIOUS
<1>2. IsFiniteSet(1 .. MaxCupos)  BY ONLY <1>1, FS_Interval
<1> QED BY <1>2 DEF CupoIds

LEMMA UsadosNat ==
    ASSUME cupo \in [CupoIds -> Cupo \cup {NoCupo}]
    PROVE  Usados \in Nat /\ \A i \in CupoIds : UsadosDe(i) \in Nat
<1>1. \A i \in CupoIds : UsadosDe(i) \in Nat  BY DEF UsadosDe, Cupo
<1>2. PICK f : f = [i \in CupoIds |-> UsadosDe(i)]  OBVIOUS
<1>3. \A i \in CupoIds : f[i] \in Nat  BY <1>1, <1>2
<1> QED BY <1>1, <1>2, <1>3, UsadosSuma, CuposFinitos, SumaNat

\* One row of quota changes.
LEMMA UsadosCambia ==
    ASSUME cupo \in [CupoIds -> Cupo \cup {NoCupo}], cupo' \in [CupoIds -> Cupo \cup {NoCupo}],
           NEW i \in CupoIds, \A k \in CupoIds : k # i => cupo'[k] = cupo[k]
    PROVE  Usados' = Usados - UsadosDe(i) + UsadosDe(i)'
<1>1. \A k \in CupoIds : UsadosDe(k) \in Int /\ UsadosDe(k)' \in Int  BY DEF UsadosDe, Cupo
<1>2. \A k \in CupoIds : k # i => UsadosDe(k)' = UsadosDe(k)  BY DEF UsadosDe
<1>3. PICK f, h : f = [k \in CupoIds |-> UsadosDe(k)] /\ h = [k \in CupoIds |-> UsadosDe(k)']
  OBVIOUS
<1>4. \A k \in CupoIds : f[k] \in Int /\ h[k] \in Int /\ (k # i => f[k] = h[k])  BY <1>1, <1>2, <1>3
<1>5. Sumatoria(h, CupoIds) = Sumatoria(f, CupoIds) - f[i] + h[i]  BY <1>4, CuposFinitos, SumaCambia
<1>6. f[i] = UsadosDe(i) /\ h[i] = UsadosDe(i)'  BY <1>3
<1> QED BY <1>3, <1>5, <1>6, UsadosSuma

LEMMA UsadosIgual == ASSUME UNCHANGED cupo PROVE Usados' = Usados
  BY DEF Usados, UsadosDe, CupoIds

--------------------
(* Types, kept by every action.                                            *)

\* What the steps of a request do to it.
MismaPeticion(w, v) ==
    /\ v \in Gestion /\ v.op = w.op /\ v.a = w.a /\ v.next = w.next /\ v.mes = w.mes
    /\ v.ilimitada = w.ilimitada
Quietos == UNCHANGED <<anuncio, anunciosMundo, movio>>

LEMMA HaceTrasSlots ==
    ASSUME NEW w \in Gestion, NEW v, v = [w EXCEPT !.paso = TrasSlots(w)]
    PROVE  /\ MismaPeticion(w, v) /\ v.fila = w.fila /\ v.paso \in {"guarda", "cupo"}
           /\ v.paso = "cupo" => ~w.fila.cupoConsumido
<1>1. PICK p \in {"guarda", "cupo"} : p = TrasSlots(w) /\ (p = "cupo" => ~w.fila.cupoConsumido)
  BY DEF TrasSlots
<1>2. v \in Gestion /\ v.paso = p /\ v.op = w.op /\ v.a = w.a /\ v.next = w.next
      /\ v.ilimitada = w.ilimitada /\ v.mes = w.mes /\ v.fila = w.fila
  BY <1>1, CambiaPaso
<1> QED BY <1>1, <1>2 DEF MismaPeticion

LEMMA HaceCuentaSlots ==
    ASSUME AnunciosTipos, NEW g \in Gestores, LeeReglas(g) \/ CuentaSlots(g)
    PROVE  /\ gestion[g] \in Gestion /\ gestion[g].paso \in {"reglas", "slots"}
           /\ cupo' = cupo /\ Quietos
           /\ \/ Pone(g, SinGestion)
              \/ \E v : /\ Pone(g, v) /\ MismaPeticion(gestion[g], v)
                        /\ v.fila = gestion[g].fila /\ v.paso \in {"slots", "guarda", "cupo"}
                        /\ v.paso = "cupo" => ~gestion[g].fila.cupoConsumido
<1>1. PICK w : w = gestion[g] /\ w \in Gestion  BY DEF AnunciosTipos, AnunciosTypeOK
<1>2. w.paso \in {"reglas", "slots"} /\ cupo' = cupo /\ Quietos
  BY <1>1 DEF LeeReglas, CuentaSlots, anunciosTablas, EnPaso, Quietos
<1>3. PICK n : n = membresia.slots  OBVIOUS
<1>4. n \in Nat  BY <1>3, AnunciosAssumption DEF AnunciosTipos, AnunciosTypeOK
<1>5. \/ Pone(g, SinGestion)
      \/ Pone(g, [w EXCEPT !.paso = TrasSlots(w)])
      \/ Pone(g, ConLimite(w, n))
  BY <1>1, <1>3 DEF LeeReglas, CuentaSlots, Pasa, ConLimite
<1>6. CASE Pone(g, [w EXCEPT !.paso = TrasSlots(w)])
  <2>1. PICK v : v = [w EXCEPT !.paso = TrasSlots(w)]  OBVIOUS
  <2> QED BY <1>1, <1>2, <1>6, <2>1, HaceTrasSlots
<1>7. CASE Pone(g, ConLimite(w, n))
  <2>1. PICK v : v = ConLimite(w, n)  OBVIOUS
  <2>2. /\ v \in Gestion /\ v.paso = "slots" /\ v.op = w.op /\ v.a = w.a
        /\ v.next = w.next /\ v.ilimitada = w.ilimitada /\ v.mes = w.mes /\ v.fila = w.fila
    BY <1>1, <1>4, <2>1, ConLimiteTipo
  <2> QED BY <1>1, <1>2, <1>7, <2>1, <2>2 DEF MismaPeticion
<1> QED BY <1>1, <1>2, <1>5, <1>6, <1>7

LEMMA Primero ==
    ASSUME NEW S, S \subseteq Nat, S # {}
    PROVE  (CHOOSE k \in S : \A o \in S : k <= o) \in S
  BY MenorNat

LEMMA HaceLeeCupo ==
    ASSUME AnunciosTipos, NEW g \in Gestores, LeeCupo(g)
    PROVE  /\ gestion[g] \in Gestion /\ gestion[g].paso = "cupo" /\ cupo' = cupo /\ Quietos
           /\ \E v : /\ Pone(g, v) /\ MismaPeticion(gestion[g], v) /\ v.fila = gestion[g].fila
                     /\ \/ v.paso = "crea" /\ CuposDe(gestion[g].mes) = {}
                        \/ /\ v.paso = "addons" /\ v.id \in CupoIds /\ v.cupo \in Cupo
                           /\ v.cupo = cupo[v.id] /\ v.cupo.mes = gestion[g].mes
<1>1. PICK w : w = gestion[g] /\ w \in Gestion  BY DEF AnunciosTipos, AnunciosTypeOK
<1>2. w.paso = "cupo" /\ cupo' = cupo /\ Quietos
  BY <1>1 DEF LeeCupo, anunciosTablas, EnPaso, Quietos
<1>3. PICK filas : filas = CuposDe(w.mes)  OBVIOUS
<1>4. CASE filas = {}
  <2>1. PICK v : v = [w EXCEPT !.paso = "crea"] /\ Pone(g, v)  BY <1>1, <1>3, <1>4 DEF LeeCupo, Pasa
  <2>2. v \in Gestion /\ v.paso = "crea" /\ v.op = w.op /\ v.a = w.a /\ v.next = w.next
        /\ v.ilimitada = w.ilimitada /\ v.mes = w.mes /\ v.fila = w.fila
    BY <1>1, <2>1, CambiaPaso
  <2> QED BY <1>1, <1>2, <1>3, <1>4, <2>1, <2>2 DEF MismaPeticion
<1>5. CASE filas # {}
  <2>1. PICK i : /\ i = CHOOSE k \in filas : \A o \in filas : k <= o
                 /\ Pone(g, ConFila(w, i, cupo[i]))
    BY <1>1, <1>3, <1>5 DEF LeeCupo, ConFila
  <2>2. i \in filas  BY <1>3, <1>5, <2>1, Primero, MesesTipo DEF CuposDe
  <2>3. i \in CupoIds /\ cupo[i].mes = w.mes /\ w.mes \in Meses
    BY <1>1, <1>3, <2>2 DEF CuposDe, Gestion
  <2>4. cupo[i] \in Cupo  BY <2>3, MesesTipo DEF AnunciosTipos, AnunciosTypeOK, NoCupo
  <2>5. PICK v : v = ConFila(w, i, cupo[i])  OBVIOUS
  <2>6. /\ v \in Gestion /\ v.paso = "addons" /\ v.op = w.op /\ v.a = w.a
        /\ v.next = w.next /\ v.ilimitada = w.ilimitada /\ v.mes = w.mes
        /\ v.fila = w.fila /\ v.id = i /\ v.cupo = cupo[i]
    BY <1>1, <2>3, <2>4, <2>5, ConFilaTipo
  <2>7. /\ Pone(g, v) /\ MismaPeticion(w, v) /\ v.paso = "addons" /\ v.fila = w.fila
        /\ v.id \in CupoIds /\ v.cupo \in Cupo /\ v.cupo = cupo[v.id] /\ v.cupo.mes = w.mes
    BY <2>1, <2>3, <2>4, <2>5, <2>6 DEF MismaPeticion
  <2> QED BY <1>1, <1>2, <2>7
<1> QED BY <1>4, <1>5

LEMMA NuevoCupoTipo ==
    ASSUME AnunciosTipos, NEW n \in Meses
    PROVE  NuevoCupo(n) \in Cupo /\ NuevoCupo(n).mes = n /\ NuevoCupo(n).usado = 0
<1>1. membresia.base \in 0 .. BaseMayor  BY BaseMayorEs DEF AnunciosTipos, AnunciosTypeOK
<1> QED BY <1>1 DEF NuevoCupo, Cupo

LEMMA HaceCreaCupo ==
    ASSUME AnunciosTipos, NEW g \in Gestores, CreaCupo(g)
    PROVE  /\ gestion[g] \in Gestion /\ gestion[g].paso = "crea" /\ Quietos
           /\ \E v : /\ Pone(g, v) /\ MismaPeticion(gestion[g], v) /\ v.fila = gestion[g].fila
                     /\ v.paso = "addons" /\ v.id \in CupoIds /\ v.cupo \in Cupo
                     /\ cupo[v.id] = NoCupo /\ cupo' = [cupo EXCEPT ![v.id] = v.cupo]
                     /\ v.cupo.mes = gestion[g].mes /\ v.cupo.usado = 0
<1>1. PICK w : w = gestion[g] /\ w \in Gestion  BY DEF AnunciosTipos, AnunciosTypeOK
<1>2. w.paso = "crea" /\ Quietos  BY <1>1 DEF CreaCupo, EnPaso, Quietos
<1>3. PICK c : c = NuevoCupo(w.mes)  OBVIOUS
<1>4. c \in Cupo /\ c.mes = w.mes /\ c.usado = 0  BY <1>1, <1>3, NuevoCupoTipo DEF Gestion
<1>5. PICK i \in CupoIds : /\ cupo[i] = NoCupo /\ cupo' = [cupo EXCEPT ![i] = c]
                           /\ Pone(g, ConFila(w, i, c))
  BY <1>1, <1>3 DEF CreaCupo, ConFila
<1>6. PICK v : v = ConFila(w, i, c)  OBVIOUS
<1>7. /\ v \in Gestion /\ v.paso = "addons" /\ v.op = w.op /\ v.a = w.a
      /\ v.next = w.next /\ v.ilimitada = w.ilimitada /\ v.mes = w.mes
      /\ v.fila = w.fila /\ v.id = i /\ v.cupo = c
  BY <1>1, <1>4, <1>5, <1>6, ConFilaTipo
<1> QED BY <1>1, <1>2, <1>4, <1>5, <1>6, <1>7 DEF MismaPeticion

LEMMA CupoCambia ==
    ASSUME NEW c \in Cupo
    PROVE  /\ \A n \in 0 .. MaxExtra : LET k == [c EXCEPT !.addon = n]
                                       IN  k \in Cupo /\ k.mes = c.mes /\ k.usado = c.usado
           /\ \A n \in 0 .. BaseMayor : LET k == [c EXCEPT !.base = n]
                                        IN  k \in Cupo /\ k.mes = c.mes /\ k.usado = c.usado
           /\ \A n \in Nat : LET k == [c EXCEPT !.usado = n]
                             IN  k \in Cupo /\ k.mes = c.mes /\ k.usado = n
  BY DEF Cupo

\* The row that a request carries is brought up to date.
Actualiza(w, p, c) == [[w EXCEPT !.cupo = c] EXCEPT !.paso = p]

LEMMA ActualizaTipo ==
    ASSUME NEW w \in Gestion, NEW c \in Cupo,
               NEW p \in {"base", "guardaAddon", "guardaBase", "cobra"}
    PROVE  LET v == Actualiza(w, p, c)
           IN  /\ MismaPeticion(w, v) /\ v.paso = p /\ v.fila = w.fila /\ v.id = w.id /\ v.cupo = c
<1>1. c \in Cupo \cup {NoCupo}  OBVIOUS
<1>2. Actualiza(w, p, c) \in Gestion  BY <1>1 DEF Gestion, Actualiza
<1>3. LET v == Actualiza(w, p, c)
      IN  /\ v.op = w.op /\ v.a = w.a /\ v.next = w.next /\ v.mes = w.mes
          /\ v.ilimitada = w.ilimitada
          /\ v.paso = p /\ v.fila = w.fila /\ v.id = w.id /\ v.cupo = c
  BY DEF Gestion, Actualiza
<1> QED BY <1>2, <1>3 DEF MismaPeticion

\* A request whose row is brought up to date, of the advert or of the dashboard.
AlCupo(g, v, pasos) ==
    /\ Pone(g, v) /\ MismaPeticion(gestion[g], v) /\ v.fila = gestion[g].fila
    /\ v.paso \in pasos /\ v.id = gestion[g].id /\ v.cupo \in Cupo
    /\ v.cupo.mes = gestion[g].cupo.mes /\ v.cupo.usado = gestion[g].cupo.usado
    /\ v.paso = "cobra" => gestion[g].op # "panel"

LEMMA HaceAddons ==
    ASSUME AnunciosTipos, NEW g \in Gestores, Addons(g)
    PROVE  /\ gestion[g] \in Gestion /\ gestion[g].paso = "addons" /\ cupo' = cupo /\ Quietos
           /\ \E v : AlCupo(g, v, {"guardaAddon", "base"})
<1>1. PICK w : w = gestion[g] /\ w \in Gestion  BY DEF AnunciosTipos, AnunciosTypeOK
<1>2. w.paso = "addons" /\ cupo' = cupo /\ Quietos
  BY <1>1 DEF Addons, anunciosTablas, EnPaso, Quietos
<1>3. w.cupo \in Cupo /\ w.mes \in Meses
  BY <1>1, <1>2 DEF AnunciosTipos, ConCupo, PasosCupo, Gestion
<1>4. PICK n : n = extra[w.mes]  OBVIOUS
<1>5. n \in 0 .. MaxExtra  BY <1>3, <1>4 DEF AnunciosTipos, AnunciosTypeOK
<1>6. PICK c : c = [w.cupo EXCEPT !.addon = n]  OBVIOUS
<1>7. c \in Cupo /\ c.mes = w.cupo.mes /\ c.usado = w.cupo.usado  BY <1>3, <1>5, <1>6, CupoCambia
<1>8. PICK p \in {"guardaAddon", "base"} : Pone(g, Actualiza(w, p, c))
  <2>1. Pone(g, [w EXCEPT !.cupo.addon = n,
                     !.paso = IF w.cupo.addon # n THEN "guardaAddon" ELSE "base"])
    BY <1>1, <1>4 DEF Addons
  <2>2. PICK p \in {"guardaAddon", "base"} : p = IF w.cupo.addon # n THEN "guardaAddon" ELSE "base"
    OBVIOUS
  <2>3. Pone(g, [w EXCEPT !.cupo.addon = n, !.paso = p])  BY <2>1, <2>2
  <2>4. [w EXCEPT !.cupo.addon = n, !.paso = p] = Actualiza(w, p, c)
    BY <1>1, <1>6 DEF Actualiza, Gestion
  <2> QED BY <2>3, <2>4
<1>9. PICK v : v = Actualiza(w, p, c)  OBVIOUS
<1>10. MismaPeticion(w, v) /\ v.paso = p /\ v.fila = w.fila /\ v.id = w.id /\ v.cupo = c
  BY <1>1, <1>7, <1>9, ActualizaTipo
<1>11. AlCupo(g, v, {"guardaAddon", "base"})  BY <1>1, <1>7, <1>8, <1>9, <1>10 DEF AlCupo
<1> QED BY <1>1, <1>2, <1>11

LEMMA HaceBase ==
    ASSUME AnunciosTipos, NEW g \in Gestores, Base(g)
    PROVE  /\ gestion[g] \in Gestion /\ gestion[g].paso = "base" /\ cupo' = cupo /\ Quietos
           /\ Pone(g, SinGestion) \/ \E v : AlCupo(g, v, {"guardaBase", "cobra"})
<1>1. PICK w : w = gestion[g] /\ w \in Gestion  BY DEF AnunciosTipos, AnunciosTypeOK
<1>2. w.paso = "base" /\ cupo' = cupo /\ Quietos  BY <1>1 DEF Base, anunciosTablas, EnPaso, Quietos
<1>3. w.cupo \in Cupo  BY <1>1, <1>2 DEF AnunciosTipos, ConCupo, PasosCupo
<1>4. PICK n : n = membresia.base  OBVIOUS
<1>5. n \in 0 .. BaseMayor  BY <1>4, BaseMayorEs DEF AnunciosTipos, AnunciosTypeOK
<1>6. PICK c : c = [w.cupo EXCEPT !.base = n]  OBVIOUS
<1>7. c \in Cupo /\ c.mes = w.cupo.mes /\ c.usado = w.cupo.usado  BY <1>3, <1>5, <1>6, CupoCambia
<1>8. \/ Pone(g, SinGestion)
      \/ \E p \in {"guardaBase", "cobra"} : /\ Pone(g, Actualiza(w, p, c))
                                            /\ p = "cobra" => w.op # "panel"
  <2>1. PICK u : u = [w EXCEPT !.cupo.base = n]  OBVIOUS
  <2>2. Pone(g, IF u.cupo.base # w.cupo.base THEN [u EXCEPT !.paso = "guardaBase"] ELSE TrasCupo(u))
    BY <1>1, <1>4, <2>1 DEF Base
  <2>3. u.op = w.op  BY <1>1, <2>1 DEF Gestion
  <2>4. \A p \in {"guardaBase", "cobra"} : [u EXCEPT !.paso = p] = Actualiza(w, p, c)
    BY <1>1, <1>6, <2>1 DEF Actualiza, Gestion
  <2> QED BY <2>2, <2>3, <2>4 DEF TrasCupo
<1>9. ASSUME NEW p \in {"guardaBase", "cobra"}, Pone(g, Actualiza(w, p, c)),
             p = "cobra" => w.op # "panel"
      PROVE  \E v : AlCupo(g, v, {"guardaBase", "cobra"})
  <2>1. PICK v : v = Actualiza(w, p, c)  OBVIOUS
  <2>2. MismaPeticion(w, v) /\ v.paso = p /\ v.fila = w.fila /\ v.id = w.id /\ v.cupo = c
    BY <1>1, <1>7, <2>1, ActualizaTipo
  <2>3. AlCupo(g, v, {"guardaBase", "cobra"})  BY <1>1, <1>7, <1>9, <2>1, <2>2 DEF AlCupo
  <2> QED BY <2>3
<1> QED BY <1>1, <1>2, <1>8, <1>9

LEMMA HaceGuardaCupo ==
    ASSUME AnunciosTipos, NEW g \in Gestores, GuardaCupo(g)
    PROVE  /\ gestion[g] \in Gestion /\ gestion[g].paso \in {"guardaAddon", "guardaBase"} /\ Quietos
           /\ gestion[g].cupo \in Cupo /\ gestion[g].id \in CupoIds
           /\ cupo' = [cupo EXCEPT ![gestion[g].id] = gestion[g].cupo]
           /\ Pone(g, SinGestion) \/ \E v : AlCupo(g, v, {"base", "cobra"})
<1>1. PICK w : w = gestion[g] /\ w \in Gestion  BY DEF AnunciosTipos, AnunciosTypeOK
<1>2. /\ w.paso \in {"guardaAddon", "guardaBase"} /\ Quietos
      /\ cupo' = [cupo EXCEPT ![w.id] = w.cupo]
  BY <1>1 DEF GuardaCupo, EnPaso, Quietos
<1>3. w.cupo \in Cupo /\ w.id \in CupoIds  BY <1>1, <1>2 DEF AnunciosTipos, ConCupo, PasosCupo
<1>4. \/ Pone(g, SinGestion)
      \/ \E p \in {"base", "cobra"} : Pone(g, [w EXCEPT !.paso = p])
             /\ (p = "cobra" => w.op # "panel")
  BY <1>1 DEF GuardaCupo, TrasCupo
<1>5. ASSUME NEW p \in {"base", "cobra"}, Pone(g, [w EXCEPT !.paso = p]),
             p = "cobra" => w.op # "panel"
      PROVE  \E v : AlCupo(g, v, {"base", "cobra"})
  <2>1. PICK v : v = [w EXCEPT !.paso = p]  OBVIOUS
  <2>2. /\ v \in Gestion /\ v.paso = p /\ v.op = w.op /\ v.a = w.a /\ v.next = w.next
        /\ v.ilimitada = w.ilimitada /\ v.mes = w.mes /\ v.fila = w.fila /\ v.id = w.id
        /\ v.cupo = w.cupo
    BY <1>1, <2>1, CambiaPaso
  <2>3. AlCupo(g, v, {"base", "cobra"})  BY <1>1, <1>3, <1>5, <2>1, <2>2 DEF AlCupo, MismaPeticion
  <2> QED BY <2>3
<1> QED BY <1>1, <1>2, <1>3, <1>4, <1>5

LEMMA HaceCobra ==
    ASSUME AnunciosTipos, NEW g \in Gestores, Leida(gestion[g]), Cobra(g)
    PROVE  LET w == gestion[g]
           IN  /\ w \in Gestion /\ w.paso = "cobra" /\ Quietos /\ w.cupo \in Cupo
               /\ w.id \in CupoIds
               /\ \/ Pone(g, SinGestion) /\ cupo' = cupo
                  \/ /\ w.cupo.usado < BaseMayor + MaxExtra
                     /\ \E c \in Cupo : /\ cupo' = [cupo EXCEPT ![w.id] = c]
                                        /\ c.mes = w.cupo.mes /\ c.usado = w.cupo.usado + 1
                     /\ \E v : /\ Pone(g, v) /\ MismaPeticion(w, v) /\ v.paso = "guarda"
                               /\ v.fila \in Anuncio /\ v.fila.cupoConsumido
<1>1. PICK w : w = gestion[g] /\ w \in Gestion  BY DEF AnunciosTipos, AnunciosTypeOK
<1>2. w.paso = "cobra" /\ Quietos  BY <1>1 DEF Cobra, EnPaso, Quietos
<1>3. w.cupo \in Cupo /\ w.id \in CupoIds  BY <1>1, <1>2 DEF AnunciosTipos, ConCupo, PasosCupo
<1>4. w.fila \in Anuncio  BY <1>1, <1>2 DEF Leida
<1>5. CASE Agotado(w.cupo)  BY <1>1, <1>5, <1>2, <1>3 DEF Cobra
<1>6. CASE ~Agotado(w.cupo)
  <2>1. PICK n : n = w.cupo.usado + 1  OBVIOUS
  <2>2. PICK c : c = [w.cupo EXCEPT !.usado = n]  OBVIOUS
  <2>3. w.cupo.usado \in Nat /\ w.cupo.base \in 0 .. BaseMayor /\ w.cupo.addon \in 0 .. MaxExtra
    BY <1>3 DEF Cupo
  <2>4. c \in Cupo /\ c.mes = w.cupo.mes /\ c.usado = n  BY <1>3, <2>1, <2>2, <2>3, CupoCambia
  <2>5. w.cupo.usado < BaseMayor + MaxExtra  BY <1>6, <2>3, BaseMayorEs DEF Agotado
  <2>6. PICK f : f = [w.fila EXCEPT !.cupoConsumido = TRUE]  OBVIOUS
  <2>7. f \in Anuncio /\ f.cupoConsumido  BY <1>4, <2>6 DEF Anuncio
  <2>8. PICK v : v = [[w EXCEPT !.paso = "guarda"] EXCEPT !.fila = f]  OBVIOUS
  <2>9. cupo' = [cupo EXCEPT ![w.id] = c]  BY <1>1, <1>6, <2>1, <2>2 DEF Cobra
  <2>10. Pone(g, v)  BY <1>1, <1>6, <2>6, <2>8 DEF Cobra, Gestion
  <2>11. v \in Gestion  BY <2>7, <1>1, <2>8 DEF Gestion
  <2>12. MismaPeticion(w, v) /\ v.paso = "guarda" /\ v.fila = f
    BY <1>1, <2>8, <2>11 DEF MismaPeticion, Gestion
  <2> QED BY <1>1, <1>2, <1>3, <2>1, <2>4, <2>5, <2>7, <2>9, <2>10, <2>12
<1> QED BY <1>5, <1>6

--------------------
(* What a request takes from the quota.                                    *)

LEMMA HaceGuardaAnuncio ==
    ASSUME AnunciosTipos, NEW g \in Gestores, Leida(gestion[g]), GuardaAnuncio(g)
    PROVE  LET w == gestion[g]
           IN  /\ w \in Gestion /\ w.paso = "guarda" /\ w.a \in Creados /\ w.fila \in Anuncio
               /\ UNCHANGED <<cupo, anunciosMundo>> /\ Pone(g, SinGestion) /\ movio' \in BOOLEAN
               /\ \E f \in Anuncio : /\ anuncio' = [anuncio EXCEPT ![w.a] = f]
                                     /\ f.cupoConsumido = w.fila.cupoConsumido
<1>1. PICK w : w = gestion[g] /\ w \in Gestion  BY DEF AnunciosTipos, AnunciosTypeOK
<1>2. w.paso = "guarda" /\ UNCHANGED <<cupo, anunciosMundo>> /\ Pone(g, SinGestion)
  BY <1>1 DEF GuardaAnuncio, EnPaso
<1>3. w.a \in Creados /\ w.fila \in Anuncio /\ w.next \in Estatus  BY <1>1, <1>2 DEF Leida
<1>4. PICK f : f = [w.fila EXCEPT !.status = w.next]  OBVIOUS
<1>5. f \in Anuncio /\ f.cupoConsumido = w.fila.cupoConsumido  BY <1>3, <1>4 DEF Anuncio
<1>6. anuncio' = [anuncio EXCEPT ![w.a] = f] /\ movio' \in BOOLEAN
  BY <1>1, <1>4 DEF GuardaAnuncio, AnunciosTipos, AnunciosTypeOK
<1> QED BY <1>1, <1>2, <1>3, <1>5, <1>6

\* A request that arrives has read the advert, or is of the dashboard.
Llego(g, v) ==
    /\ EnPaso(g, "idle") /\ Pone(g, v) /\ v \in Gestion
    /\ solapo' = (solapo \/ \E o \in Gestores : ~EnPaso(o, "idle"))
    /\ gestiones' \in 0 .. MaxGestiones /\ gratis' \in BOOLEAN
    /\ UNCHANGED <<anunciosTablas, extra, membresia, hoy, cambios, fallasAnuncios, techo,
                   movio>>
    /\ \/ /\ v.op \in {"estatus", "edita"} /\ v.a \in Creados
          /\ v.fila \in Anuncio /\ v.fila.cupoConsumido = anuncio[v.a].cupoConsumido
          /\ v.paso \in {"reglas", "guarda"} /\ (v.op = "edita" => v.paso = "guarda")
       \/ v.op = "panel" /\ v.paso = "cupo"

\* A request that begins: what it asks for, of which advert, with what was read.
Peticion(op, p, a, next, mes, fila, ilimitada) ==
    [SinGestion EXCEPT !.op = op, !.paso = p, !.a = a, !.next = next, !.mes = mes,
                       !.fila = fila, !.ilimitada = ilimitada]

LEMMA PeticionTipo ==
    ASSUME NEW op \in {"estatus", "edita", "panel"}, NEW p \in {"reglas", "guarda", "cupo"},
           NEW a \in Anuncios \cup {NoAnuncio}, NEW next \in Estatus, NEW mes \in Meses,
           NEW fila \in Anuncio \cup {NoFilaAnuncio}, NEW ilimitada \in BOOLEAN
    PROVE  LET v == Peticion(op, p, a, next, mes, fila, ilimitada)
           IN  v \in Gestion /\ v.op = op /\ v.paso = p /\ v.a = a /\ v.fila = fila
<1>1. NoCupo \in Cupo \cup {NoCupo} /\ 0 \in 0 .. MaxCupos  OBVIOUS
<1>2. Peticion(op, p, a, next, mes, fila, ilimitada) \in Gestion
  BY <1>1 DEF Peticion, SinGestion, Gestion
<1> QED BY <1>2 DEF Peticion, SinGestion

LEMMA LlegaTipo ==
    ASSUME AnunciosTipos, NEW g \in Gestores, NEW v, Llega(g, v)
    PROVE  /\ EnPaso(g, "idle") /\ Pone(g, v) /\ gestiones' \in 0 .. MaxGestiones
           /\ solapo' = (solapo \/ \E o \in Gestores : ~EnPaso(o, "idle"))
           /\ UNCHANGED <<anunciosTablas, extra, membresia, hoy, cambios, fallasAnuncios, techo,
                   movio>>
<1>1. gestiones \in Nat /\ gestiones' = gestiones + 1 /\ gestiones < MaxGestiones
  BY DEF Llega, AnunciosTipos, AnunciosTypeOK
<1> QED BY <1>1 DEF Llega

LEMMA FilaCreada ==
    ASSUME AnunciosTipos, NEW a \in Creados
    PROVE  a \in Anuncios /\ anuncio[a] \in Anuncio
  BY DEF AnunciosTipos, AnunciosTypeOK, Creados

LEMMA LlegoUpdateStatus ==
    ASSUME AnunciosTipos, NEW g \in Gestores, NEW a \in Anuncios, NEW next \in Estatus,
           UpdateStatus(g, a, next)
    PROVE  \E v : Llego(g, v)
<1>1. a \in Creados /\ anuncio[a] \in Anuncio  BY FilaCreada DEF UpdateStatus
<1>2. PICK p \in {"reglas", "guarda"} :
         p = IF next = "active" /\ anuncio[a].status # "active" THEN "reglas" ELSE "guarda"
  OBVIOUS
<1>3. PICK v : v = Peticion("estatus", p, a, next, hoy, anuncio[a], membresia.ilimitada)  OBVIOUS
<1>4. Llega(g, v) /\ gratis' \in BOOLEAN  BY <1>2, <1>3 DEF UpdateStatus, Peticion
<1>5. hoy \in Meses /\ membresia.ilimitada \in BOOLEAN  BY DEF AnunciosTipos, AnunciosTypeOK
<1>6. v \in Gestion /\ v.op = "estatus" /\ v.paso = p /\ v.a = a /\ v.fila = anuncio[a]
  BY <1>1, <1>2, <1>3, <1>5, PeticionTipo
<1> QED BY <1>1, <1>2, <1>4, <1>6, LlegaTipo DEF Llego

LEMMA LlegoUpdate ==
    ASSUME AnunciosTipos, NEW g \in Gestores, NEW a \in Anuncios, NEW d \in Vigencia,
           Update(g, a, d)
    PROVE  \E v : Llego(g, v)
<1>1. a \in Creados /\ anuncio[a] \in Anuncio  BY FilaCreada DEF Update
<1>2. PICK f : f = [anuncio[a] EXCEPT !.vigencia = d]  OBVIOUS
<1>3. f \in Anuncio /\ f.cupoConsumido = anuncio[a].cupoConsumido /\ anuncio[a].status \in Estatus
  BY <1>1, <1>2 DEF Anuncio
<1>4. PICK v, st : /\ st = anuncio[a].status
                  /\ v = [SinGestion EXCEPT !.op = "edita", !.paso = "guarda", !.a = a,
                                            !.next = st, !.fila = f]
  OBVIOUS
<1>5. Llega(g, v) /\ gratis' \in BOOLEAN  BY <1>2, <1>4 DEF Update, AnunciosTipos, AnunciosTypeOK
<1>6. v \in Gestion /\ v.op = "edita" /\ v.paso = "guarda" /\ v.a = a /\ v.fila = f
  <2>1. /\ st \in Estatus /\ a \in Anuncios \cup {NoAnuncio} /\ f \in Anuncio \cup {NoFilaAnuncio}
        /\ NoCupo \in Cupo \cup {NoCupo} /\ 0 \in 0 .. MaxCupos /\ 1 \in Meses
    BY <1>3, <1>4, MesesTipo
  <2>2. v \in Gestion  BY <1>4, <2>1 DEF SinGestion, Gestion
  <2> QED BY <1>4, <2>2 DEF SinGestion
<1> QED BY <1>1, <1>3, <1>5, <1>6, LlegaTipo DEF Llego

LEMMA LlegoGetDashboard ==
    ASSUME AnunciosTipos, NEW g \in Gestores, GetDashboard(g)
    PROVE  \E v : Llego(g, v)
<1>1. PICK v : v = [SinGestion EXCEPT !.op = "panel", !.paso = "cupo", !.mes = hoy]  OBVIOUS
<1>2. Llega(g, v) /\ gratis' \in BOOLEAN  BY <1>1 DEF GetDashboard, AnunciosTipos, AnunciosTypeOK
<1>3. v \in Gestion /\ v.op = "panel" /\ v.paso = "cupo"
  <2>1. /\ hoy \in Meses /\ "paused" \in Estatus /\ NoCupo \in Cupo \cup {NoCupo}
        /\ 0 \in 0 .. MaxCupos
    BY DEF AnunciosTipos, AnunciosTypeOK, Estatus
  <2>2. v \in Gestion  BY <1>1, <2>1 DEF SinGestion, Gestion
  <2> QED BY <1>1, <2>2 DEF SinGestion
<1> QED BY <1>2, <1>3, LlegaTipo DEF Llego

--------------------
LEMMA TiposLlego ==
    ASSUME AnunciosTipos, NEW g \in Gestores, NEW v, Llego(g, v) PROVE AnunciosTipos'
<1>1. v \in Gestion /\ Pone(g, v) /\ ConCupo(v)  BY DEF Llego, ConCupo, PasosCupo
<1>2. gestion' \in [Gestores -> Gestion] /\ \A o \in Gestores : ConCupo(gestion'[o])
  BY <1>1, TiposPone
<1>3. solapo' \in BOOLEAN  BY DEF Llego, AnunciosTipos, AnunciosTypeOK
<1> QED BY <1>2, <1>3 DEF AnunciosTipos, AnunciosTypeOK, anunciosTablas, Llego, ConCupo

LEMMA TiposAlCupo ==
    ASSUME AnunciosTipos, NEW g \in Gestores, gestion[g].id \in CupoIds, NEW pasos, NEW v,
               AlCupo(g, v, pasos),
           cupo' \in [CupoIds -> Cupo \cup {NoCupo}], Quietos
    PROVE  AnunciosTipos'
<1>1. v \in Gestion /\ Pone(g, v) /\ ConCupo(v)  BY DEF AlCupo, ConCupo, MismaPeticion
<1> QED BY <1>1, TiposAvance DEF Quietos

LEMMA TiposRequest ==
    ASSUME AnunciosTipos, NEW g \in Gestores, Leida(gestion[g]),
           \/ LeeReglas(g) \/ CuentaSlots(g) \/ LeeCupo(g) \/ CreaCupo(g) \/ Addons(g)
           \/ Base(g) \/ GuardaCupo(g) \/ Cobra(g) \/ GuardaAnuncio(g) \/ FallaAnuncio(g)
    PROVE  AnunciosTipos'
<1>0. cupo \in [CupoIds -> Cupo \cup {NoCupo}] /\ ConCupo(gestion[g])
  BY DEF AnunciosTipos, AnunciosTypeOK
<1>a. ASSUME cupo' \in [CupoIds -> Cupo \cup {NoCupo}], Quietos, Pone(g, SinGestion)
      PROVE  AnunciosTipos'
  BY <1>a, SinGestionTipo, TiposAvance DEF Quietos
<1>1. CASE LeeReglas(g) \/ CuentaSlots(g)
  <2>1. CASE Pone(g, SinGestion)  BY <1>0, <1>1, <1>a, <2>1, HaceCuentaSlots
  <2>2. CASE ~Pone(g, SinGestion)
    <3>1. PICK v : Pone(g, v) /\ v \in Gestion /\ v.paso \in {"slots", "guarda", "cupo"}
      BY <1>1, <2>2, HaceCuentaSlots DEF MismaPeticion
    <3>2. ConCupo(v)  BY <3>1 DEF ConCupo, PasosCupo
    <3> QED BY <1>0, <1>1, <3>1, <3>2, HaceCuentaSlots, TiposAvance DEF Quietos
  <2> QED BY <2>1, <2>2
<1>2. CASE LeeCupo(g)
  <2>1. PICK v : /\ Pone(g, v) /\ v \in Gestion
                 /\ v.paso = "crea" \/ (v.id \in CupoIds /\ v.cupo \in Cupo)
    BY <1>2, HaceLeeCupo DEF MismaPeticion
  <2>2. ConCupo(v)  BY <2>1 DEF ConCupo, PasosCupo
  <2> QED BY <1>0, <1>2, <2>1, <2>2, HaceLeeCupo, TiposAvance DEF Quietos
<1>3. CASE CreaCupo(g)
  <2>1. PICK v : /\ Pone(g, v) /\ v \in Gestion /\ v.id \in CupoIds /\ v.cupo \in Cupo
                 /\ cupo' = [cupo EXCEPT ![v.id] = v.cupo]
    BY <1>3, HaceCreaCupo DEF MismaPeticion
  <2>2. ConCupo(v) /\ cupo' \in [CupoIds -> Cupo \cup {NoCupo}]  BY <1>0, <2>1 DEF ConCupo
  <2> QED BY <1>3, <2>1, <2>2, HaceCreaCupo, TiposAvance DEF Quietos
<1>4. CASE Addons(g)
  <2>1. PICK v : AlCupo(g, v, {"guardaAddon", "base"})  BY <1>4, HaceAddons
  <2>2. gestion[g].id \in CupoIds  BY <1>0, <1>4, HaceAddons DEF ConCupo, PasosCupo
  <2> QED BY <1>0, <1>4, <2>1, <2>2, HaceAddons, TiposAlCupo
<1>5. CASE Base(g)
  <2>1. CASE Pone(g, SinGestion)  BY <1>0, <1>5, <1>a, <2>1, HaceBase
  <2>2. CASE ~Pone(g, SinGestion)
    <3>1. PICK v : AlCupo(g, v, {"guardaBase", "cobra"})  BY <1>5, <2>2, HaceBase
    <3>2. gestion[g].id \in CupoIds  BY <1>0, <1>5, HaceBase DEF ConCupo, PasosCupo
    <3> QED BY <1>0, <1>5, <3>1, <3>2, HaceBase, TiposAlCupo
  <2> QED BY <2>1, <2>2
<1>6. CASE GuardaCupo(g)
  <2>0. cupo' \in [CupoIds -> Cupo \cup {NoCupo}] /\ gestion[g].id \in CupoIds
    BY <1>0, <1>6, HaceGuardaCupo
  <2>1. CASE Pone(g, SinGestion)  BY <1>6, <1>a, <2>0, <2>1, HaceGuardaCupo
  <2>2. CASE ~Pone(g, SinGestion)
    <3>1. PICK v : AlCupo(g, v, {"base", "cobra"})  BY <1>6, <2>2, HaceGuardaCupo
    <3> QED BY <1>6, <2>0, <3>1, HaceGuardaCupo, TiposAlCupo
  <2> QED BY <2>1, <2>2
<1>7. CASE Cobra(g)
  <2>1. CASE Pone(g, SinGestion) /\ cupo' = cupo  BY <1>0, <1>7, <1>a, <2>1, HaceCobra
  <2>2. CASE ~(Pone(g, SinGestion) /\ cupo' = cupo)
    <3>1. PICK c \in Cupo : cupo' = [cupo EXCEPT ![gestion[g].id] = c]  BY <1>7, <2>2, HaceCobra
    <3>2. PICK v : Pone(g, v) /\ v \in Gestion /\ v.paso = "guarda"
      BY <1>7, <2>2, HaceCobra DEF MismaPeticion
    <3>3. ConCupo(v) /\ cupo' \in [CupoIds -> Cupo \cup {NoCupo}]
      BY <1>0, <3>1, <3>2 DEF ConCupo, PasosCupo
    <3> QED BY <1>7, <3>2, <3>3, HaceCobra, TiposAvance DEF Quietos
  <2> QED BY <2>1, <2>2
<1>8. CASE GuardaAnuncio(g)
  <2>1. PICK f \in Anuncio : anuncio' = [anuncio EXCEPT ![gestion[g].a] = f]
    BY <1>8, HaceGuardaAnuncio
  <2>2. anuncio' \in [Anuncios -> Anuncio \cup {NoFilaAnuncio}]
    BY <2>1 DEF AnunciosTipos, AnunciosTypeOK
  <2>3. UNCHANGED <<cupo, anunciosMundo>> /\ Pone(g, SinGestion) /\ movio' \in BOOLEAN
    BY <1>8, HaceGuardaAnuncio
  <2>4. gestion' \in [Gestores -> Gestion] /\ \A o \in Gestores : ConCupo(gestion'[o])
    BY <2>3, SinGestionTipo, TiposPone
  <2> QED BY <2>2, <2>3, <2>4 DEF AnunciosTipos, AnunciosTypeOK, anunciosMundo, ConCupo
<1>9. CASE FallaAnuncio(g)
  BY <1>9, SinGestionTipo, TiposPone DEF FallaAnuncio, AnunciosTipos, AnunciosTypeOK,
     anunciosTablas, ConCupo
<1> QED BY <1>1, <1>2, <1>3, <1>4, <1>5, <1>6, <1>7, <1>8, <1>9

LEMMA TiposNext ==
    ASSUME AnunciosTipos, AnunciosForma, [AnunciosNext]_anunciosVars PROVE AnunciosTipos'
<1>1. CASE UNCHANGED anunciosVars  BY <1>1 DEF anunciosVars, AnunciosTipos, AnunciosTypeOK, ConCupo
<1>2. ASSUME NEW a \in Anuncios, NEW v \in Vigencia, Create(a, v) PROVE AnunciosTipos'
  BY <1>2, BorradorTipo DEF Create, AnunciosTipos, AnunciosTypeOK, ConCupo
<1>3. CASE \E g \in Gestores, a \in Anuncios, next \in Estatus : UpdateStatus(g, a, next)
  BY <1>3, LlegoUpdateStatus, TiposLlego
<1>4. CASE \E g \in Gestores, a \in Anuncios, v \in Vigencia : Update(g, a, v)
  BY <1>4, LlegoUpdate, TiposLlego
<1>5. ASSUME NEW g \in Gestores, GetDashboard(g) PROVE AnunciosTipos'
  BY <1>5, LlegoGetDashboard, TiposLlego
<1>6. ASSUME NEW g \in Gestores,
             \/ LeeReglas(g) \/ CuentaSlots(g) \/ LeeCupo(g) \/ CreaCupo(g) \/ Addons(g)
             \/ Base(g) \/ GuardaCupo(g) \/ Cobra(g) \/ GuardaAnuncio(g) \/ FallaAnuncio(g)
      PROVE  AnunciosTipos'
  <2>1. Leida(gestion[g])  BY DEF AnunciosForma
  <2> QED BY <1>6, <2>1, TiposRequest
<1>7. CASE PasaMes
  BY <1>7 DEF PasaMes, AnunciosTipos, AnunciosTypeOK, Meses, anunciosTablas, ConCupo
<1>8. ASSUME NEW mb \in Membresias, CambiaMembresia(mb) PROVE AnunciosTipos'
  <2>1. PICK x, y : x = techo /\ y = LimiteDe(mb)  OBVIOUS
  <2>2. x \in Nat /\ y \in Nat  BY <2>1, LimiteDeTipo DEF AnunciosTipos, AnunciosTypeOK
  <2>3. Max({x, y}) \in {x, y}
    <3>1. \E m \in {x, y} : \A k \in {x, y} : m >= k  BY <2>2
    <3> QED BY <3>1 DEF Max
  <2>4. techo' \in Nat  BY <1>8, <2>1, <2>2, <2>3 DEF CambiaMembresia
  <2> QED BY <1>8, <2>4 DEF CambiaMembresia, AnunciosTipos, AnunciosTypeOK, anunciosTablas, ConCupo
<1>9. ASSUME NEW n \in Meses, CompraExtra(n) PROVE AnunciosTipos'
  BY <1>9 DEF CompraExtra, AnunciosTipos, AnunciosTypeOK, anunciosTablas, ConCupo
<1> QED BY <1>1, <1>2, <1>3, <1>4, <1>5, <1>6, <1>7, <1>8, <1>9 DEF AnunciosNext

LEMMA TiposSiempre == AnunciosSpec => []AnunciosTipos
<1>1. AnunciosInv => AnunciosForma  BY DEF AnunciosInv
<1>2. AnunciosTipos /\ AnunciosForma /\ [AnunciosNext]_anunciosVars => AnunciosTipos'  BY TiposNext
<1> QED BY <1>1, <1>2, TiposInit, AnunciosInvSiempre, PTL DEF AnunciosSpec

--------------------
(* The units used, and the adverts charged.                                *)

\* While none overlapped: what the request at work knows of the quota and of the advert.
AlDiaCupo(w) ==
    /\ w.paso = "crea" => CuposDe(w.mes) = {}
    /\ w.paso \in PasosCupo =>
         cupo[w.id].mes = w.mes /\ w.cupo.mes = w.mes /\ w.cupo.usado = cupo[w.id].usado
    /\ w.op = "edita" => w.paso = "guarda"
    /\ w.op \in {"estatus", "edita"} =>
         /\ w.paso # "guarda" => w.fila.cupoConsumido = anuncio[w.a].cupoConsumido
         /\ w.paso \notin {"reglas", "slots", "guarda"} => ~w.fila.cupoConsumido
         /\ anuncio[w.a].cupoConsumido => w.fila.cupoConsumido
    /\ w.paso \in {"reglas", "slots", "cobra", "guarda"} => w.op \in {"estatus", "edita"}
    /\ w.op \in {"estatus", "edita"} => w.a \in Creados /\ w.fila \in Anuncio

\* A unit was used, and the advert is not yet marked as charged.
AnuncioPorMarcar(w) == w.paso = "guarda" /\ w.fila.cupoConsumido /\ ~anuncio[w.a].cupoConsumido
Deuda == IF \E g \in Gestores : AnuncioPorMarcar(gestion[g]) THEN 1 ELSE 0

UnaFila == \A i, k \in CupoIds : cupo[i] # NoCupo /\ cupo[i].mes = cupo[k].mes => i = k
EnTope == \A i \in CupoIds : cupo[i] # NoCupo => cupo[i].usado <= BaseMayor + MaxExtra
UnaPeticion == \A g, o \in Gestores : ~EnPaso(g, "idle") /\ ~EnPaso(o, "idle") => g = o
Cuadra == IF fallasAnuncios = 0 THEN Usados = Cardinality(Cobrados) + Deuda
          ELSE Usados >= Cardinality(Cobrados) + Deuda
CupoInv ==
    ~solapo => /\ UnaPeticion /\ UnaFila /\ EnTope /\ Cuadra
               /\ \A g \in Gestores : AlDiaCupo(gestion[g])

LEMMA CobradosNat ==
    ASSUME AnunciosTipos
    PROVE  /\ Cobrados \subseteq Anuncios /\ IsFiniteSet(Cobrados) /\ Cardinality(Cobrados) \in Nat
           /\ Usados \in Nat /\ Deuda \in {0, 1}
<1>1. Cobrados \in SUBSET Anuncios  BY DEF Cobrados, Creados
<1>2. IsFiniteSet(Cobrados)  BY <1>1, FS_Subset
<1>3. cupo \in [CupoIds -> Cupo \cup {NoCupo}]  BY DEF AnunciosTipos, AnunciosTypeOK
<1> QED BY <1>1, <1>2, <1>3, FS_CardinalityType, UsadosNat DEF Deuda

LEMMA SinGestionAlDia == AlDiaCupo(SinGestion) /\ ~AnuncioPorMarcar(SinGestion)
  BY SinGestionForma DEF AlDiaCupo, AnuncioPorMarcar, PasosCupo

LEMMA CupoInit == AnunciosInit => CupoInv
<1> SUFFICES ASSUME AnunciosInit PROVE CupoInv  OBVIOUS
<1>1. \A g \in Gestores : gestion[g] = SinGestion  BY DEF AnunciosInit
<1>2. \A i \in CupoIds : cupo[i] = NoCupo /\ UsadosDe(i) = 0  BY DEF AnunciosInit, UsadosDe
<1>3. Usados = 0
  <2>1. PICK f : f = [i \in CupoIds |-> UsadosDe(i)]  OBVIOUS
  <2>2. \A i \in CupoIds : f[i] = 0  BY <1>2, <2>1
  <2> QED BY <2>1, <2>2, CuposFinitos, SumaCeros, UsadosSuma
<1>4. Cobrados = {}  BY DEF AnunciosInit, Cobrados, Creados, Borrador, NoFilaAnuncio
<1>5. Deuda = 0 /\ \A g \in Gestores : AlDiaCupo(gestion[g])  BY <1>1, SinGestionAlDia DEF Deuda
<1>6. Cuadra  BY <1>3, <1>4, <1>5, FS_EmptySet DEF Cuadra
<1>7. UnaPeticion /\ UnaFila /\ EnTope
  BY <1>1, <1>2, SinGestionForma DEF UnaPeticion, UnaFila, EnTope, EnPaso
<1> QED BY <1>5, <1>6, <1>7 DEF CupoInv

\* The request at work moves; the others are idle before and after.
LEMMA LaUnica ==
    ASSUME AnunciosTipos, UnaPeticion, NEW g \in Gestores, ~EnPaso(g, "idle"), NEW v, Pone(g, v),
           \A o \in Gestores : AlDiaCupo(gestion[o])
    PROVE  /\ UnaPeticion' /\ gestion'[g] = v
           /\ \A o \in Gestores : o # g => /\ gestion'[o] = gestion[o] /\ EnPaso(o, "idle")
           /\ Deuda = IF AnuncioPorMarcar(gestion[g]) THEN 1 ELSE 0
<1>1. gestion' = [gestion EXCEPT ![g] = v] /\ gestion \in [Gestores -> Gestion]
  BY DEF Pone, AnunciosTipos, AnunciosTypeOK
<1>2. gestion'[g] = v /\ \A o \in Gestores : o # g => gestion'[o] = gestion[o] /\ EnPaso(o, "idle")
  BY <1>1 DEF UnaPeticion
<1>3. UnaPeticion'  BY <1>2 DEF UnaPeticion, EnPaso
<1>4. \A o \in Gestores : o # g => ~AnuncioPorMarcar(gestion[o])
  BY <1>2 DEF AnuncioPorMarcar, EnPaso
<1> QED BY <1>2, <1>3, <1>4 DEF Deuda

\* An idle request knows nothing that could be false.
LEMMA OciosaAlDia ==
    ASSUME AnunciosTipos, NEW o \in Gestores, AlDiaCupo(gestion[o]), EnPaso(o, "idle"),
           AnunciosForma
    PROVE  gestion[o].op = "none"
  BY DEF AnunciosForma, Leida, EnPaso

\* The step of the request at work, once it is known what it leaves.
LEMMA UnPaso ==
    ASSUME AnunciosTipos, AnunciosForma, NEW g \in Gestores, ~EnPaso(g, "idle"), NEW v, Pone(g, v),
           UnaPeticion, \A o \in Gestores : AlDiaCupo(gestion[o]),
           AlDiaCupo(v)', UnaFila', EnTope',
           IF fallasAnuncios' = 0
           THEN Usados' = Cardinality(Cobrados') + IF AnuncioPorMarcar(v)' THEN 1 ELSE 0
           ELSE Usados' >= Cardinality(Cobrados') + IF AnuncioPorMarcar(v)' THEN 1 ELSE 0
    PROVE  CupoInv'
<1>1. /\ UnaPeticion' /\ gestion'[g] = v
      /\ \A o \in Gestores : o # g => /\ gestion'[o] = gestion[o] /\ EnPaso(o, "idle")
  BY LaUnica
<1>2. \A o \in Gestores : o # g => gestion'[o].op = "none" /\ gestion'[o].paso = "idle"
  BY <1>1, OciosaAlDia DEF EnPaso
<1>3. \A o \in Gestores : AlDiaCupo(gestion[o])'  BY <1>1, <1>2 DEF AlDiaCupo, PasosCupo
<1>4. Deuda' = IF AnuncioPorMarcar(v)' THEN 1 ELSE 0  BY <1>2, <1>1 DEF AnuncioPorMarcar, Deuda
<1>5. Cuadra'  BY <1>4 DEF Cuadra
<1> QED BY <1>1, <1>3, <1>5 DEF CupoInv

--------------------
(* Each request, between its saves.                                        *)

\* A step that writes no row.
LEMMA SinEscribir ==
    ASSUME UNCHANGED <<anuncio, cupo>>
    PROVE  /\ UnaFila' = UnaFila /\ EnTope' = EnTope /\ Usados' = Usados
           /\ Cobrados' = Cobrados /\ Creados' = Creados
           /\ \A n : CuposDe(n)' = CuposDe(n)
<1>1. Cobrados' = Cobrados /\ Creados' = Creados /\ \A n : CuposDe(n)' = CuposDe(n)
  BY DEF Cobrados, Creados, CuposDe
<1>2. UnaFila' = UnaFila /\ EnTope' = EnTope  BY DEF UnaFila, EnTope
<1> QED BY <1>1, <1>2, UsadosIgual

\* The request ends with what it had to do undone.
LEMMA Abandona ==
    ASSUME AnunciosTipos, AnunciosForma, CupoInv, NEW g \in Gestores, ~EnPaso(g, "idle"),
           Pone(g, SinGestion), UNCHANGED <<anuncio, cupo, solapo>>,
           \/ fallasAnuncios' = fallasAnuncios /\ ~AnuncioPorMarcar(gestion[g])
           \/ fallasAnuncios' = fallasAnuncios + 1
    PROVE  CupoInv'
<1> SUFFICES ASSUME ~solapo PROVE CupoInv'  BY DEF CupoInv
<1>1. UnaPeticion /\ UnaFila /\ EnTope /\ Cuadra /\ \A o \in Gestores : AlDiaCupo(gestion[o])
  BY DEF CupoInv
<1>2. UnaFila' /\ EnTope' /\ Usados' = Usados /\ Cobrados' = Cobrados  BY <1>1, SinEscribir
<1>3. AlDiaCupo(SinGestion)' /\ ~AnuncioPorMarcar(SinGestion)'
  BY SinGestionForma DEF AlDiaCupo, AnuncioPorMarcar, PasosCupo
<1>4. Deuda = IF AnuncioPorMarcar(gestion[g]) THEN 1 ELSE 0  BY <1>1, LaUnica
<1>5. fallasAnuncios \in Nat  BY DEF AnunciosTipos, AnunciosTypeOK
<1>6. IF fallasAnuncios' = 0 THEN Usados' = Cardinality(Cobrados')
      ELSE Usados' >= Cardinality(Cobrados')
  BY <1>1, <1>2, <1>4, <1>5, CobradosNat DEF Cuadra
<1>7. IF fallasAnuncios' = 0
      THEN Usados' = Cardinality(Cobrados') + IF AnuncioPorMarcar(SinGestion)' THEN 1 ELSE 0
      ELSE Usados' >= Cardinality(Cobrados') + IF AnuncioPorMarcar(SinGestion)' THEN 1 ELSE 0
  BY <1>2, CobradosNat, <1>3, <1>6
<1> QED BY <1>1, <1>2, <1>3, <1>7, UnPaso

\* The request goes on, and writes nothing.
LEMMA Continua ==
    ASSUME AnunciosTipos, AnunciosForma, CupoInv, NEW g \in Gestores, ~EnPaso(g, "idle"),
           NEW v, Pone(g, v), UNCHANGED <<anuncio, cupo, solapo, fallasAnuncios>>,
           ~AnuncioPorMarcar(gestion[g]), ~solapo => AlDiaCupo(v) /\ ~AnuncioPorMarcar(v)
    PROVE  CupoInv'
<1> SUFFICES ASSUME ~solapo PROVE CupoInv'  BY DEF CupoInv
<1>1. UnaPeticion /\ UnaFila /\ EnTope /\ Cuadra /\ \A o \in Gestores : AlDiaCupo(gestion[o])
  BY DEF CupoInv
<1>2. UnaFila' /\ EnTope' /\ Usados' = Usados /\ Cobrados' = Cobrados
      /\ Creados' = Creados /\ \A n : CuposDe(n)' = CuposDe(n)
  BY <1>1, SinEscribir
<1>3. AlDiaCupo(v)' /\ ~AnuncioPorMarcar(v)'  BY <1>2 DEF AlDiaCupo, AnuncioPorMarcar
<1>4. Deuda = 0  BY <1>1, LaUnica
<1>5. IF fallasAnuncios' = 0
      THEN Usados' = Cardinality(Cobrados') + IF AnuncioPorMarcar(v)' THEN 1 ELSE 0
      ELSE Usados' >= Cardinality(Cobrados') + IF AnuncioPorMarcar(v)' THEN 1 ELSE 0
  BY <1>1, <1>2, <1>3, <1>4 DEF Cuadra
<1> QED BY <1>1, <1>2, <1>3, <1>5, UnPaso

LEMMA CupoCuentaSlots ==
    ASSUME AnunciosTipos, AnunciosForma, CupoInv, NEW g \in Gestores,
           LeeReglas(g) \/ CuentaSlots(g)
    PROVE  CupoInv'
<1>1. PICK w : w = gestion[g]  OBVIOUS
<1>2. /\ w.paso \in {"reglas", "slots"} /\ UNCHANGED <<anuncio, cupo, solapo, fallasAnuncios>>
      /\ ~EnPaso(g, "idle") /\ ~AnuncioPorMarcar(gestion[g])
  BY <1>1, HaceCuentaSlots DEF Quietos, anunciosMundo, EnPaso, AnuncioPorMarcar
<1>3. CASE Pone(g, SinGestion)  BY <1>2, <1>3, Abandona
<1>4. CASE ~Pone(g, SinGestion)
  <2>1. PICK v : /\ Pone(g, v) /\ MismaPeticion(w, v) /\ v.fila = w.fila
                 /\ v.paso \in {"slots", "guarda", "cupo"} /\ (v.paso = "cupo" => ~w.fila.cupoConsumido)
    BY <1>1, <1>4, HaceCuentaSlots
  <2>2. ~solapo => AlDiaCupo(w)  BY <1>1 DEF CupoInv
  <2>3. ~solapo => AlDiaCupo(v) /\ ~AnuncioPorMarcar(v)
    BY <1>2, <2>1, <2>2 DEF AlDiaCupo, AnuncioPorMarcar, MismaPeticion, PasosCupo
  <2> QED BY <1>2, <2>1, <2>3, Continua
<1> QED BY <1>3, <1>4

LEMMA CupoLeeCupo ==
    ASSUME AnunciosTipos, AnunciosForma, CupoInv, NEW g \in Gestores, LeeCupo(g)
    PROVE  CupoInv'
<1>1. PICK w : w = gestion[g]  OBVIOUS
<1>2. /\ w.paso = "cupo" /\ UNCHANGED <<anuncio, cupo, solapo, fallasAnuncios>>
      /\ ~EnPaso(g, "idle") /\ ~AnuncioPorMarcar(gestion[g])
  BY <1>1, HaceLeeCupo DEF Quietos, anunciosMundo, EnPaso, AnuncioPorMarcar
<1>3. PICK v : /\ Pone(g, v) /\ MismaPeticion(w, v) /\ v.fila = w.fila
               /\ \/ v.paso = "crea" /\ CuposDe(w.mes) = {}
                  \/ v.paso = "addons" /\ v.cupo = cupo[v.id] /\ v.cupo.mes = w.mes
  BY <1>1, HaceLeeCupo
<1>4. ~solapo => AlDiaCupo(w)  BY <1>1 DEF CupoInv
<1>5. ~solapo => AlDiaCupo(v) /\ ~AnuncioPorMarcar(v)
  BY <1>2, <1>3, <1>4 DEF AlDiaCupo, AnuncioPorMarcar, MismaPeticion, PasosCupo
<1> QED BY <1>2, <1>3, <1>5, Continua

\* The row goes on being as it was, but for what the membership and the purchases give.
LEMMA CupoAlCupo ==
    ASSUME AnunciosTipos, AnunciosForma, CupoInv, NEW g \in Gestores,
           gestion[g].paso \in {"addons", "base"}, UNCHANGED <<anuncio, cupo, solapo,
               fallasAnuncios>>,
           NEW v, AlCupo(g, v, {"guardaAddon", "base", "guardaBase", "cobra"})
    PROVE  CupoInv'
<1>1. PICK w : w = gestion[g]  OBVIOUS
<1>2. ~EnPaso(g, "idle") /\ ~AnuncioPorMarcar(gestion[g])  BY DEF EnPaso, AnuncioPorMarcar
<1>3. /\ Pone(g, v) /\ MismaPeticion(w, v) /\ v.fila = w.fila /\ v.id = w.id
      /\ v.paso \in {"guardaAddon", "base", "guardaBase", "cobra"}
      /\ v.cupo.mes = w.cupo.mes /\ v.cupo.usado = w.cupo.usado
      /\ v.paso = "cobra" => w.op # "panel"
  BY <1>1 DEF AlCupo
<1>4. ~solapo => AlDiaCupo(w)  BY <1>1 DEF CupoInv
<1>5. w.op \in {"estatus", "edita", "panel"} /\ w.paso \in {"addons", "base"}
  BY <1>1 DEF AnunciosForma, Leida
<1>6. ~solapo => AlDiaCupo(v) /\ ~AnuncioPorMarcar(v)
  BY <1>3, <1>4, <1>5 DEF AlDiaCupo, AnuncioPorMarcar, MismaPeticion, PasosCupo
<1> QED BY <1>2, <1>3, <1>6, Continua

LEMMA CupoAddons ==
    ASSUME AnunciosTipos, AnunciosForma, CupoInv, NEW g \in Gestores, Addons(g)
    PROVE  CupoInv'
<1>1. gestion[g].paso = "addons" /\ UNCHANGED <<anuncio, cupo, solapo, fallasAnuncios>>
  BY HaceAddons DEF Quietos, anunciosMundo
<1>2. PICK v : AlCupo(g, v, {"guardaAddon", "base"})  BY HaceAddons
<1>3. AlCupo(g, v, {"guardaAddon", "base", "guardaBase", "cobra"})  BY <1>2 DEF AlCupo
<1> QED BY <1>1, <1>3, CupoAlCupo

LEMMA CupoBase ==
    ASSUME AnunciosTipos, AnunciosForma, CupoInv, NEW g \in Gestores, Base(g)
    PROVE  CupoInv'
<1>1. gestion[g].paso = "base" /\ UNCHANGED <<anuncio, cupo, solapo, fallasAnuncios>>
  BY HaceBase DEF Quietos, anunciosMundo
<1>2. CASE Pone(g, SinGestion)  BY <1>1, <1>2, Abandona DEF EnPaso, AnuncioPorMarcar
<1>3. CASE ~Pone(g, SinGestion)
  <2>1. PICK v : AlCupo(g, v, {"guardaBase", "cobra"})  BY <1>3, HaceBase
  <2>2. AlCupo(g, v, {"guardaAddon", "base", "guardaBase", "cobra"})  BY <2>1 DEF AlCupo
  <2> QED BY <1>1, <2>2, CupoAlCupo
<1> QED BY <1>2, <1>3

--------------------
(* An advert is charged, and marked.                                       *)

\* A row of quota is written.
LEMMA EscribeCupo ==
    ASSUME AnunciosTipos, UnaFila, EnTope, NEW i \in CupoIds, NEW c \in Cupo,
           cupo' = [cupo EXCEPT ![i] = c], c.usado <= BaseMayor + MaxExtra,
           \A k \in CupoIds : k # i => cupo[k].mes # c.mes
    PROVE  UnaFila' /\ EnTope' /\ Usados' = Usados - UsadosDe(i) + c.usado
<1>1. cupo \in [CupoIds -> Cupo \cup {NoCupo}]  BY DEF AnunciosTipos, AnunciosTypeOK
<1>2. cupo'[i] = c /\ \A k \in CupoIds : k # i => cupo'[k] = cupo[k]  BY <1>1
<1>3. cupo' \in [CupoIds -> Cupo \cup {NoCupo}]  BY <1>1
<1>4. UsadosDe(i)' = c.usado  BY <1>2, NoCupoNo DEF UsadosDe
<1>5. UnaFila'  BY <1>2 DEF UnaFila
<1>6. EnTope'  BY <1>2 DEF EnTope
<1> QED BY <1>1, <1>2, <1>3, <1>4, <1>5, <1>6, UsadosCambia

LEMMA CupoCreaCupo ==
    ASSUME AnunciosTipos, AnunciosForma, CupoInv, NEW g \in Gestores, CreaCupo(g)
    PROVE  CupoInv'
<1> SUFFICES ASSUME ~solapo PROVE CupoInv'  BY HaceCreaCupo DEF CupoInv, Quietos, anunciosMundo
<1>1. PICK w : w = gestion[g]  OBVIOUS
<1>2. UnaPeticion /\ UnaFila /\ EnTope /\ Cuadra /\ \A o \in Gestores : AlDiaCupo(gestion[o])
  BY DEF CupoInv
<1>3. /\ w.paso = "crea" /\ UNCHANGED <<anuncio, solapo, fallasAnuncios>> /\ ~EnPaso(g, "idle")
      /\ ~AnuncioPorMarcar(w) /\ w \in Gestion
  BY <1>1, HaceCreaCupo DEF Quietos, anunciosMundo, EnPaso, AnuncioPorMarcar
<1>4. PICK v : /\ Pone(g, v) /\ MismaPeticion(w, v) /\ v.fila = w.fila
               /\ v.paso = "addons" /\ v.id \in CupoIds /\ v.cupo \in Cupo
               /\ cupo[v.id] = NoCupo /\ cupo' = [cupo EXCEPT ![v.id] = v.cupo]
               /\ v.cupo.mes = w.mes /\ v.cupo.usado = 0
  BY <1>1, HaceCreaCupo
<1>5. PICK i, c : i = v.id /\ c = v.cupo  OBVIOUS
<1>6. CuposDe(w.mes) = {} /\ AlDiaCupo(w)  BY <1>1, <1>2, <1>3 DEF AlDiaCupo
<1>7. UnaFila' /\ EnTope' /\ Usados' = Usados
  <2>1. \A k \in CupoIds : k # i => cupo[k].mes # c.mes  BY <1>4, <1>5, <1>6 DEF CuposDe
  <2>2. c.usado <= BaseMayor + MaxExtra /\ c.usado = 0  BY <1>4, <1>5, BaseMayorEs
  <2>3. UsadosDe(i) = 0  BY <1>4, <1>5 DEF UsadosDe
  <2>4. UnaFila' /\ EnTope' /\ Usados' = Usados - UsadosDe(i) + c.usado
    BY <1>2, <1>4, <1>5, <2>1, <2>2, EscribeCupo
  <2> QED BY <2>2, <2>3, <2>4, CobradosNat
<1>8. cupo'[i] = c /\ Cobrados' = Cobrados /\ Creados' = Creados
  BY <1>3, <1>4, <1>5 DEF Cobrados, Creados, AnunciosTipos, AnunciosTypeOK
<1>9. AlDiaCupo(v)' /\ ~AnuncioPorMarcar(v)'
  BY <1>3, <1>4, <1>5, <1>6, <1>8 DEF AlDiaCupo, AnuncioPorMarcar, MismaPeticion, PasosCupo
<1>10. Deuda = 0  BY <1>1, <1>2, <1>3, <1>4, LaUnica
<1>11. IF fallasAnuncios' = 0
       THEN Usados' = Cardinality(Cobrados') + IF AnuncioPorMarcar(v)' THEN 1 ELSE 0
       ELSE Usados' >= Cardinality(Cobrados') + IF AnuncioPorMarcar(v)' THEN 1 ELSE 0
  BY <1>2, <1>3, <1>7, <1>8, <1>9, <1>10 DEF Cuadra
<1> QED BY <1>2, <1>3, <1>4, <1>7, <1>9, <1>11, UnPaso

LEMMA CupoGuardaCupo ==
    ASSUME AnunciosTipos, AnunciosForma, CupoInv, NEW g \in Gestores, GuardaCupo(g)
    PROVE  CupoInv'
<1> SUFFICES ASSUME ~solapo PROVE CupoInv'  BY HaceGuardaCupo DEF CupoInv, Quietos, anunciosMundo
<1>1. PICK w : w = gestion[g]  OBVIOUS
<1>2. UnaPeticion /\ UnaFila /\ EnTope /\ Cuadra /\ \A o \in Gestores : AlDiaCupo(gestion[o])
  BY DEF CupoInv
<1>3. /\ w.paso \in {"guardaAddon", "guardaBase"} /\ UNCHANGED <<anuncio, solapo, fallasAnuncios>>
      /\ ~EnPaso(g, "idle") /\ ~AnuncioPorMarcar(w) /\ w.cupo \in Cupo /\ w.id \in CupoIds
      /\ cupo' = [cupo EXCEPT ![w.id] = w.cupo] /\ w \in Gestion
  BY <1>1, HaceGuardaCupo DEF Quietos, anunciosMundo, EnPaso, AnuncioPorMarcar
<1>4. AlDiaCupo(w) /\ cupo[w.id].mes = w.mes /\ w.cupo.mes = w.mes
          /\ w.cupo.usado = cupo[w.id].usado
  BY <1>1, <1>2, <1>3 DEF AlDiaCupo, PasosCupo
<1>5. PICK i, c : i = w.id /\ c = w.cupo  OBVIOUS
<1>6. cupo[i] # NoCupo  BY <1>3, <1>4, <1>5, MesesTipo DEF NoCupo, Cupo
<1>7. UnaFila' /\ EnTope' /\ Usados' = Usados
  <2>1. \A k \in CupoIds : k # i => cupo[k].mes # c.mes  BY <1>2, <1>3, <1>4, <1>5, <1>6 DEF UnaFila
  <2>2. c.usado <= BaseMayor + MaxExtra /\ c.usado \in Nat
    BY <1>2, <1>3, <1>4, <1>5, <1>6 DEF EnTope, Cupo
  <2>3. UsadosDe(i) = c.usado  BY <1>4, <1>5, <1>6 DEF UsadosDe
  <2>4. UnaFila' /\ EnTope' /\ Usados' = Usados - UsadosDe(i) + c.usado
    BY <1>2, <1>3, <1>5, <2>1, <2>2, EscribeCupo
  <2> QED BY <2>2, <2>3, <2>4, CobradosNat
<1>8. cupo'[i] = c /\ Cobrados' = Cobrados /\ Creados' = Creados
  BY <1>3, <1>5 DEF Cobrados, Creados, AnunciosTipos, AnunciosTypeOK
<1>9. ASSUME NEW v, Pone(g, v), AlDiaCupo(v)', ~AnuncioPorMarcar(v)' PROVE CupoInv'
  BY <1>1, <1>2, <1>3, <1>9, LaUnica, <1>7, <1>8, UnPaso DEF Cuadra
<1>10. CASE Pone(g, SinGestion)
  BY SinGestionForma, <1>9, <1>10 DEF AlDiaCupo, AnuncioPorMarcar, PasosCupo
<1>11. CASE ~Pone(g, SinGestion)
  <2>1. PICK v : AlCupo(g, v, {"base", "cobra"})  BY <1>11, HaceGuardaCupo
  <2>2. /\ Pone(g, v) /\ MismaPeticion(w, v) /\ v.fila = w.fila /\ v.id = w.id
        /\ v.paso \in {"base", "cobra"}
        /\ v.cupo.mes = w.cupo.mes /\ v.cupo.usado = w.cupo.usado
        /\ v.paso = "cobra" => w.op # "panel"
    BY <1>1, <2>1 DEF AlCupo
  <2>3. w.op \in {"estatus", "edita", "panel"}  BY <1>1, <1>3 DEF AnunciosForma, Leida
  <2>4. AlDiaCupo(v)' /\ ~AnuncioPorMarcar(v)'
    BY <1>3, <1>4, <1>5, <1>8, <2>2, <2>3 DEF AlDiaCupo, AnuncioPorMarcar, MismaPeticion, PasosCupo
  <2> QED BY <1>9, <2>2, <2>4
<1> QED BY <1>10, <1>11

LEMMA CupoCobra ==
    ASSUME AnunciosTipos, AnunciosForma, CupoInv, NEW g \in Gestores, Cobra(g)
    PROVE  CupoInv'
<1>0. Leida(gestion[g])  BY DEF AnunciosForma
<1>1. PICK w : w = gestion[g]  OBVIOUS
<1>2. /\ w.paso = "cobra" /\ UNCHANGED <<anuncio, solapo, fallasAnuncios>>
      /\ ~EnPaso(g, "idle") /\ ~AnuncioPorMarcar(w) /\ w.cupo \in Cupo /\ w.id \in CupoIds
  BY <1>0, <1>1, HaceCobra DEF Quietos, anunciosMundo, EnPaso, AnuncioPorMarcar
<1>3. CASE Pone(g, SinGestion) /\ cupo' = cupo  BY <1>1, <1>2, <1>3, Abandona
<1>4. CASE ~(Pone(g, SinGestion) /\ cupo' = cupo)
  <2> SUFFICES ASSUME ~solapo PROVE CupoInv'  BY <1>2 DEF CupoInv
  <2>1. UnaPeticion /\ UnaFila /\ EnTope /\ Cuadra /\ \A o \in Gestores : AlDiaCupo(gestion[o])
    BY DEF CupoInv
  <2>2. w.cupo.usado < BaseMayor + MaxExtra  BY <1>0, <1>1, <1>4, HaceCobra
  <2>3. PICK c \in Cupo : /\ cupo' = [cupo EXCEPT ![w.id] = c]
                          /\ c.mes = w.cupo.mes /\ c.usado = w.cupo.usado + 1
    BY <1>0, <1>1, <1>4, HaceCobra
  <2>4. PICK v : /\ Pone(g, v) /\ MismaPeticion(w, v) /\ v.paso = "guarda"
                 /\ v.fila \in Anuncio /\ v.fila.cupoConsumido
    BY <1>0, <1>1, <1>4, HaceCobra
  <2>5. AlDiaCupo(w) /\ cupo[w.id].mes = w.mes /\ w.cupo.mes = w.mes
            /\ w.cupo.usado = cupo[w.id].usado
    BY <1>1, <1>2, <2>1 DEF AlDiaCupo, PasosCupo
  <2>6. /\ w.op = "estatus" /\ w.a \in Creados /\ ~anuncio[w.a].cupoConsumido
    BY <1>2, <2>5 DEF AlDiaCupo
  <2>7. PICK i : i = w.id  OBVIOUS
  <2>8. cupo[i] # NoCupo  BY <1>2, <2>5, <2>7, MesesTipo DEF NoCupo, Cupo
  <2>9. UnaFila' /\ EnTope' /\ Usados' = Usados + 1
    <3>1. \A k \in CupoIds : k # i => cupo[k].mes # c.mes
      BY <1>2, <2>1, <2>3, <2>5, <2>7, <2>8 DEF UnaFila
    <3>2. PICK n \in Nat : n = w.cupo.usado  BY <1>2 DEF Cupo
    <3>3. c.usado = n + 1 /\ c.usado <= BaseMayor + MaxExtra  BY <2>2, <2>3, <3>2, BaseMayorEs
    <3>4. UsadosDe(i) = n  BY <2>5, <2>7, <2>8, <3>2 DEF UsadosDe
    <3>5. UnaFila' /\ EnTope' /\ Usados' = Usados - UsadosDe(i) + c.usado
      BY <1>2, <2>1, <2>3, <2>7, <3>1, <3>3, EscribeCupo
    <3> QED BY <3>2, <3>3, <3>4, <3>5, CobradosNat
  <2>10. Cobrados' = Cobrados /\ Creados' = Creados  BY <1>2 DEF Cobrados, Creados
  <2>11. AlDiaCupo(v)' /\ AnuncioPorMarcar(v)'
    BY <1>2, <2>4, <2>5, <2>6, <2>10 DEF AlDiaCupo, AnuncioPorMarcar, MismaPeticion, PasosCupo
  <2>12. Deuda = 0  BY <1>1, <1>2, <2>1, <2>4, LaUnica
  <2>13. IF fallasAnuncios' = 0
         THEN Usados' = Cardinality(Cobrados') + IF AnuncioPorMarcar(v)' THEN 1 ELSE 0
         ELSE Usados' >= Cardinality(Cobrados') + IF AnuncioPorMarcar(v)' THEN 1 ELSE 0
    BY <1>2, <2>1, <2>9, <2>10, <2>11, <2>12, CobradosNat DEF Cuadra
  <2> QED BY <1>2, <2>1, <2>4, <2>9, <2>11, <2>13, UnPaso
<1> QED BY <1>3, <1>4

LEMMA CupoGuardaAnuncio ==
    ASSUME AnunciosTipos, AnunciosForma, CupoInv, NEW g \in Gestores, GuardaAnuncio(g)
    PROVE  CupoInv'
<1>0. Leida(gestion[g])  BY DEF AnunciosForma
<1>1. PICK w : w = gestion[g]  OBVIOUS
<1>2. /\ w.paso = "guarda" /\ UNCHANGED <<cupo, solapo, fallasAnuncios>> /\ Pone(g, SinGestion)
      /\ ~EnPaso(g, "idle") /\ w.a \in Creados /\ w.fila \in Anuncio
  BY <1>0, <1>1, HaceGuardaAnuncio DEF anunciosMundo, EnPaso
<1>3. PICK f \in Anuncio : /\ anuncio' = [anuncio EXCEPT ![w.a] = f]
                           /\ f.cupoConsumido = w.fila.cupoConsumido
  BY <1>0, <1>1, HaceGuardaAnuncio
<1> SUFFICES ASSUME ~solapo PROVE CupoInv'  BY <1>2 DEF CupoInv
<1>4. UnaPeticion /\ UnaFila /\ EnTope /\ Cuadra /\ \A o \in Gestores : AlDiaCupo(gestion[o])
  BY DEF CupoInv
<1>5. UnaFila' /\ EnTope' /\ Usados' = Usados  BY <1>2, <1>4, UsadosIgual DEF UnaFila, EnTope
<1>6. PICK a \in Anuncios : a = w.a /\ anuncio[a] # NoFilaAnuncio  BY <1>2 DEF Creados
<1>7. anuncio[a].cupoConsumido => f.cupoConsumido
  BY <1>1, <1>2, <1>3, <1>4, <1>6 DEF AlDiaCupo, AnunciosForma, Leida
<1>8. f \in Anuncio /\ f.cupoConsumido \in BOOLEAN /\ f # NoFilaAnuncio  BY NoFilaNo DEF Anuncio
<1>9. /\ anuncio'[a] = f /\ \A b \in Anuncios : b # a => anuncio'[b] = anuncio[b]
  BY <1>3, <1>6 DEF AnunciosTipos, AnunciosTypeOK
<1>10. Cobrados' = IF f.cupoConsumido THEN Cobrados \cup {a} ELSE Cobrados
  BY <1>6, <1>7, <1>8, <1>9 DEF Cobrados, Creados
<1>11. a \in Cobrados <=> anuncio[a].cupoConsumido  BY <1>6 DEF Cobrados, Creados
<1>12. Deuda = IF AnuncioPorMarcar(w) THEN 1 ELSE 0  BY <1>1, <1>2, <1>4, LaUnica
<1>13. Cardinality(Cobrados') = Cardinality(Cobrados) + Deuda
  <2>1. CASE AnuncioPorMarcar(w)
    BY <1>3, <1>6, <1>10, <1>11, <2>1, <1>12, CobradosNat, FS_AddElement DEF AnuncioPorMarcar
  <2>2. CASE ~AnuncioPorMarcar(w)
    <3>1. Cobrados' = Cobrados  BY <1>2, <1>3, <1>6, <1>10, <1>11, <2>2 DEF AnuncioPorMarcar
    <3> QED BY <1>12, <2>2, <3>1, CobradosNat
  <2> QED BY <2>1, <2>2
<1>14. AlDiaCupo(SinGestion)' /\ ~AnuncioPorMarcar(SinGestion)'
  BY SinGestionForma DEF AlDiaCupo, AnuncioPorMarcar, PasosCupo
<1>15. Cardinality(Cobrados') \in Nat  BY <1>13, CobradosNat
<1>16. IF fallasAnuncios' = 0
       THEN Usados' = Cardinality(Cobrados') + IF AnuncioPorMarcar(SinGestion)' THEN 1 ELSE 0
       ELSE Usados' >= Cardinality(Cobrados') + IF AnuncioPorMarcar(SinGestion)' THEN 1 ELSE 0
  BY <1>2, <1>4, <1>5, <1>13, <1>14, <1>15 DEF Cuadra
<1> QED BY <1>2, <1>4, <1>5, <1>14, <1>16, UnPaso

--------------------
(* Every action; the theorems.                                             *)

LEMMA CupoLlego ==
    ASSUME AnunciosTipos, AnunciosForma, CupoInv, NEW g \in Gestores, NEW v, Llego(g, v)
    PROVE  CupoInv'
<1> SUFFICES ASSUME ~solapo, \A o \in Gestores : EnPaso(o, "idle") PROVE CupoInv'
  BY DEF CupoInv, Llego
<1>1. UnaFila /\ EnTope /\ Cuadra  BY DEF CupoInv
<1>2. UNCHANGED <<anuncio, cupo, fallasAnuncios>>  BY DEF Llego, anunciosTablas
<1>3. UnaFila' /\ EnTope' /\ Usados' = Usados /\ Cobrados' = Cobrados /\ Creados' = Creados
  BY <1>1, <1>2, SinEscribir
<1>4. gestion'[g] = v /\ \A o \in Gestores : o # g => gestion'[o] = gestion[o]
  BY DEF Llego, Pone, AnunciosTipos, AnunciosTypeOK
<1>5. \A o \in Gestores : o # g => gestion'[o].op = "none" /\ gestion'[o].paso = "idle"
  BY <1>4 DEF AnunciosForma, Leida, EnPaso
<1>6. AlDiaCupo(v)' /\ ~AnuncioPorMarcar(v)'
  BY <1>2, <1>3 DEF AlDiaCupo, AnuncioPorMarcar, Llego, PasosCupo
<1>7. \A o \in Gestores : AlDiaCupo(gestion[o])' /\ ~AnuncioPorMarcar(gestion[o])'
  BY <1>4, <1>6, <1>5 DEF AlDiaCupo, AnuncioPorMarcar, PasosCupo
<1>8. Deuda = 0 /\ Deuda' = 0  BY <1>7 DEF Deuda, AnuncioPorMarcar, EnPaso
<1>9. Cuadra'  BY <1>1, <1>2, <1>3, <1>8 DEF Cuadra
<1>10. UnaPeticion'  BY <1>5 DEF UnaPeticion, EnPaso
<1> QED BY <1>3, <1>7, <1>9, <1>10 DEF CupoInv

LEMMA CupoCreate ==
    ASSUME AnunciosTipos, AnunciosForma, CupoInv, NEW a \in Anuncios, NEW d \in Vigencia,
               Create(a, d)
    PROVE  CupoInv'
<1> SUFFICES ASSUME ~solapo PROVE CupoInv'  BY DEF CupoInv, Create
<1>1. UnaPeticion /\ UnaFila /\ EnTope /\ Cuadra /\ \A o \in Gestores : AlDiaCupo(gestion[o])
  BY DEF CupoInv
<1>2. UNCHANGED <<cupo, gestion, fallasAnuncios, solapo>> /\ a \notin Creados
  BY DEF Create, Creados
<1>3. \A b \in Anuncios : b # a => anuncio'[b] = anuncio[b]
  BY DEF Create, AnunciosTipos, AnunciosTypeOK
<1>4. anuncio'[a] = Borrador(d) /\ ~anuncio'[a].cupoConsumido
  BY DEF Create, AnunciosTipos, AnunciosTypeOK, Borrador
<1>5. Cobrados' = Cobrados /\ Creados \subseteq Creados'
  BY <1>2, <1>3, <1>4, BorradorTipo DEF Cobrados, Creados
<1>6. \A o \in Gestores : AlDiaCupo(gestion[o])'
  <2> SUFFICES ASSUME NEW o \in Gestores PROVE AlDiaCupo(gestion[o])'  OBVIOUS
  <2>1. PICK w : w = gestion[o]  OBVIOUS
  <2>2. AlDiaCupo(w)  BY <1>1, <2>1
  <2>3. w.op \in {"estatus", "edita"} => w.a \in Creados /\ anuncio'[w.a] = anuncio[w.a]
    BY <1>2, <1>3, <2>2 DEF AlDiaCupo, Creados
  <2>4. AlDiaCupo(w)'  BY <1>2, <1>5, <2>2, <2>3 DEF AlDiaCupo, CuposDe
  <2> QED BY <1>2, <2>1, <2>4
<1>7. \A o \in Gestores : AnuncioPorMarcar(gestion[o])' <=> AnuncioPorMarcar(gestion[o])
  <2> SUFFICES ASSUME NEW o \in Gestores PROVE AnuncioPorMarcar(gestion[o])' <=>
                          AnuncioPorMarcar(gestion[o])
    OBVIOUS
  <2>1. PICK w : w = gestion[o]  OBVIOUS
  <2>2. AlDiaCupo(w)  BY <1>1, <2>1
  <2>3. w.paso = "guarda" => w.a \in Creados /\ anuncio'[w.a] = anuncio[w.a]
    BY <1>2, <1>3, <2>2 DEF AlDiaCupo, Creados
  <2> QED BY <1>2, <2>1, <2>3 DEF AnuncioPorMarcar
<1>8. Deuda' = Deuda  BY <1>7 DEF Deuda
<1>9. UnaFila' /\ EnTope' /\ UnaPeticion' /\ Usados' = Usados
  BY <1>1, <1>2, UsadosIgual DEF UnaFila, EnTope, UnaPeticion, EnPaso
<1>10. Cuadra'  BY <1>1, <1>2, <1>5, <1>8, <1>9 DEF Cuadra
<1> QED BY <1>6, <1>9, <1>10 DEF CupoInv

\* The world changes, or nothing does.
LEMMA CupoQuieto ==
    ASSUME CupoInv, UNCHANGED <<anuncio, cupo, gestion, fallasAnuncios, solapo>>
    PROVE  CupoInv'
<1> SUFFICES ASSUME ~solapo PROVE CupoInv'  BY DEF CupoInv
<1>1. UnaPeticion /\ UnaFila /\ EnTope /\ Cuadra /\ \A o \in Gestores : AlDiaCupo(gestion[o])
  BY DEF CupoInv
<1>2. UnaFila' /\ EnTope' /\ Usados' = Usados /\ Cobrados' = Cobrados
      /\ Creados' = Creados /\ \A n : CuposDe(n)' = CuposDe(n)
  BY <1>1, SinEscribir
<1>3. /\ \A o \in Gestores : AlDiaCupo(gestion[o])'
      /\ \A o \in Gestores : AnuncioPorMarcar(gestion[o])' <=> AnuncioPorMarcar(gestion[o])
  BY <1>1, <1>2 DEF AlDiaCupo, AnuncioPorMarcar
<1>4. Deuda' = Deuda  BY <1>3 DEF Deuda
<1>5. Cuadra' /\ UnaPeticion'  BY <1>1, <1>2, <1>4 DEF Cuadra, UnaPeticion, EnPaso
<1> QED BY <1>2, <1>3, <1>5 DEF CupoInv

LEMMA CupoNext ==
    ASSUME AnunciosTipos, AnunciosForma, CupoInv, [AnunciosNext]_anunciosVars PROVE CupoInv'
<1>1. CASE UNCHANGED anunciosVars  BY <1>1, CupoQuieto DEF anunciosVars
<1>2. CASE \E a \in Anuncios, v \in Vigencia : Create(a, v)  BY <1>2, CupoCreate
<1>3. CASE \E g \in Gestores, a \in Anuncios, next \in Estatus : UpdateStatus(g, a, next)
  BY <1>3, LlegoUpdateStatus, CupoLlego
<1>4. CASE \E g \in Gestores, a \in Anuncios, v \in Vigencia : Update(g, a, v)
  BY <1>4, LlegoUpdate, CupoLlego
<1>5. ASSUME NEW g \in Gestores,
             \/ GetDashboard(g) \/ LeeReglas(g) \/ CuentaSlots(g) \/ LeeCupo(g) \/ CreaCupo(g)
             \/ Addons(g)
             \/ Base(g) \/ GuardaCupo(g) \/ Cobra(g) \/ GuardaAnuncio(g)
      PROVE  CupoInv'
  BY <1>5, LlegoGetDashboard, CupoLlego, CupoCuentaSlots, CupoLeeCupo, CupoCreaCupo, CupoAddons,
     CupoBase, CupoGuardaCupo, CupoCobra, CupoGuardaAnuncio
<1>6. ASSUME NEW g \in Gestores, FallaAnuncio(g) PROVE CupoInv'
  BY <1>6, Abandona DEF FallaAnuncio, anunciosTablas
<1>7. CASE PasaMes \/ (\E mb \in Membresias : CambiaMembresia(mb))
               \/ \E n \in Meses : CompraExtra(n)
  BY <1>7, CupoQuieto DEF PasaMes, CambiaMembresia, CompraExtra, anunciosTablas
<1> QED BY <1>1, <1>2, <1>3, <1>4, <1>5, <1>6, <1>7 DEF AnunciosNext

LEMMA CupoSiempre == AnunciosSpec => []CupoInv
<1>1. AnunciosInv => AnunciosForma  BY DEF AnunciosInv
<1>2. AnunciosTipos /\ AnunciosForma /\ CupoInv /\ [AnunciosNext]_anunciosVars => CupoInv'
  BY CupoNext
<1> QED BY <1>1, <1>2, CupoInit, TiposSiempre, AnunciosInvSiempre, PTL DEF AnunciosSpec

LEMMA CupoInvBasta == AnunciosTipos /\ CupoInv => CupoExacto
<1> SUFFICES ASSUME AnunciosTipos, CupoInv, EnCalma, ~solapo
             PROVE  /\ \A n \in Meses : Cardinality(CuposDe(n)) <= 1
                    /\ IF fallasAnuncios = 0 THEN Usados = Cardinality(Cobrados)
                       ELSE Usados >= Cardinality(Cobrados)
                    /\ \A i \in CupoIds : cupo[i] # NoCupo => cupo[i].usado <= BaseMayor + MaxExtra
  BY DEF CupoExacto
<1>1. UnaFila /\ EnTope /\ Cuadra  BY DEF CupoInv
<1>2. ASSUME NEW n \in Meses PROVE Cardinality(CuposDe(n)) <= 1
  <2>1. \A i, k \in CuposDe(n) : i = k  BY <1>1, MesesTipo DEF CuposDe, UnaFila, NoCupo
  <2>2. CASE CuposDe(n) = {}  BY <2>2, FS_EmptySet
  <2>3. CASE CuposDe(n) # {}
    <3>1. PICK i \in CuposDe(n) : TRUE  BY <2>3
    <3>2. CuposDe(n) = {i}  BY <2>1, <3>1
    <3>3. Cardinality({i}) = 1  BY FS_Singleton
    <3> QED BY <3>2, <3>3
  <2> QED BY <2>2, <2>3
<1>3. Deuda = 0  BY DEF Deuda, AnuncioPorMarcar, EnCalma, EnPaso
<1>4. IF fallasAnuncios = 0 THEN Usados = Cardinality(Cobrados)
      ELSE Usados >= Cardinality(Cobrados)
  BY <1>1, <1>3, CobradosNat DEF Cuadra
<1> QED BY <1>1, <1>2, <1>4 DEF EnTope

\* The rows of the adverts, of their quota and of the requests keep their shape
\* (anuncios.service.ts), whatever overlaps or fails.
THEOREM AnunciosTypeOKSiempre == AnunciosSpec => []AnunciosTypeOK
<1>1. AnunciosTipos => AnunciosTypeOK  BY DEF AnunciosTipos
<1> QED BY <1>1, TiposSiempre, PTL

\* While no two requests overlapped, a month has one row of quota, and updateStatus
\* (anuncios.service.ts:410 and 417) uses a unit for every advert that it marks as
\* charged, and only one: the sum of the units of the table is the number of adverts
\* charged, or more when a call failed between its two saves.
THEOREM CupoExactoSiempre == AnunciosSpec => []CupoExacto
BY CupoInvBasta, CupoSiempre, TiposSiempre, PTL

\* The month is charged what it shows, what runs was charged, and it fits in the slots.
THEOREM AnunciosCumplen == AnunciosSpec => []AnunciosEnRegla
<1>1. AnunciosInv => ActivoConCupo /\ SlotsRespetados
  BY DEF AnunciosInv, ActivosMarcados, ActivoConCupo, EnLosSlots, SlotsRespetados, Corriendo
<1>2. CupoExacto /\ ActivoConCupo /\ SlotsRespetados => AnunciosEnRegla  BY DEF AnunciosEnRegla
<1> QED BY <1>1, <1>2, CupoExactoSiempre, AnunciosInvSiempre, PTL

HIDE AnunciosAssumption DEF AnunciosAssumption

--------------------
(* Codigos.                                                                *)
USE CodigosAssumption DEF CodigosAssumption

--------------------
(* Types.                                                                  *)

\* A code in force has attempts left: the last wrong answer marks it.
ConIntentos(f) == f \in Otp /\ (~f.usado => f.intentos < MaxIntentos)

\* Where a request stands says what it asked, and that it has a code.
PedidoOK(w) ==
    /\ w.paso \in {"falla", "marca", "cuenta", "crea", "busca", "contrasena"} =>
          w.id \in OtpIds /\ ConIntentos(w.fila)
    /\ w.paso \in {"inserta", "invalida"} => w.op \in {"sendOtpRegister", "sendOtp", "sendOtpEmail"}
    /\ w.paso = "cuenta" => w.op = "verifyOtp"
    /\ w.paso = "crea" => w.op \in {"verifyOtpRegister", "verifyOtp"}
    /\ w.paso = "marca" => w.op \in {"verifyOtpRegister", "verifyOtp", "verifyOtpEmail"}
    /\ w.paso \in {"busca", "contrasena"} => w.op = "verifyOtpEmail"

TInv == /\ CodigosTypeOK
        /\ \A i \in OtpIds : otp[i] # NoOtp => ConIntentos(otp[i])
        /\ \A p \in Peticiones : PedidoOK(pedido[p])

LEMMA NoOtpNoEs == NoOtp.usado /\ NoOtp \notin Otp
  BY DEF NoOtp, Otp

LEMMA SinPedidoOK == SinPedido \in Pedido /\ PedidoOK(SinPedido) /\ SinPedido.paso = "idle"
<1>1. 0 \in 0 .. MaxOtp  OBVIOUS
<1>2. SinPedido \in Pedido  BY <1>1 DEF SinPedido, Pedido
<1>3. PedidoOK(SinPedido) /\ SinPedido.paso = "idle"  BY DEF PedidoOK, SinPedido
<1> QED BY <1>2, <1>3

\* What the types say of one request.
LEMMA UnPedido ==
    ASSUME TInv, NEW p \in Peticiones, NEW w, w = pedido[p]
    PROVE  w \in Pedido /\ PedidoOK(w)
  BY DEF TInv, CodigosTypeOK

LEMMA TomaUno ==
    ASSUME TInv, NEW p \in Peticiones, NEW w, Toma(p, w)
    PROVE  pedido'[p] = w /\ \A q \in Peticiones \ {p} : pedido'[q] = pedido[q]
  BY DEF Toma, TInv, CodigosTypeOK

LEMMA TomaTipo ==
    ASSUME TInv, NEW p \in Peticiones, NEW w \in Pedido, PedidoOK(w), Toma(p, w)
    PROVE  pedido' \in [Peticiones -> Pedido] /\ \A q \in Peticiones : PedidoOK(pedido'[q])
<1>1. pedido' \in [Peticiones -> Pedido]  BY DEF Toma, TInv, CodigosTypeOK
<1>2. \A q \in Peticiones : PedidoOK(pedido'[q])  BY TomaUno DEF TInv
<1> QED BY <1>1, <1>2

\* A request that goes on keeps what it asked and its code.
LEMMA SaltaUno ==
    ASSUME TInv, NEW p \in Peticiones, NEW w, w = pedido[p], NEW paso, Salta(p, paso),
           paso \in {"idle", "invalida", "inserta", "correo", "falla", "marca", "cuenta", "crea",
               "busca", "contrasena"}
    PROVE  \E v \in Pedido : /\ Toma(p, v) /\ v.paso = paso
                             /\ v.op = w.op /\ v.id = w.id /\ v.fila = w.fila
<1>1. PICK v : v = [w EXCEPT !.paso = paso]  OBVIOUS
<1>2. w \in Pedido  BY UnPedido
<1>3. v \in Pedido /\ v.paso = paso /\ v.op = w.op /\ v.id = w.id /\ v.fila = w.fila
  BY <1>1, <1>2 DEF Pedido
<1>4. Toma(p, v)  BY <1>1 DEF Salta
<1> QED BY <1>3, <1>4

\* One wrong answer more.
LEMMA Equivoca ==
    ASSUME NEW f, ConIntentos(f), ~f.usado
    PROVE  LET g == Equivocada(f) IN
             /\ ConIntentos(g) /\ g.intentos = f.intentos + 1 /\ g.medio = f.medio
             /\ g.vence = f.vence /\ g.registro = f.registro
<1>1. f \in Otp /\ f.intentos \in 0 .. MaxIntentos /\ f.intentos < MaxIntentos
  BY DEF ConIntentos, Otp
<1>2. PICK g : g = Equivocada(f)  OBVIOUS
<1>3. f.intentos + 1 \in 0 .. MaxIntentos  BY <1>1
<1>4. CASE f.intentos + 1 < MaxIntentos  BY <1>2, <1>4, <1>1, <1>3 DEF Equivocada, Otp, ConIntentos
<1>5. CASE ~ (f.intentos + 1 < MaxIntentos)
  BY <1>2, <1>5, <1>1, <1>3 DEF Equivocada, Otp, ConIntentos
<1> QED BY <1>4, <1>5

LEMMA TInit == CodigosInit => TInv
<1> SUFFICES ASSUME CodigosInit PROVE TInv  OBVIOUS
<1>1. 0 \in 0 .. MaxMinutos /\ 0 \in 0 .. MaxPedidos /\ 0 \in 0 .. MaxBajas
          /\ 0 \in 0 .. MaxFallasOtp
  OBVIOUS
<1>2. otp \in [OtpIds -> Otp \cup {NoOtp}] /\ pedido \in [Peticiones -> Pedido]
  BY SinPedidoOK DEF CodigosInit
<1>3. CodigosTypeOK  BY <1>1, <1>2 DEF CodigosInit, CodigosTypeOK, Titular
<1> QED BY <1>3, SinPedidoOK DEF CodigosInit, TInv

LEMMA PideTipo ==
    ASSUME TInv, NEW p \in Peticiones, NEW w \in Pedido, PedidoOK(w), Pide(p, w),
           fallidos' \in [OtpIds -> Nat]
    PROVE  TInv'
<1>1. codigosPedidos' \in 0 .. MaxPedidos /\ solapoOtp' \in BOOLEAN
  BY DEF Pide, TInv, CodigosTypeOK
<1>2. pedido' \in [Peticiones -> Pedido] /\ \A q \in Peticiones : PedidoOK(pedido'[q])
  BY TomaTipo DEF Pide
<1> QED BY <1>1, <1>2 DEF Pide, TInv, CodigosTypeOK

LEMMA SendOtpTipo ==
    ASSUME TInv, NEW p \in Peticiones, NEW op \in {"sendOtpRegister", "sendOtp", "sendOtpEmail"},
           SendOtp(p, op)
    PROVE  TInv'
<1>1. PICK w : w = [op |-> op, paso |-> "invalida", id |-> 0, fila |-> NoOtp]  OBVIOUS
<1>2. 0 \in 0 .. MaxOtp  OBVIOUS
<1>3. w \in Pedido /\ PedidoOK(w)  BY <1>1, <1>2 DEF Pedido, PedidoOK
<1>4. Pide(p, w) /\ fallidos' \in [OtpIds -> Nat]  BY <1>1 DEF SendOtp, TInv, CodigosTypeOK
<1> QED BY <1>3, <1>4, PideTipo

\* What validarOtp gives to the request: the code in force, and what is next.
LEMMA Valida ==
    ASSUME TInv, NEW p \in Peticiones, NEW dado,
           NEW op \in {"verifyOtpRegister", "verifyOtp", "checkOtpEmail", "verifyOtpEmail"},
           ValidarOtp(p, op, dado)
    PROVE  \E i \in Vigentes(Medio(op)), w \in Pedido :
             /\ Pide(p, w) /\ PedidoOK(w)
             /\ fallidos' = [fallidos EXCEPT ![i] = IF dado = i THEN @ ELSE @ + 1]
             /\ IF dado = i
                THEN \/ w = SinPedido
                     \/ /\ w.op = op /\ w.id = i /\ w.fila = otp[i]
                        /\ w.paso \in {"marca", "busca"}
                ELSE w.paso = "falla" /\ w.op = op /\ w.id = i /\ w.fila = Equivocada(otp[i])
<1>1. PICK i \in Vigentes(Medio(op)) :
        LET paso == IF dado = i THEN SiguePedido(op) ELSE "falla"
            fila == IF dado = i THEN otp[i] ELSE Equivocada(otp[i])
        IN  /\ Pide(p, IF paso = "idle" THEN SinPedido
                       ELSE [op |-> op, paso |-> paso, id |-> i, fila |-> fila])
            /\ fallidos' = [fallidos EXCEPT ![i] = IF dado = i THEN @ ELSE @ + 1]
  BY DEF ValidarOtp
<1>2. i \in OtpIds /\ ~otp[i].usado /\ otp[i] # NoOtp /\ ConIntentos(otp[i]) /\ i \in 0 .. MaxOtp
  BY NoOtpNoEs DEF Vigentes, Vigente, TInv, OtpIds
<1>3. fallidos' = [fallidos EXCEPT ![i] = IF dado = i THEN @ ELSE @ + 1]  BY <1>1
<1>4. CASE dado # i
  <2>1. PICK w : w = [op |-> op, paso |-> "falla", id |-> i, fila |-> Equivocada(otp[i])]  OBVIOUS
  <2>2. Pide(p, w)  BY <1>1, <1>4, <2>1
  <2>3. ConIntentos(Equivocada(otp[i]))  BY <1>2, Equivoca
  <2>4. /\ w.paso = "falla" /\ w.op = op /\ w.id = i /\ w.fila = Equivocada(otp[i])
        /\ w \in Pedido /\ PedidoOK(w)
    BY <1>2, <2>1, <2>3 DEF Pedido, PedidoOK, ConIntentos
  <2> QED BY <1>3, <1>4, <2>2, <2>4
<1>5. CASE dado = i /\ op = "checkOtpEmail"
  <2>1. Pide(p, SinPedido)  BY <1>1, <1>5 DEF SiguePedido
  <2> QED BY <1>3, <1>5, <2>1, SinPedidoOK
<1>6. CASE dado = i /\ op # "checkOtpEmail"
  <2>1. PICK w : w = [op |-> op, paso |-> SiguePedido(op), id |-> i, fila |-> otp[i]]  OBVIOUS
  <2>2. /\ SiguePedido(op) \in {"marca", "busca"} /\ SiguePedido(op) # "idle"
        /\ SiguePedido(op) = "marca" => op \in {"verifyOtpRegister", "verifyOtp"}
        /\ SiguePedido(op) = "busca" => op = "verifyOtpEmail"
    BY <1>6 DEF SiguePedido
  <2>3. Pide(p, w)  BY <1>1, <1>6, <2>1, <2>2
  <2>4. w.op = op /\ w.id = i /\ w.fila = otp[i] /\ w.paso = SiguePedido(op)  BY <2>1
  <2>5. w \in Pedido /\ PedidoOK(w)  BY <1>2, <2>1, <2>2, <2>4 DEF ConIntentos, Pedido, PedidoOK
  <2> QED BY <1>3, <1>6, <2>2, <2>3, <2>4, <2>5
<1> QED BY <1>4, <1>5, <1>6

LEMMA ValidarOtpTipo ==
    ASSUME TInv, NEW p \in Peticiones, NEW dado,
           NEW op \in {"verifyOtpRegister", "verifyOtp", "checkOtpEmail", "verifyOtpEmail"},
           ValidarOtp(p, op, dado)
    PROVE  TInv'
<1>1. PICK i \in Vigentes(Medio(op)), w \in Pedido :
         /\ Pide(p, w) /\ PedidoOK(w)
         /\ fallidos' = [fallidos EXCEPT ![i] = IF dado = i THEN @ ELSE @ + 1]
  BY Valida
<1>2. fallidos' \in [OtpIds -> Nat]  BY <1>1 DEF TInv, CodigosTypeOK, Vigentes
<1> QED BY <1>1, <1>2, PideTipo

\* The code a request holds, once it has one.
LEMMA ConCodigo ==
    ASSUME TInv, NEW p \in Peticiones, NEW w, w = pedido[p],
           w.paso \in {"falla", "marca", "cuenta", "crea", "busca", "contrasena"}
    PROVE  w \in Pedido /\ w.id \in OtpIds /\ ConIntentos(w.fila)
  BY UnPedido DEF PedidoOK

LEMMA InvalidaTipo ==
    ASSUME TInv, NEW p \in Peticiones, Invalida(p)
    PROVE  TInv'
<1>1. PICK w : w = pedido[p]  OBVIOUS
<1>2. w \in Pedido /\ PedidoOK(w) /\ w.paso = "invalida"  BY <1>1, UnPedido DEF Invalida, EnPedido
<1>3. PICK v \in Pedido : Toma(p, v) /\ v.paso = "inserta" /\ v.op = w.op
  BY <1>1, SaltaUno DEF Invalida
<1>4. PedidoOK(v)  BY <1>2, <1>3 DEF PedidoOK
<1>5. \A i \in OtpIds : \/ otp'[i] = otp[i]
                        \/ otp[i] # NoOtp /\ otp'[i] = [otp[i] EXCEPT !.usado = TRUE]
  BY DEF Invalida
<1>6. \A i \in OtpIds : otp'[i] \in Otp \cup {NoOtp} /\ (otp'[i] # NoOtp => ConIntentos(otp'[i]))
  <2> SUFFICES ASSUME NEW i \in OtpIds
               PROVE  otp'[i] \in Otp \cup {NoOtp} /\ (otp'[i] # NoOtp => ConIntentos(otp'[i]))
    OBVIOUS
  <2>1. CASE otp'[i] = otp[i]  BY <2>1 DEF TInv, CodigosTypeOK
  <2>2. CASE otp[i] # NoOtp /\ otp'[i] = [otp[i] EXCEPT !.usado = TRUE]
    BY <2>2 DEF TInv, ConIntentos, Otp
  <2> QED BY <1>5, <2>1, <2>2
<1>7. otp' \in [OtpIds -> Otp \cup {NoOtp}]  BY <1>6 DEF Invalida
<1>8. pedido' \in [Peticiones -> Pedido] /\ \A q \in Peticiones : PedidoOK(pedido'[q])
  BY <1>3, <1>4, TomaTipo
<1> QED BY <1>6, <1>7, <1>8 DEF Invalida, codigosCuentas, TInv, CodigosTypeOK

\* A request that ends.
LEMMA TerminaTipo ==
    ASSUME TInv, NEW p \in Peticiones, Termina(p)
    PROVE  pedido' \in [Peticiones -> Pedido] /\ \A q \in Peticiones : PedidoOK(pedido'[q])
  BY SinPedidoOK, TomaTipo DEF Termina

\* A code that is written.
LEMMA EscribeTipo ==
    ASSUME TInv, NEW i \in OtpIds, NEW f, ConIntentos(f), otp' = [otp EXCEPT ![i] = f]
    PROVE  /\ otp' \in [OtpIds -> Otp \cup {NoOtp}]
           /\ \A k \in OtpIds : otp'[k] # NoOtp => ConIntentos(otp'[k])
           /\ otp'[i] = f /\ \A k \in OtpIds \ {i} : otp'[k] = otp[k]
<1>1. otp'[i] = f /\ \A k \in OtpIds \ {i} : otp'[k] = otp[k]  BY DEF TInv, CodigosTypeOK
<1>2. otp' \in [OtpIds -> Otp \cup {NoOtp}]  BY DEF TInv, CodigosTypeOK, ConIntentos
<1>3. \A k \in OtpIds : otp'[k] # NoOtp => ConIntentos(otp'[k])  BY <1>1 DEF TInv
<1> QED BY <1>1, <1>2, <1>3

\* The code that sendOtp inserts.
Nuevo(op) == [medio |-> Medio(op), usado |-> FALSE, registro |-> op = "sendOtpRegister",
              intentos |-> 0, vence |-> minuto + 1]

LEMMA NuevoTipo ==
    ASSUME TInv, NEW op
    PROVE  /\ ConIntentos(Nuevo(op)) /\ ~Nuevo(op).usado /\ Nuevo(op).intentos = 0
           /\ Nuevo(op).medio = Medio(op) /\ (Nuevo(op).registro => op = "sendOtpRegister")
<1>1. minuto + 1 \in 1 .. MaxMinutos + 1 /\ 0 \in 0 .. MaxIntentos /\ 0 < MaxIntentos
  BY DEF TInv, CodigosTypeOK
<1>2. PICK b : b = (op = "sendOtpRegister")  OBVIOUS
<1>3. b \in BOOLEAN /\ (b => op = "sendOtpRegister")  BY <1>2
<1>4. Nuevo(op) = [medio |-> Medio(op), usado |-> FALSE, registro |-> b, intentos |-> 0,
                   vence |-> minuto + 1]
  BY <1>2 DEF Nuevo
<1>5. Nuevo(op) \in Otp  BY <1>1, <1>3, <1>4 DEF Otp, Medios, Medio
<1> QED BY <1>1, <1>3, <1>4, <1>5 DEF ConIntentos

\* What Inserta does.
LEMMA InsertaUno ==
    ASSUME TInv, NEW p \in Peticiones, NEW w, w = pedido[p], Inserta(p)
    PROVE  /\ w \in Pedido /\ PedidoOK(w) /\ w.paso = "inserta"
           /\ \E i \in OtpIds : otp[i] = NoOtp /\ otp' = [otp EXCEPT ![i] = Nuevo(w.op)]
           /\ \E v \in Pedido : /\ Toma(p, v) /\ PedidoOK(v)
                                /\ v.paso \in {"correo", "idle"}
                                /\ v.paso = "correo" => w.op = "sendOtpEmail" /\ v.op = w.op
           /\ UNCHANGED <<titular, minuto, codigosCuentas, usos, fallidos, perdidos>>
<1>1. w \in Pedido /\ PedidoOK(w) /\ w.paso = "inserta"  BY UnPedido DEF Inserta, EnPedido
<1>2. \E i \in OtpIds : otp[i] = NoOtp /\ otp' = [otp EXCEPT ![i] = Nuevo(w.op)]
  BY DEF Inserta, Nuevo
<1>3. CASE w.op = "sendOtpEmail"
  <2>1. Salta(p, "correo")  BY <1>3 DEF Inserta
  <2>2. PICK v \in Pedido : Toma(p, v) /\ v.paso = "correo" /\ v.op = w.op  BY <2>1, SaltaUno
  <2>3. PedidoOK(v)  BY <2>2 DEF PedidoOK
  <2> QED BY <1>1, <1>2, <1>3, <2>2, <2>3 DEF Inserta
<1>4. CASE w.op # "sendOtpEmail"
  <2>1. Toma(p, SinPedido)  BY <1>4 DEF Inserta, Termina
  <2> QED BY <1>1, <1>2, <2>1, SinPedidoOK DEF Inserta
<1> QED BY <1>3, <1>4

LEMMA InsertaTipo ==
    ASSUME TInv, NEW p \in Peticiones, Inserta(p)
    PROVE  TInv'
<1>1. PICK w : w = pedido[p]  OBVIOUS
<1>2. PICK i \in OtpIds : otp' = [otp EXCEPT ![i] = Nuevo(w.op)]  BY <1>1, InsertaUno
<1>3. PICK v \in Pedido : Toma(p, v) /\ PedidoOK(v)  BY <1>1, InsertaUno
<1>4. /\ otp' \in [OtpIds -> Otp \cup {NoOtp}]
      /\ \A k \in OtpIds : otp'[k] # NoOtp => ConIntentos(otp'[k])
  BY <1>2, NuevoTipo, EscribeTipo
<1>5. pedido' \in [Peticiones -> Pedido] /\ \A q \in Peticiones : PedidoOK(pedido'[q])
  BY <1>3, TomaTipo
<1> QED BY <1>4, <1>5 DEF Inserta, codigosCuentas, TInv, CodigosTypeOK

LEMMA GuardaFalloTipo ==
    ASSUME TInv, NEW p \in Peticiones, GuardaFallo(p)
    PROVE  TInv'
<1>1. PICK w : w = pedido[p]  OBVIOUS
<1>2. w.id \in OtpIds /\ ConIntentos(w.fila) /\ otp' = [otp EXCEPT ![w.id] = w.fila]
  BY <1>1, ConCodigo DEF GuardaFallo, EnPedido
<1>3. /\ otp' \in [OtpIds -> Otp \cup {NoOtp}]
      /\ \A k \in OtpIds : otp'[k] # NoOtp => ConIntentos(otp'[k])
  BY <1>2, EscribeTipo
<1>4. pedido' \in [Peticiones -> Pedido] /\ \A q \in Peticiones : PedidoOK(pedido'[q])
  BY TerminaTipo DEF GuardaFallo
<1> QED BY <1>3, <1>4 DEF GuardaFallo, codigosCuentas, TInv, CodigosTypeOK

\* What Marca does.
LEMMA MarcaUno ==
    ASSUME TInv, NEW p \in Peticiones, NEW w, w = pedido[p], Marca(p)
    PROVE  /\ w.paso = "marca" /\ w.id \in OtpIds /\ ConIntentos(w.fila)
           /\ \E f : ConIntentos(f) /\ f = [w.fila EXCEPT !.usado = TRUE] /\ f.usado
                     /\ f.intentos = w.fila.intentos /\ otp' = [otp EXCEPT ![w.id] = f]
           /\ \E v \in Pedido : /\ Toma(p, v) /\ PedidoOK(v)
                                /\ IF w.op = "verifyOtpEmail" THEN v = SinPedido
                                   ELSE v.paso \in {"cuenta", "crea"} /\ v.op = w.op
                                       /\ v.id = w.id /\ v.fila = w.fila
           /\ UNCHANGED <<titular, minuto, codigosCuentas, usos, fallidos, perdidos>>
<1>1. w.paso = "marca" /\ w \in Pedido /\ PedidoOK(w) /\ w.id \in OtpIds /\ ConIntentos(w.fila)
  BY UnPedido, ConCodigo DEF Marca, EnPedido
<1>2. PICK f : f = [w.fila EXCEPT !.usado = TRUE]  OBVIOUS
<1>3. f \in Otp /\ f.usado /\ f.intentos = w.fila.intentos  BY <1>1, <1>2 DEF ConIntentos, Otp
<1>4. otp' = [otp EXCEPT ![w.id] = f] /\ ConIntentos(f)  BY <1>2, <1>3 DEF Marca, ConIntentos
<1>5. CASE w.op = "verifyOtpEmail"  BY <1>5, <1>1, <1>2, <1>3, <1>4, SinPedidoOK DEF Marca, Termina
<1>6. CASE w.op # "verifyOtpEmail"
  <2>1. PICK paso : paso = TrasMarca(w.op)  OBVIOUS
  <2>2. /\ Salta(p, paso) /\ paso \in {"cuenta", "crea"}
        /\ paso = "cuenta" => w.op = "verifyOtp"
    BY <1>6, <2>1 DEF Marca, TrasMarca
  <2>3. PICK v \in Pedido : Toma(p, v) /\ v.paso = paso /\ v.op = w.op /\ v.id = w.id
                 /\ v.fila = w.fila
    BY <2>2, SaltaUno
  <2>4. PedidoOK(v)  BY <1>1, <1>6, <2>2, <2>3 DEF PedidoOK
  <2> QED BY <1>1, <1>2, <1>3, <1>4, <1>6, <2>2, <2>3, <2>4 DEF Marca
<1> QED BY <1>5, <1>6

LEMMA MarcaTipo ==
    ASSUME TInv, NEW p \in Peticiones, Marca(p)
    PROVE  TInv'
<1>1. PICK w : w = pedido[p]  OBVIOUS
<1>2. w.id \in OtpIds  BY <1>1, MarcaUno
<1>3. PICK f : ConIntentos(f) /\ otp' = [otp EXCEPT ![w.id] = f]  BY <1>1, MarcaUno
<1>4. PICK v \in Pedido : Toma(p, v) /\ PedidoOK(v)  BY <1>1, MarcaUno
<1>5. /\ otp' \in [OtpIds -> Otp \cup {NoOtp}]
      /\ \A k \in OtpIds : otp'[k] # NoOtp => ConIntentos(otp'[k])
  BY <1>2, <1>3, EscribeTipo
<1>6. pedido' \in [Peticiones -> Pedido] /\ \A q \in Peticiones : PedidoOK(pedido'[q])
  BY <1>4, TomaTipo
<1> QED BY <1>5, <1>6 DEF Marca, codigosCuentas, TInv, CodigosTypeOK

LEMMA CreaTipo ==
    ASSUME TInv, NEW p \in Peticiones, Crea(p)
    PROVE  TInv'
<1>1. PICK w : w = pedido[p]  OBVIOUS
<1>2. w.id \in OtpIds  BY <1>1, ConCodigo DEF Crea, EnPedido
<1>3. titular' \in Titular /\ perdidos' \subseteq OtpIds
  BY <1>1, <1>2 DEF Crea, TInv, CodigosTypeOK, Titular
<1>4. usos' \in [OtpIds -> Nat]  BY <1>1, <1>2 DEF Crea, Sirve, TInv, CodigosTypeOK
<1>5. pedido' \in [Peticiones -> Pedido] /\ \A q \in Peticiones : PedidoOK(pedido'[q])
  BY TerminaTipo DEF Crea
<1> QED BY <1>3, <1>4, <1>5 DEF Crea, codigosCuentas, TInv, CodigosTypeOK

\* What BuscaTitular does.
LEMMA BuscaTitularUno ==
    ASSUME TInv, NEW p \in Peticiones, NEW w, w = pedido[p], BuscaTitular(p)
    PROVE  /\ w.paso = "cuenta" /\ w.op = "verifyOtp" /\ w.id \in OtpIds
           /\ UNCHANGED <<otp, titular, minuto, codigosCuentas, fallidos, perdidos>>
           /\ \E v \in Pedido :
                /\ Toma(p, v) /\ PedidoOK(v)
                /\ \/ v = SinPedido /\ usos' = [usos EXCEPT ![w.id] = @ + 1]
                   \/ /\ titular = "nadie" /\ UNCHANGED usos
                      /\ v.paso = "crea" /\ v.op = w.op /\ v.id = w.id /\ v.fila = w.fila
<1>1. w.paso = "cuenta" /\ PedidoOK(w) /\ w.op = "verifyOtp"
  BY UnPedido DEF BuscaTitular, EnPedido, PedidoOK
<1>2. w.id \in OtpIds /\ ConIntentos(w.fila)  BY <1>1, ConCodigo
<1>3. UNCHANGED <<otp, titular, minuto, codigosCuentas, fallidos, perdidos>>  BY DEF BuscaTitular
<1>4. CASE titular = "nadie"
  <2>1. Salta(p, "crea") /\ UNCHANGED usos  BY <1>4 DEF BuscaTitular
  <2>2. PICK v \in Pedido : Toma(p, v) /\ v.paso = "crea" /\ v.op = w.op /\ v.id = w.id
                 /\ v.fila = w.fila
    BY <2>1, SaltaUno
  <2>3. PedidoOK(v)  BY <1>1, <1>2, <2>2 DEF PedidoOK
  <2> QED BY <1>1, <1>2, <1>3, <1>4, <2>1, <2>2, <2>3
<1>5. CASE titular # "nadie"
  <2>1. Toma(p, SinPedido) /\ usos' = [usos EXCEPT ![w.id] = @ + 1]
    BY <1>5 DEF BuscaTitular, Termina, Sirve
  <2> QED BY <1>1, <1>2, <1>3, <2>1, SinPedidoOK
<1> QED BY <1>4, <1>5

LEMMA BuscaTitularTipo ==
    ASSUME TInv, NEW p \in Peticiones, BuscaTitular(p)
    PROVE  TInv'
<1>1. PICK w : w = pedido[p]  OBVIOUS
<1>2. PICK v \in Pedido : Toma(p, v) /\ PedidoOK(v)  BY <1>1, BuscaTitularUno
<1>3. w.id \in OtpIds  BY <1>1, BuscaTitularUno
<1>4. usos' \in [OtpIds -> Nat]  BY <1>1, <1>3 DEF BuscaTitular, Sirve, TInv, CodigosTypeOK
<1>5. pedido' \in [Peticiones -> Pedido] /\ \A q \in Peticiones : PedidoOK(pedido'[q])
  BY <1>2, TomaTipo
<1> QED BY <1>4, <1>5 DEF BuscaTitular, codigosCuentas, TInv, CodigosTypeOK

\* What BuscaCuenta and Contrasena do with the request.
LEMMA SaltaVerifica ==
    ASSUME TInv, NEW p \in Peticiones, NEW w, w = pedido[p], w.paso \in {"busca", "contrasena"},
           NEW paso \in {"contrasena", "marca"}, Salta(p, paso)
    PROVE  \E v \in Pedido : /\ Toma(p, v) /\ PedidoOK(v) /\ v.paso = paso
                             /\ v.op = "verifyOtpEmail" /\ v.id = w.id /\ v.fila = w.fila
<1>1. PICK v \in Pedido : Toma(p, v) /\ v.paso = paso /\ v.op = w.op /\ v.id = w.id
               /\ v.fila = w.fila
  BY SaltaUno
<1>2. PedidoOK(w)  BY UnPedido
<1>3. PedidoOK(v) /\ v.op = "verifyOtpEmail"  BY <1>1, <1>2 DEF PedidoOK
<1> QED BY <1>1, <1>3

LEMMA BuscaCuentaTipo ==
    ASSUME TInv, NEW p \in Peticiones, BuscaCuenta(p)
    PROVE  TInv'
<1>1. pedido' \in [Peticiones -> Pedido] /\ \A q \in Peticiones : PedidoOK(pedido'[q])
  <2>1. CASE Termina(p)  BY <2>1, TerminaTipo
  <2>2. CASE Salta(p, "contrasena")  BY <2>2, SaltaVerifica, TomaTipo DEF BuscaCuenta, EnPedido
  <2> QED BY <2>1, <2>2 DEF BuscaCuenta
<1> QED BY <1>1 DEF BuscaCuenta, codigosCuentas, TInv, CodigosTypeOK

LEMMA ContrasenaTipo ==
    ASSUME TInv, NEW p \in Peticiones, Contrasena(p)
    PROVE  TInv'
<1>1. pedido' \in [Peticiones -> Pedido] /\ \A q \in Peticiones : PedidoOK(pedido'[q])
  BY SaltaVerifica, TomaTipo DEF Contrasena, EnPedido
<1>2. pedido[p].id \in OtpIds  BY ConCodigo DEF Contrasena, EnPedido
<1>3. usos' \in [OtpIds -> Nat]  BY <1>2 DEF Contrasena, Sirve, TInv, CodigosTypeOK
<1> QED BY <1>1, <1>3 DEF Contrasena, codigosCuentas, TInv, CodigosTypeOK

LEMMA RestoTipo ==
    ASSUME TInv, NEW p \in Peticiones,
           MailService(p) \/ FallaPedido(p)
    PROVE  TInv'
<1>1. pedido' \in [Peticiones -> Pedido] /\ \A q \in Peticiones : PedidoOK(pedido'[q])
  BY TerminaTipo DEF MailService, FallaPedido
<1>2. fallasOtp' \in 0 .. MaxFallasOtp
  BY DEF MailService, FallaPedido, codigosCuentas, TInv, CodigosTypeOK
<1>3. PICK w : w = pedido[p]  OBVIOUS
<1>4. w.paso = "crea" => w.id \in OtpIds  BY <1>3, ConCodigo
<1>5. perdidos' \subseteq OtpIds /\ cortados' \subseteq OtpIds
  BY <1>3, <1>4 DEF MailService, FallaPedido, codigosCuentas, TInv, CodigosTypeOK
<1> QED BY <1>1, <1>2, <1>5 DEF MailService, FallaPedido, codigosCuentas, TInv, CodigosTypeOK

LEMMA CuentaTipo ==
    ASSUME TInv,
           \/ \E t \in {"eliminada", "sinFecha"} : EliminarCuenta(t)
           \/ AnonimizarCuentasEliminadas \/ PasaMinuto
    PROVE  TInv'
<1>1. titular' \in Titular /\ bajas' \in 0 .. MaxBajas /\ minuto' \in 0 .. MaxMinutos
  BY DEF EliminarCuenta, AnonimizarCuentasEliminadas, PasaMinuto, codigosCuentas, TInv,
         CodigosTypeOK, Titular
<1> QED BY <1>1 DEF EliminarCuenta, AnonimizarCuentasEliminadas, PasaMinuto, codigosCuentas, TInv,
                   CodigosTypeOK

LEMMA TStep == TInv /\ [CodigosNext]_codigosVars => TInv'
<1> SUFFICES ASSUME TInv, [CodigosNext]_codigosVars PROVE TInv'  OBVIOUS
<1>1. CASE UNCHANGED codigosVars  BY <1>1 DEF codigosVars, TInv, CodigosTypeOK
<1>2. CASE CodigosNext
  BY <1>2, SendOtpTipo, ValidarOtpTipo, InvalidaTipo, InsertaTipo, GuardaFalloTipo, MarcaTipo,
     BuscaTitularTipo, CreaTipo, BuscaCuentaTipo, ContrasenaTipo, RestoTipo, CuentaTipo DEF CodigosNext
<1> QED BY <1>1, <1>2

--------------------
(* The invariant while no two requests overlapped: the request at work and *)
(* its code agree with the table.                                          *)

Activo(p) == pedido[p].paso # "idle"
Una == \A p, q \in Peticiones : Activo(p) /\ Activo(q) => p = q

\* A medium has one code in force.
Unico == \A m \in Medios : \A i, k \in OtpIds : Vigente(i, m) /\ Vigente(k, m) => i = k

\* What the request read is what the table has.
CodigoAlDia(p) ==
    LET w == pedido[p] IN
    /\ w.paso = "inserta" => \A i \in OtpIds : ~Vigente(i, Medio(w.op))
    /\ w.paso = "falla" => ~otp[w.id].usado /\ w.fila = Equivocada(otp[w.id])
    /\ w.paso \in {"marca", "busca", "contrasena"} =>
          /\ otp[w.id] = w.fila /\ ~w.fila.usado
          /\ \A i \in OtpIds : Vigente(i, Medio(w.op)) => i = w.id
    /\ w.paso \in {"cuenta", "crea"} => otp[w.id] # NoOtp /\ otp[w.id].usado
           /\ \A i \in OtpIds : ~Vigente(i, "tel")

\* The wrong answers to a code are those its row counts, and the one being saved.
Intentos(i) == IF otp[i] = NoOtp THEN 0 ELSE otp[i].intentos
EnFallo(i) == \E p \in Peticiones : pedido[p].paso = "falla" /\ pedido[p].id = i
Contados == \A i \in OtpIds : fallidos[i] = Intentos(i) + IF EnFallo(i) THEN 1 ELSE 0

\* A code that is not marked has been good for nothing, but for the new password of
\* the request that is about to mark it.
PorMarcar(i) == \E p \in Peticiones :
    pedido[p].paso = "marca" /\ pedido[p].op = "verifyOtpEmail" /\ pedido[p].id = i
SinUso(p) == LET w == pedido[p] IN
    \/ w.paso \in {"falla", "busca", "contrasena", "cuenta", "crea"}
    \/ w.paso = "marca" /\ w.op # "verifyOtpEmail"
    => usos[w.id] = 0
Servidos ==
    /\ \A i \in OtpIds : usos[i] <= 1
    /\ \A i \in OtpIds : (otp[i] = NoOtp \/ ~otp[i].usado) /\ ~PorMarcar(i) => usos[i] = 0
    /\ \A p \in Peticiones : SinUso(p)

\* While a registration code is in force nobody has the telephone.
PorRegistrar(p) == LET w == pedido[p] IN
    \/ w.paso \in {"invalida", "inserta"} /\ w.op = "sendOtpRegister"
    \/ w.paso \in {"marca", "crea"} /\ w.op = "verifyOtpRegister" /\ w.fila.registro
    => titular = "nadie"
Registros ==
    /\ titular \in {"nadie", "viva"} /\ perdidos \subseteq cortados
    /\ \A i \in OtpIds : Vigente(i, "tel") /\ otp[i].registro => titular = "nadie"
    /\ \A p \in Peticiones : PorRegistrar(p)

Sola == /\ Una /\ Unico /\ \A p \in Peticiones : CodigoAlDia(p)
        /\ fallasOtp = 0 => Contados /\ Servidos
        /\ bajas = 0 => Registros

IInv == TInv /\ (~solapoOtp => Sola)

\* A request that does nothing has nothing to agree on.
LEMMA Ocioso ==
    ASSUME NEW p, pedido[p].paso = "idle"
    PROVE  CodigoAlDia(p) /\ SinUso(p) /\ PorRegistrar(p)
  BY DEF CodigoAlDia, SinUso, PorRegistrar

LEMMA OciosoDespues ==
    ASSUME NEW p, pedido'[p].paso = "idle"
    PROVE  CodigoAlDia(p)' /\ SinUso(p)' /\ PorRegistrar(p)'
  BY DEF CodigoAlDia, SinUso, PorRegistrar

\* A step of the only request.
LEMMA Compone ==
    ASSUME NEW p \in Peticiones, NEW v, pedido'[p] = v,
           \A q \in Peticiones \ {p} : pedido'[q].paso = "idle",
           Unico', CodigoAlDia(p)',
           fallasOtp' = 0 =>
              /\ \A i \in OtpIds :
                    fallidos'[i] = Intentos(i)' + IF v.paso = "falla" /\ v.id = i THEN 1 ELSE 0
              /\ \A i \in OtpIds : usos'[i] <= 1
              /\ \A i \in OtpIds : /\ otp'[i] = NoOtp \/ ~otp'[i].usado
                                   /\ ~ (v.paso = "marca" /\ v.op = "verifyOtpEmail" /\ v.id = i)
                                   => usos'[i] = 0
              /\ SinUso(p)',
           bajas' = 0 =>
              /\ titular' \in {"nadie", "viva"} /\ perdidos' \subseteq cortados'
              /\ \A i \in OtpIds : Vigente(i, "tel")' /\ otp'[i].registro => titular' = "nadie"
              /\ PorRegistrar(p)'
    PROVE  Sola'
<1>1. \A q \in Peticiones \ {p} : CodigoAlDia(q)' /\ SinUso(q)' /\ PorRegistrar(q)'
  BY OciosoDespues
<1>2. Una'  BY DEF Una, Activo
<1>3. \A i : EnFallo(i)' <=> v.paso = "falla" /\ v.id = i  BY DEF EnFallo
<1>4. \A i : PorMarcar(i)' <=> v.paso = "marca" /\ v.op = "verifyOtpEmail" /\ v.id = i
  BY DEF PorMarcar
<1>5. fallasOtp' = 0 => Contados'
  <2> SUFFICES ASSUME fallasOtp' = 0, NEW i \in OtpIds
               PROVE  fallidos'[i] = Intentos(i)' + IF EnFallo(i)' THEN 1 ELSE 0
    BY DEF Contados
  <2> QED BY <1>3
<1>6. fallasOtp' = 0 => Servidos'  BY <1>1, <1>4 DEF Servidos
<1>7. bajas' = 0 => Registros'  BY <1>1 DEF Registros
<1> QED BY <1>1, <1>2, <1>5, <1>6, <1>7 DEF Sola

\* The same of the state before, with the request that is at work or that arrives.
LEMMA Separa ==
    ASSUME Sola, NEW p \in Peticiones, NEW w, pedido[p] = w,
           \A q \in Peticiones \ {p} : pedido[q].paso = "idle"
    PROVE  /\ Unico /\ CodigoAlDia(p)
           /\ fallasOtp = 0 =>
              /\ \A i \in OtpIds :
                    fallidos[i] = Intentos(i) + IF w.paso = "falla" /\ w.id = i THEN 1 ELSE 0
              /\ \A i \in OtpIds : usos[i] <= 1
              /\ \A i \in OtpIds : /\ otp[i] = NoOtp \/ ~otp[i].usado
                                   /\ ~ (w.paso = "marca" /\ w.op = "verifyOtpEmail" /\ w.id = i)
                                   => usos[i] = 0
              /\ SinUso(p)
           /\ bajas = 0 =>
              /\ titular \in {"nadie", "viva"} /\ perdidos \subseteq cortados
              /\ \A i \in OtpIds : Vigente(i, "tel") /\ otp[i].registro => titular = "nadie"
              /\ PorRegistrar(p)
<1>1. \A i : EnFallo(i) <=> w.paso = "falla" /\ w.id = i  BY DEF EnFallo
<1>2. \A i : PorMarcar(i) <=> w.paso = "marca" /\ w.op = "verifyOtpEmail" /\ w.id = i
  BY DEF PorMarcar
<1>3. fallasOtp = 0 => \A i \in OtpIds :
        fallidos[i] = Intentos(i) + IF w.paso = "falla" /\ w.id = i THEN 1 ELSE 0
  BY <1>1 DEF Sola, Contados
<1>4. fallasOtp = 0 =>
        /\ \A i \in OtpIds : usos[i] <= 1
        /\ \A i \in OtpIds : /\ otp[i] = NoOtp \/ ~otp[i].usado
                             /\ ~ (w.paso = "marca" /\ w.op = "verifyOtpEmail" /\ w.id = i)
                             => usos[i] = 0
        /\ SinUso(p)
  BY <1>2 DEF Sola, Servidos
<1>5. bajas = 0 =>
        /\ titular \in {"nadie", "viva"} /\ perdidos \subseteq cortados
        /\ \A i \in OtpIds : Vigente(i, "tel") /\ otp[i].registro => titular = "nadie"
        /\ PorRegistrar(p)
  BY DEF Sola, Registros
<1> QED BY <1>3, <1>4, <1>5 DEF Sola

\* The request at work is the only one, before its step and after it.
LEMMA LosDemas ==
    ASSUME TInv, Sola, NEW p \in Peticiones, pedido[p].paso # "idle", NEW v, Toma(p, v)
    PROVE  /\ pedido'[p] = v
           /\ \A q \in Peticiones \ {p} : pedido[q].paso = "idle" /\ pedido'[q].paso = "idle"
  BY TomaUno DEF Sola, Una, Activo

LEMMA NadieMas ==
    ASSUME TInv, Sola, NEW p \in Peticiones, NEW w, Pide(p, w), ~solapoOtp'
    PROVE  /\ pedido'[p] = w /\ pedido[p].paso = "idle"
           /\ \A q \in Peticiones \ {p} : pedido[q].paso = "idle" /\ pedido'[q].paso = "idle"
  BY TomaUno DEF Pide, EnPedido

\* A code that was left alone is in force as long as it was.
LEMMA MismaVigencia ==
    ASSUME NEW i, UNCHANGED minuto, otp'[i] = otp[i]
    PROVE  /\ \A m : Vigente(i, m)' = Vigente(i, m)
           /\ Intentos(i)' = Intentos(i)
  BY DEF Vigente, Intentos

LEMMA SendOtpSola ==
    ASSUME TInv, Sola, NEW p \in Peticiones,
           NEW op \in {"sendOtpRegister", "sendOtp", "sendOtpEmail"}, SendOtp(p, op), ~solapoOtp'
    PROVE  Sola'
<1>1. PICK w : w = [op |-> op, paso |-> "invalida", id |-> 0, fila |-> NoOtp]  OBVIOUS
<1>2. /\ Pide(p, w) /\ UNCHANGED <<otp, titular, minuto, bajas, fallasOtp, usos, perdidos, cortados,
             fallidos>>
      /\ op = "sendOtpRegister" => titular # "viva"
      /\ w.op = op /\ w.paso = "invalida"
  BY <1>1 DEF SendOtp, Pide
<1>3. PICK w0 : w0 = pedido[p]  OBVIOUS
<1>4. /\ pedido'[p] = w /\ w0.paso = "idle"
      /\ \A q \in Peticiones \ {p} : pedido[q].paso = "idle" /\ pedido'[q].paso = "idle"
  BY <1>2, <1>3, NadieMas
<1>5. \A i : (\A m : Vigente(i, m)' = Vigente(i, m)) /\ Intentos(i)' = Intentos(i)
  BY <1>2, MismaVigencia
<1>6. Unico'  BY <1>5 DEF Unico, Sola
<1>7. CodigoAlDia(p)' /\ SinUso(p)'  BY <1>2, <1>4 DEF CodigoAlDia, SinUso
<1>8. fallasOtp' = 0 =>
        /\ \A i \in OtpIds : fallidos'[i] = Intentos(i)' + IF w.paso = "falla"
               /\ w.id = i THEN 1 ELSE 0
        /\ \A i \in OtpIds : usos'[i] <= 1
        /\ \A i \in OtpIds : otp'[i] = NoOtp \/ ~otp'[i].usado => usos'[i] = 0
  BY <1>2, <1>3, <1>4, <1>5, Separa
<1>9. bajas' = 0 =>
        /\ titular' \in {"nadie", "viva"} /\ perdidos' \subseteq cortados'
        /\ \A i \in OtpIds : Vigente(i, "tel")' /\ otp'[i].registro => titular' = "nadie"
        /\ PorRegistrar(p)'
  BY <1>3, <1>4, Separa, <1>2, <1>5 DEF PorRegistrar
<1> QED BY <1>4, <1>6, <1>7, <1>8, <1>9, Compone

LEMMA ValidarOtpSola ==
    ASSUME TInv, Sola, NEW p \in Peticiones, NEW dado,
           NEW op \in {"verifyOtpRegister", "verifyOtp", "checkOtpEmail", "verifyOtpEmail"},
           ValidarOtp(p, op, dado), ~solapoOtp'
    PROVE  Sola'
<1>1. PICK i \in Vigentes(Medio(op)), w \in Pedido :
         /\ Pide(p, w)
         /\ PedidoOK(w)
         /\ fallidos' = [fallidos EXCEPT ![i] = IF dado = i THEN @ ELSE @ + 1]
         /\ IF dado = i
            THEN \/ w = SinPedido
                 \/ /\ w.op = op /\ w.id = i /\ w.fila = otp[i]
                    /\ w.paso \in {"marca", "busca"}
            ELSE w.paso = "falla" /\ w.op = op /\ w.id = i /\ w.fila = Equivocada(otp[i])
  BY Valida
<1>2. UNCHANGED <<otp, titular, minuto, bajas, fallasOtp, usos, perdidos, cortados>>  BY <1>1 DEF Pide
<1>3. PICK w0 : w0 = pedido[p]  OBVIOUS
<1>4. /\ pedido'[p] = w /\ w0.paso = "idle"
      /\ \A q \in Peticiones \ {p} : pedido[q].paso = "idle" /\ pedido'[q].paso = "idle"
  BY <1>1, <1>3, NadieMas
<1>5. \A k : (\A m : Vigente(k, m)' = Vigente(k, m)) /\ Intentos(k)' = Intentos(k)
  BY <1>2, MismaVigencia
<1>6. Unico'  BY <1>5 DEF Unico, Sola
<1>7. /\ i \in OtpIds /\ Vigente(i, Medio(op)) /\ ~otp[i].usado /\ otp[i] # NoOtp
      /\ \A k \in OtpIds : Vigente(k, Medio(op)) => k = i
  <2>1. Medio(op) \in Medios  BY DEF Medio, Medios
  <2> QED BY <2>1, NoOtpNoEs DEF Vigentes, Vigente, Unico, Sola
<1>8. /\ w.paso \in {"marca", "busca", "falla", "idle"}
      /\ w.paso # "idle" => w.op = op /\ w.id = i
      /\ w.paso \in {"marca", "busca"} => w.fila = otp[i]
      /\ w.paso = "falla" <=> dado # i
      /\ w.paso = "falla" => w.fila = Equivocada(otp[i])
      /\ w.paso = "marca" => w.op # "verifyOtpEmail"
  <2>1. /\ w.paso \in {"marca", "busca", "falla", "idle"}
        /\ w.paso # "idle" => w.op = op /\ w.id = i
        /\ w.paso \in {"marca", "busca"} => w.fila = otp[i]
        /\ w.paso = "falla" <=> dado # i
        /\ w.paso = "falla" => w.fila = Equivocada(otp[i])
    BY <1>1, SinPedidoOK
  <2>2. w.paso = "marca" => w.op # "verifyOtpEmail"
    <3> SUFFICES ASSUME w.paso = "marca", op = "verifyOtpEmail" PROVE FALSE  BY <2>1
    <3>1. PICK j \in Vigentes(Medio(op)) :
            Pide(p, LET paso == IF dado = j THEN SiguePedido(op) ELSE "falla"
                        fila == IF dado = j THEN otp[j] ELSE Equivocada(otp[j])
                    IN  IF paso = "idle" THEN SinPedido
                        ELSE [op |-> op, paso |-> paso, id |-> j, fila |-> fila])
      BY DEF ValidarOtp
    <3>2. pedido'[p].paso \in {"falla", "busca"}  BY <3>1, TomaUno DEF Pide, SiguePedido
    <3> QED BY <1>4, <3>2
  <2> QED BY <2>1, <2>2
<1>9. CodigoAlDia(p)'  BY <1>2, <1>4, <1>5, <1>7, <1>8 DEF CodigoAlDia
<1>10. fallasOtp' = 0 =>
         /\ \A k \in OtpIds : fallidos'[k] = Intentos(k)' + IF w.paso = "falla"
                /\ w.id = k THEN 1 ELSE 0
         /\ \A k \in OtpIds : usos'[k] <= 1
         /\ \A k \in OtpIds : otp'[k] = NoOtp \/ ~otp'[k].usado => usos'[k] = 0
         /\ SinUso(p)'
  <2> SUFFICES ASSUME fallasOtp = 0
               PROVE  /\ \A k \in OtpIds :
                            fallidos'[k] = Intentos(k)' + IF w.paso = "falla"
                                /\ w.id = k THEN 1 ELSE 0
                      /\ \A k \in OtpIds : usos'[k] <= 1
                      /\ \A k \in OtpIds : otp'[k] = NoOtp \/ ~otp'[k].usado => usos'[k] = 0
                      /\ SinUso(p)'
    BY <1>2
  <2>1. /\ \A k \in OtpIds : fallidos[k] = Intentos(k)
        /\ \A k \in OtpIds : usos[k] <= 1
        /\ \A k \in OtpIds : otp[k] = NoOtp \/ ~otp[k].usado => usos[k] = 0
    BY <1>3, <1>4, Separa DEF Intentos, TInv, ConIntentos, Otp
  <2>2. \A k \in OtpIds : fallidos'[k] = Intentos(k)' + IF w.paso = "falla"
            /\ w.id = k THEN 1 ELSE 0
    <3> SUFFICES ASSUME NEW k \in OtpIds
                 PROVE  fallidos'[k] = Intentos(k) + IF w.paso = "falla" /\ w.id = k THEN 1 ELSE 0
      BY <1>5
    <3>1. Intentos(k) \in Nat  BY DEF Intentos, TInv, ConIntentos, Otp
    <3>2. fallidos'[k] = IF k = i /\ dado # i THEN fallidos[k] + 1 ELSE fallidos[k]
      BY <1>1, <1>7 DEF TInv, CodigosTypeOK
    <3> QED BY <1>8, <2>1, <3>1, <3>2
  <2>3. usos[i] = 0  BY <1>7, <2>1
  <2>4. SinUso(p)'  BY <1>2, <1>4, <1>8, <2>3 DEF SinUso
  <2> QED BY <1>2, <2>1, <2>2, <2>4
<1>11. bajas' = 0 =>
         /\ titular' \in {"nadie", "viva"} /\ perdidos' \subseteq cortados'
         /\ \A k \in OtpIds : Vigente(k, "tel")' /\ otp'[k].registro => titular' = "nadie"
         /\ PorRegistrar(p)'
  BY <1>3, <1>4, Separa, <1>2, <1>7, <1>8, <1>5 DEF Medio, PorRegistrar
<1> QED BY <1>4, <1>6, <1>9, <1>10, <1>11, Compone

LEMMA InvalidaSola ==
    ASSUME TInv, Sola, NEW p \in Peticiones, Invalida(p)
    PROVE  Sola'
<1>1. PICK w : w = pedido[p]  OBVIOUS
<1>2. /\ w.paso = "invalida" /\ PedidoOK(w)
      /\ UNCHANGED <<titular, minuto, bajas, fallasOtp, usos, fallidos, perdidos, cortados>>
  BY <1>1, UnPedido DEF Invalida, EnPedido, codigosCuentas
<1>3. PICK v \in Pedido : Toma(p, v) /\ v.paso = "inserta" /\ v.op = w.op
  BY <1>1, SaltaUno DEF Invalida
<1>4. /\ pedido'[p] = v
      /\ \A q \in Peticiones \ {p} : pedido[q].paso = "idle" /\ pedido'[q].paso = "idle"
  BY <1>1, <1>2, <1>3, LosDemas
<1>5. \A i \in OtpIds : \/ otp'[i] = otp[i] /\ ~Vigente(i, Medio(w.op))
                        \/ otp[i] # NoOtp /\ otp'[i] = [otp[i] EXCEPT !.usado = TRUE]
  BY <1>1, NoOtpNoEs DEF Invalida, Vigente
<1>6. \A i \in OtpIds : /\ \A m : Vigente(i, m)' => Vigente(i, m)
                        /\ ~Vigente(i, Medio(w.op))' /\ Intentos(i)' = Intentos(i)
                        /\ otp'[i] = NoOtp \/ ~otp'[i].usado => otp[i] = NoOtp \/ ~otp[i].usado
                        /\ \A m : Vigente(i, m)' => otp'[i].registro = otp[i].registro
  <2> SUFFICES ASSUME NEW i \in OtpIds
               PROVE  /\ \A m : Vigente(i, m)' => Vigente(i, m)
                      /\ ~Vigente(i, Medio(w.op))' /\ Intentos(i)' = Intentos(i)
                      /\ otp'[i] = NoOtp \/ ~otp'[i].usado => otp[i] = NoOtp \/ ~otp[i].usado
                      /\ \A m : Vigente(i, m)' => otp'[i].registro = otp[i].registro
    OBVIOUS
  <2>1. CASE otp'[i] = otp[i] /\ ~Vigente(i, Medio(w.op))  BY <1>2, <2>1, MismaVigencia DEF Vigente
  <2>2. CASE otp[i] # NoOtp /\ otp'[i] = [otp[i] EXCEPT !.usado = TRUE]
    <3>1. otp[i] \in Otp  BY <2>2 DEF TInv, ConIntentos
    <3>2. otp'[i] \in Otp /\ otp'[i].usado /\ otp'[i].intentos = otp[i].intentos
      BY <2>2, <3>1 DEF Otp
    <3>3. otp'[i] # NoOtp /\ \A m : ~Vigente(i, m)'  BY <3>2, NoOtpNoEs DEF Vigente
    <3>4. ~Vigente(i, Medio(w.op))'  BY <3>2 DEF Vigente
    <3>5. Intentos(i)' = Intentos(i)  BY <2>2, <3>2, <3>3 DEF Intentos
    <3> QED BY <3>2, <3>3, <3>4, <3>5
  <2> QED BY <1>5, <2>1, <2>2
<1>7. Unico'  BY <1>6 DEF Unico, Sola
<1>8. CodigoAlDia(p)'
  <2>1. \A i \in OtpIds : ~Vigente(i, Medio(v.op))'
    <3> SUFFICES ASSUME NEW i \in OtpIds PROVE ~Vigente(i, Medio(w.op))'  BY <1>3
    <3> QED BY <1>6
  <2> QED BY <1>3, <1>4, <2>1 DEF CodigoAlDia
<1>9. fallasOtp' = 0 =>
        /\ \A i \in OtpIds : fallidos'[i] = Intentos(i)' + IF v.paso = "falla"
               /\ v.id = i THEN 1 ELSE 0
        /\ \A i \in OtpIds : usos'[i] <= 1
        /\ \A i \in OtpIds : otp'[i] = NoOtp \/ ~otp'[i].usado => usos'[i] = 0
        /\ SinUso(p)'
  BY <1>3, <1>4, <1>1, <1>2, Separa, <1>6 DEF SinUso
<1>10. bajas' = 0 =>
         /\ titular' \in {"nadie", "viva"} /\ perdidos' \subseteq cortados'
         /\ \A i \in OtpIds : Vigente(i, "tel")' /\ otp'[i].registro => titular' = "nadie"
         /\ PorRegistrar(p)'
  BY <1>1, <1>4, Separa, <1>2, <1>3, <1>6 DEF PorRegistrar
<1> QED BY <1>4, <1>7, <1>8, <1>9, <1>10, Compone

\* What is common to a step that writes the row of one code.
LEMMA Escrito ==
    ASSUME TInv, NEW i \in OtpIds, NEW f, ConIntentos(f), otp' = [otp EXCEPT ![i] = f],
           UNCHANGED minuto
    PROVE  /\ otp'[i] = f /\ f # NoOtp /\ Intentos(i)' = f.intentos
           /\ \A k \in OtpIds \ {i} : /\ otp'[k] = otp[k] /\ Intentos(k)' = Intentos(k)
                                      /\ \A m : Vigente(k, m)' = Vigente(k, m)
           /\ \A m : Vigente(i, m)' => ~f.usado /\ f.medio = m
<1>1. otp'[i] = f /\ \A k \in OtpIds \ {i} : otp'[k] = otp[k]  BY EscribeTipo
<1>2. f # NoOtp  BY NoOtpNoEs DEF ConIntentos
<1> QED BY <1>1, <1>2, MismaVigencia DEF Intentos, Vigente

LEMMA InsertaSola ==
    ASSUME TInv, Sola, NEW p \in Peticiones, Inserta(p)
    PROVE  Sola'
<1>1. PICK w : w = pedido[p]  OBVIOUS
<1>2. /\ w.paso = "inserta" /\ PedidoOK(w)
      /\ UNCHANGED <<titular, minuto, bajas, fallasOtp, usos, fallidos, perdidos, cortados>>
  BY <1>1, InsertaUno DEF codigosCuentas
<1>3. PICK i \in OtpIds : otp[i] = NoOtp /\ otp' = [otp EXCEPT ![i] = Nuevo(w.op)]
  BY <1>1, InsertaUno
<1>4. PICK v \in Pedido : /\ Toma(p, v) /\ v.paso \in {"correo", "idle"}
                          /\ v.paso = "correo" => w.op = "sendOtpEmail" /\ v.op = w.op
  BY <1>1, InsertaUno
<1>5. /\ pedido'[p] = v
      /\ \A q \in Peticiones \ {p} : pedido[q].paso = "idle" /\ pedido'[q].paso = "idle"
  BY <1>1, <1>2, <1>4, LosDemas
<1>6. PICK f : f = Nuevo(w.op)  OBVIOUS
<1>7. /\ ConIntentos(f) /\ ~f.usado /\ f.intentos = 0 /\ f.medio = Medio(w.op)
      /\ f.registro => w.op = "sendOtpRegister"
  BY <1>6, NuevoTipo
<1>8. /\ otp'[i] = f /\ f # NoOtp /\ Intentos(i)' = 0
      /\ \A k \in OtpIds \ {i} : /\ otp'[k] = otp[k] /\ Intentos(k)' = Intentos(k)
                                 /\ \A m : Vigente(k, m)' = Vigente(k, m)
      /\ \A m : Vigente(i, m)' => f.medio = m
  <2>1. ConIntentos(f) /\ otp' = [otp EXCEPT ![i] = f] /\ UNCHANGED minuto
    BY <1>2, <1>3, <1>6, <1>7
  <2>2. /\ otp'[i] = f /\ f # NoOtp /\ Intentos(i)' = f.intentos
        /\ \A k \in OtpIds \ {i} : /\ otp'[k] = otp[k] /\ Intentos(k)' = Intentos(k)
                                   /\ \A m : Vigente(k, m)' = Vigente(k, m)
        /\ \A m : Vigente(i, m)' => ~f.usado /\ f.medio = m
    BY <2>1, Escrito
  <2> QED BY <1>7, <2>2
<1>9. \A k \in OtpIds : ~Vigente(k, Medio(w.op))  BY <1>1, <1>2 DEF Sola, CodigoAlDia
<1>10. Unico'
  <2> SUFFICES ASSUME NEW m \in Medios, NEW j \in OtpIds, NEW k \in OtpIds,
                      Vigente(j, m)', Vigente(k, m)'
               PROVE  j = k
    BY DEF Unico
  <2>1. CASE m = Medio(w.op)  BY <1>8, <1>9, <2>1
  <2>2. CASE m # Medio(w.op)  BY <1>7, <1>8, <2>2 DEF Unico, Sola
  <2> QED BY <2>1, <2>2
<1>11. CodigoAlDia(p)' /\ SinUso(p)' /\ PorRegistrar(p)'
  BY <1>4, <1>5 DEF CodigoAlDia, SinUso, PorRegistrar
<1>12. fallasOtp' = 0 =>
         /\ \A k \in OtpIds : fallidos'[k] = Intentos(k)' + IF v.paso = "falla"
                /\ v.id = k THEN 1 ELSE 0
         /\ \A k \in OtpIds : usos'[k] <= 1
         /\ \A k \in OtpIds : otp'[k] = NoOtp \/ ~otp'[k].usado => usos'[k] = 0
  BY <1>1, <1>2, <1>5, Separa, <1>3, <1>4, <1>8 DEF Intentos
<1>13. bajas' = 0 =>
         /\ titular' \in {"nadie", "viva"} /\ perdidos' \subseteq cortados'
         /\ \A k \in OtpIds : Vigente(k, "tel")' /\ otp'[k].registro => titular' = "nadie"
  BY <1>1, <1>5, Separa, <1>2, <1>7, <1>8 DEF PorRegistrar
<1> QED BY <1>5, <1>10, <1>11, <1>12, <1>13, Compone

LEMMA GuardaFalloSola ==
    ASSUME TInv, Sola, NEW p \in Peticiones, GuardaFallo(p)
    PROVE  Sola'
<1>1. PICK w : w = pedido[p]  OBVIOUS
<1>2. /\ w.paso = "falla" /\ otp' = [otp EXCEPT ![w.id] = w.fila] /\ Toma(p, SinPedido)
      /\ UNCHANGED <<titular, minuto, bajas, fallasOtp, usos, fallidos, perdidos, cortados>>
  BY <1>1 DEF GuardaFallo, EnPedido, Termina, codigosCuentas
<1>3. w.id \in OtpIds /\ ConIntentos(w.fila)  BY <1>1, <1>2, ConCodigo
<1>4. /\ pedido'[p] = SinPedido
      /\ \A q \in Peticiones \ {p} : pedido[q].paso = "idle" /\ pedido'[q].paso = "idle"
  BY <1>1, <1>2, LosDemas
<1>5. ~otp[w.id].usado /\ w.fila = Equivocada(otp[w.id]) /\ otp[w.id] # NoOtp
  BY <1>1, <1>2, NoOtpNoEs DEF Sola, CodigoAlDia
<1>6. /\ w.fila.intentos = otp[w.id].intentos + 1 /\ w.fila.medio = otp[w.id].medio
      /\ w.fila.vence = otp[w.id].vence /\ w.fila.registro = otp[w.id].registro
  BY <1>3, <1>5, Equivoca DEF TInv
<1>7. /\ otp'[w.id] = w.fila /\ w.fila # NoOtp /\ Intentos(w.id)' = Intentos(w.id) + 1
      /\ \A k \in OtpIds \ {w.id} : /\ otp'[k] = otp[k] /\ Intentos(k)' = Intentos(k)
                                    /\ \A m : Vigente(k, m)' = Vigente(k, m)
  <2>1. PICK i, g : i = w.id /\ g = w.fila  OBVIOUS
  <2>2. i \in OtpIds /\ ConIntentos(g) /\ otp' = [otp EXCEPT ![i] = g] /\ UNCHANGED minuto
    BY <1>2, <1>3, <2>1
  <2>3. /\ otp'[i] = g /\ g # NoOtp /\ Intentos(i)' = g.intentos
        /\ \A k \in OtpIds \ {i} : /\ otp'[k] = otp[k] /\ Intentos(k)' = Intentos(k)
                                   /\ \A m : Vigente(k, m)' = Vigente(k, m)
    BY <2>2, Escrito
  <2>4. g.intentos = Intentos(i) + 1  BY <1>5, <1>6, <2>1 DEF Intentos
  <2> HIDE DEF Intentos, Vigente
  <2> QED BY <2>1, <2>3, <2>4
<1>8. \A m : Vigente(w.id, m)' => Vigente(w.id, m)  BY <1>2, <1>5, <1>6, <1>7 DEF Vigente
<1>9. Unico'  BY <1>7, <1>8 DEF Unico, Sola
<1>10. CodigoAlDia(p)' /\ SinUso(p)' /\ PorRegistrar(p)' /\ SinPedido.paso = "idle"
  BY <1>4, SinPedidoOK, OciosoDespues
<1>11. fallasOtp' = 0 =>
         /\ \A k \in OtpIds :
               fallidos'[k] = Intentos(k)' + IF SinPedido.paso = "falla"
                   /\ SinPedido.id = k THEN 1 ELSE 0
         /\ \A k \in OtpIds : usos'[k] <= 1
         /\ \A k \in OtpIds : otp'[k] = NoOtp \/ ~otp'[k].usado => usos'[k] = 0
  BY <1>1, <1>2, <1>4, Separa, <1>3, <1>7, <1>5, <1>10 DEF Intentos, TInv, ConIntentos, Otp
<1>12. bajas' = 0 =>
         /\ titular' \in {"nadie", "viva"} /\ perdidos' \subseteq cortados'
         /\ \A k \in OtpIds : Vigente(k, "tel")' /\ otp'[k].registro => titular' = "nadie"
  BY <1>1, <1>4, Separa, <1>2, <1>3, <1>6, <1>7, <1>8
<1> QED BY <1>4, <1>9, <1>10, <1>11, <1>12, Compone

LEMMA MarcaSola ==
    ASSUME TInv, Sola, NEW p \in Peticiones, Marca(p)
    PROVE  Sola'
<1>1. PICK w : w = pedido[p]  OBVIOUS
<1>2. /\ w.paso = "marca" /\ w.id \in OtpIds /\ PedidoOK(w)
      /\ UNCHANGED <<titular, minuto, bajas, fallasOtp, usos, fallidos, perdidos, cortados>>
  BY <1>1, MarcaUno, UnPedido DEF codigosCuentas
<1>3. PICK f : /\ ConIntentos(f) /\ f.usado /\ f.intentos = w.fila.intentos
               /\ otp' = [otp EXCEPT ![w.id] = f]
  BY <1>1, MarcaUno
<1>4. PICK v \in Pedido : /\ Toma(p, v)
                          /\ IF w.op = "verifyOtpEmail" THEN v = SinPedido
                             ELSE /\ v.paso \in {"cuenta", "crea"} /\ v.op = w.op
                                  /\ v.id = w.id /\ v.fila = w.fila
  BY <1>1, MarcaUno
<1>5. /\ pedido'[p] = v
      /\ \A q \in Peticiones \ {p} : pedido[q].paso = "idle" /\ pedido'[q].paso = "idle"
  BY <1>1, <1>2, <1>4, LosDemas
<1>6. /\ otp[w.id] = w.fila /\ ~w.fila.usado /\ otp[w.id] # NoOtp
      /\ \A i \in OtpIds : Vigente(i, Medio(w.op)) => i = w.id
  BY <1>1, <1>2, NoOtpNoEs DEF Sola, CodigoAlDia
<1>7. /\ otp'[w.id] = f /\ f # NoOtp /\ Intentos(w.id)' = Intentos(w.id)
      /\ \A k \in OtpIds \ {w.id} : /\ otp'[k] = otp[k] /\ Intentos(k)' = Intentos(k)
                                    /\ \A m : Vigente(k, m)' = Vigente(k, m)
      /\ \A m : ~Vigente(w.id, m)'
  BY <1>2, <1>3, <1>6, Escrito DEF Intentos
<1>8. Unico'  BY <1>7 DEF Unico, Sola
<1>9. /\ v.paso \in {"cuenta", "crea", "idle"}
      /\ v.paso \in {"cuenta", "crea"} =>
           w.op # "verifyOtpEmail" /\ v.op = w.op /\ v.id = w.id /\ v.fila = w.fila
  BY <1>4, SinPedidoOK
<1>10. w.op # "verifyOtpEmail" => Medio(w.op) = "tel"  BY <1>2 DEF Medio, PedidoOK
<1>11. CodigoAlDia(p)'
  <2>1. CASE v.paso = "idle"  BY <1>5, <2>1, OciosoDespues
  <2>2. CASE v.paso \in {"cuenta", "crea"}
    BY <1>6, <1>7, <1>9, <1>10, <2>2, <1>3, <1>5 DEF CodigoAlDia
  <2> QED BY <1>9, <2>1, <2>2
<1>12. fallasOtp' = 0 =>
         /\ \A k \in OtpIds : fallidos'[k] = Intentos(k)' + IF v.paso = "falla"
                /\ v.id = k THEN 1 ELSE 0
         /\ \A k \in OtpIds : usos'[k] <= 1
         /\ \A k \in OtpIds : otp'[k] = NoOtp \/ ~otp'[k].usado => usos'[k] = 0
         /\ SinUso(p)'
  BY <1>1, <1>2, <1>5, Separa, <1>3, <1>7, <1>9 DEF SinUso
<1>13. bajas' = 0 =>
         /\ titular' \in {"nadie", "viva"} /\ perdidos' \subseteq cortados'
         /\ \A k \in OtpIds : Vigente(k, "tel")' /\ otp'[k].registro => titular' = "nadie"
         /\ PorRegistrar(p)'
  BY <1>1, <1>5, Separa, <1>2, <1>9, <1>7 DEF PorRegistrar
<1> QED BY <1>5, <1>8, <1>11, <1>12, <1>13, Compone

LEMMA BuscaTitularSola ==
    ASSUME TInv, Sola, NEW p \in Peticiones, BuscaTitular(p)
    PROVE  Sola'
<1>1. PICK w : w = pedido[p]  OBVIOUS
<1>2. /\ w.paso = "cuenta" /\ w.op = "verifyOtp" /\ w.id \in OtpIds
      /\ UNCHANGED <<otp, titular, minuto, bajas, fallasOtp, fallidos, perdidos, cortados>>
  BY <1>1, BuscaTitularUno DEF codigosCuentas
<1>3. PICK v : /\ Toma(p, v)
               /\ \/ v = SinPedido /\ usos' = [usos EXCEPT ![w.id] = @ + 1]
                  \/ /\ titular = "nadie" /\ UNCHANGED usos
                     /\ v.paso = "crea" /\ v.op = w.op /\ v.id = w.id /\ v.fila = w.fila
  BY <1>1, BuscaTitularUno
<1>4. /\ pedido'[p] = v /\ v.paso \in {"idle", "crea"}
      /\ \A q \in Peticiones \ {p} : pedido[q].paso = "idle" /\ pedido'[q].paso = "idle"
  BY <1>1, <1>2, <1>3, LosDemas, SinPedidoOK
<1>5. \A i : (\A m : Vigente(i, m)' = Vigente(i, m)) /\ Intentos(i)' = Intentos(i)
  BY <1>2, MismaVigencia
<1>6. Unico'  BY <1>5 DEF Unico, Sola
<1>7. otp[w.id] # NoOtp /\ otp[w.id].usado /\ \A i \in OtpIds : ~Vigente(i, "tel")
  BY <1>1, <1>2 DEF Sola, CodigoAlDia
<1>8. CodigoAlDia(p)' /\ PorRegistrar(p)'
  <2>1. CASE v.paso = "idle"  BY <1>4, <2>1, OciosoDespues
  <2>2. CASE v.paso = "crea"
    BY <1>2, <1>3, <1>4, <1>5, <1>7, <2>2, SinPedidoOK DEF CodigoAlDia, PorRegistrar
  <2> QED BY <1>4, <2>1, <2>2
<1>9. fallasOtp' = 0 =>
        /\ \A k \in OtpIds : fallidos'[k] = Intentos(k)' + IF v.paso = "falla"
               /\ v.id = k THEN 1 ELSE 0
        /\ \A k \in OtpIds : usos'[k] <= 1
        /\ \A k \in OtpIds : otp'[k] = NoOtp \/ ~otp'[k].usado => usos'[k] = 0
        /\ SinUso(p)'
  <2>1. fallasOtp = 0 =>
          /\ \A k \in OtpIds : fallidos[k] = Intentos(k) + 0
          /\ \A k \in OtpIds : usos[k] <= 1
          /\ \A k \in OtpIds : otp[k] = NoOtp \/ ~otp[k].usado => usos[k] = 0
          /\ SinUso(p)
    BY <1>1, <1>2, <1>4, Separa
  <2>2. fallasOtp = 0 => usos[w.id] = 0  BY <1>1, <1>2, <2>1 DEF SinUso
  <2>3. \A k \in OtpIds : usos'[k] = IF k = w.id /\ v = SinPedido THEN usos[k] + 1 ELSE usos[k]
    BY <1>2, <1>3, SinPedidoOK DEF TInv, CodigosTypeOK
  <2>4. fallasOtp = 0 => \A k \in OtpIds : usos'[k] <= 1  BY <2>1, <2>2, <2>3
  <2>5. fallasOtp = 0 => \A k \in OtpIds : otp[k] = NoOtp \/ ~otp[k].usado => usos'[k] = 0
    BY <1>7, <2>1, <2>3
  <2>6. fallasOtp = 0 => SinUso(p)'
    BY <1>2, <1>3, <1>4, <2>2, SinPedidoOK DEF SinUso
  <2> QED BY <1>2, <1>4, <1>5, <2>1, <2>4, <2>5, <2>6
<1>10. bajas' = 0 =>
         /\ titular' \in {"nadie", "viva"} /\ perdidos' \subseteq cortados'
         /\ \A k \in OtpIds : Vigente(k, "tel")' /\ otp'[k].registro => titular' = "nadie"
  BY <1>1, <1>4, Separa, <1>2, <1>5
<1> QED BY <1>4, <1>6, <1>8, <1>9, <1>10, Compone

LEMMA CreaSola ==
    ASSUME TInv, Sola, NEW p \in Peticiones, Crea(p)
    PROVE  Sola'
<1>1. PICK w : w = pedido[p]  OBVIOUS
<1>2. /\ w.paso = "crea" /\ w.id \in OtpIds /\ PedidoOK(w) /\ Toma(p, SinPedido)
      /\ UNCHANGED <<otp, minuto, bajas, fallasOtp, fallidos, cortados>>
  BY <1>1, ConCodigo, UnPedido DEF Crea, EnPedido, Termina, codigosCuentas
<1>3. /\ pedido'[p] = SinPedido
      /\ \A q \in Peticiones \ {p} : pedido[q].paso = "idle" /\ pedido'[q].paso = "idle"
  BY <1>1, <1>2, LosDemas
<1>4. otp[w.id] # NoOtp /\ otp[w.id].usado /\ \A i \in OtpIds : ~Vigente(i, "tel")
  BY <1>1, <1>2 DEF Sola, CodigoAlDia
<1>5. \A i : (\A m : Vigente(i, m)' = Vigente(i, m)) /\ Intentos(i)' = Intentos(i)
  BY <1>2, MismaVigencia
<1>6. Unico'  BY <1>5 DEF Unico, Sola
<1>7. CodigoAlDia(p)' /\ SinUso(p)' /\ PorRegistrar(p)' /\ SinPedido.paso = "idle"
  BY <1>3, SinPedidoOK, OciosoDespues
<1>8. /\ w.op # "verifyOtp" => w.op = "verifyOtpRegister"
      /\ \A k \in OtpIds \ {w.id} : usos'[k] = usos[k]
      /\ usos'[w.id] \in {usos[w.id], usos[w.id] + 1}
  BY <1>2, <1>1 DEF PedidoOK, Crea, Sirve, TInv, CodigosTypeOK
<1>9. fallasOtp' = 0 =>
        /\ \A k \in OtpIds :
              fallidos'[k] = Intentos(k)' + IF SinPedido.paso = "falla"
                  /\ SinPedido.id = k THEN 1 ELSE 0
        /\ \A k \in OtpIds : usos'[k] <= 1
        /\ \A k \in OtpIds : otp'[k] = NoOtp \/ ~otp'[k].usado => usos'[k] = 0
  <2>1. fallasOtp = 0 =>
          /\ \A k \in OtpIds : fallidos[k] = Intentos(k) + 0
          /\ \A k \in OtpIds : usos[k] <= 1
          /\ \A k \in OtpIds : otp[k] = NoOtp \/ ~otp[k].usado => usos[k] = 0
          /\ SinUso(p)
    BY <1>1, <1>2, <1>3, Separa
  <2>2. fallasOtp = 0 => usos[w.id] = 0  BY <1>1, <1>2, <2>1 DEF SinUso
  <2>3. fallasOtp = 0 => \A k \in OtpIds : usos'[k] <= 1  BY <1>8, <2>1, <2>2
  <2>4. fallasOtp = 0 => \A k \in OtpIds : otp[k] = NoOtp \/ ~otp[k].usado => usos'[k] = 0
    BY <1>4, <1>8, <2>1
  <2> QED BY <1>2, <1>5, <1>7, <2>1, <2>3, <2>4
<1>10. bajas' = 0 =>
         /\ titular' \in {"nadie", "viva"} /\ perdidos' \subseteq cortados'
         /\ \A k \in OtpIds : Vigente(k, "tel")' /\ otp'[k].registro => titular' = "nadie"
  <2>1. bajas = 0 => titular \in {"nadie", "viva"} /\ perdidos \subseteq cortados /\ PorRegistrar(p)
    BY <1>1, <1>3, Separa
  <2>2. bajas = 0 /\ w.op = "verifyOtpRegister" /\ w.fila.registro => titular = "nadie"
    BY <1>1, <1>2, <2>1 DEF PorRegistrar
  <2>3. titular' \in {titular, "viva"}  BY DEF Crea
  <2>4. bajas = 0 => perdidos' \subseteq cortados'
    BY <1>1, <1>2, <2>1, <2>2 DEF Crea, DeRegistro
  <2> QED BY <1>2, <1>4, <1>5, <2>1, <2>3, <2>4
<1> QED BY <1>3, <1>6, <1>7, <1>9, <1>10, Compone

LEMMA BuscaCuentaSola ==
    ASSUME TInv, Sola, NEW p \in Peticiones, BuscaCuenta(p)
    PROVE  Sola'
<1>1. PICK w : w = pedido[p]  OBVIOUS
<1>2. /\ w.paso = "busca" /\ PedidoOK(w)
      /\ UNCHANGED <<otp, titular, minuto, bajas, fallasOtp, usos, fallidos, perdidos, cortados>>
  BY <1>1, UnPedido DEF BuscaCuenta, EnPedido, codigosCuentas
<1>3. PICK v : /\ Toma(p, v)
               /\ \/ v.paso = "idle"
                  \/ v.paso = "contrasena" /\ v.op = "verifyOtpEmail" /\ v.id = w.id
                         /\ v.fila = w.fila
  <2>1. CASE Termina(p)  BY <2>1, SinPedidoOK DEF Termina
  <2>2. CASE Salta(p, "contrasena")  BY <1>1, <1>2, <2>2, SaltaVerifica
  <2> QED BY <2>1, <2>2 DEF BuscaCuenta
<1>4. /\ pedido'[p] = v
      /\ \A q \in Peticiones \ {p} : pedido[q].paso = "idle" /\ pedido'[q].paso = "idle"
  BY <1>1, <1>2, <1>3, LosDemas
<1>5. \A i : (\A m : Vigente(i, m)' = Vigente(i, m)) /\ Intentos(i)' = Intentos(i)
  BY <1>2, MismaVigencia
<1>6. Unico'  BY <1>5 DEF Unico, Sola
<1>7. w.op = "verifyOtpEmail"  BY <1>2 DEF PedidoOK
<1>8. CodigoAlDia(p)'
  <2>1. CASE v.paso = "idle"  BY <1>4, <2>1, OciosoDespues
  <2>2. CASE v.paso = "contrasena" /\ v.op = "verifyOtpEmail" /\ v.id = w.id /\ v.fila = w.fila
    BY <1>1, <1>2, <1>4, <1>5, <1>7, <2>2 DEF Sola, CodigoAlDia
  <2> QED BY <1>3, <2>1, <2>2
<1>9. fallasOtp' = 0 =>
        /\ \A k \in OtpIds : fallidos'[k] = Intentos(k)' + IF v.paso = "falla"
               /\ v.id = k THEN 1 ELSE 0
        /\ \A k \in OtpIds : usos'[k] <= 1
        /\ \A k \in OtpIds : otp'[k] = NoOtp \/ ~otp'[k].usado => usos'[k] = 0
        /\ SinUso(p)'
  BY <1>1, <1>2, <1>4, Separa, <1>3, <1>5 DEF SinUso
<1>10. bajas' = 0 =>
         /\ titular' \in {"nadie", "viva"} /\ perdidos' \subseteq cortados'
         /\ \A k \in OtpIds : Vigente(k, "tel")' /\ otp'[k].registro => titular' = "nadie"
         /\ PorRegistrar(p)'
  BY <1>1, <1>4, Separa, <1>3, <1>2, <1>5 DEF PorRegistrar
<1> QED BY <1>4, <1>6, <1>8, <1>9, <1>10, Compone

LEMMA ContrasenaSola ==
    ASSUME TInv, Sola, NEW p \in Peticiones, Contrasena(p)
    PROVE  Sola'
<1>1. PICK w : w = pedido[p]  OBVIOUS
<1>2. /\ w.paso = "contrasena" /\ PedidoOK(w) /\ w.id \in OtpIds
      /\ usos' = [usos EXCEPT ![w.id] = @ + 1]
      /\ UNCHANGED <<otp, titular, minuto, bajas, fallasOtp, fallidos, perdidos, cortados>>
  BY <1>1, UnPedido, ConCodigo DEF Contrasena, Sirve, EnPedido, codigosCuentas
<1>3. PICK v : /\ Toma(p, v)
               /\ v.paso = "marca" /\ v.op = "verifyOtpEmail" /\ v.id = w.id /\ v.fila = w.fila
  BY <1>1, <1>2, SaltaVerifica DEF Contrasena
<1>4. /\ pedido'[p] = v
      /\ \A q \in Peticiones \ {p} : pedido[q].paso = "idle" /\ pedido'[q].paso = "idle"
  BY <1>1, <1>2, <1>3, LosDemas
<1>5. \A i : (\A m : Vigente(i, m)' = Vigente(i, m)) /\ Intentos(i)' = Intentos(i)
  BY <1>2, MismaVigencia
<1>6. Unico'  BY <1>5 DEF Unico, Sola
<1>7. w.op = "verifyOtpEmail"  BY <1>2 DEF PedidoOK
<1>8. CodigoAlDia(p)' /\ PorRegistrar(p)' /\ SinUso(p)'
  BY <1>1, <1>2, <1>3, <1>4, <1>5, <1>7 DEF Sola, CodigoAlDia, PorRegistrar, SinUso
<1>9. fallasOtp' = 0 =>
        /\ \A k \in OtpIds : fallidos'[k] = Intentos(k)' + IF v.paso = "falla"
               /\ v.id = k THEN 1 ELSE 0
        /\ \A k \in OtpIds : usos'[k] <= 1
        /\ \A k \in OtpIds : /\ otp'[k] = NoOtp \/ ~otp'[k].usado
                             /\ ~ (v.paso = "marca" /\ v.op = "verifyOtpEmail" /\ v.id = k)
                             => usos'[k] = 0
  <2>1. fallasOtp = 0 =>
          /\ \A k \in OtpIds : fallidos[k] = Intentos(k) + 0
          /\ \A k \in OtpIds : usos[k] <= 1
          /\ \A k \in OtpIds : otp[k] = NoOtp \/ ~otp[k].usado => usos[k] = 0
          /\ SinUso(p)
    BY <1>1, <1>2, <1>4, Separa
  <2>2. fallasOtp = 0 => usos[w.id] = 0  BY <1>1, <1>2, <2>1 DEF SinUso
  <2>3. \A k \in OtpIds : usos'[k] = IF k = w.id THEN usos[k] + 1 ELSE usos[k]
    BY <1>2 DEF TInv, CodigosTypeOK
  <2>4. fallasOtp = 0 => \A k \in OtpIds : usos'[k] <= 1  BY <2>1, <2>2, <2>3
  <2> QED BY <1>2, <1>3, <1>5, <2>1, <2>3, <2>4
<1>10. bajas' = 0 =>
         /\ titular' \in {"nadie", "viva"} /\ perdidos' \subseteq cortados'
         /\ \A k \in OtpIds : Vigente(k, "tel")' /\ otp'[k].registro => titular' = "nadie"
  BY <1>1, <1>4, Separa, <1>2, <1>5
<1> QED BY <1>4, <1>6, <1>8, <1>9, <1>10, Compone

\* The mail is sent, or a call rejects: the request ends, and the tables stay.
LEMMA TerminaSola ==
    ASSUME TInv, Sola, NEW p \in Peticiones, MailService(p) \/ FallaPedido(p)
    PROVE  Sola'
<1>1. PICK w : w = pedido[p]  OBVIOUS
<1>2. /\ w.paso # "idle" /\ Toma(p, SinPedido)
      /\ UNCHANGED <<otp, titular, minuto, bajas, usos, fallidos>>
      /\ perdidos \subseteq cortados => perdidos' \subseteq cortados'
      /\ fallasOtp' = 0 => w.paso = "correo" /\ fallasOtp = 0
  BY <1>1 DEF MailService, FallaPedido, EnPedido, Termina, codigosCuentas, TInv, CodigosTypeOK
<1>3. /\ pedido'[p] = SinPedido
      /\ \A q \in Peticiones \ {p} : pedido[q].paso = "idle" /\ pedido'[q].paso = "idle"
  BY <1>1, <1>2, LosDemas
<1>4. \A i : (\A m : Vigente(i, m)' = Vigente(i, m)) /\ Intentos(i)' = Intentos(i)
  BY <1>2, MismaVigencia
<1>5. Unico'  BY <1>4 DEF Unico, Sola
<1>6. CodigoAlDia(p)' /\ SinUso(p)' /\ PorRegistrar(p)' /\ SinPedido.paso = "idle"
  BY <1>3, SinPedidoOK, OciosoDespues
<1>7. fallasOtp' = 0 =>
        /\ \A k \in OtpIds :
              fallidos'[k] = Intentos(k)' + IF SinPedido.paso = "falla"
                  /\ SinPedido.id = k THEN 1 ELSE 0
        /\ \A k \in OtpIds : usos'[k] <= 1
        /\ \A k \in OtpIds : otp'[k] = NoOtp \/ ~otp'[k].usado => usos'[k] = 0
  BY <1>1, <1>2, <1>3, <1>4, <1>6, Separa
<1>8. bajas' = 0 =>
        /\ titular' \in {"nadie", "viva"} /\ perdidos' \subseteq cortados'
        /\ \A k \in OtpIds : Vigente(k, "tel")' /\ otp'[k].registro => titular' = "nadie"
  BY <1>1, <1>2, <1>3, <1>4, Separa
<1> QED BY <1>3, <1>5, <1>6, <1>7, <1>8, Compone

\* An account is deleted or made anonymous.
LEMMA CuentaSola ==
    ASSUME TInv, Sola,
           \/ \E t \in {"eliminada", "sinFecha"} : EliminarCuenta(t)
           \/ AnonimizarCuentasEliminadas
    PROVE  Sola'
<1>1. /\ UNCHANGED <<otp, pedido, minuto, fallasOtp, usos, fallidos, perdidos, cortados>>
      /\ bajas' # 0
  BY DEF EliminarCuenta, AnonimizarCuentasEliminadas, codigosCuentas, TInv, CodigosTypeOK,
         Sola, Registros
<1>2. \A i : (\A m : Vigente(i, m)' = Vigente(i, m)) /\ Intentos(i)' = Intentos(i)
  BY <1>1, MismaVigencia
<1>3. \A i : EnFallo(i)' = EnFallo(i) /\ PorMarcar(i)' = PorMarcar(i)
  BY <1>1 DEF EnFallo, PorMarcar
<1>4. Una' /\ Unico'  BY <1>1, <1>2 DEF Una, Activo, Unico, Sola
<1>5. \A p \in Peticiones : CodigoAlDia(p)' /\ SinUso(p)' = SinUso(p)
  BY <1>1, <1>2 DEF CodigoAlDia, SinUso, Sola
<1>6. fallasOtp' = 0 => Contados' /\ Servidos'
  BY <1>1, <1>2, <1>3, <1>5 DEF Contados, Servidos, Sola
<1> QED BY <1>1, <1>4, <1>5, <1>6 DEF Sola

\* Time only takes codes out of force.
LEMMA PasaMinutoSola ==
    ASSUME TInv, Sola, PasaMinuto
    PROVE  Sola'
<1>1. /\ UNCHANGED <<otp, titular, pedido, fallasOtp, bajas, usos, fallidos, perdidos, cortados>>
      /\ minuto' = minuto + 1 /\ minuto \in Nat
  BY DEF PasaMinuto, codigosCuentas, TInv, CodigosTypeOK
<1>2. \A i \in OtpIds : /\ \A m : Vigente(i, m)' => Vigente(i, m)
                        /\ Intentos(i)' = Intentos(i)
  <2> SUFFICES ASSUME NEW i \in OtpIds
               PROVE  (\A m : Vigente(i, m)' => Vigente(i, m)) /\ Intentos(i)' = Intentos(i)
    OBVIOUS
  <2>1. ~otp[i].usado => otp[i].vence \in Int  BY NoOtpNoEs DEF TInv, ConIntentos, Otp
  <2> QED BY <1>1, <2>1 DEF Vigente, Intentos
<1>3. \A i : EnFallo(i)' = EnFallo(i) /\ PorMarcar(i)' = PorMarcar(i)
  BY <1>1 DEF EnFallo, PorMarcar
<1>4. Una' /\ Unico'  BY <1>1, <1>2 DEF Una, Activo, Unico, Sola
<1>5. \A p \in Peticiones : CodigoAlDia(p)'
  <2> SUFFICES ASSUME NEW p \in Peticiones PROVE CodigoAlDia(p)'  OBVIOUS
  <2>1. PICK w : w = pedido[p]  OBVIOUS
  <2>2. \A i \in OtpIds : /\ Vigente(i, Medio(w.op))' => Vigente(i, Medio(w.op))
                          /\ Vigente(i, "tel")' => Vigente(i, "tel")
    BY <1>2
  <2>3. CodigoAlDia(p)  BY DEF Sola
  <2> QED BY <1>1, <2>1, <2>2, <2>3 DEF CodigoAlDia
<1>6. \A p : SinUso(p)' = SinUso(p) /\ PorRegistrar(p)' = PorRegistrar(p)
  BY <1>1 DEF SinUso, PorRegistrar
<1>7. fallasOtp' = 0 => Contados' /\ Servidos'
  BY <1>1, <1>2, <1>3, <1>6 DEF Contados, Servidos, Sola
<1>8. bajas' = 0 => Registros'  BY <1>1, <1>2, <1>6 DEF Registros, Sola
<1> QED BY <1>4, <1>5, <1>7, <1>8 DEF Sola

--------------------
(* The theorems.                                                           *)

LEMMA SolaInit == CodigosInit => Sola
<1> SUFFICES ASSUME CodigosInit PROVE Sola  OBVIOUS
<1>1. \A p \in Peticiones : pedido[p].paso = "idle"  BY SinPedidoOK DEF CodigosInit
<1>2. \A p \in Peticiones : CodigoAlDia(p) /\ SinUso(p) /\ PorRegistrar(p)  BY <1>1, Ocioso
<1>3. \A i \in OtpIds : otp[i] = NoOtp /\ usos[i] = 0 /\ fallidos[i] = 0  BY DEF CodigosInit
<1>4. \A i \in OtpIds : \A m : ~Vigente(i, m)  BY <1>3, NoOtpNoEs DEF Vigente
<1>5. Una /\ Unico  BY <1>1, <1>4 DEF Una, Activo, Unico
<1>6. Contados /\ Servidos  BY <1>1, <1>2, <1>3 DEF Contados, Servidos, Intentos, EnFallo
<1>7. Registros  BY <1>2, <1>4 DEF Registros, CodigosInit
<1> QED BY <1>2, <1>5, <1>6, <1>7 DEF Sola

\* Once two requests overlapped nothing more is said.
LEMMA SoloCrece == CodigosNext /\ TInv => (solapoOtp => solapoOtp')
  BY DEF CodigosNext, SendOtp, ValidarOtp, Pide, Invalida, Inserta, MailService, GuardaFallo, Marca,
         BuscaTitular, Crea, BuscaCuenta, Contrasena, FallaPedido, EliminarCuenta, AnonimizarCuentasEliminadas,
         PasaMinuto, codigosCuentas

LEMMA IInvStep == IInv /\ [CodigosNext]_codigosVars => IInv'
<1> SUFFICES ASSUME IInv, [CodigosNext]_codigosVars PROVE IInv'  OBVIOUS
<1>1. TInv /\ TInv'  BY TStep DEF IInv
<1>2. CASE UNCHANGED codigosVars
  BY <1>1, <1>2 DEF codigosVars, IInv, Sola, Una, Activo, Unico, Vigente, CodigoAlDia, Contados,
      Intentos,
                    EnFallo, Servidos, PorMarcar, SinUso, Registros, PorRegistrar
<1>3. CASE CodigosNext /\ ~solapoOtp'
  <2>1. Sola  BY <1>1, <1>3, SoloCrece DEF IInv
  <2> QED BY <1>1, <1>3, <2>1, SendOtpSola, ValidarOtpSola, InvalidaSola, InsertaSola,
          GuardaFalloSola,
             MarcaSola, BuscaTitularSola, CreaSola, BuscaCuentaSola, ContrasenaSola, TerminaSola, CuentaSola,
             PasaMinutoSola DEF CodigosNext, IInv
<1>4. CASE solapoOtp'  BY <1>1, <1>4 DEF IInv
<1> QED BY <1>2, <1>3, <1>4

LEMMA Invariante == CodigosSpec => []IInv
<1>1. CodigosInit => IInv  BY TInit, SolaInit DEF IInv
<1> QED BY <1>1, IInvStep, PTL DEF CodigosSpec

LEMMA EnRegla == IInv => CodigosEnRegla
<1> SUFFICES ASSUME TInv, Sola, ~solapoOtp PROVE CodigosEnRegla
  BY DEF IInv, CodigosEnRegla, UnCodigoVigente, CodigoDeUnUso, RegistroCumplido
<1>1. ASSUME NEW m \in Medios PROVE Cardinality(Vigentes(m)) <= 1
  <2>1. CASE Vigentes(m) = {}  BY <2>1, FS_EmptySet
  <2>2. CASE \E i : i \in Vigentes(m)
    <3>1. PICK i : i \in Vigentes(m)  BY <2>2
    <3>2. Vigentes(m) = {i}  BY <3>1 DEF Vigentes, Sola, Unico
    <3>3. Cardinality({i}) = 1  BY FS_Singleton
    <3> QED BY <3>2, <3>3
  <2> QED BY <2>1, <2>2
<1>2. ASSUME fallasOtp = 0, NEW i \in OtpIds PROVE fallidos[i] <= MaxIntentos
  <2>1. fallidos[i] = Intentos(i) + IF EnFallo(i) THEN 1 ELSE 0  BY <1>2 DEF Sola, Contados
  <2>2. Intentos(i) \in 0 .. MaxIntentos  BY DEF Intentos, TInv, ConIntentos, Otp
  <2>3. EnFallo(i) => Intentos(i) < MaxIntentos
    <3> SUFFICES ASSUME NEW p \in Peticiones, pedido[p].paso = "falla", pedido[p].id = i
                 PROVE  Intentos(i) < MaxIntentos
      BY DEF EnFallo
    <3>1. ~otp[i].usado  BY DEF Sola, CodigoAlDia
    <3> QED BY <3>1, NoOtpNoEs DEF TInv, ConIntentos, Intentos
  <2> QED BY <2>1, <2>2, <2>3
<1>3. fallasOtp = 0 => \A i \in OtpIds : usos[i] <= 1  BY DEF Sola, Servidos
<1>4. bajas = 0 => perdidos \subseteq cortados  BY DEF Sola, Registros
<1> QED BY <1>1, <1>2, <1>3, <1>4 DEF CodigosEnRegla, UnCodigoVigente, CodigoDeUnUso,
        RegistroCumplido

\* The rows of codigos_otp and the requests keep their shape: no row counts more wrong
\* answers than it may, whatever overlaps or fails.
THEOREM CodigosTypes == CodigosSpec => []CodigosTypeOK
<1>1. IInv => CodigosTypeOK  BY DEF IInv, TInv
<1> QED BY <1>1, Invariante, PTL

\* A row in force has attempts left, whatever overlaps: the branch of validarOtp that
\* finds a spent row in force (auth.service.ts:82) is never taken.
THEOREM VigenteConIntentos ==
    CodigosSpec => [](\A i \in OtpIds : ~otp[i].usado => otp[i].intentos < MaxIntentos)
<1>1. IInv => \A i \in OtpIds : ~otp[i].usado => otp[i].intentos < MaxIntentos
  BY NoOtpNoEs DEF IInv, TInv, ConIntentos
<1> QED BY <1>1, Invariante, PTL

\* While no two requests overlapped: a telephone or a mail has one code in force, that
\* code is good for one login, account or password and takes no more wrong answers than it
\* may; and a registration code that is taken gives its account, unless an account was
\* deleted or the call failed between the mark and the insert (auth.service.ts:255-278).
THEOREM CodigosCumplen == CodigosSpec => []CodigosEnRegla
  BY Invariante, EnRegla, PTL

HIDE CodigosAssumption DEF CodigosAssumption
==================================================================================

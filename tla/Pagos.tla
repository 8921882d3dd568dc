--------------------------------- MODULE Pagos ---------------------------------
(***************************************************************************)
(* Payments of a membership with a saved card (src/src/modules/pagos) and  *)
(* the account statement they credit (crearMovimientoEstadoCuenta in       *)
(* src/src/modules/suscripciones).  A request creates a payment and        *)
(* confirms a Stripe PaymentIntent; the webhook, whose deliveries run      *)
(* concurrently, settles the payment.                                      *)
(*                                                                         *)
(* Settling nests two transactions on two connections of one pool: the     *)
(* outer one updates the payment and holds its row until it commits, the   *)
(* inner one appends the movement and commits on its own.  A step is one   *)
(* awaited call; a call that needs a connection waits until one is free,   *)
(* without a time limit.                                                   *)
(***************************************************************************)
EXTENDS Integers, Sequences, FiniteSets

CONSTANTS Pagos,          \* payments
          Suscriptores,   \* subscribers
          Workers,        \* webhook deliveries and admin requests in progress
          NoPago, NoSuscriptor,
          Monto,          \* amount of each payment, in cents
          Entradas,       \* <<cargo, abono>> an administrator may send
          MaxMonto,       \* bound: amount of a movement
          PoolSize,       \* connections of the pool
          MaxManuales,    \* bound: movements sent by an administrator
          MaxRepetidas,   \* bound: deliveries Stripe makes without need
          MaxFaults,      \* bound: failed calls
          MaxCrashes      \* bound: restarts of the process

ASSUME PagosAssumption ==
    /\ NoPago \notin Pagos /\ NoSuscriptor \notin Suscriptores
    /\ MaxMonto \in Nat /\ Monto \in [Pagos -> 1 .. MaxMonto]
    /\ Entradas \subseteq (0 .. MaxMonto) \X (0 .. MaxMonto)
    /\ IsFiniteSet(Workers) /\ PoolSize \in Nat \ {0}
    /\ MaxManuales \in Nat /\ MaxRepetidas \in Nat
    /\ MaxFaults \in Nat /\ MaxCrashes \in Nat

VARIABLES
    pedidos,      \* checkout requests, one per payment
    intents,      \* PaymentIntents as Stripe knows them
    emitted,      \* webhook events Stripe has created
    acked,        \* those it got a 200 for
    pagos,        \* pagos, as committed
    movimientos,  \* estado_cuenta_movimientos, as committed
    activados,    \* payments that renewed or created a subscription
    worker,       \* locals of each delivery
    manuales, repetidas, faults, crashes

vars == <<pedidos, intents, emitted, acked, pagos, movimientos, activados,
          worker, manuales, repetidas, faults, crashes>>
stripeVars == <<intents, emitted>>
bounds == <<manuales, repetidas, faults, crashes>>

Montos == 0 .. MaxMonto
Refs   == Pagos \cup {NoPago}

Cuenta == INSTANCE EstadoCuenta WITH
              Titulares <- Suscriptores, cuenta <- movimientos

--------------------
(* State spaces.                                                           *)

Evento  == [tipo : {"succeeded", "failed"}, pago : Pagos]
Succeeded(p) == [tipo |-> "succeeded", pago |-> p]
Failed(p)    == [tipo |-> "failed", pago |-> p]
NoEvento     == [tipo |-> "none", pago |-> NoPago]

Pago == [estatus : {"none", "pendiente", "pagado", "fallido"},
         suscriptor : Suscriptores \cup {NoSuscriptor},
         referencia : BOOLEAN]      \* referencia_externa is not NULL
NoPagoRow == [estatus |-> "none", suscriptor |-> NoSuscriptor, referencia |-> FALSE]

Movimiento == [ref : Refs, cargo : Montos, abono : Montos, saldo : Int]

PasosWorker == {"idle", "attach", "begin", "update", "connect", "saldo",
                "insert", "commit", "renovar", "markFailed"}
Worker == [paso : PasosWorker, evento : Evento \cup {NoEvento},
           suscriptor : Suscriptores \cup {NoSuscriptor},
           cargo : Montos, abono : Montos, saldo : Int]
Idle == [paso |-> "idle", evento |-> NoEvento, suscriptor |-> NoSuscriptor,
         cargo |-> 0, abono |-> 0, saldo |-> 0]

TypeOK ==
    /\ pedidos \in [Pagos -> {"none", "created", "attach", "done", "dead"}]
    /\ intents \in [Pagos -> {"none", "requires_action", "requires_method",
                              "succeeded", "canceled"}]
    /\ emitted \subseteq Evento /\ acked \subseteq Evento
    /\ pagos \in [Pagos -> Pago]
    /\ movimientos \in [Suscriptores -> Seq(Movimiento)]
    /\ activados \subseteq Pagos
    /\ worker \in [Workers -> Worker]
    /\ manuales \in 0 .. MaxManuales /\ repetidas \in 0 .. MaxRepetidas
    /\ faults \in 0 .. MaxFaults /\ crashes \in 0 .. MaxCrashes

Init ==
    /\ pedidos = [p \in Pagos |-> "none"]
    /\ intents = [p \in Pagos |-> "none"]
    /\ emitted = {} /\ acked = {}
    /\ pagos = [p \in Pagos |-> NoPagoRow]
    /\ movimientos = [s \in Suscriptores |-> <<>>]
    /\ activados = {}
    /\ worker = [m \in Workers |-> Idle]
    /\ manuales = 0 /\ repetidas = 0 /\ faults = 0 /\ crashes = 0

--------------------
(* Connections and locks, as the step of each worker implies them.         *)

At(m, paso) == worker[m].paso = paso
PagoDe(m)   == worker[m].evento.pago
Goes(m, w)  == worker' = [worker EXCEPT ![m] = w]
Step(m, paso) == Goes(m, [worker[m] EXCEPT !.paso = paso])
Fault == faults < MaxFaults /\ faults' = faults + 1

\* A transaction keeps its connection until it is released, and the outer one
\* is released only after the subscription was renewed.
EnTransaccion == {m \in Workers : worker[m].paso \in
                     {"update", "connect", "saldo", "insert", "commit", "renovar"}}
Anidados == {m \in Workers : worker[m].paso \in {"saldo", "insert"} /\ PagoDe(m) # NoPago}
HayConexion == Cardinality(EnTransaccion) + Cardinality(Anidados) < PoolSize

\* The row of a payment, from its UPDATE to the end of the outer transaction.
PagoBloqueado(p) ==
    \E m \in Workers : PagoDe(m) = p /\ worker[m].paso \in {"connect", "saldo", "insert", "commit"}

\* Mutant: the last movement is read without FOR UPDATE.
NadieBloquea(s) == {}

\* Transactions that hold the movements of a subscriber FOR UPDATE.
Bloquean(s) == {m \in Workers : worker[m].suscriptor = s /\ At(m, "insert")}

--------------------
(* createCheckout, and the PaymentIntent at Stripe (external).             *)

\* The membership and the customer were found; the payment is inserted.
CreatePayment(p, s) ==
    /\ pedidos[p] = "none" /\ HayConexion
    /\ pedidos' = [pedidos EXCEPT ![p] = "created"]
    /\ pagos' = [pagos EXCEPT ![p] = [NoPagoRow EXCEPT !.estatus = "pendiente",
                                                       !.suscriptor = s]]
    /\ UNCHANGED <<stripeVars, acked, movimientos, activados, worker, bounds>>

\* Stripe creates the intent and charges, asks for the subscriber's action, or
\* declines, which is an exception.  The answer may be lost.
CreateIntent(p) ==
    /\ pedidos[p] = "created"
    /\ \/ /\ intents' = [intents EXCEPT ![p] = "succeeded"]
          /\ emitted' = emitted \cup {Succeeded(p)}
          /\ \/ pedidos' = [pedidos EXCEPT ![p] = "attach"] /\ UNCHANGED faults
             \/ pedidos' = [pedidos EXCEPT ![p] = "dead"] /\ Fault
       \/ /\ intents' = [intents EXCEPT ![p] = "requires_action"]
          /\ pedidos' = [pedidos EXCEPT ![p] = "attach"]
          /\ UNCHANGED <<emitted, faults>>
       \/ /\ intents' = [intents EXCEPT ![p] = "canceled"]
          /\ emitted' = emitted \cup {Failed(p)}
          /\ pedidos' = [pedidos EXCEPT ![p] = "dead"]
          /\ UNCHANGED faults
    /\ UNCHANGED <<acked, pagos, movimientos, activados, worker, manuales, repetidas, crashes>>

AttachReference(p) ==
    /\ pedidos[p] = "attach" /\ HayConexion /\ ~PagoBloqueado(p)
    /\ pagos' = [pagos EXCEPT ![p].referencia = TRUE]
    /\ pedidos' = [pedidos EXCEPT ![p] = "done"]
    /\ UNCHANGED <<stripeVars, acked, movimientos, activados, worker, bounds>>

\* A call fails: the subscriber gets an error, the payment stays.
CheckoutFails(p) ==
    /\ pedidos[p] \in {"created", "attach"} /\ Fault
    /\ pedidos' = [pedidos EXCEPT ![p] = "dead"]
    /\ UNCHANGED <<stripeVars, acked, pagos, movimientos, activados, worker,
                   manuales, repetidas, crashes>>

\* The subscriber acts on the intent, once or, after a failure, again.
Confirm(p) ==
    /\ pedidos[p] = "done"
    /\ \/ /\ intents[p] \in {"requires_action", "requires_method"}
          /\ intents' = [intents EXCEPT ![p] = "succeeded"]
          /\ emitted' = emitted \cup {Succeeded(p)}
       \/ /\ intents[p] = "requires_action"
          /\ intents' = [intents EXCEPT ![p] = "requires_method"]
          /\ emitted' = emitted \cup {Failed(p)}
    /\ UNCHANGED <<pedidos, acked, pagos, movimientos, activados, worker, bounds>>

Checkout(p) == \/ \E s \in Suscriptores : CreatePayment(p, s)
               \/ CreateIntent(p) \/ AttachReference(p) \/ CheckoutFails(p)

--------------------
(* stripeWebhook.  Stripe sends an event until it gets a 200, and now and  *)
(* then once more; nothing records which events were seen.                 *)

EnCurso(e) == \E m \in Workers : worker[m].evento = e

Recibe(m, e) ==
    /\ At(m, "idle") /\ e \in emitted
    /\ \/ e \notin acked /\ ~EnCurso(e) /\ UNCHANGED repetidas
       \/ repetidas < MaxRepetidas /\ repetidas' = repetidas + 1
    /\ Goes(m, [Idle EXCEPT !.evento = e,
                    !.paso = IF e.tipo = "succeeded" THEN "attach" ELSE "markFailed"])
    /\ UNCHANGED <<pedidos, stripeVars, acked, pagos, movimientos, activados,
                   manuales, faults, crashes>>

\* The delivery ends with a 200, or with a 400 after rolling back.
Responde200(m) == acked' = acked \cup {worker[m].evento} /\ Goes(m, Idle)

\* Mutant: errors are answered with a 200 too.
Responde400ComoExito(m) == acked' = acked \cup ({worker[m].evento} \ {NoEvento}) /\ Goes(m, Idle)

Responde400(m) == UNCHANGED acked /\ Goes(m, Idle)

\* Any call of the webhook or of an administrator's request fails.
Falla(m) ==
    /\ worker[m].paso \notin {"idle", "renovar"} /\ Fault
    /\ Responde400(m)
    /\ UNCHANGED <<pedidos, stripeVars, pagos, movimientos, activados, manuales,
                   repetidas, crashes>>

AttachExternalReferenceIfMissing(m) ==
    /\ At(m, "attach") /\ HayConexion /\ ~PagoBloqueado(PagoDe(m))
    /\ pagos' = [pagos EXCEPT ![PagoDe(m)].referencia = TRUE]
    /\ Step(m, "begin")
    /\ UNCHANGED <<pedidos, stripeVars, acked, movimientos, activados, bounds>>

MarkAsFailed(m) ==
    /\ At(m, "markFailed") /\ HayConexion /\ ~PagoBloqueado(PagoDe(m))
    /\ pagos' = [pagos EXCEPT ![PagoDe(m)].estatus = "fallido",
                              ![PagoDe(m)].referencia = TRUE]
    /\ Responde200(m)
    /\ UNCHANGED <<pedidos, stripeVars, movimientos, activados, bounds>>

--------------------
(* markAsPaid                                                              *)

\* Mutant: pesos taken for cents.
CentavosDosVeces(p) == Monto[p] * 100
Centavos(p) == Monto[p]

\* The outer transaction begins and reads the payment, without a lock.
BeginMarkAsPaid(m) ==
    /\ At(m, "begin") /\ HayConexion
    /\ IF pagos[PagoDe(m)].estatus = "pagado"
       THEN Responde200(m)
       ELSE /\ Goes(m, [worker[m] EXCEPT !.paso = "update",
                            !.suscriptor = pagos[PagoDe(m)].suscriptor,
                            !.abono = Centavos(PagoDe(m))])
            /\ UNCHANGED acked
    /\ UNCHANGED <<pedidos, stripeVars, pagos, movimientos, activados, bounds>>

\* Mutant: the update is not part of the transaction.
UpdatePagoFueraDeTransaccion(m) ==
    /\ At(m, "update") /\ ~PagoBloqueado(PagoDe(m))
    /\ pagos' = [pagos EXCEPT ![PagoDe(m)].estatus = "pagado"]
    /\ Step(m, "connect")
    /\ UNCHANGED <<pedidos, stripeVars, acked, movimientos, activados, bounds>>

\* The row is updated and stays locked; nobody else sees it yet.
UpdatePago(m) ==
    /\ At(m, "update") /\ ~PagoBloqueado(PagoDe(m))
    /\ Step(m, "connect")
    /\ UNCHANGED <<pedidos, stripeVars, acked, pagos, movimientos, activados, bounds>>

\* After the movement is committed, the outer transaction commits.
CommitPago(m) ==
    /\ At(m, "commit")
    /\ pagos' = [pagos EXCEPT ![PagoDe(m)].estatus = "pagado",
                              ![PagoDe(m)].referencia = TRUE]
    /\ Step(m, "renovar")
    /\ UNCHANGED <<pedidos, stripeVars, acked, movimientos, activados, bounds>>

\* renovarOCrearSuscripcion, whose failure is only logged.
RenovarOCrear(m) ==
    /\ At(m, "renovar")
    /\ \/ HayConexion /\ activados' = activados \cup {PagoDe(m)} /\ UNCHANGED faults
       \/ Fault /\ UNCHANGED activados
    /\ Responde200(m)
    /\ UNCHANGED <<pedidos, stripeVars, pagos, movimientos, manuales, repetidas, crashes>>

--------------------
(* crearMovimientoEstadoCuenta, in a transaction of its own.               *)

\* Nested in markAsPaid: a second connection.
ConectaMovimiento(m) ==
    /\ At(m, "connect") /\ HayConexion
    /\ Step(m, "saldo")
    /\ UNCHANGED <<pedidos, stripeVars, acked, pagos, movimientos, activados, bounds>>

\* Called by an administrator: either a charge or a credit.
CrearMovimiento(m, s, cargo, abono) ==
    /\ At(m, "idle") /\ HayConexion
    /\ manuales < MaxManuales /\ manuales' = manuales + 1
    /\ (cargo > 0) # (abono > 0)
    /\ Goes(m, [Idle EXCEPT !.paso = "saldo", !.suscriptor = s,
                            !.cargo = cargo, !.abono = abono])
    /\ UNCHANGED <<pedidos, stripeVars, acked, pagos, movimientos, activados,
                   repetidas, faults, crashes>>

\* The last movement is read FOR UPDATE.  With no row to lock InnoDB locks the
\* gap, which two transactions may hold at once.
LeeSaldo(m) ==
    /\ At(m, "saldo")
    /\ Bloquean(worker[m].suscriptor) = {} \/ movimientos[worker[m].suscriptor] = <<>>
    /\ Goes(m, [worker[m] EXCEPT !.paso = "insert",
                    !.saldo = Cuenta!Saldo(movimientos[worker[m].suscriptor])])
    /\ UNCHANGED <<pedidos, stripeVars, acked, pagos, movimientos, activados, bounds>>

\* The insert waits for every other lock on the gap; then it is committed.
RegistraMovimiento(m) ==
    LET w == worker[m] IN
    /\ At(m, "insert") /\ Bloquean(w.suscriptor) \subseteq {m}
    /\ movimientos' = [movimientos EXCEPT ![w.suscriptor] =
           Append(@, [ref |-> PagoDe(m), cargo |-> w.cargo, abono |-> w.abono,
                      saldo |-> w.saldo - w.cargo + w.abono])]
    /\ IF PagoDe(m) = NoPago THEN Goes(m, Idle) ELSE Step(m, "commit")
    /\ UNCHANGED <<pedidos, stripeVars, acked, pagos, activados, bounds>>

\* Two inserts wait for each other's gap lock: MySQL rolls one back.
Interbloqueo(m) ==
    /\ At(m, "insert") /\ ~(Bloquean(worker[m].suscriptor) \subseteq {m})
    /\ Responde400(m)
    /\ UNCHANGED <<pedidos, stripeVars, pagos, movimientos, activados, bounds>>

--------------------
\* The process dies: open transactions are rolled back, requests are lost.
Crash ==
    /\ crashes < MaxCrashes /\ crashes' = crashes + 1
    /\ pedidos' = [p \in Pagos |-> IF pedidos[p] \in {"created", "attach"}
                                   THEN "dead" ELSE pedidos[p]]
    /\ worker' = [m \in Workers |-> Idle]
    /\ UNCHANGED <<stripeVars, acked, pagos, movimientos, activados,
                   manuales, repetidas, faults>>

MarkAsPaid(m) == \/ AttachExternalReferenceIfMissing(m) \/ BeginMarkAsPaid(m)
                 \/ UpdatePago(m) \/ ConectaMovimiento(m) \/ CommitPago(m)
                 \/ RenovarOCrear(m)

Advance(m) == \/ MarkAsPaid(m) \/ MarkAsFailed(m)
              \/ LeeSaldo(m) \/ RegistraMovimiento(m) \/ Interbloqueo(m)

Next ==
    \/ \E p \in Pagos : Checkout(p) \/ Confirm(p)
    \/ \E m \in Workers : Advance(m) \/ Falla(m)
    \/ \E m \in Workers, e \in Evento : Recibe(m, e)
    \/ \E m \in Workers, s \in Suscriptores, en \in Entradas :
          CrearMovimiento(m, s, en[1], en[2])
    \/ Crash

Spec == Init /\ [][Next]_vars

\* Node runs what it can run, MySQL grants what is free, and Stripe sends an
\* event again until it gets a 200.
Fairness ==
    /\ \A m \in Workers : WF_vars(Advance(m))
    /\ \A e \in Evento : WF_vars(e \notin acked /\ \E m \in Workers : Recibe(m, e))

LiveSpec == Spec /\ Fairness

--------------------
(* Correctness.                                                            *)

Existe(p) == pagos[p].estatus # "none"

\* The credits of a payment in the account of its subscriber.
AbonosDe(p) ==
    LET movs == movimientos[pagos[p].suscriptor] IN
    IF Existe(p) THEN {i \in DOMAIN movs : movs[i].ref = p /\ movs[i].abono = Monto[p]}
                 ELSE {}

(* The account of each subscriber implements EstadoCuenta: concurrent      *)
(* payments and administrators, failures, deadlock victims and restarts    *)
(* never append a movement whose balance ignores an earlier one.           *)
EstadoCuentaPromise == Cuenta!CuentaSpec

(* A payment stands as paid, or has renewed a subscription, only if its    *)
(* amount was credited to its subscriber, although the update and the      *)
(* movement are two transactions.                                          *)
PagadoTieneAbono ==
    \A p \in Pagos : pagos[p].estatus = "pagado" \/ p \in activados => AbonosDe(p) # {}

(* Money that Stripe has taken is credited in the end, as long as Stripe   *)
(* repeats what was not answered with 200 and the pool has a connection    *)
(* more than deliveries settle at once.                                    *)
CobroLlega == \A p \in Pagos : intents[p] = "succeeded" ~> AbonosDe(p) # {}

--------------------
(* Statements of the repository that the code does not keep.               *)

(* pagos.service.ts:267-268, "idempotente: si ya estaba pagado, no duplica *)
(* abono (se bloquea por transaccion + verificacion)".                     *)
AbonoUnaVez == \A p \in Pagos : Cardinality(AbonosDe(p)) <= 1

(* app.module.ts:235, "tiempo maximo esperando una conexion libre del      *)
(* pool": who waits for a second connection gets it, or an error.          *)
EsperaTermina == \A m \in Workers : At(m, "connect") ~> ~At(m, "connect")
=============================================================================

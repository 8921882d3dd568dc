------------------------------- MODULE Billing -------------------------------
(***************************************************************************)
(* The billing module (src/src/modules/billing): a subscriber opens a      *)
(* Stripe Checkout Session for one of the businesses, or for one that does *)
(* not exist yet; Stripe charges it and keeps charging it every period;    *)
(* the webhook, whose deliveries run concurrently, keeps one row of        *)
(* billing_subscriptions per subscription in step with Stripe.             *)
(*                                                                         *)
(* Every step of a request or of a delivery is one awaited call, to MySQL  *)
(* or to Stripe: between two of them any other request may run.  Stripe    *)
(* itself is external.  A Checkout Session and the subscription and the    *)
(* customer it gives rise to share one name.  A date is the number of paid *)
(* periods it stands for, 0 is NULL.                                       *)
(***************************************************************************)
EXTENDS Naturals

CONSTANTS Sessions,      \* Checkout Sessions, and their subscriptions
          Suscriptores,  \* subscribers
          Membresias,    \* memberships with a price and a stripePriceId
          Negocios,      \* ids a business can have
          Workers,       \* webhook deliveries in progress at once
          NoSession, NoSuscriptor, NoMembresia, NoNegocio, NoEvent,
          DuenoInicial,  \* owner of each business that exists at the start
          Ofertas,       \* what a request asks for: <<business, data for a new one>>
          Tipos,         \* event types the endpoint is subscribed to
          MaxRows,       \* bound: rows of billing_subscriptions
          MaxPeriod,     \* bound: periods of a subscription
          MaxFaults,     \* bound: failed calls to MySQL or Stripe
          MaxCrashes     \* bound: restarts of the process

TiposEvento == {"checkout.session.completed", "invoice.paid",
                "invoice.payment_succeeded", "invoice.payment_failed",
                "customer.subscription.updated", "customer.subscription.deleted"}

ASSUME BillingAssumption ==
    /\ NoSession \notin Sessions /\ NoSuscriptor \notin Suscriptores
    /\ NoMembresia \notin Membresias /\ NoNegocio \notin Negocios
    /\ DuenoInicial \in [Negocios -> Suscriptores \cup {NoSuscriptor}]
    /\ Ofertas \subseteq (Negocios \cup {NoNegocio}) \X {"valid", "cut", "none"}
    /\ Tipos \subseteq TiposEvento
    /\ MaxRows \in Nat /\ MaxPeriod \in Nat /\ MaxFaults \in Nat /\ MaxCrashes \in Nat

VARIABLES
    pedidos,      \* checkout requests: what was asked and how far it got
    customer,     \* suscriptor.stripeCustomerId
    subs,         \* the subscriptions as Stripe knows them
    emitted,      \* webhook events Stripe has created
    acked,        \* those it got a 200 for
    eventLog,     \* stripe_processed_events: key |-> status
    rows,         \* billing_subscriptions
    negocios,     \* businesses: owner, and the session that created each
    cfdi,         \* invoices requested from the accounting team, per payment
    worker,       \* locals of each webhook delivery
    faults, crashes

vars == <<pedidos, customer, subs, emitted, acked, eventLog, rows, negocios,
          cfdi, worker, faults, crashes>>
stripeVars == <<subs, emitted>>
dbVars == <<customer, eventLog, rows, negocios>>

RowIds   == 1 .. MaxRows
Period   == 0 .. MaxPeriod
Estatus  == {"activo", "pago_pendiente", "vencido"}

--------------------
(* Stripe's events.  A subscription has one invoice per period, so type,   *)
(* subscription, period and status identify an event.                      *)

Ev(tipo, s, p, st) == [tipo |-> tipo, sub |-> s, periodo |-> p, status |-> st]

Completed(s)      == Ev("checkout.session.completed", s, 1, "active")
Paid(s, p)        == Ev("invoice.paid", s, p, "active")
Succeeded(s, p)   == Ev("invoice.payment_succeeded", s, p, "active")
Failed(s, p)      == Ev("invoice.payment_failed", s, p, "past_due")
Updated(s, p, st) == Ev("customer.subscription.updated", s, p, st)
Deleted(s, p)     == Ev("customer.subscription.deleted", s, p, "canceled")

\* The key `invoice:<id>`, shared by the two events of one charge.
Marker(s, p)  == Ev("invoice.paid.dedupe", s, p, "active")
InvoiceKey(e) == Marker(e.sub, e.periodo)

EventsOf(s) ==
    {Completed(s)} \cup
    UNION {{Paid(s, p), Succeeded(s, p), Failed(s, p), Updated(s, p, "active"),
            Updated(s, p, "past_due"), Deleted(s, p)} : p \in 1 .. MaxPeriod}
Events      == UNION {EventsOf(s) : s \in Sessions}
InvoiceKeys == {Marker(s, p) : s \in Sessions, p \in 1 .. MaxPeriod}
LogKeys     == Events \cup InvoiceKeys

\* A CFDI is due for a completed checkout and for a paid invoice.
CfdiKeys == InvoiceKeys \cup {Completed(s) : s \in Sessions}
MaxCfdi  == 2     \* bound: the count saturates

Emit(es) == emitted' = emitted \cup {e \in es : e.tipo \in Tipos}

--------------------
(* State spaces.                                                           *)

PasosPedido == {"none", "cancel", "customer", "saveCustomer", "create",
                "open", "paid", "dead"}
Pedido == [paso : PasosPedido, suscriptor : Suscriptores \cup {NoSuscriptor},
           membresia : Membresias \cup {NoMembresia},
           negocio : Negocios \cup {NoNegocio},     \* NoNegocio: id 0
           datos : {"valid", "cut", "none"},        \* metadata.negocio_data
           previa : Sessions \cup {NoSession},      \* subscription to cancel
           customer : Sessions \cup {NoSession}]
NoPedido == [paso |-> "none", suscriptor |-> NoSuscriptor,
             membresia |-> NoMembresia, negocio |-> NoNegocio,
             datos |-> "none", previa |-> NoSession, customer |-> NoSession]

Row == [estatus : Estatus \cup {"free"}, sub : Sessions \cup {NoSession},
        negocio : Negocios \cup {NoNegocio},
        suscriptor : Suscriptores \cup {NoSuscriptor},
        membresia : Membresias \cup {NoMembresia}, vigencia : Period]
NoRow == [estatus |-> "free", sub |-> NoSession, negocio |-> NoNegocio,
          suscriptor |-> NoSuscriptor, membresia |-> NoMembresia, vigencia |-> 0]

Negocio == [dueno : Suscriptores \cup {NoSuscriptor}, origen : Sessions \cup {NoSession}]

PasosWorker == {"idle", "createNegocio", "retrieveSub", "findRow", "upsert",
                "mark", "retrieveInvoiceSub", "findBySub", "extend",
                "paymentFailed", "updated", "deleted", "register"}
Worker == [paso : PasosWorker, event : Events \cup {NoEvent},
           negocio : Negocios \cup {NoNegocio}, row : 0 .. MaxRows,
           vigencia : Period, error : BOOLEAN]
Idle == [paso |-> "idle", event |-> NoEvent, negocio |-> NoNegocio,
         row |-> 0, vigencia |-> 0, error |-> FALSE]

TypeOK ==
    /\ pedidos \in [Sessions -> Pedido]
    /\ customer \in [Suscriptores -> Sessions \cup {NoSession}]
    /\ subs \in [Sessions -> [estado : {"none", "active", "past_due", "canceled"},
                              periodo : Period]]
    /\ emitted \subseteq Events /\ acked \subseteq Events
    /\ eventLog \in [LogKeys -> {"none", "success", "error"}]
    /\ rows \in [RowIds -> Row]
    /\ negocios \in [Negocios -> Negocio]
    /\ cfdi \in [CfdiKeys -> 0 .. MaxCfdi]
    /\ worker \in [Workers -> Worker]
    /\ faults \in 0 .. MaxFaults /\ crashes \in 0 .. MaxCrashes

Init ==
    /\ pedidos = [c \in Sessions |-> NoPedido]
    /\ customer = [s \in Suscriptores |-> NoSession]
    /\ subs = [c \in Sessions |-> [estado |-> "none", periodo |-> 0]]
    /\ emitted = {} /\ acked = {}
    /\ eventLog = [k \in LogKeys |-> "none"]
    /\ rows = [r \in RowIds |-> NoRow]
    /\ negocios = [n \in Negocios |-> [dueno |-> DuenoInicial[n], origen |-> NoSession]]
    /\ cfdi = [k \in CfdiKeys |-> 0]
    /\ worker = [m \in Workers |-> Idle]
    /\ faults = 0 /\ crashes = 0

Exists(r) == rows[r].estatus # "free"
RowsOf(n) == {r \in RowIds : Exists(r) /\ rows[r].negocio = n}
RowsOfSub(s) == {r \in RowIds : Exists(r) /\ rows[r].sub = s}

--------------------
(* Stripe, external: charges, renewals, failures, cancellations.           *)

Fault == faults < MaxFaults /\ faults' = faults + 1

EndSub(s) ==
    /\ subs[s].estado \in {"active", "past_due"}
    /\ subs' = [subs EXCEPT ![s].estado = "canceled"]
    /\ Emit({Deleted(s, subs[s].periodo)})

\* The subscriber pays on Stripe's page.
Pay(c) ==
    /\ pedidos[c].paso = "open"
    /\ MaxPeriod >= 1
    /\ pedidos' = [pedidos EXCEPT ![c].paso = "paid"]
    /\ subs' = [subs EXCEPT ![c] = [estado |-> "active", periodo |-> 1]]
    /\ Emit({Completed(c), Paid(c, 1), Succeeded(c, 1)})
    /\ UNCHANGED <<dbVars, acked, cfdi, worker, faults, crashes>>

\* A new period begins and its charge goes through.
Renew(c) ==
    LET p == subs[c].periodo + 1 IN
    /\ subs[c].estado = "active" /\ p <= MaxPeriod
    /\ subs' = [subs EXCEPT ![c].periodo = p]
    /\ Emit({Paid(c, p), Succeeded(c, p), Updated(c, p, "active")})
    /\ UNCHANGED <<pedidos, dbVars, acked, cfdi, worker, faults, crashes>>

\* A new period begins and its charge fails.
ChargeFails(c) ==
    LET p == subs[c].periodo + 1 IN
    /\ subs[c].estado = "active" /\ p <= MaxPeriod
    /\ subs' = [subs EXCEPT ![c] = [estado |-> "past_due", periodo |-> p]]
    /\ Emit({Failed(c, p), Updated(c, p, "past_due")})
    /\ UNCHANGED <<pedidos, dbVars, acked, cfdi, worker, faults, crashes>>

\* A retry of the failed charge goes through.
Recover(c) ==
    LET p == subs[c].periodo IN
    /\ subs[c].estado = "past_due"
    /\ subs' = [subs EXCEPT ![c].estado = "active"]
    /\ Emit({Paid(c, p), Succeeded(c, p), Updated(c, p, "active")})
    /\ UNCHANGED <<pedidos, dbVars, acked, cfdi, worker, faults, crashes>>

\* The subscription ends: the subscriber asks for it or the retries run out.
Cancel(c) == /\ EndSub(c)
             /\ UNCHANGED <<pedidos, dbVars, acked, cfdi, worker, faults, crashes>>

Stripe(c) == Pay(c) \/ Renew(c) \/ ChargeFails(c) \/ Recover(c) \/ Cancel(c)

--------------------
(* createCheckoutSession                                                   *)

PedidoAt(c, paso) == pedidos[c].paso = paso
PedidoGoes(c, paso) == pedidos' = [pedidos EXCEPT ![c].paso = paso]

\* Mutant: the owner of the business is not checked.
CreateCheckoutSessionForAnyone(c, s, mb, n, d) ==
    /\ PedidoAt(c, "none")
    /\ n # NoNegocio => d = "none"
    /\ pedidos' = [pedidos EXCEPT ![c] =
           [NoPedido EXCEPT !.paso = "customer", !.suscriptor = s, !.membresia = mb,
                            !.negocio = n, !.datos = d]]
    /\ UNCHANGED <<dbVars, stripeVars, acked, cfdi, worker, faults, crashes>>

\* The request is validated, the owner checked, and the active row of the
\* business read.  With a business id the data for a new one are ignored.
CreateCheckoutSession(c, s, mb, n, d) ==
    /\ PedidoAt(c, "none")
    /\ n # NoNegocio => negocios[n].dueno = s /\ d = "none"
    /\ LET activas == {rows[r].sub : r \in {x \in RowsOf(n) : rows[x].estatus = "activo"}}
                         \ {NoSession}
           pedido(paso, previa) ==
               [NoPedido EXCEPT !.paso = paso, !.suscriptor = s, !.membresia = mb,
                                !.negocio = n, !.datos = d, !.previa = previa]
       IN  \/ /\ activas = {}
              /\ pedidos' = [pedidos EXCEPT ![c] = pedido("customer", NoSession)]
           \/ \E previa \in activas :
                 pedidos' = [pedidos EXCEPT ![c] = pedido("cancel", previa)]
    /\ UNCHANGED <<dbVars, stripeVars, acked, cfdi, worker, faults, crashes>>

\* The subscription in force is cancelled before the new one is paid.
CancelExisting(c) ==
    /\ PedidoAt(c, "cancel")
    /\ EndSub(pedidos[c].previa)
    /\ PedidoGoes(c, "customer")
    /\ UNCHANGED <<dbVars, acked, cfdi, worker, faults, crashes>>

\* Stripe refuses, because it has ended already or because the call fails:
\* the exception is logged and the request goes on.
CancelExistingFails(c) ==
    /\ PedidoAt(c, "cancel")
    /\ \/ subs[pedidos[c].previa].estado = "canceled" /\ UNCHANGED faults
       \/ Fault
    /\ PedidoGoes(c, "customer")
    /\ UNCHANGED <<dbVars, stripeVars, acked, cfdi, worker, crashes>>

\* ensureStripeCustomer: reads the subscriber; without a customer it creates
\* one at Stripe, known to nobody else until it is saved.
EnsureStripeCustomer(c) ==
    /\ PedidoAt(c, "customer")
    /\ LET known == customer[pedidos[c].suscriptor]
       IN  pedidos' = [pedidos EXCEPT
              ![c].paso = IF known = NoSession THEN "saveCustomer" ELSE "create",
              ![c].customer = IF known = NoSession THEN c ELSE known]
    /\ UNCHANGED <<dbVars, stripeVars, acked, cfdi, worker, faults, crashes>>

SaveStripeCustomer(c) ==
    /\ PedidoAt(c, "saveCustomer")
    /\ customer' = [customer EXCEPT ![pedidos[c].suscriptor] = c]
    /\ PedidoGoes(c, "create")
    /\ UNCHANGED <<eventLog, rows, negocios, stripeVars, acked, cfdi, worker, faults, crashes>>

OpenSession(c) ==
    /\ PedidoAt(c, "create")
    /\ PedidoGoes(c, "open")
    /\ UNCHANGED <<dbVars, stripeVars, acked, cfdi, worker, faults, crashes>>

\* A call fails and the request answers with the error.
CheckoutFails(c) ==
    /\ pedidos[c].paso \in {"customer", "saveCustomer", "create"}
    /\ Fault
    /\ PedidoGoes(c, "dead")
    /\ UNCHANGED <<dbVars, stripeVars, acked, cfdi, worker, crashes>>

Checkout(c) ==
    \/ \E s \in Suscriptores, mb \in Membresias, o \in Ofertas :
          CreateCheckoutSession(c, s, mb, o[1], o[2])
    \/ CancelExisting(c) \/ CancelExistingFails(c)
    \/ EnsureStripeCustomer(c) \/ SaveStripeCustomer(c)
    \/ OpenSession(c) \/ CheckoutFails(c)

--------------------
(* handleWebhookEvent                                                      *)

At(m, paso) == worker[m].paso = paso
Event(m) == worker[m].event
Goes(m, w) == worker' = [worker EXCEPT ![m] = w]
Step(m, paso) == Goes(m, [worker[m] EXCEPT !.paso = paso])

\* The handler returns (err = FALSE) or throws; the outcome is saved next.
Outcome(m, err) == [Idle EXCEPT !.paso = "register", !.event = Event(m), !.error = err]
Finish(m) == Goes(m, Outcome(m, FALSE))
Throw(m)  == Goes(m, Outcome(m, TRUE))

FirstStep(e) ==
    LET p == pedidos[e.sub] IN
    CASE e.tipo = "checkout.session.completed" ->
            IF p.negocio # NoNegocio THEN "retrieveSub"
            ELSE IF p.datos # "none" THEN "createNegocio" ELSE "register"
      [] e.tipo \in {"invoice.paid", "invoice.payment_succeeded"} -> "mark"
      [] e.tipo = "invoice.payment_failed" -> "paymentFailed"
      [] e.tipo = "customer.subscription.updated" -> "updated"
      [] e.tipo = "customer.subscription.deleted" -> "deleted"

\* A delivery arrives and the log is read: a known event gets its 200.
Known(m, e) ==
    /\ At(m, "idle") /\ eventLog[e] # "none"
    /\ acked' = acked \cup {e}
    /\ UNCHANGED <<pedidos, stripeVars, dbVars, cfdi, worker, faults, crashes>>

\* Mutant: the id is logged before the event is processed.
HandleWebhookEventLogFirst(m, e) ==
    /\ At(m, "idle") /\ eventLog[e] = "none"
    /\ eventLog' = [eventLog EXCEPT ![e] = "success"]
    /\ Goes(m, [Idle EXCEPT !.paso = FirstStep(e), !.event = e,
                            !.negocio = IF FirstStep(e) = "retrieveSub"
                                        THEN pedidos[e.sub].negocio ELSE NoNegocio])
    /\ UNCHANGED <<pedidos, stripeVars, customer, rows, negocios, acked, cfdi, faults, crashes>>

HandleWebhookEvent(m, e) ==
    /\ At(m, "idle") /\ eventLog[e] = "none"
    /\ Goes(m, [Idle EXCEPT !.paso = FirstStep(e), !.event = e,
                            !.negocio = IF FirstStep(e) = "retrieveSub"
                                        THEN pedidos[e.sub].negocio ELSE NoNegocio])
    /\ UNCHANGED <<pedidos, stripeVars, dbVars, acked, cfdi, faults, crashes>>

\* Reading the log fails outside the try: the controller answers 200.
LogReadFails(m, e) ==
    /\ At(m, "idle") /\ Fault
    /\ acked' = acked \cup {e}
    /\ UNCHANGED <<pedidos, stripeVars, dbVars, cfdi, worker, crashes>>

\* The outcome is saved under the event's id, and the answer is 200 even when
\* the UNIQUE index refuses the row because a twin delivery saved its own.
Register(m) ==
    /\ At(m, "register")
    /\ eventLog' = [eventLog EXCEPT ![Event(m)] =
           IF @ = "none" THEN IF worker[m].error THEN "error" ELSE "success" ELSE @]
    /\ acked' = acked \cup {Event(m)}
    /\ Goes(m, Idle)
    /\ UNCHANGED <<pedidos, stripeVars, customer, rows, negocios, cfdi, faults, crashes>>

RegisterFails(m) ==
    /\ At(m, "register") /\ Fault
    /\ acked' = acked \cup {Event(m)}
    /\ Goes(m, Idle)
    /\ UNCHANGED <<pedidos, stripeVars, dbVars, cfdi, crashes>>

\* Any call of a handler that is not inside a try of its own fails.
HandlerFails(m) ==
    /\ worker[m].paso \in {"createNegocio", "findRow", "upsert", "retrieveInvoiceSub",
                           "findBySub", "extend", "paymentFailed", "updated", "deleted"}
    /\ Fault
    /\ Throw(m)
    /\ UNCHANGED <<pedidos, stripeVars, dbVars, acked, cfdi, crashes>>

TriggerCfdi(k) == cfdi' = [cfdi EXCEPT ![k] = IF @ < MaxCfdi THEN @ + 1 ELSE @]

--------------------
(* onCheckoutSessionCompleted                                              *)

FreeNegocios == {n \in Negocios : negocios[n].dueno = NoSuscriptor}

\* JSON.parse of the data kept in the metadata, cut at 490 characters.
CreateNegocio(m) ==
    LET c == Event(m).sub
        n == CHOOSE x \in FreeNegocios : TRUE     \* ids are opaque: any new one
    IN
    /\ At(m, "createNegocio") /\ pedidos[c].datos = "valid"
    /\ FreeNegocios # {}
    /\ negocios' = [negocios EXCEPT ![n] = [dueno |-> pedidos[c].suscriptor, origen |-> c]]
    /\ Goes(m, [worker[m] EXCEPT !.paso = "retrieveSub", !.negocio = n])
    /\ UNCHANGED <<pedidos, stripeVars, customer, eventLog, rows, acked, cfdi, faults, crashes>>

\* Mutant: the parse error is swallowed.
NegocioDataIgnored(m) ==
    /\ At(m, "createNegocio") /\ pedidos[Event(m).sub].datos = "cut"
    /\ Finish(m)
    /\ UNCHANGED <<pedidos, stripeVars, dbVars, acked, cfdi, faults, crashes>>

NegocioDataUnreadable(m) ==
    /\ At(m, "createNegocio") /\ pedidos[Event(m).sub].datos = "cut"
    /\ Throw(m)
    /\ UNCHANGED <<pedidos, stripeVars, dbVars, acked, cfdi, faults, crashes>>

RetrieveSub(m) ==
    /\ At(m, "retrieveSub")
    /\ Goes(m, [worker[m] EXCEPT !.paso = "findRow",
                                 !.vigencia = subs[Event(m).sub].periodo])
    /\ UNCHANGED <<pedidos, stripeVars, dbVars, acked, cfdi, faults, crashes>>

\* The lookup fails and is ignored: the end of the period stays unknown.
RetrieveSubFails(m) ==
    /\ At(m, "retrieveSub") /\ Fault
    /\ Step(m, "findRow")
    /\ UNCHANGED <<pedidos, stripeVars, dbVars, acked, cfdi, crashes>>

\* upsertBillingSubscription reads a row of the business, any of them ...
FindRow(m) ==
    LET found == RowsOf(worker[m].negocio) IN
    /\ At(m, "findRow")
    /\ \E r \in IF found = {} THEN {0} ELSE found :
          Goes(m, [worker[m] EXCEPT !.paso = "upsert", !.row = r])
    /\ UNCHANGED <<pedidos, stripeVars, dbVars, acked, cfdi, faults, crashes>>

\* Mutant: an updated row keeps its status.
UpsertedRowSameEstatus(m, r) ==
    LET c == Event(m).sub IN
    [estatus |-> IF worker[m].row = 0 THEN "activo" ELSE rows[r].estatus,
     sub |-> c, negocio |-> worker[m].negocio,
     suscriptor |-> pedidos[c].suscriptor, membresia |-> pedidos[c].membresia,
     vigencia |-> worker[m].vigencia]

\* ... and updates it by id, or inserts one.  An undefined date leaves the
\* column of an updated row alone.
UpsertedRow(m, r) ==
    LET c == Event(m).sub IN
    [estatus |-> "activo", sub |-> c, negocio |-> worker[m].negocio,
     suscriptor |-> pedidos[c].suscriptor, membresia |-> pedidos[c].membresia,
     vigencia |-> IF worker[m].vigencia # 0 \/ worker[m].row = 0
                  THEN worker[m].vigencia ELSE rows[r].vigencia]

NextRowId(r) == /\ ~Exists(r)
                /\ \A q \in RowIds : q < r => Exists(q)

Upsert(m) ==
    LET c == Event(m).sub IN
    /\ At(m, "upsert")
    /\ \E r \in RowIds :
          /\ IF worker[m].row = 0 THEN NextRowId(r) ELSE r = worker[m].row
          /\ RowsOfSub(c) \subseteq {r}
          /\ rows' = [rows EXCEPT ![r] = UpsertedRow(m, r)]
    /\ TriggerCfdi(Completed(c))
    /\ Finish(m)
    /\ UNCHANGED <<pedidos, stripeVars, customer, eventLog, negocios, acked, faults, crashes>>

\* The UNIQUE index on stripe_subscription_id refuses the write.
UpsertRefused(m) ==
    /\ At(m, "upsert")
    /\ RowsOfSub(Event(m).sub) \ {worker[m].row} # {}
    /\ Throw(m)
    /\ UNCHANGED <<pedidos, stripeVars, dbVars, acked, cfdi, faults, crashes>>

OnCheckoutSessionCompleted(m) ==
    \/ CreateNegocio(m) \/ NegocioDataUnreadable(m)
    \/ RetrieveSub(m) \/ RetrieveSubFails(m)
    \/ FindRow(m) \/ Upsert(m) \/ UpsertRefused(m)

--------------------
(* onInvoicePaid                                                           *)

\* Mutant: no UNIQUE index on stripe_event_id.
MarkInvoiceAlways(m) ==
    LET k == InvoiceKey(Event(m)) IN
    /\ At(m, "mark")
    /\ eventLog' = [eventLog EXCEPT ![k] = "success"]
    /\ Step(m, "retrieveInvoiceSub")
    /\ UNCHANGED <<pedidos, stripeVars, customer, rows, negocios, acked, cfdi, faults, crashes>>

\* The key of the invoice is inserted in the log; only one insert succeeds.
MarkInvoice(m) ==
    LET k == InvoiceKey(Event(m)) IN
    /\ At(m, "mark") /\ eventLog[k] = "none"
    /\ eventLog' = [eventLog EXCEPT ![k] = "success"]
    /\ Step(m, "retrieveInvoiceSub")
    /\ UNCHANGED <<pedidos, stripeVars, customer, rows, negocios, acked, cfdi, faults, crashes>>

\* The insert throws, because the key is there or for any other reason, and
\* the handler returns as if the invoice had been processed.
MarkInvoiceFails(m) ==
    /\ At(m, "mark")
    /\ \/ eventLog[InvoiceKey(Event(m))] # "none" /\ UNCHANGED faults
       \/ Fault
    /\ Finish(m)
    /\ UNCHANGED <<pedidos, stripeVars, dbVars, acked, cfdi, crashes>>

RetrieveInvoiceSub(m) ==
    /\ At(m, "retrieveInvoiceSub")
    /\ Goes(m, [worker[m] EXCEPT !.paso = "findBySub",
                                 !.vigencia = subs[Event(m).sub].periodo])
    /\ UNCHANGED <<pedidos, stripeVars, dbVars, acked, cfdi, faults, crashes>>

FindBySub(m) ==
    /\ At(m, "findBySub")
    /\ \/ /\ RowsOfSub(Event(m).sub) = {}
          /\ Finish(m)
       \/ \E r \in RowsOfSub(Event(m).sub) :
             Goes(m, [worker[m] EXCEPT !.paso = "extend", !.row = r])
    /\ UNCHANGED <<pedidos, stripeVars, dbVars, acked, cfdi, faults, crashes>>

\* The row is updated by its id, whatever subscription it now holds.
ExtendPlan(m) ==
    /\ At(m, "extend")
    /\ rows' = [rows EXCEPT ![worker[m].row].estatus = "activo",
                            ![worker[m].row].vigencia = worker[m].vigencia]
    /\ TriggerCfdi(InvoiceKey(Event(m)))
    /\ Finish(m)
    /\ UNCHANGED <<pedidos, stripeVars, customer, eventLog, negocios, acked, faults, crashes>>

OnInvoicePaid(m) == \/ MarkInvoice(m) \/ MarkInvoiceFails(m)
                    \/ RetrieveInvoiceSub(m) \/ FindBySub(m) \/ ExtendPlan(m)

--------------------
(* The handlers that are a single UPDATE ... WHERE stripe_subscription_id. *)

UpdateRowsOf(m, estatus, vigencia) ==
    /\ rows' = [r \in RowIds |->
           IF r \in RowsOfSub(Event(m).sub)
           THEN [rows[r] EXCEPT !.estatus = estatus,
                                !.vigencia = IF vigencia = 0 THEN @ ELSE vigencia]
           ELSE rows[r]]
    /\ Finish(m)
    /\ UNCHANGED <<pedidos, stripeVars, customer, eventLog, negocios, acked, cfdi,
                   faults, crashes>>

OnInvoicePaymentFailed(m) ==
    /\ At(m, "paymentFailed")
    /\ UpdateRowsOf(m, "pago_pendiente", 0)

\* Mutant: past_due is taken for the end of the subscription.
PlanEstatusPastDueEnds(status) == CASE status = "active"   -> "activo"
                                    [] status = "past_due" -> "vencido"
                                    [] status = "canceled" -> "vencido"

PlanEstatus(status) == CASE status = "active"   -> "activo"
                         [] status = "past_due" -> "pago_pendiente"
                         [] status = "canceled" -> "vencido"
                         [] OTHER               -> "pago_pendiente"

\* Mutant: the date is one period too far.
OnSubscriptionUpdatedLate(m) ==
    /\ At(m, "updated")
    /\ UpdateRowsOf(m, PlanEstatus(Event(m).status), Event(m).periodo + 1)

\* Writes the state the event carries, which may no longer be Stripe's.
OnSubscriptionUpdated(m) ==
    /\ At(m, "updated")
    /\ UpdateRowsOf(m, PlanEstatus(Event(m).status), Event(m).periodo)

OnSubscriptionDeleted(m) ==
    /\ At(m, "deleted")
    /\ UpdateRowsOf(m, "vencido", 0)

--------------------
\* The process dies: requests and deliveries in progress are lost, what
\* MySQL and Stripe hold is not.  No 200 was sent for those deliveries.
Crash ==
    /\ crashes < MaxCrashes /\ crashes' = crashes + 1
    /\ pedidos' = [c \in Sessions |->
           IF pedidos[c].paso \in {"cancel", "customer", "saveCustomer", "create"}
           THEN [pedidos[c] EXCEPT !.paso = "dead"] ELSE pedidos[c]]
    /\ worker' = [m \in Workers |-> Idle]
    /\ UNCHANGED <<stripeVars, dbVars, acked, cfdi, faults>>

Deliver(m, e) == Known(m, e) \/ HandleWebhookEvent(m, e) \/ LogReadFails(m, e)

\* What a delivery does on its own once it is in progress.
Advance(m) ==
    \/ OnCheckoutSessionCompleted(m) \/ OnInvoicePaid(m)
    \/ OnInvoicePaymentFailed(m) \/ OnSubscriptionUpdated(m) \/ OnSubscriptionDeleted(m)
    \/ Register(m)

Next ==
    \/ \E c \in Sessions : Stripe(c) \/ Checkout(c)
    \/ \E m \in Workers : Advance(m) \/ HandlerFails(m) \/ RegisterFails(m)
    \/ \E m \in Workers, e \in emitted : Deliver(m, e)
    \/ Crash

Spec == Init /\ [][Next]_vars

\* Node runs every handler to its end, and Stripe sends an event again until
\* it gets a 200.
Fairness ==
    /\ \A m \in Workers : WF_vars(Advance(m))
    /\ \A e \in Events :
          WF_vars(/\ e \in emitted \ acked
                  /\ \E m \in Workers : Known(m, e) \/ HandleWebhookEvent(m, e))

LiveSpec == Spec /\ Fairness

--------------------
(* Correctness.                                                            *)

\* Stripe's evidence for the plan of a row.
PaidSubs     == {c \in Sessions : subs[c].estado # "none"}
CanceledSubs == {c \in Sessions : subs[c].estado = "canceled"}
FailedSubs   == {c \in Sessions : \E p \in 1 .. MaxPeriod :
                    emitted \cap {Failed(c, p), Updated(c, p, "past_due")} # {}}
PlanOf(r)    == [estado |-> rows[r].estatus, sub |-> rows[r].sub]

Plan == INSTANCE PlanLifecycle WITH
            Rows <- RowIds, Subs <- Sessions, NoSub <- NoSession,
            plan <- [r \in RowIds |-> PlanOf(r)],
            paid <- PaidSubs, failed <- FailedSubs, canceled <- CanceledSubs

(* A row starts, renews, is suspended or expires only on evidence of the   *)
(* subscription it holds, however the deliveries interleave, repeat, fail  *)
(* or arrive out of order: "unica fuente de verdad para activar planes".   *)
PlanPromise == Plan!PlanSpec

(* The requests for the CFDI of a charge: those of its invoice, made under *)
(* the invoice's key, and for the first charge those of the checkout,      *)
(* which has no key and asks whenever a delivery of it writes the row.     *)
CfdiDelCheckout(c, p) == IF p = 1 THEN cfdi[Completed(c)] ELSE 0
CfdiDelCobro(c, p)    == cfdi[Marker(c, p)] + CfdiDelCheckout(c, p)

(* invoice.paid and invoice.payment_succeeded describe one charge: between *)
(* them they ask for its CFDI at most once, with repeated and overlapping  *)
(* deliveries, failures and crashes.  So a renewal has one request at the  *)
(* most, and the first charge one besides those of its checkout: that one  *)
(* may get two CFDI, and more when deliveries of the checkout overlap.     *)
InvoiceOnce == \A c \in Sessions, p \in 1 .. MaxPeriod :
                  CfdiDelCobro(c, p) <= 1 + CfdiDelCheckout(c, p)

(* The business a session is for: the one named in its metadata, or one    *)
(* the webhook created for it.                                             *)
ServedBy(c, n) == n # NoNegocio /\ (pedidos[c].negocio = n \/ negocios[n].origen = c)

(* Every row is what its subscriber bought: its subscription was paid, and *)
(* owner, membership and business are those of that session.               *)
RowMatchesPayment ==
    \A r \in RowIds : Exists(r) =>
        LET c == rows[r].sub IN
        /\ c \in PaidSubs
        /\ rows[r].suscriptor = pedidos[c].suscriptor
        /\ rows[r].membresia = pedidos[c].membresia
        /\ ServedBy(c, rows[r].negocio)
        /\ negocios[rows[r].negocio].dueno = rows[r].suscriptor

(* A checkout recorded as success has left a row for its business, unless  *)
(* the session named no business and carried no data for one.              *)
SuccessMeansPlan ==
    \A c \in Sessions :
        (/\ eventLog[Completed(c)] = "success"
         /\ pedidos[c].negocio # NoNegocio \/ pedidos[c].datos # "none")
        => \E r \in RowIds : Exists(r) /\ ServedBy(c, rows[r].negocio)

(* Who pays gets a plan: once the session is paid and names its business   *)
(* readably, a row for it appears, whatever crashes on the way, because    *)
(* the event is logged and acknowledged only after it was applied.         *)
PaidReachesPlan ==
    \A c \in Sessions :
        (/\ pedidos[c].paso = "paid"
         /\ pedidos[c].negocio # NoNegocio \/ pedidos[c].datos = "valid")
        ~> \E r \in RowIds : Exists(r) /\ ServedBy(c, rows[r].negocio)

--------------------
(* Statements of the repository that the code does not keep.               *)

Quiet == emitted \subseteq acked /\ \A m \in Workers : At(m, "idle")

(* entities/billing-subscription.entity.ts:12, "vencido -> customer.       *)
(* subscription.deleted": once every event was processed, a row whose      *)
(* subscription Stripe deleted is vencido.                                 *)
DeletedEndsVencido ==
    Quiet => \A r \in RowIds :
        Exists(r) /\ rows[r].sub \in CanceledSubs => rows[r].estatus = "vencido"

(* entities/stripe-event.entity.ts:5, "antes de procesar cualquier evento  *)
(* guardamos su ID aqui": a repeated delivery changes nothing, so a paid   *)
(* session creates one business.                                           *)
OneNegocioPerSession ==
    \A c \in Sessions, n, q \in Negocios :
        negocios[n].origen = c /\ negocios[q].origen = c => n = q
=============================================================================

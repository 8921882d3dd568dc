---------------------------- MODULE BillingProofs ----------------------------
(* Theorems about Billing, for any number of sessions, subscribers,        *)
(* businesses, rows, periods, deliveries, failures and crashes.            *)
EXTENDS Billing, TLAPS

LEMMA Bounds == /\ MaxRows \in Nat /\ MaxPeriod \in Nat
                /\ MaxFaults \in Nat /\ MaxCrashes \in Nat
  BY BillingAssumption DEF BillingAssumption

USE Bounds DEF Period, RowIds

--------------------
(* Events.                                                                 *)

\* What an event tells: its type, and for each type its shape.

LEMMA EventShape ==
    ASSUME NEW e \in Events
    PROVE  /\ e.sub \in Sessions
           /\ e.tipo \in TiposEvento
           /\ e.tipo = "checkout.session.completed" => e = Completed(e.sub)
           /\ e.tipo # "checkout.session.completed" => e.periodo \in 1 .. MaxPeriod
           /\ e.tipo = "invoice.payment_failed" => e = Failed(e.sub, e.periodo)
           /\ e.tipo = "customer.subscription.updated" =>
                 /\ e.status \in {"active", "past_due"}
                 /\ e = Updated(e.sub, e.periodo, e.status)
  BY DEF Events, EventsOf, Completed, Paid, Succeeded, Failed, Updated, Deleted, Ev,
         TiposEvento

\* Every event Stripe builds for a subscription is one of the known ones.

LEMMA EventsBuilt ==
    ASSUME NEW c \in Sessions
    PROVE  /\ Completed(c) \in Events
           /\ \A p \in 1 .. MaxPeriod :
                 {Paid(c, p), Succeeded(c, p), Failed(c, p), Updated(c, p, "active"),
                  Updated(c, p, "past_due"), Deleted(c, p)} \subseteq Events
  BY DEF Events, EventsOf

LEMMA MarkerShape ==
    /\ \A c \in Sessions, p \in 1 .. MaxPeriod : Marker(c, p) \in InvoiceKeys
    /\ \A k \in InvoiceKeys : k.tipo = "invoice.paid.dedupe"
    /\ \A c \in Sessions : Completed(c) \in CfdiKeys /\ Completed(c) \notin InvoiceKeys
    /\ InvoiceKeys \subseteq LogKeys /\ Events \subseteq LogKeys /\ InvoiceKeys \subseteq CfdiKeys
<1>1. \A c \in Sessions, p \in 1 .. MaxPeriod : Marker(c, p) \in InvoiceKeys  BY DEF InvoiceKeys
<1>2. \A k \in InvoiceKeys : k.tipo = "invoice.paid.dedupe"  BY DEF InvoiceKeys, Marker, Ev
<1>3. \A c \in Sessions : Completed(c).tipo = "checkout.session.completed"  BY DEF Completed, Ev
<1>4. \A c \in Sessions : Completed(c) \in CfdiKeys /\ Completed(c) \notin InvoiceKeys
  BY <1>2, <1>3 DEF CfdiKeys
<1>5. InvoiceKeys \subseteq LogKeys /\ Events \subseteq LogKeys /\ InvoiceKeys \subseteq CfdiKeys
  BY DEF CfdiKeys, LogKeys
<1> QED BY <1>1, <1>2, <1>4, <1>5

--------------------
(* Types.                                                                  *)

CheckoutSteps == {"createNegocio", "retrieveSub", "findRow", "upsert"}
InvoiceSteps  == {"retrieveInvoiceSub", "findBySub", "extend"}
InvoiceTypes  == {"invoice.paid", "invoice.payment_succeeded"}

\* What the step of a delivery says about its locals.
LocalsOK(w) ==
    /\ w.paso # "idle" => w.event \in Events
    /\ w.paso \in CheckoutSteps => w.event.tipo = "checkout.session.completed"
    /\ w.paso \in InvoiceSteps \cup {"mark"} => w.event.tipo \in InvoiceTypes
    /\ w.paso = "updated" => w.event.tipo = "customer.subscription.updated"
    /\ w.paso = "deleted" => w.event.tipo = "customer.subscription.deleted"
    /\ w.paso = "paymentFailed" => w.event.tipo = "invoice.payment_failed"
    /\ w.paso = "extend" => w.row # 0

\* What the step of a request says about what it read.
RequestOK(p) ==
    /\ p.paso # "none" => p.suscriptor \in Suscriptores
    /\ p.paso = "cancel" => p.previa \in Sessions

\* A subscription that has begun is in its first period or later.
SubOK(s) == s.estado # "none" => s.periodo # 0

TypeInv == /\ TypeOK
           /\ \A m \in Workers : LocalsOK(worker[m])
           /\ \A c \in Sessions : RequestOK(pedidos[c]) /\ SubOK(subs[c])

LEMMA IdleOK == Idle \in Worker /\ LocalsOK(Idle) /\ Idle.paso = "idle"
  BY DEF Idle, Worker, PasosWorker, LocalsOK, CheckoutSteps, InvoiceSteps

LEMMA TypeInit == Init => TypeInv
<1> SUFFICES ASSUME Init PROVE TypeInv  OBVIOUS
<1>1. TypeOK
  <2>1. NoPedido \in Pedido /\ NoRow \in Row /\ Idle \in Worker
    BY DEF NoPedido, Pedido, PasosPedido, NoRow, Row, Estatus, Idle, Worker, PasosWorker
  <2>2. negocios \in [Negocios -> Negocio]
    BY BillingAssumption DEF BillingAssumption, Init, Negocio
  <2>3. /\ pedidos \in [Sessions -> Pedido] /\ rows \in [RowIds -> Row]
        /\ worker \in [Workers -> Worker]
    BY <2>1 DEF Init
  <2>4. /\ customer \in [Suscriptores -> Sessions \cup {NoSession}]
        /\ subs \in [Sessions -> [estado : {"none", "active", "past_due", "canceled"},
                                  periodo : Period]]
        /\ eventLog \in [LogKeys -> {"none", "success", "error"}]
        /\ cfdi \in [CfdiKeys -> 0 .. MaxCfdi]
    BY DEF Init, MaxCfdi
  <2>5. emitted \subseteq Events /\ acked \subseteq Events  BY DEF Init
  <2>6. faults \in 0 .. MaxFaults /\ crashes \in 0 .. MaxCrashes  BY DEF Init
  <2> QED BY <2>2, <2>3, <2>4, <2>5, <2>6 DEF TypeOK
<1>2. LocalsOK(Idle) /\ RequestOK(NoPedido)
  BY DEF LocalsOK, RequestOK, Idle, NoPedido, CheckoutSteps, InvoiceSteps
<1>3. \A c \in Sessions : SubOK(subs[c])  BY DEF Init, SubOK
<1> QED BY <1>1, <1>2, <1>3 DEF TypeInv, Init

\* A step of one delivery keeps the locals of all of them in order.

LEMMA WorkerStep ==
    ASSUME TypeInv, NEW m \in Workers, NEW w \in Worker, LocalsOK(w), Goes(m, w)
    PROVE  /\ worker' \in [Workers -> Worker]
           /\ \A q \in Workers : LocalsOK(worker'[q])
           /\ worker'[m] = w
           /\ \A q \in Workers \ {m} : worker'[q] = worker[q]
  BY DEF TypeInv, TypeOK, Goes

\* The handler returns or throws.

LEMMA OutcomeOK ==
    ASSUME TypeInv, NEW m \in Workers, ~At(m, "idle"), NEW err \in BOOLEAN
    PROVE  Outcome(m, err) \in Worker /\ LocalsOK(Outcome(m, err))
<1>1. worker[m] \in Worker /\ LocalsOK(worker[m]) /\ worker[m].paso # "idle"
  BY DEF TypeInv, TypeOK, At
<1>2. Event(m) \in Events  BY <1>1 DEF LocalsOK, Event
<1>3. Outcome(m, err) \in Worker  BY <1>2, IdleOK DEF Outcome, Worker, PasosWorker
<1>4. Outcome(m, err).paso = "register" /\ Outcome(m, err).event = Event(m)
  BY IdleOK DEF Outcome, Worker
<1> QED BY <1>2, <1>3, <1>4 DEF LocalsOK, CheckoutSteps, InvoiceSteps

\* The locals of a delivery while it handles an event.

LEMMA InProgress ==
    ASSUME TypeInv, NEW m \in Workers, ~At(m, "idle")
    PROVE  /\ Event(m) \in Events /\ Event(m).sub \in Sessions
           /\ worker[m] \in Worker /\ LocalsOK(worker[m])
  BY EventShape DEF TypeInv, TypeOK, LocalsOK, At, Event

\* What a step of a delivery must keep besides its locals.
LEMMA WorkerStepTypes ==
    ASSUME TypeInv, NEW m \in Workers, NEW w \in Worker, LocalsOK(w), Goes(m, w),
           UNCHANGED <<pedidos, customer, subs, emitted, crashes>>,
           acked' \subseteq Events,
           eventLog' \in [LogKeys -> {"none", "success", "error"}],
           rows' \in [RowIds -> Row],
           negocios' \in [Negocios -> Negocio],
           cfdi' \in [CfdiKeys -> 0 .. MaxCfdi],
           faults' \in 0 .. MaxFaults
    PROVE  TypeInv'
  BY WorkerStep DEF TypeInv, TypeOK

LEMMA FaultBound == ASSUME TypeInv, Fault PROVE faults' \in 0 .. MaxFaults
  BY DEF TypeInv, TypeOK, Fault

LEMMA EmitTypes ==
    ASSUME TypeInv, NEW es, es \subseteq Events, Emit(es)
    PROVE  emitted' \subseteq Events
  BY DEF TypeInv, TypeOK, Emit

\* A request moves to another step.

LEMMA PedidoStep ==
    ASSUME TypeInv, NEW c \in Sessions, NEW paso \in PasosPedido, paso \notin {"none", "cancel"},
           ~PedidoAt(c, "none"), PedidoGoes(c, paso)
    PROVE  pedidos' \in [Sessions -> Pedido] /\ \A d \in Sessions : RequestOK(pedidos'[d])
<1> DEFINE p == [pedidos[c] EXCEPT !.paso = paso]
<1>1. pedidos[c] \in Pedido /\ RequestOK(pedidos[c]) /\ pedidos[c].paso # "none"
  BY DEF TypeInv, TypeOK, PedidoAt
<1>2. p \in Pedido /\ p.paso = paso /\ p.suscriptor = pedidos[c].suscriptor  BY <1>1 DEF Pedido
<1>3. RequestOK(p)  BY <1>1, <1>2 DEF RequestOK
<1>4. pedidos' = [pedidos EXCEPT ![c] = p]  BY DEF PedidoGoes
<1> HIDE DEF p
<1> QED BY <1>2, <1>3, <1>4 DEF TypeInv, TypeOK

Sub == [estado : {"none", "active", "past_due", "canceled"}, periodo : Period]

LEMMA EndSubTypes ==
    ASSUME TypeInv, NEW c \in Sessions, EndSub(c)
    PROVE  /\ subs' \in [Sessions -> Sub] /\ \A d \in Sessions : SubOK(subs'[d])
           /\ emitted' \subseteq Events
<1>1. subs \in [Sessions -> Sub] /\ subs[c] \in Sub /\ \A d \in Sessions : SubOK(subs[d])
  BY DEF TypeInv, TypeOK, Sub
<1>2. subs' = [subs EXCEPT ![c].estado = "canceled"] /\ subs[c].periodo \in 1 .. MaxPeriod
  BY <1>1 DEF EndSub, SubOK, Sub
<1>3. {Deleted(c, subs[c].periodo)} \subseteq Events  BY <1>2, EventsBuilt
<1>4. subs' \in [Sessions -> Sub] /\ \A d \in Sessions : SubOK(subs'[d])
  BY <1>1, <1>2 DEF Sub, SubOK
<1> QED BY <1>3, <1>4, EmitTypes DEF EndSub

LEMMA StripeTypes == ASSUME TypeInv, NEW c \in Sessions, Stripe(c) PROVE TypeInv'
<1>0. subs \in [Sessions -> Sub] /\ subs[c] \in Sub /\ \A d \in Sessions : SubOK(subs[d])
  BY DEF TypeInv, TypeOK, Sub
<1>1. ASSUME UNCHANGED <<dbVars, acked, cfdi, worker, faults, crashes>>,
             subs' \in [Sessions -> Sub], \A d \in Sessions : SubOK(subs'[d]),
             emitted' \subseteq Events,
             pedidos' \in [Sessions -> Pedido], \A d \in Sessions : RequestOK(pedidos'[d])
      PROVE  TypeInv'
  BY <1>1 DEF TypeInv, TypeOK, dbVars, Sub
<1>2. CASE Pay(c)
  <2>1. subs' \in [Sessions -> Sub] /\ \A d \in Sessions : SubOK(subs'[d])
    BY <1>0, <1>2 DEF Pay, Sub, SubOK
  <2>2. pedidos' \in [Sessions -> Pedido] /\ \A d \in Sessions : RequestOK(pedidos'[d])
    BY <1>2, PedidoStep DEF Pay, PedidoGoes, PedidoAt, PasosPedido
  <2>3. {Completed(c), Paid(c, 1), Succeeded(c, 1)} \subseteq Events  BY <1>2, EventsBuilt DEF Pay
  <2> QED BY <1>1, <1>2, <2>1, <2>2, <2>3, EmitTypes DEF Pay
<1>3. ASSUME UNCHANGED pedidos
      PROVE  pedidos' \in [Sessions -> Pedido] /\ \A d \in Sessions : RequestOK(pedidos'[d])
  BY <1>3 DEF TypeInv, TypeOK
<1>4. CASE Renew(c)
  <2> DEFINE p == subs[c].periodo + 1
  <2>1. p \in 1 .. MaxPeriod  BY <1>0, <1>4 DEF Renew, Sub
  <2>2. subs' \in [Sessions -> Sub] /\ \A d \in Sessions : SubOK(subs'[d])
    BY <1>0, <1>4, <2>1 DEF Renew, Sub, SubOK
  <2>3. {Paid(c, p), Succeeded(c, p), Updated(c, p, "active")} \subseteq Events
    BY <2>1, EventsBuilt
  <2>4. emitted' \subseteq Events  BY <1>4, <2>3, EmitTypes DEF Renew
  <2> QED BY <1>1, <1>3, <1>4, <2>2, <2>4 DEF Renew
<1>5. CASE ChargeFails(c)
  <2> DEFINE p == subs[c].periodo + 1
  <2>1. p \in 1 .. MaxPeriod  BY <1>0, <1>5 DEF ChargeFails, Sub
  <2>2. subs' \in [Sessions -> Sub] /\ \A d \in Sessions : SubOK(subs'[d])
    BY <1>0, <1>5, <2>1 DEF ChargeFails, Sub, SubOK
  <2>3. {Failed(c, p), Updated(c, p, "past_due")} \subseteq Events  BY <2>1, EventsBuilt
  <2>4. emitted' \subseteq Events  BY <1>5, <2>3, EmitTypes DEF ChargeFails
  <2> QED BY <1>1, <1>3, <1>5, <2>2, <2>4 DEF ChargeFails
<1>6. CASE Recover(c)
  <2> DEFINE p == subs[c].periodo
  <2>1. p \in 1 .. MaxPeriod  BY <1>0, <1>6 DEF Recover, Sub, SubOK
  <2>2. subs' \in [Sessions -> Sub] /\ \A d \in Sessions : SubOK(subs'[d])
    BY <1>0, <1>6, <2>1 DEF Recover, Sub, SubOK
  <2>3. {Paid(c, p), Succeeded(c, p), Updated(c, p, "active")} \subseteq Events
    BY <2>1, EventsBuilt
  <2>4. emitted' \subseteq Events  BY <1>6, <2>3, EmitTypes DEF Recover
  <2> QED BY <1>1, <1>3, <1>6, <2>2, <2>4 DEF Recover
<1>7. CASE Cancel(c)  BY <1>1, <1>3, <1>7, EndSubTypes DEF Cancel
<1> QED BY <1>2, <1>4, <1>5, <1>6, <1>7 DEF Stripe

LEMMA CheckoutTypes == ASSUME TypeInv, NEW c \in Sessions, Checkout(c) PROVE TypeInv'
<1>1. ASSUME UNCHANGED <<eventLog, rows, negocios, acked, cfdi, worker, crashes>>,
             customer' \in [Suscriptores -> Sessions \cup {NoSession}],
             subs' \in [Sessions -> Sub], \A d \in Sessions : SubOK(subs'[d]),
             emitted' \subseteq Events, faults' \in 0 .. MaxFaults,
             pedidos' \in [Sessions -> Pedido], \A d \in Sessions : RequestOK(pedidos'[d])
      PROVE  TypeInv'
  BY <1>1 DEF TypeInv, TypeOK, Sub
<1>2. /\ customer \in [Suscriptores -> Sessions \cup {NoSession}]
      /\ subs \in [Sessions -> Sub] /\ \A d \in Sessions : SubOK(subs[d])
      /\ emitted \subseteq Events /\ faults \in 0 .. MaxFaults
      /\ pedidos \in [Sessions -> Pedido] /\ \A d \in Sessions : RequestOK(pedidos[d])
  BY DEF TypeInv, TypeOK, Sub
<1>3. ASSUME NEW s \in Suscriptores, NEW mb \in Membresias, NEW o \in Ofertas,
             CreateCheckoutSession(c, s, mb, o[1], o[2])
      PROVE  TypeInv'
  <2> DEFINE p(paso, previa) ==
                [NoPedido EXCEPT !.paso = paso, !.suscriptor = s, !.membresia = mb,
                                 !.negocio = o[1], !.datos = o[2], !.previa = previa]
             activas == {rows[r].sub : r \in {x \in RowsOf(o[1]) : rows[x].estatus = "activo"}}
                        \ {NoSession}
  <2>1. o[1] \in Negocios \cup {NoNegocio} /\ o[2] \in {"valid", "cut", "none"}
    BY BillingAssumption DEF BillingAssumption
  <2>2. NoPedido \in Pedido  BY DEF NoPedido, Pedido, PasosPedido
  <2>3. ASSUME NEW paso \in PasosPedido, NEW previa \in Sessions \cup {NoSession},
               paso = "cancel" => previa \in Sessions
        PROVE  p(paso, previa) \in Pedido /\ RequestOK(p(paso, previa))
    BY <2>1, <2>2, <2>3 DEF Pedido, RequestOK
  <2>4. activas \subseteq Sessions  BY DEF TypeInv, TypeOK, Row, RowsOf
  <2>5. \/ pedidos' = [pedidos EXCEPT ![c] = p("customer", NoSession)]
        \/ \E previa \in activas : pedidos' = [pedidos EXCEPT ![c] = p("cancel", previa)]
    BY <1>3 DEF CreateCheckoutSession
  <2>6. pedidos' \in [Sessions -> Pedido] /\ \A d \in Sessions : RequestOK(pedidos'[d])
    <3> HIDE DEF p
    <3> QED BY <1>2, <2>3, <2>4, <2>5 DEF PasosPedido
  <2> QED BY <1>1, <1>2, <1>3, <2>6 DEF CreateCheckoutSession, dbVars, stripeVars
<1>4. CASE CancelExisting(c)
  BY <1>2, <1>4, PedidoStep, <1>1, EndSubTypes DEF CancelExisting, PedidoAt, RequestOK, PasosPedido,
     dbVars
<1>5. CASE CancelExistingFails(c)
  BY <1>5, PedidoStep, <1>2, FaultBound, <1>1 DEF CancelExistingFails, PedidoAt, PasosPedido,
     dbVars, stripeVars
<1>6. CASE EnsureStripeCustomer(c)
  <2>1. PICK paso \in {"saveCustomer", "create"}, id \in Sessions \cup {NoSession} :
           pedidos' = [pedidos EXCEPT ![c].paso = paso, ![c].customer = id]
    BY <1>2, <1>6 DEF EnsureStripeCustomer, PedidoAt, RequestOK
  <2> DEFINE p == [pedidos[c] EXCEPT !.paso = paso, !.customer = id]
  <2>2. pedidos' = [pedidos EXCEPT ![c] = p]  BY <1>2, <2>1
  <2>3. pedidos[c] \in Pedido /\ RequestOK(pedidos[c]) /\ pedidos[c].paso # "none"
    BY <1>2, <1>6 DEF EnsureStripeCustomer, PedidoAt
  <2>4. p \in Pedido /\ p.paso = paso /\ p.suscriptor = pedidos[c].suscriptor
    BY <2>3 DEF Pedido, PasosPedido
  <2>5. RequestOK(p)  BY <2>3, <2>4 DEF RequestOK
  <2> HIDE DEF p
  <2>6. pedidos' \in [Sessions -> Pedido] /\ \A d \in Sessions : RequestOK(pedidos'[d])
    BY <1>2, <2>2, <2>4, <2>5
  <2> QED BY <1>1, <1>2, <1>6, <2>6 DEF EnsureStripeCustomer, dbVars, stripeVars
<1>7. CASE SaveStripeCustomer(c)
  BY <1>7, PedidoStep, <1>2, <1>1 DEF SaveStripeCustomer, PedidoAt, PasosPedido, stripeVars
<1>8. CASE OpenSession(c)
  BY <1>8, PedidoStep, <1>1, <1>2 DEF OpenSession, PedidoAt, PasosPedido, dbVars, stripeVars
<1>9. CASE CheckoutFails(c)
  BY <1>9, PedidoStep, <1>1, <1>2, FaultBound DEF CheckoutFails, PedidoAt, PasosPedido, dbVars,
     stripeVars
<1> QED BY <1>3, <1>4, <1>5, <1>6, <1>7, <1>8, <1>9 DEF Checkout

\* The first step suits the type of the event.
LEMMA FirstStepOK ==
    ASSUME TypeInv, NEW e \in Events, NEW w \in Worker,
           w.paso = FirstStep(e), w.event = e
    PROVE  LocalsOK(w)
  BY EventShape DEF FirstStep, LocalsOK, CheckoutSteps, InvoiceSteps, InvoiceTypes, TiposEvento

LEMMA FirstStepType == ASSUME NEW e \in Events PROVE FirstStep(e) \in PasosWorker \ {"idle"}
  BY EventShape DEF FirstStep, PasosWorker, TiposEvento

LEMMA DeliverTypes ==
    ASSUME TypeInv, NEW m \in Workers, NEW e \in emitted, Deliver(m, e)
    PROVE  TypeInv'
<1>0. e \in Events  BY DEF TypeInv, TypeOK
<1>1. CASE Known(m, e)  BY <1>0, <1>1 DEF Known, TypeInv, TypeOK, stripeVars, dbVars
<1>2. CASE LogReadFails(m, e)
  BY <1>0, <1>2, FaultBound DEF LogReadFails, TypeInv, TypeOK, stripeVars, dbVars
<1>3. CASE HandleWebhookEvent(m, e)
  <2>1. PICK n \in Negocios \cup {NoNegocio} :
           Goes(m, [Idle EXCEPT !.paso = FirstStep(e), !.event = e, !.negocio = n])
    BY <1>0, <1>3, EventShape DEF HandleWebhookEvent, TypeInv, TypeOK, Pedido
  <2> DEFINE w == [Idle EXCEPT !.paso = FirstStep(e), !.event = e, !.negocio = n]
  <2>2. w \in Worker /\ w.paso = FirstStep(e) /\ w.event = e
    BY <1>0, IdleOK, FirstStepType DEF Worker
  <2> HIDE DEF w
  <2>3. LocalsOK(w) /\ Goes(m, w)  BY <1>0, <2>1, <2>2, FirstStepOK DEF w
  <2> QED BY <1>3, <2>2, <2>3, WorkerStepTypes
          DEF HandleWebhookEvent, TypeInv, TypeOK, stripeVars, dbVars
<1> QED BY <1>1, <1>2, <1>3 DEF Deliver

\* The sets the variables of the database range over, before a step.

LEMMA Before ==
    ASSUME TypeInv
    PROVE  /\ acked \subseteq Events
           /\ eventLog \in [LogKeys -> {"none", "success", "error"}]
           /\ rows \in [RowIds -> Row]
           /\ negocios \in [Negocios -> Negocio]
           /\ cfdi \in [CfdiKeys -> 0 .. MaxCfdi]
           /\ faults \in 0 .. MaxFaults
           /\ pedidos \in [Sessions -> Pedido]
           /\ subs \in [Sessions -> Sub]
  BY DEF TypeInv, TypeOK, Sub

\* A delivery that only moves on, to a step for the same kind of event.

LEMMA SameKind ==
    ASSUME TypeInv, NEW m \in Workers, NEW w \in Worker, w.event = Event(m),
           \/ At(m, "createNegocio") /\ w.paso = "retrieveSub"
           \/ At(m, "retrieveSub") /\ w.paso = "findRow"
           \/ At(m, "findRow") /\ w.paso = "upsert"
           \/ At(m, "mark") /\ w.paso = "retrieveInvoiceSub"
           \/ At(m, "retrieveInvoiceSub") /\ w.paso = "findBySub"
           \/ At(m, "findBySub") /\ w.paso = "extend" /\ w.row # 0
    PROVE  LocalsOK(w)
  BY DEF TypeInv, LocalsOK, At, Event, CheckoutSteps, InvoiceSteps

LEMMA CfdiTypes ==
    ASSUME TypeInv, NEW k \in CfdiKeys, TriggerCfdi(k)
    PROVE  cfdi' \in [CfdiKeys -> 0 .. MaxCfdi]
<1>0. cfdi \in [CfdiKeys -> 0 .. MaxCfdi]  BY Before
<1>1. cfdi \in [CfdiKeys -> 0 .. 2] /\ cfdi[k] \in 0 .. 2  BY <1>0 DEF MaxCfdi
<1> DEFINE n == IF cfdi[k] < 2 THEN cfdi[k] + 1 ELSE cfdi[k]
<1>2. n \in 0 .. 2 /\ cfdi' = [cfdi EXCEPT ![k] = n]  BY <1>1 DEF TriggerCfdi, MaxCfdi
<1> HIDE DEF n
<1> QED BY <1>1, <1>2 DEF MaxCfdi

LEMMA UpsertedRowType ==
    ASSUME TypeInv, NEW m \in Workers, ~At(m, "idle"), NEW r \in RowIds
    PROVE  UpsertedRow(m, r) \in Row
<1>1. Event(m).sub \in Sessions /\ worker[m] \in Worker  BY InProgress
<1>2. pedidos[Event(m).sub] \in Pedido /\ rows[r] \in Row  BY <1>1, Before
<1>3. worker[m].vigencia \in Period /\ rows[r].vigencia \in Period  BY <1>1, <1>2 DEF Worker, Row
<1>4. /\ worker[m].negocio \in Negocios \cup {NoNegocio}
      /\ pedidos[Event(m).sub].suscriptor \in Suscriptores \cup {NoSuscriptor}
      /\ pedidos[Event(m).sub].membresia \in Membresias \cup {NoMembresia}
  BY <1>1, <1>2 DEF Pedido, Worker
<1>5. PICK v \in Period : UpsertedRow(m, r) =
        [estatus |-> "activo", sub |-> Event(m).sub, negocio |-> worker[m].negocio,
         suscriptor |-> pedidos[Event(m).sub].suscriptor,
         membresia |-> pedidos[Event(m).sub].membresia, vigencia |-> v]
  BY <1>3 DEF UpsertedRow
<1> QED BY <1>1, <1>4, <1>5 DEF Row, Estatus

LEMMA CheckoutEventTypes ==
    ASSUME TypeInv, NEW m \in Workers, OnCheckoutSessionCompleted(m)
    PROVE  TypeInv'
<1>1. CASE CreateNegocio(m)
  <2> DEFINE c == Event(m).sub
             n == CHOOSE x \in FreeNegocios : TRUE
             w == [worker[m] EXCEPT !.paso = "retrieveSub", !.negocio = n]
  <2>1. ~At(m, "idle") /\ n \in Negocios  BY <1>1 DEF CreateNegocio, At, FreeNegocios
  <2>2. c \in Sessions /\ pedidos[c].suscriptor \in Suscriptores \cup {NoSuscriptor}
    BY <2>1, InProgress, Before DEF Pedido
  <2>3. [dueno |-> pedidos[c].suscriptor, origen |-> c] \in Negocio  BY <2>2 DEF Negocio
  <2>4. negocios' \in [Negocios -> Negocio]  BY <1>1, <2>1, <2>3, Before DEF CreateNegocio
  <2>5. w \in Worker /\ w.event = Event(m) /\ w.paso = "retrieveSub"
    BY <2>1, InProgress DEF Worker, PasosWorker, Event
  <2>6. Goes(m, w)  BY <1>1 DEF CreateNegocio
  <2> HIDE DEF w, n
  <2>7. LocalsOK(w)  BY <1>1, <2>5, SameKind DEF CreateNegocio
  <2> QED BY <1>1, <2>4, <2>5, <2>6, <2>7, WorkerStepTypes, Before
          DEF CreateNegocio, stripeVars
<1>2. CASE NegocioDataUnreadable(m)
  BY <1>2, OutcomeOK, WorkerStepTypes, Before DEF NegocioDataUnreadable, At, Throw, stripeVars,
     dbVars
<1>3. CASE RetrieveSub(m)
  <2> DEFINE w == [worker[m] EXCEPT !.paso = "findRow",
                                    !.vigencia = subs[Event(m).sub].periodo]
  <2>1. ~At(m, "idle")  BY <1>3 DEF RetrieveSub, At
  <2>2. subs[Event(m).sub].periodo \in Period  BY <2>1, InProgress, Before DEF Sub
  <2>3. w \in Worker /\ w.event = Event(m) /\ w.paso = "findRow"
    BY <2>1, <2>2, InProgress DEF Worker, PasosWorker, Event
  <2> HIDE DEF w
  <2>4. LocalsOK(w)  BY <1>3, <2>3, SameKind DEF RetrieveSub
  <2> QED BY <1>3, <2>3, <2>4, WorkerStepTypes, Before DEF RetrieveSub, w, stripeVars, dbVars
<1>4. CASE RetrieveSubFails(m)
  <2> DEFINE w == [worker[m] EXCEPT !.paso = "findRow"]
  <2>1. ~At(m, "idle")  BY <1>4 DEF RetrieveSubFails, At
  <2>2. w \in Worker /\ w.event = Event(m) /\ w.paso = "findRow"
    BY <2>1, InProgress DEF Worker, PasosWorker, Event
  <2> HIDE DEF w
  <2>3. LocalsOK(w)  BY <1>4, <2>2, SameKind DEF RetrieveSubFails
  <2> QED BY <1>4, <2>2, <2>3, WorkerStepTypes, Before, FaultBound
          DEF RetrieveSubFails, Step, w, stripeVars, dbVars
<1>5. CASE FindRow(m)
  <2> DEFINE found == RowsOf(worker[m].negocio)
  <2>0. (IF found = {} THEN {0} ELSE found) \subseteq 0 .. MaxRows  BY DEF RowsOf
  <2>1. PICK r \in 0 .. MaxRows : Goes(m, [worker[m] EXCEPT !.paso = "upsert", !.row = r])
    <3> HIDE DEF found
    <3> QED BY <1>5, <2>0 DEF FindRow, found
  <2> DEFINE w == [worker[m] EXCEPT !.paso = "upsert", !.row = r]
  <2>2. ~At(m, "idle")  BY <1>5 DEF FindRow, At
  <2>3. w \in Worker /\ w.event = Event(m) /\ w.paso = "upsert"
    BY <2>2, InProgress DEF Worker, PasosWorker, Event
  <2> HIDE DEF w
  <2>4. LocalsOK(w)  BY <1>5, <2>3, SameKind DEF FindRow
  <2> QED BY <1>5, <2>1, <2>3, <2>4, WorkerStepTypes, Before DEF FindRow, w, stripeVars, dbVars
<1>6. CASE Upsert(m)
  <2>1. ~At(m, "idle") /\ Event(m).tipo = "checkout.session.completed"
    BY <1>6 DEF Upsert, At, Event, TypeInv, LocalsOK, CheckoutSteps
  <2>2. Completed(Event(m).sub) \in CfdiKeys  BY <2>1, InProgress, MarkerShape
  <2>3. cfdi' \in [CfdiKeys -> 0 .. MaxCfdi]  BY <1>6, <2>2, CfdiTypes DEF Upsert
  <2>4. \A r \in RowIds : UpsertedRow(m, r) \in Row  BY <2>1, InProgress, Before, UpsertedRowType
  <2>5. rows' \in [RowIds -> Row]  BY <1>6, <2>4, Before DEF Upsert
  <2> QED BY <1>6, <2>1, <2>3, <2>5, OutcomeOK, WorkerStepTypes, Before
          DEF Upsert, Finish, stripeVars
<1>7. CASE UpsertRefused(m)
  BY <1>7, OutcomeOK, WorkerStepTypes, Before DEF UpsertRefused, At, Throw, stripeVars, dbVars
<1> QED BY <1>1, <1>2, <1>3, <1>4, <1>5, <1>6, <1>7 DEF OnCheckoutSessionCompleted

LEMMA InvoiceTypesOK ==
    ASSUME TypeInv, NEW m \in Workers, OnInvoicePaid(m)
    PROVE  TypeInv'
<1>0. ASSUME ~At(m, "idle"), Event(m).tipo \in InvoiceTypes
      PROVE  InvoiceKey(Event(m)) \in InvoiceKeys
  BY <1>0, InProgress, EventShape, MarkerShape DEF InvoiceTypes, InvoiceKey
<1>1. CASE MarkInvoice(m)
  <2> DEFINE w == [worker[m] EXCEPT !.paso = "retrieveInvoiceSub"]
  <2>1. ~At(m, "idle")  BY <1>1 DEF MarkInvoice, At
  <2>2. w \in Worker /\ w.event = Event(m) /\ w.paso = "retrieveInvoiceSub"
    BY <2>1, InProgress DEF Worker, PasosWorker, Event
  <2>3. eventLog' \in [LogKeys -> {"none", "success", "error"}]  BY <1>1, Before DEF MarkInvoice
  <2>4. Goes(m, w)  BY <1>1 DEF MarkInvoice, Step
  <2> HIDE DEF w
  <2>5. LocalsOK(w)  BY <1>1, <2>2, SameKind DEF MarkInvoice
  <2> QED BY <1>1, <2>2, <2>3, <2>4, <2>5, WorkerStepTypes, Before
          DEF MarkInvoice, stripeVars
<1>2. CASE MarkInvoiceFails(m)
  BY <1>2, FaultBound, Before, OutcomeOK, WorkerStepTypes DEF MarkInvoiceFails, At, Finish,
     stripeVars, dbVars
<1>3. CASE RetrieveInvoiceSub(m)
  <2> DEFINE w == [worker[m] EXCEPT !.paso = "findBySub",
                                    !.vigencia = subs[Event(m).sub].periodo]
  <2>1. ~At(m, "idle")  BY <1>3 DEF RetrieveInvoiceSub, At
  <2>2. subs[Event(m).sub].periodo \in Period  BY <2>1, InProgress, Before DEF Sub
  <2>3. w \in Worker /\ w.event = Event(m) /\ w.paso = "findBySub"
    BY <2>1, <2>2, InProgress DEF Worker, PasosWorker, Event
  <2>4. Goes(m, w)  BY <1>3 DEF RetrieveInvoiceSub
  <2> HIDE DEF w
  <2>5. LocalsOK(w)  BY <1>3, <2>3, SameKind DEF RetrieveInvoiceSub
  <2> QED BY <1>3, <2>3, <2>4, <2>5, WorkerStepTypes, Before
          DEF RetrieveInvoiceSub, stripeVars, dbVars
<1>4. CASE FindBySub(m)
  <2>1. ~At(m, "idle")  BY <1>4 DEF FindBySub, At
  <2>2. CASE Finish(m)
    BY <1>4, <2>1, <2>2, OutcomeOK, WorkerStepTypes, Before
       DEF FindBySub, Finish, stripeVars, dbVars
  <2>3. CASE \E r \in RowsOfSub(Event(m).sub) :
                Goes(m, [worker[m] EXCEPT !.paso = "extend", !.row = r])
    <3>1. PICK r \in RowIds : Goes(m, [worker[m] EXCEPT !.paso = "extend", !.row = r])
      BY <2>3 DEF RowsOfSub
    <3> DEFINE w == [worker[m] EXCEPT !.paso = "extend", !.row = r]
    <3>2. r \in 0 .. MaxRows /\ r # 0  OBVIOUS
    <3>3. w \in Worker /\ w.event = Event(m) /\ w.paso = "extend" /\ w.row = r
      BY <2>1, <3>2, InProgress DEF Worker, PasosWorker, Event
    <3> HIDE DEF w
    <3>4. LocalsOK(w) /\ Goes(m, w)  BY <1>4, <3>1, <3>2, <3>3, SameKind DEF FindBySub, w
    <3> QED BY <1>4, <3>3, <3>4, WorkerStepTypes, Before DEF FindBySub, stripeVars, dbVars
  <2> QED BY <1>4, <2>2, <2>3 DEF FindBySub
<1>5. CASE ExtendPlan(m)
  <2>1. ~At(m, "idle") /\ Event(m).tipo \in InvoiceTypes
    BY <1>5 DEF ExtendPlan, At, Event, TypeInv, LocalsOK, InvoiceSteps
  <2>2. worker[m].row \in RowIds /\ worker[m].vigencia \in Period
    BY <1>5, <2>1, InProgress DEF ExtendPlan, At, LocalsOK, Worker
  <2>3. cfdi' \in [CfdiKeys -> 0 .. MaxCfdi]
    BY <1>0, <1>5, <2>1, CfdiTypes, MarkerShape DEF ExtendPlan
  <2>4. rows' \in [RowIds -> Row]
    <3> DEFINE r == worker[m].row
               row == [rows[r] EXCEPT !.estatus = "activo", !.vigencia = worker[m].vigencia]
    <3>1. rows[r] \in Row  BY <2>2, Before
    <3>2. row \in Row  BY <2>2, <3>1 DEF Row, Estatus
    <3>3. rows' = [rows EXCEPT ![r] = row]  BY <1>5, <2>2, Before DEF ExtendPlan
    <3> QED BY <2>2, <3>2, <3>3, Before
  <2> QED BY <1>5, <2>1, <2>3, <2>4, OutcomeOK, WorkerStepTypes, Before
          DEF ExtendPlan, Finish, stripeVars
<1> QED BY <1>1, <1>2, <1>3, <1>4, <1>5 DEF OnInvoicePaid

LEMMA UpdateTypes ==
    ASSUME TypeInv, NEW m \in Workers, ~At(m, "idle"), NEW st \in Estatus, NEW v \in Period,
           UpdateRowsOf(m, st, v)
    PROVE  TypeInv'
<1>1. \A r \in RowIds : [rows[r] EXCEPT !.estatus = st,
                                        !.vigencia = IF v = 0 THEN @ ELSE v] \in Row
  <2> TAKE r \in RowIds
  <2>1. rows[r] \in Row /\ rows[r].vigencia \in Period /\ st \in Estatus \cup {"free"}
    BY Before DEF Row
  <2>2. PICK x \in Period : x = IF v = 0 THEN rows[r].vigencia ELSE v  BY <2>1
  <2>3. [rows[r] EXCEPT !.estatus = st, !.vigencia = x] \in Row  BY <2>1 DEF Row
  <2> QED BY <2>2, <2>3
<1>2. rows' \in [RowIds -> Row]  BY <1>1, Before DEF UpdateRowsOf
<1> QED BY <1>2, OutcomeOK, WorkerStepTypes, Before DEF UpdateRowsOf, Finish, stripeVars

LEMMA AdvanceTypes == ASSUME TypeInv, NEW m \in Workers, Advance(m) PROVE TypeInv'
<1>1. CASE OnCheckoutSessionCompleted(m)  BY <1>1, CheckoutEventTypes
<1>2. CASE OnInvoicePaid(m)  BY <1>2, InvoiceTypesOK
<1>3. CASE OnInvoicePaymentFailed(m)  BY <1>3, UpdateTypes DEF OnInvoicePaymentFailed, At, Estatus
<1>4. CASE OnSubscriptionUpdated(m)
  <2>1. ~At(m, "idle") /\ Event(m).tipo = "customer.subscription.updated"
    BY <1>4 DEF OnSubscriptionUpdated, At, Event, TypeInv, LocalsOK
  <2>2. Event(m).periodo \in Period /\ Event(m).status \in {"active", "past_due"}
    BY <2>1, InProgress, EventShape
  <2>3. PlanEstatus(Event(m).status) \in Estatus  BY <2>2 DEF PlanEstatus, Estatus
  <2> QED BY <1>4, <2>1, <2>2, <2>3, UpdateTypes DEF OnSubscriptionUpdated
<1>5. CASE OnSubscriptionDeleted(m)  BY <1>5, UpdateTypes DEF OnSubscriptionDeleted, At, Estatus
<1>6. CASE Register(m)
  BY <1>6, InProgress, Before, IdleOK, WorkerStepTypes DEF Register, At, stripeVars
<1> QED BY <1>1, <1>2, <1>3, <1>4, <1>5, <1>6 DEF Advance

LEMMA FailTypes ==
    ASSUME TypeInv, NEW m \in Workers, HandlerFails(m) \/ RegisterFails(m)
    PROVE  TypeInv'
<1>1. CASE HandlerFails(m)
  BY <1>1, OutcomeOK, WorkerStepTypes, Before, FaultBound
     DEF HandlerFails, Throw, At, stripeVars, dbVars
<1>2. CASE RegisterFails(m)
  BY <1>2, InProgress, Before, IdleOK, WorkerStepTypes, FaultBound DEF RegisterFails, At,
     stripeVars, dbVars
<1> QED BY <1>1, <1>2

LEMMA CrashTypes == ASSUME TypeInv, Crash PROVE TypeInv'
<1>1. \A c \in Sessions : [pedidos[c] EXCEPT !.paso = "dead"] \in Pedido
  BY Before DEF Pedido, PasosPedido
<1>2. pedidos' \in [Sessions -> Pedido]  BY <1>1, Before DEF Crash
<1>3. \A c \in Sessions : RequestOK(pedidos'[c])  BY Before DEF Crash, TypeInv, RequestOK, Pedido
<1>4. worker' \in [Workers -> Worker] /\ \A m \in Workers : LocalsOK(worker'[m])
  BY IdleOK DEF Crash
<1> QED BY <1>2, <1>3, <1>4 DEF Crash, TypeInv, TypeOK, stripeVars, dbVars

LEMMA TypeNext == TypeInv /\ [Next]_vars => TypeInv'
<1> SUFFICES ASSUME TypeInv, [Next]_vars PROVE TypeInv'  OBVIOUS
<1>1. ASSUME NEW c \in Sessions, Stripe(c) \/ Checkout(c) PROVE TypeInv'
  BY <1>1, StripeTypes, CheckoutTypes
<1>2. ASSUME NEW m \in Workers, Advance(m) \/ HandlerFails(m) \/ RegisterFails(m)
      PROVE  TypeInv'
  BY <1>2, AdvanceTypes, FailTypes
<1>3. ASSUME NEW m \in Workers, NEW e \in emitted, Deliver(m, e) PROVE TypeInv'
  BY <1>3, DeliverTypes
<1>4. CASE Crash  BY <1>4, CrashTypes
<1>5. CASE UNCHANGED vars  BY <1>5 DEF vars, TypeInv, TypeOK
<1> QED BY <1>1, <1>2, <1>3, <1>4, <1>5 DEF Next

\* Every variable stays in its set: ids read by a request still name rows,

\* events and businesses when they are used.
THEOREM TypeCorrect == Spec => []TypeOK
<1>1. Spec => []TypeInv  BY TypeInit, TypeNext, PTL DEF Spec
<1>2. TypeInv => TypeOK  BY DEF TypeInv
<1> QED BY <1>1, <1>2, PTL
--------------------
(* One charge, one CFDI.  The row in the log is inserted before the plan   *)
(* is extended and never removed: while a delivery holds the key of an     *)
(* invoice nobody else can, and nothing has been asked for it yet.         *)

Extending(m) == worker[m].paso \in InvoiceSteps
KeyOf(m) == InvoiceKey(Event(m))

InvoiceInv ==
    /\ \A m \in Workers : Extending(m) =>
          eventLog[KeyOf(m)] # "none" /\ cfdi[KeyOf(m)] = 0
    /\ \A m, q \in Workers : Extending(m) /\ Extending(q) /\ KeyOf(m) = KeyOf(q) => m = q
    /\ \A k \in InvoiceKeys : cfdi[k] <= 1 /\ (eventLog[k] = "none" => cfdi[k] = 0)

LEMMA InvoiceInit == Init => InvoiceInv
<1> SUFFICES ASSUME Init PROVE InvoiceInv  OBVIOUS
<1>1. \A m \in Workers : ~Extending(m)  BY IdleOK DEF Init, Extending, Idle, InvoiceSteps
<1>2. \A k \in InvoiceKeys : cfdi[k] = 0  BY MarkerShape DEF Init
<1> QED BY <1>1, <1>2 DEF InvoiceInv

\* The key a delivery holds is the key of an invoice.

LEMMA KeyType ==
    ASSUME TypeInv, NEW m \in Workers, Extending(m) \/ At(m, "mark")
    PROVE  KeyOf(m) \in InvoiceKeys /\ KeyOf(m) \in LogKeys /\ KeyOf(m) \in CfdiKeys
<1>1. worker[m].event \in Events /\ worker[m].event.tipo \in InvoiceTypes
  BY DEF TypeInv, LocalsOK, Extending, At, InvoiceSteps
<1>2. worker[m].event.sub \in Sessions /\ worker[m].event.periodo \in 1 .. MaxPeriod
  BY <1>1, EventShape DEF InvoiceTypes
<1> QED BY <1>2, MarkerShape DEF KeyOf, InvoiceKey, Event

\* A step after which no delivery holds a key it did not hold before.

LEMMA CalmStep ==
    ASSUME TypeInv, InvoiceInv,
           \A q \in Workers : Extending(q)' => Extending(q) /\ worker'[q].event = worker[q].event,
           \A k \in InvoiceKeys : /\ cfdi'[k] = cfdi[k]
                                  /\ eventLog[k] # "none" => eventLog'[k] # "none"
    PROVE  InvoiceInv'
<1>1. \A q \in Workers : Extending(q)' => Extending(q) /\ KeyOf(q)' = KeyOf(q)  BY DEF KeyOf, Event
<1>2. \A q \in Workers : Extending(q) => KeyOf(q) \in InvoiceKeys  BY KeyType
<1>3. InvoiceKeys' = InvoiceKeys  BY DEF InvoiceKeys
<1> QED BY <1>1, <1>2 DEF InvoiceInv

\* The same, for a step of the delivery m.

LEMMA CalmWorker ==
    ASSUME TypeInv, InvoiceInv, NEW m \in Workers, NEW w, Goes(m, w),
           w.paso \in InvoiceSteps => Extending(m) /\ w.event = Event(m),
           \A k \in InvoiceKeys : /\ cfdi'[k] = cfdi[k]
                                  /\ eventLog[k] # "none" => eventLog'[k] # "none"
    PROVE  InvoiceInv'
<1>1. worker'[m] = w /\ \A q \in Workers \ {m} : worker'[q] = worker[q]
  BY DEF Goes, TypeInv, TypeOK
<1>2. \A q \in Workers : Extending(q)' => Extending(q) /\ worker'[q].event = worker[q].event
  BY <1>1 DEF Extending, Event
<1> QED BY <1>2, CalmStep

\* The same, when the delivery m does not reach an invoice step.

LEMMA CalmElsewhere ==
    ASSUME TypeInv, InvoiceInv, NEW m \in Workers,
           \A q \in Workers \ {m} : worker'[q] = worker[q],
           worker'[m].paso \notin InvoiceSteps, UNCHANGED <<cfdi, eventLog>>
    PROVE  InvoiceInv'
<1>1. \A q \in Workers : Extending(q)' => Extending(q) /\ worker'[q].event = worker[q].event
  BY DEF Extending
<1> QED BY <1>1, CalmStep

LEMMA CalmOutcome ==
    ASSUME TypeInv, InvoiceInv, NEW m \in Workers, NEW err \in BOOLEAN, Goes(m, Outcome(m, err)),
           \A k \in InvoiceKeys : cfdi'[k] = cfdi[k], UNCHANGED eventLog
    PROVE  InvoiceInv'
<1>1. Outcome(m, err).paso = "register"  BY DEF Outcome, Idle
<1> QED BY <1>1, CalmWorker DEF InvoiceSteps

LEMMA InvoiceAdvance ==
    ASSUME TypeInv, InvoiceInv, NEW m \in Workers,
           Advance(m) \/ HandlerFails(m) \/ RegisterFails(m)
    PROVE  InvoiceInv'
<1>0. worker[m] \in Worker  BY DEF TypeInv, TypeOK
<1>1. CASE MarkInvoice(m)
  <2> DEFINE k == KeyOf(m)
  <2>1. k \in InvoiceKeys /\ k \in LogKeys /\ eventLog[k] = "none" /\ ~Extending(m)
    BY <1>1, KeyType DEF MarkInvoice, KeyOf, Extending, At, InvoiceSteps
  <2>2. /\ eventLog' = [eventLog EXCEPT ![k] = "success"] /\ UNCHANGED cfdi
        /\ worker' = [worker EXCEPT ![m] = [worker[m] EXCEPT !.paso = "retrieveInvoiceSub"]]
    BY <1>1 DEF MarkInvoice, KeyOf, Step, Goes
  <2>3. worker'[m].event = worker[m].event /\ \A q \in Workers \ {m} : worker'[q] = worker[q]
    BY <1>0, <2>2 DEF Worker, TypeInv, TypeOK
  <2>4. KeyOf(m)' = k /\ \A q \in Workers \ {m} : (Extending(q)' <=> Extending(q)) /\ KeyOf(q)' = KeyOf(q)
    BY <2>3 DEF KeyOf, Event, Extending
  <2>5. \A q \in Workers : Extending(q) => KeyOf(q) # k /\ KeyOf(q) \in InvoiceKeys
    BY <2>1, KeyType DEF InvoiceInv
  <2>6. cfdi[k] = 0  BY <2>1 DEF InvoiceInv
  <2>7. \A j \in InvoiceKeys : eventLog'[j] = IF j = k THEN "success" ELSE eventLog[j]
    BY <2>1, <2>2, MarkerShape, Before
  <2> HIDE DEF k
  <2> QED BY <2>1, <2>2, <2>4, <2>5, <2>6, <2>7 DEF InvoiceInv
<1>2. CASE ExtendPlan(m)
  <2> DEFINE k == KeyOf(m)
  <2>1. k \in InvoiceKeys /\ k \in CfdiKeys /\ Extending(m) /\ eventLog[k] # "none" /\ cfdi[k] = 0
    BY <1>2, KeyType DEF ExtendPlan, Extending, At, InvoiceSteps, InvoiceInv
  <2>2. cfdi' = [cfdi EXCEPT ![k] = 1] /\ UNCHANGED eventLog
    BY <1>2, <2>1 DEF ExtendPlan, TriggerCfdi, KeyOf, MaxCfdi
  <2>3. worker'[m].paso = "register" /\ \A q \in Workers \ {m} : worker'[q] = worker[q]
    BY <1>2 DEF ExtendPlan, Finish, Goes, Outcome, Idle, TypeInv, TypeOK
  <2>4. /\ ~Extending(m)'
        /\ \A q \in Workers \ {m} : (Extending(q)' <=> Extending(q)) /\ KeyOf(q)' = KeyOf(q)
    BY <2>3 DEF KeyOf, Event, Extending, InvoiceSteps
  <2>5. \A q \in Workers \ {m} : Extending(q) => KeyOf(q) # k /\ KeyOf(q) \in InvoiceKeys
    BY <2>1, KeyType DEF InvoiceInv
  <2>6. \A j \in InvoiceKeys : cfdi'[j] = IF j = k THEN 1 ELSE cfdi[j]
    BY <2>1, <2>2, MarkerShape, Before
  <2> HIDE DEF k
  <2> QED BY <2>1, <2>2, <2>4, <2>5, <2>6 DEF InvoiceInv
<1>3. CASE RetrieveInvoiceSub(m)
  <2> DEFINE w == [worker[m] EXCEPT !.paso = "findBySub",
                                    !.vigencia = subs[Event(m).sub].periodo]
  <2>1. Goes(m, w) /\ Extending(m)  BY <1>3 DEF RetrieveInvoiceSub, Extending, At, InvoiceSteps
  <2>2. w.event = Event(m)  BY <1>0 DEF Worker, Event
  <2> HIDE DEF w
  <2> QED BY <1>3, <2>1, <2>2, CalmWorker DEF RetrieveInvoiceSub, dbVars
<1>4. CASE FindBySub(m)
  <2>1. CASE Finish(m)  BY <1>4, <2>1, CalmOutcome DEF FindBySub, Finish, dbVars
  <2>2. ASSUME NEW r \in RowsOfSub(Event(m).sub),
               Goes(m, [worker[m] EXCEPT !.paso = "extend", !.row = r])
        PROVE  InvoiceInv'
    <3> DEFINE w == [worker[m] EXCEPT !.paso = "extend", !.row = r]
    <3>1. Goes(m, w) /\ Extending(m)  BY <1>4, <2>2 DEF FindBySub, Extending, At, InvoiceSteps
    <3>2. w.event = Event(m)  BY <1>0 DEF Worker, Event
    <3> HIDE DEF w
    <3> QED BY <1>4, <3>1, <3>2, CalmWorker DEF FindBySub, dbVars
  <2> QED BY <1>4, <2>1, <2>2 DEF FindBySub
<1>5. CASE MarkInvoiceFails(m)  BY <1>5, CalmOutcome DEF MarkInvoiceFails, Finish, dbVars
<1>6. CASE OnCheckoutSessionCompleted(m)
  <2>1. CASE Upsert(m)
    <3>1. \A k \in InvoiceKeys : cfdi'[k] = cfdi[k]
      BY <2>1, InProgress, MarkerShape, Before DEF Upsert, At, TriggerCfdi
    <3> QED BY <2>1, <3>1, CalmOutcome DEF Upsert, Finish
  <2>2. CASE NegocioDataUnreadable(m) \/ UpsertRefused(m)
    BY <2>2, CalmOutcome DEF NegocioDataUnreadable, UpsertRefused, Throw, dbVars
  <2>3. CASE CreateNegocio(m) \/ RetrieveSub(m) \/ RetrieveSubFails(m) \/ FindRow(m)
    <3>1. /\ worker'[m].paso \in CheckoutSteps
          /\ \A q \in Workers \ {m} : worker'[q] = worker[q]
      <4>1. worker \in [Workers -> Worker]  BY Before DEF TypeInv, TypeOK
      <4>2. CASE CreateNegocio(m)
        BY <1>0, <4>1, <4>2 DEF CreateNegocio, Goes, CheckoutSteps, Worker
      <4>3. CASE RetrieveSub(m)  BY <1>0, <4>1, <4>3 DEF RetrieveSub, Goes, CheckoutSteps, Worker
      <4>4. CASE RetrieveSubFails(m)
        BY <1>0, <4>1, <4>4 DEF RetrieveSubFails, Step, Goes, CheckoutSteps, Worker
      <4>5. CASE FindRow(m)
        <5>1. PICK r : Goes(m, [worker[m] EXCEPT !.paso = "upsert", !.row = r])  BY <4>5 DEF FindRow
        <5> QED BY <1>0, <4>1, <5>1 DEF Goes, CheckoutSteps, Worker
      <4> QED BY <2>3, <4>2, <4>3, <4>4, <4>5
    <3>2. worker'[m].paso \notin InvoiceSteps  BY <3>1 DEF CheckoutSteps, InvoiceSteps
    <3>3. UNCHANGED <<cfdi, eventLog>>
      BY <2>3 DEF CreateNegocio, RetrieveSub, RetrieveSubFails, FindRow, dbVars
    <3> QED BY <3>1, <3>2, <3>3, CalmElsewhere
  <2> QED BY <1>6, <2>1, <2>2, <2>3 DEF OnCheckoutSessionCompleted
<1>7. CASE OnInvoicePaymentFailed(m) \/ OnSubscriptionUpdated(m) \/ OnSubscriptionDeleted(m)
  BY <1>7, CalmOutcome DEF OnInvoicePaymentFailed, OnSubscriptionUpdated,
     OnSubscriptionDeleted, UpdateRowsOf, Finish
<1>8. CASE Register(m) \/ RegisterFails(m)
  BY <1>8, IdleOK, MarkerShape, Before, CalmWorker DEF Register, RegisterFails, InvoiceSteps, dbVars
<1>9. CASE HandlerFails(m)  BY <1>9, CalmOutcome DEF HandlerFails, Throw, dbVars
<1> QED BY <1>1, <1>2, <1>3, <1>4, <1>5, <1>6, <1>7, <1>8, <1>9 DEF Advance, OnInvoicePaid

LEMMA InvoiceNext == TypeInv /\ InvoiceInv /\ [Next]_vars => InvoiceInv'
<1> SUFFICES ASSUME TypeInv, InvoiceInv, [Next]_vars PROVE InvoiceInv'  OBVIOUS
<1>1. ASSUME UNCHANGED <<eventLog, cfdi, worker>> PROVE InvoiceInv'  BY <1>1, CalmStep DEF Extending
<1>2. ASSUME NEW c \in Sessions, Stripe(c) PROVE InvoiceInv'
  BY <1>1, <1>2 DEF Stripe, Pay, Renew, ChargeFails, Recover, Cancel, dbVars
<1>3. ASSUME NEW c \in Sessions, Checkout(c) PROVE InvoiceInv'
  BY <1>1, <1>3 DEF Checkout, CreateCheckoutSession, CancelExisting, CancelExistingFails,
     EnsureStripeCustomer, SaveStripeCustomer, OpenSession, CheckoutFails, dbVars
<1>4. ASSUME NEW m \in Workers, Advance(m) \/ HandlerFails(m) \/ RegisterFails(m)
      PROVE  InvoiceInv'
  BY <1>4, InvoiceAdvance
<1>5. ASSUME NEW m \in Workers, NEW e \in emitted, Deliver(m, e) PROVE InvoiceInv'
  <2>1. CASE Known(m, e) \/ LogReadFails(m, e)  BY <1>1, <2>1 DEF Known, LogReadFails, dbVars
  <2>2. CASE HandleWebhookEvent(m, e)
    <3>1. e \in Events  BY DEF TypeInv, TypeOK
    <3>2. FirstStep(e) \notin InvoiceSteps
      BY <3>1, EventShape DEF FirstStep, InvoiceSteps, TiposEvento
    <3>3. /\ worker'[m].paso = FirstStep(e)
          /\ \A q \in Workers \ {m} : worker'[q] = worker[q]
      BY <2>2, IdleOK DEF HandleWebhookEvent, Worker, Goes, TypeInv, TypeOK
    <3> QED BY <2>2, <3>2, <3>3, CalmElsewhere DEF HandleWebhookEvent, dbVars
  <2> QED BY <1>5, <2>1, <2>2 DEF Deliver
<1>6. CASE Crash  BY <1>6, IdleOK, CalmStep DEF Crash, Extending, InvoiceSteps, dbVars
<1>7. CASE UNCHANGED vars  BY <1>1, <1>7 DEF vars
<1> QED BY <1>2, <1>3, <1>4, <1>5, <1>6, <1>7 DEF Next

\* However the two events of an invoice are delivered, repeated or cut short,
\* onInvoicePaid asks for its CFDI at most once: a renewal has one request at
\* the most, the first charge one besides those of checkout.session.completed.
THEOREM InvoiceAtMostOnce == Spec => []InvoiceOnce
<1>1. Init => TypeInv /\ InvoiceInv  BY TypeInit, InvoiceInit
<1>2. (TypeInv /\ InvoiceInv) /\ [Next]_vars => (TypeInv /\ InvoiceInv)'  BY TypeNext, InvoiceNext
<1>3. TypeInv /\ InvoiceInv => InvoiceOnce
  <2> SUFFICES ASSUME TypeInv, InvoiceInv, NEW c \in Sessions, NEW p \in 1 .. MaxPeriod
               PROVE  CfdiDelCobro(c, p) <= 1 + CfdiDelCheckout(c, p)
    BY DEF InvoiceOnce
  <2>1. cfdi[Marker(c, p)] <= 1  BY MarkerShape DEF InvoiceInv
  <2>0. cfdi \in [CfdiKeys -> 0 .. 2]  BY DEF TypeInv, TypeOK, MaxCfdi
  <2>2. cfdi[Marker(c, p)] \in Nat /\ cfdi[Completed(c)] \in Nat
    <3>1. cfdi[Marker(c, p)] \in 0 .. 2 /\ cfdi[Completed(c)] \in 0 .. 2  BY <2>0, MarkerShape
    <3> QED BY <3>1
  <2>3. CfdiDelCheckout(c, p) \in Nat  BY <2>2 DEF CfdiDelCheckout
  <2> QED BY <2>1, <2>2, <2>3 DEF CfdiDelCobro
<1> QED BY <1>1, <1>2, <1>3, PTL DEF Spec

--------------------
(* Billing implements PlanLifecycle: whatever the order, the repetition    *)
(* and the losses of the deliveries, a row of billing_subscriptions moves  *)
(* only on Stripe's evidence for the subscription it holds.                *)

\* Stripe's events are true of the subscription they name.
EventsTrue ==
    \A e \in emitted : /\ e.sub \in PaidSubs
                       /\ e.tipo = "customer.subscription.deleted" => e.sub \in CanceledSubs

\* A subscription begins when its session is paid.
SubsBegun == \A c \in Sessions : subs[c].estado # "none" => pedidos[c].paso = "paid"

\* Deliveries handle events Stripe sent; the row one will extend exists.
WorkersBound ==
    \A m \in Workers : /\ ~At(m, "idle") => Event(m) \in emitted
                       /\ At(m, "extend") => Exists(worker[m].row)

\* A row holds a paid subscription, and no other row holds the same.
RowsBound ==
    /\ \A r \in RowIds : Exists(r) => rows[r].sub \in PaidSubs
    /\ \A r, q \in RowIds : Exists(r) /\ Exists(q) /\ rows[r].sub = rows[q].sub => r = q

EvidenceInv == EventsTrue /\ SubsBegun /\ WorkersBound /\ RowsBound

LEMMA EvidenceInit == Init => EvidenceInv
<1> SUFFICES ASSUME Init PROVE EvidenceInv  OBVIOUS
<1>1. EventsTrue /\ SubsBegun  BY DEF Init, EventsTrue, SubsBegun
<1>2. WorkersBound  BY IdleOK DEF Init, WorkersBound, At
<1>3. \A r \in RowIds : ~Exists(r)  BY DEF Init, Exists, NoRow
<1> QED BY <1>1, <1>2, <1>3 DEF EvidenceInv, RowsBound

--------------------
(* Evidence only grows.                                                    *)

Grows == /\ PaidSubs \subseteq PaidSubs' /\ CanceledSubs \subseteq CanceledSubs'
         /\ emitted \subseteq emitted' /\ EventsTrue' /\ SubsBegun'

LEMMA GrowsEmit ==
    ASSUME EventsTrue, NEW c \in Sessions, NEW es, Emit(es),
           \A e \in es : /\ e.sub = c
                         /\ e.tipo = "customer.subscription.deleted" => c \in CanceledSubs',
           c \in PaidSubs', PaidSubs \subseteq PaidSubs', CanceledSubs \subseteq CanceledSubs'
    PROVE  EventsTrue' /\ emitted \subseteq emitted'
  BY DEF EventsTrue, Emit

LEMMA EndSubGrows ==
    ASSUME TypeInv, EvidenceInv, NEW c \in Sessions, EndSub(c),
           \A d \in Sessions : pedidos[d].paso = "paid" => pedidos'[d].paso = "paid"
    PROVE  Grows
<1>1. /\ subs \in [Sessions -> Sub] /\ subs[c].estado # "none"
      /\ subs' = [subs EXCEPT ![c].estado = "canceled"]
  BY Before DEF EndSub
<1>2. /\ PaidSubs' = PaidSubs /\ c \in PaidSubs /\ CanceledSubs \subseteq CanceledSubs'
      /\ c \in CanceledSubs'
  BY <1>1 DEF PaidSubs, CanceledSubs, Sub
<1>3. SubsBegun'  BY <1>1 DEF SubsBegun, EvidenceInv, Sub
<1>4. EventsTrue' /\ emitted \subseteq emitted'
  BY <1>2, GrowsEmit DEF EndSub, Deleted, Ev, EvidenceInv
<1> QED BY <1>2, <1>3, <1>4 DEF Grows

LEMMA StripeGrows ==
    ASSUME TypeInv, EvidenceInv, NEW c \in Sessions, Stripe(c)
    PROVE  Grows
<1>0. subs \in [Sessions -> Sub] /\ pedidos \in [Sessions -> Pedido]  BY Before
<1>1. CASE Pay(c)
  <2>1. subs[c].estado = "none"  BY <1>1 DEF Pay, EvidenceInv, SubsBegun
  <2>2. PaidSubs \subseteq PaidSubs' /\ c \in PaidSubs' /\ CanceledSubs \subseteq CanceledSubs'
    BY <1>0, <1>1, <2>1 DEF Pay, PaidSubs, CanceledSubs, Sub
  <2>3. SubsBegun'  BY <1>0, <1>1 DEF Pay, SubsBegun, EvidenceInv, Sub, Pedido
  <2>4. EventsTrue' /\ emitted \subseteq emitted'
    BY <1>1, <2>2, GrowsEmit DEF Pay, Completed, Paid, Succeeded, Ev, EvidenceInv
  <2> QED BY <2>2, <2>3, <2>4 DEF Grows
<1>2. CASE Renew(c)
  <2>1. /\ PaidSubs' = PaidSubs /\ c \in PaidSubs /\ CanceledSubs' = CanceledSubs
    BY <1>0, <1>2 DEF Renew, PaidSubs, CanceledSubs, Sub
  <2>2. SubsBegun'  BY <1>0, <1>2 DEF Renew, SubsBegun, EvidenceInv, Sub
  <2>3. EventsTrue' /\ emitted \subseteq emitted'
    BY <1>2, <2>1, GrowsEmit DEF Renew, Updated, Paid, Succeeded, Ev, EvidenceInv
  <2> QED BY <2>1, <2>2, <2>3 DEF Grows
<1>3. CASE ChargeFails(c)
  <2>1. /\ PaidSubs' = PaidSubs /\ c \in PaidSubs /\ CanceledSubs' = CanceledSubs
    BY <1>0, <1>3 DEF ChargeFails, PaidSubs, CanceledSubs, Sub
  <2>2. SubsBegun'  BY <1>0, <1>3 DEF ChargeFails, SubsBegun, EvidenceInv, Sub
  <2>3. EventsTrue' /\ emitted \subseteq emitted'
    BY <1>3, <2>1, GrowsEmit DEF ChargeFails, Updated, Failed, Ev, EvidenceInv
  <2> QED BY <2>1, <2>2, <2>3 DEF Grows
<1>4. CASE Recover(c)
  <2>1. /\ PaidSubs' = PaidSubs /\ c \in PaidSubs /\ CanceledSubs' = CanceledSubs
    BY <1>0, <1>4 DEF Recover, PaidSubs, CanceledSubs, Sub
  <2>2. SubsBegun'  BY <1>0, <1>4 DEF Recover, SubsBegun, EvidenceInv, Sub
  <2>3. EventsTrue' /\ emitted \subseteq emitted'
    BY <1>4, <2>1, GrowsEmit DEF Recover, Updated, Paid, Succeeded, Ev, EvidenceInv
  <2> QED BY <2>1, <2>2, <2>3 DEF Grows
<1>5. CASE Cancel(c)  BY <1>5, EndSubGrows DEF Cancel
<1> QED BY <1>1, <1>2, <1>3, <1>4, <1>5 DEF Stripe

LEMMA CheckoutGrows ==
    ASSUME TypeInv, EvidenceInv, NEW c \in Sessions, Checkout(c)
    PROVE  Grows
<1>1. \A d \in Sessions : pedidos[d].paso = "paid" => pedidos'[d].paso = "paid"
  <2>1. pedidos[c].paso # "paid"
    BY DEF Checkout, CreateCheckoutSession, CancelExisting, CancelExistingFails,
       EnsureStripeCustomer, SaveStripeCustomer, OpenSession, CheckoutFails, PedidoAt
  <2>2. PICK p : pedidos' = [pedidos EXCEPT ![c] = p]
    BY DEF Checkout, CreateCheckoutSession, CancelExisting, CancelExistingFails,
       EnsureStripeCustomer, SaveStripeCustomer, OpenSession, CheckoutFails, PedidoGoes
  <2> QED BY <2>1, <2>2, Before
<1>2. CASE CancelExisting(c)
  BY <1>2, <1>1, EndSubGrows DEF CancelExisting, PedidoAt, TypeInv, RequestOK
<1>3. CASE UNCHANGED stripeVars
  BY <1>1, <1>3 DEF stripeVars, Grows, PaidSubs, CanceledSubs, EvidenceInv, EventsTrue, SubsBegun
<1> QED BY <1>2, <1>3 DEF Checkout, CreateCheckoutSession, CancelExistingFails,
       EnsureStripeCustomer, SaveStripeCustomer, OpenSession, CheckoutFails

\* Growing evidence is a step of PlanLifecycle.
LEMMA GrowsIsEvidence ==
    ASSUME TypeInv, EvidenceInv, Grows, UNCHANGED <<rows, worker>>
    PROVE  EvidenceInv' /\ Plan!Evidence
<1>1. RowsBound'  BY DEF EvidenceInv, RowsBound, Grows, Exists
<1>2. WorkersBound'  BY DEF EvidenceInv, WorkersBound, Grows, At, Event, Exists
<1>3. FailedSubs \subseteq FailedSubs'  BY DEF FailedSubs, Grows, Failed, Updated, Ev
<1>4. FailedSubs' \subseteq PaidSubs'  BY DEF FailedSubs, Grows, EventsTrue, Failed, Updated, Ev
<1>5. CanceledSubs' \subseteq PaidSubs' /\ PaidSubs' \subseteq Sessions
  BY DEF CanceledSubs, PaidSubs
<1>6. UNCHANGED [r \in RowIds |-> PlanOf(r)]  BY DEF PlanOf
<1> QED BY <1>1, <1>2, <1>3, <1>4, <1>5, <1>6 DEF Grows, EvidenceInv, Plan!Evidence

--------------------
(* The deliveries.                                                         *)

StripeSame == UNCHANGED <<pedidos, subs, emitted>>

LEMMA EvidenceSame ==
    ASSUME EvidenceInv, StripeSame
    PROVE  /\ UNCHANGED <<PaidSubs, FailedSubs, CanceledSubs>>
           /\ EventsTrue' /\ SubsBegun'
  BY DEF EvidenceInv, StripeSame, PaidSubs, FailedSubs, CanceledSubs, EventsTrue, SubsBegun

\* What the locals of a delivery may become.
NextLocals(m, w) ==
    /\ w.paso # "idle" => w.event \in emitted
    /\ w.paso = "extend" => Exists(w.row)

\* A step of a delivery that leaves the rows alone is a stutter.

LEMMA ReadStep ==
    ASSUME TypeInv, EvidenceInv, StripeSame, UNCHANGED rows,
           NEW m \in Workers, \A q \in Workers \ {m} : worker'[q] = worker[q],
           NextLocals(m, worker'[m])
    PROVE  EvidenceInv' /\ UNCHANGED Plan!planVars
<1>1. RowsBound'  BY EvidenceSame DEF EvidenceInv, RowsBound, Exists
<1>2. WorkersBound'  BY DEF EvidenceInv, WorkersBound, NextLocals, At, Event, Exists, StripeSame
<1>3. UNCHANGED [r \in RowIds |-> PlanOf(r)]  BY DEF PlanOf
<1> QED BY <1>1, <1>2, <1>3, EvidenceSame DEF EvidenceInv, Plan!planVars

\* A delivery that writes a row finishes.

LEMMA WriteStep ==
    ASSUME TypeInv, EvidenceInv, StripeSame, NEW m \in Workers, ~At(m, "idle"), Finish(m),
           \A r \in RowIds : Exists(r) => Exists(r)',
           RowsBound'
    PROVE  EvidenceInv'
<1>1. worker'[m].paso = "register" /\ worker'[m].event = Event(m)
  BY DEF Finish, Goes, Outcome, Idle, TypeInv, TypeOK
<1>2. \A q \in Workers \ {m} : worker'[q] = worker[q]  BY DEF Finish, Goes, TypeInv, TypeOK
<1>3. \A q \in Workers : At(q, "extend") => worker[q].row \in RowIds
  <2> TAKE q \in Workers
  <2>1. worker[q] \in Worker /\ LocalsOK(worker[q])  BY DEF TypeInv, TypeOK
  <2>2. worker[q].row \in 0 .. MaxRows  BY <2>1 DEF Worker
  <2>3. At(q, "extend") => worker[q].row # 0  BY <2>1 DEF LocalsOK, At
  <2> QED BY <2>2, <2>3
<1>4. WorkersBound'  BY <1>1, <1>2, <1>3 DEF EvidenceInv, WorkersBound, At, Event, StripeSame
<1> QED BY <1>4, EvidenceSame DEF EvidenceInv

LEMMA UpsertRefines ==
    ASSUME TypeInv, EvidenceInv, NEW m \in Workers, Upsert(m)
    PROVE  EvidenceInv' /\ Plan!PlanNext
<1> DEFINE c == Event(m).sub
<1>1. ~At(m, "idle") /\ StripeSame /\ Finish(m)  BY DEF Upsert, At, StripeSame, stripeVars
<1>2. c \in Sessions /\ c \in PaidSubs
  BY <1>1, InProgress DEF EvidenceInv, WorkersBound, EventsTrue
<1>3. PICK r \in RowIds : RowsOfSub(c) \subseteq {r} /\ rows' = [rows EXCEPT ![r] = UpsertedRow(m, r)]
  BY DEF Upsert
<1>4. /\ rows'[r].sub = c /\ rows'[r].estatus = "activo"
      /\ \A q \in RowIds \ {r} : rows'[q] = rows[q]
  BY <1>3, Before DEF UpsertedRow
<1>5. RowsBound'
  BY <1>2, <1>3, <1>4, <1>1, EvidenceSame DEF EvidenceInv, RowsBound, Exists, RowsOfSub
<1>6. EvidenceInv'  BY <1>1, <1>4, <1>5, WriteStep DEF Exists
<1>7. [q \in RowIds |-> PlanOf(q)]'
        = [[q \in RowIds |-> PlanOf(q)] EXCEPT ![r] = [estado |-> "activo", sub |-> c]]
  BY <1>3, <1>4 DEF PlanOf
<1>8. Plan!Activate(r, c)  BY <1>1, <1>2, <1>7, EvidenceSame DEF Plan!Activate
<1> QED BY <1>2, <1>6, <1>8 DEF Plan!PlanNext

LEMMA ExtendRefines ==
    ASSUME TypeInv, EvidenceInv, NEW m \in Workers, ExtendPlan(m)
    PROVE  EvidenceInv' /\ Plan!PlanNext
<1> DEFINE r == worker[m].row
           c == rows[r].sub
<1>1. ~At(m, "idle") /\ StripeSame /\ Finish(m)  BY DEF ExtendPlan, At, StripeSame, stripeVars
<1>2. r \in RowIds /\ Exists(r)
  BY <1>1, InProgress DEF ExtendPlan, Worker, At, LocalsOK, EvidenceInv, WorkersBound
<1>3. c \in PaidSubs /\ c \in Sessions  BY <1>2 DEF EvidenceInv, RowsBound, PaidSubs
<1>4. /\ rows'[r].sub = c /\ rows'[r].estatus = "activo"
      /\ \A q \in RowIds \ {r} : rows'[q] = rows[q]
  BY <1>2, Before DEF ExtendPlan, Row
<1>5. RowsBound'  BY <1>1, <1>2, <1>4, EvidenceSame DEF EvidenceInv, RowsBound, Exists
<1>6. EvidenceInv'  BY <1>1, <1>4, <1>5, WriteStep DEF Exists
<1>7. [q \in RowIds |-> PlanOf(q)]'
        = [[q \in RowIds |-> PlanOf(q)] EXCEPT ![r] = [estado |-> "activo", sub |-> c]]
  BY <1>2, <1>4 DEF PlanOf
<1>8. Plan!Activate(r, c)  BY <1>1, <1>3, <1>7, EvidenceSame DEF Plan!Activate
<1> QED BY <1>2, <1>3, <1>6, <1>8 DEF Plan!PlanNext

\* An UPDATE by subscription touches one row or none.

LEMMA UpdateRefines ==
    ASSUME TypeInv, EvidenceInv, NEW m \in Workers, ~At(m, "idle"),
           NEW st \in Estatus, NEW v \in Period, UpdateRowsOf(m, st, v),
           st = "vencido" => Event(m).sub \in CanceledSubs,
           st = "pago_pendiente" => Event(m).sub \in FailedSubs
    PROVE  EvidenceInv' /\ (Plan!PlanNext \/ UNCHANGED Plan!planVars)
<1> DEFINE c == Event(m).sub
<1>1. StripeSame /\ Finish(m) /\ c \in Sessions /\ c \in PaidSubs
  BY InProgress DEF UpdateRowsOf, StripeSame, stripeVars, EvidenceInv, WorkersBound, EventsTrue
<1>2. \A q \in RowIds : /\ rows'[q].sub = rows[q].sub
                        /\ q \in RowsOfSub(c) => rows'[q].estatus = st
                        /\ q \notin RowsOfSub(c) => rows'[q] = rows[q]
  <2> TAKE q \in RowIds
  <2>1. rows[q] \in Row  BY Before
  <2> QED BY <2>1 DEF UpdateRowsOf, Row
<1>3. \A q \in RowIds : Exists(q)' <=> Exists(q)  BY <1>2 DEF Exists, Estatus, RowsOfSub
<1>4. RowsBound'  BY <1>1, <1>2, <1>3, EvidenceSame DEF EvidenceInv, RowsBound
<1>5. EvidenceInv'  BY <1>1, <1>3, <1>4, WriteStep
<1>6. CASE RowsOfSub(c) = {}  BY <1>2, <1>6, <1>1, <1>5, EvidenceSame DEF PlanOf, Plan!planVars
<1>7. ASSUME NEW r \in RowsOfSub(c) PROVE Plan!PlanNext
  <2>1. r \in RowIds /\ rows[r].sub = c /\ RowsOfSub(c) = {r}
    BY DEF RowsOfSub, EvidenceInv, RowsBound
  <2>2. [q \in RowIds |-> PlanOf(q)]'
          = [[q \in RowIds |-> PlanOf(q)] EXCEPT ![r] = [estado |-> st, sub |-> c]]
    BY <1>2, <2>1 DEF PlanOf
  <2>3. [[q \in RowIds |-> PlanOf(q)] EXCEPT ![r] = [estado |-> st, sub |-> c]]
          = [[q \in RowIds |-> PlanOf(q)] EXCEPT ![r].estado = st]
    BY <2>1 DEF PlanOf
  <2>4. CASE st = "activo"  BY <1>1, <2>1, <2>2, <2>4, EvidenceSame DEF Plan!PlanNext, Plan!Activate
  <2>5. CASE st = "pago_pendiente"
    BY <1>1, <2>1, <2>2, <2>3, <2>5, EvidenceSame DEF Plan!PlanNext, Plan!Suspend, PlanOf
  <2>6. CASE st = "vencido"
    BY <1>1, <2>1, <2>2, <2>3, <2>6, EvidenceSame DEF Plan!PlanNext, Plan!Expire, PlanOf
  <2> QED BY <2>4, <2>5, <2>6 DEF Estatus
<1> QED BY <1>5, <1>6, <1>7

\* The steps of a delivery that read, move on or fail.
LEMMA ReadRefines ==
    ASSUME TypeInv, EvidenceInv, NEW m \in Workers,
           \/ CreateNegocio(m) \/ NegocioDataUnreadable(m) \/ RetrieveSub(m)
           \/ RetrieveSubFails(m) \/ FindRow(m) \/ UpsertRefused(m)
           \/ MarkInvoice(m) \/ MarkInvoiceFails(m) \/ RetrieveInvoiceSub(m) \/ FindBySub(m)
           \/ Register(m) \/ RegisterFails(m) \/ HandlerFails(m)
    PROVE  EvidenceInv' /\ UNCHANGED Plan!planVars
<1>0. /\ StripeSame /\ UNCHANGED rows /\ ~At(m, "idle")
      /\ worker \in [Workers -> Worker] /\ worker[m] \in Worker
  BY DEF CreateNegocio, NegocioDataUnreadable, RetrieveSub, RetrieveSubFails, FindRow,
         UpsertRefused, MarkInvoice, MarkInvoiceFails, RetrieveInvoiceSub, FindBySub,
         Register, RegisterFails, HandlerFails, StripeSame, stripeVars, dbVars, At,
         TypeInv, TypeOK
<1>1. Event(m) \in emitted  BY <1>0 DEF EvidenceInv, WorkersBound
<1>2. ASSUME NEW w, Goes(m, w), NextLocals(m, w) PROVE EvidenceInv' /\ UNCHANGED Plan!planVars
  BY <1>0, <1>2, ReadStep DEF Goes
<1>3. \A err \in BOOLEAN : NextLocals(m, Outcome(m, err))  BY <1>1 DEF NextLocals, Outcome, Idle
<1>4. NextLocals(m, Idle)  BY IdleOK DEF NextLocals
<1>5. ASSUME NEW paso \in PasosWorker \ {"idle", "extend"}, NEW n, NEW v,
             \/ Goes(m, [worker[m] EXCEPT !.paso = paso])
             \/ Goes(m, [worker[m] EXCEPT !.paso = paso, !.negocio = n])
             \/ Goes(m, [worker[m] EXCEPT !.paso = paso, !.vigencia = v])
             \/ Goes(m, [worker[m] EXCEPT !.paso = paso, !.row = n])
      PROVE  EvidenceInv' /\ UNCHANGED Plan!planVars
  <2>1. worker'[m].paso = paso /\ worker'[m].event = Event(m)
    <3>1. CASE Goes(m, [worker[m] EXCEPT !.paso = paso])  BY <1>0, <3>1 DEF Goes, Worker, Event
    <3>2. CASE Goes(m, [worker[m] EXCEPT !.paso = paso, !.negocio = n])
      BY <1>0, <3>2 DEF Goes, Worker, Event
    <3>3. CASE Goes(m, [worker[m] EXCEPT !.paso = paso, !.vigencia = v])
      BY <1>0, <3>3 DEF Goes, Worker, Event
    <3>4. CASE Goes(m, [worker[m] EXCEPT !.paso = paso, !.row = n])
      BY <1>0, <3>4 DEF Goes, Worker, Event
    <3> QED BY <1>5, <3>1, <3>2, <3>3, <3>4
  <2>2. \A q \in Workers \ {m} : worker'[q] = worker[q]  BY <1>0, <1>5 DEF Goes
  <2>3. NextLocals(m, worker'[m])  BY <1>1, <2>1 DEF NextLocals
  <2> QED BY <1>0, <2>2, <2>3, ReadStep
<1>6. CASE CreateNegocio(m)  BY <1>5, <1>6 DEF CreateNegocio, PasosWorker
<1>7. CASE RetrieveSub(m)  BY <1>5, <1>7 DEF RetrieveSub, PasosWorker
<1>8. CASE RetrieveSubFails(m)  BY <1>5, <1>8 DEF RetrieveSubFails, Step, PasosWorker
<1>9. CASE FindRow(m)
  <2>1. PICK r : Goes(m, [worker[m] EXCEPT !.paso = "upsert", !.row = r])  BY <1>9 DEF FindRow
  <2> QED BY <1>5, <2>1 DEF PasosWorker
<1>10. CASE MarkInvoice(m)  BY <1>5, <1>10 DEF MarkInvoice, Step, PasosWorker
<1>11. CASE RetrieveInvoiceSub(m)  BY <1>5, <1>11 DEF RetrieveInvoiceSub, PasosWorker
<1>12. CASE FindBySub(m)
  <2>1. CASE Finish(m)  BY <1>2, <1>3, <2>1 DEF Finish
  <2>2. ASSUME NEW r \in RowsOfSub(Event(m).sub),
               Goes(m, [worker[m] EXCEPT !.paso = "extend", !.row = r])
        PROVE  EvidenceInv' /\ UNCHANGED Plan!planVars
    <3> DEFINE w == [worker[m] EXCEPT !.paso = "extend", !.row = r]
    <3>1. w.event = Event(m) /\ w.row = r /\ Exists(r)  BY <1>0 DEF Worker, Event, RowsOfSub
    <3>2. NextLocals(m, w)  BY <1>1, <3>1 DEF NextLocals
    <3> HIDE DEF w
    <3> QED BY <1>2, <2>2, <3>2 DEF w
  <2> QED BY <1>12, <2>1, <2>2 DEF FindBySub
<1>13. CASE NegocioDataUnreadable(m) \/ UpsertRefused(m) \/ MarkInvoiceFails(m) \/ HandlerFails(m)
  BY <1>2, <1>3, <1>13 DEF NegocioDataUnreadable, UpsertRefused, MarkInvoiceFails,
     HandlerFails, Throw, Finish
<1>14. CASE Register(m) \/ RegisterFails(m)  BY <1>2, <1>4, <1>14 DEF Register, RegisterFails
<1> QED BY <1>6, <1>7, <1>8, <1>9, <1>10, <1>11, <1>12, <1>13, <1>14

LEMMA AdvanceRefines ==
    ASSUME TypeInv, EvidenceInv, NEW m \in Workers,
           Advance(m) \/ HandlerFails(m) \/ RegisterFails(m)
    PROVE  EvidenceInv' /\ (Plan!PlanNext \/ UNCHANGED Plan!planVars)
<1>0. ASSUME ~At(m, "idle")
      PROVE  Event(m) \in Events /\ Event(m) \in emitted
  BY <1>0, InProgress DEF EvidenceInv, WorkersBound
<1>1. CASE OnInvoicePaymentFailed(m)
  <2>1. ~At(m, "idle") /\ Event(m).tipo = "invoice.payment_failed"
    BY <1>1 DEF OnInvoicePaymentFailed, At, Event, TypeInv, LocalsOK
  <2>2. Event(m).sub \in FailedSubs  BY <1>0, <2>1, EventShape DEF FailedSubs
  <2> QED BY <1>1, <2>1, <2>2, UpdateRefines DEF OnInvoicePaymentFailed, Estatus
<1>2. CASE OnSubscriptionUpdated(m)
  <2>1. ~At(m, "idle") /\ Event(m).tipo = "customer.subscription.updated"
    BY <1>2 DEF OnSubscriptionUpdated, At, Event, TypeInv, LocalsOK
  <2>2. Event(m).periodo \in Period /\ Event(m).status \in {"active", "past_due"}
    BY <1>0, <2>1, EventShape
  <2>3. Event(m).status = "past_due" => Event(m).sub \in FailedSubs
    BY <1>0, <2>1, EventShape DEF FailedSubs
  <2>4. PlanEstatus(Event(m).status) \in {"activo", "pago_pendiente"}
        /\ (PlanEstatus(Event(m).status) = "pago_pendiente" => Event(m).status = "past_due")
    BY <2>2 DEF PlanEstatus
  <2> QED BY <1>2, <2>1, <2>2, <2>3, <2>4, UpdateRefines DEF OnSubscriptionUpdated, Estatus
<1>3. CASE OnSubscriptionDeleted(m)
  <2>1. ~At(m, "idle") /\ Event(m).tipo = "customer.subscription.deleted"
    BY <1>3 DEF OnSubscriptionDeleted, At, Event, TypeInv, LocalsOK
  <2>2. Event(m).sub \in CanceledSubs  BY <1>0, <2>1 DEF EvidenceInv, EventsTrue
  <2> QED BY <1>3, <2>1, <2>2, UpdateRefines DEF OnSubscriptionDeleted, Estatus
<1> QED BY <1>1, <1>2, <1>3, ReadRefines, UpsertRefines, ExtendRefines
        DEF Advance, OnCheckoutSessionCompleted, OnInvoicePaid

LEMMA PlanStep ==
    ASSUME TypeInv, EvidenceInv, [Next]_vars
    PROVE  EvidenceInv' /\ (Plan!PlanNext \/ UNCHANGED Plan!planVars)
<1>0. ASSUME StripeSame, UNCHANGED <<rows, worker>>
      PROVE  EvidenceInv' /\ UNCHANGED Plan!planVars
  <2>1. RowsBound' /\ WorkersBound'
    BY <1>0, EvidenceSame DEF EvidenceInv, RowsBound, WorkersBound, Exists, At, Event, StripeSame
  <2>2. UNCHANGED [r \in RowIds |-> PlanOf(r)]  BY <1>0 DEF PlanOf
  <2> QED BY <1>0, <2>1, <2>2, EvidenceSame DEF EvidenceInv, Plan!planVars
<1>1. ASSUME NEW c \in Sessions, Stripe(c) \/ Checkout(c)
      PROVE  EvidenceInv' /\ Plan!PlanNext
  <2>1. Grows  BY <1>1, StripeGrows, CheckoutGrows
  <2>2. UNCHANGED <<rows, worker>>
    BY <1>1 DEF Stripe, Pay, Renew, ChargeFails, Recover, Cancel, Checkout,
       CreateCheckoutSession, CancelExisting, CancelExistingFails, EnsureStripeCustomer,
       SaveStripeCustomer, OpenSession, CheckoutFails, dbVars
  <2> QED BY <2>1, <2>2, GrowsIsEvidence DEF Plan!PlanNext
<1>2. ASSUME NEW m \in Workers, Advance(m) \/ HandlerFails(m) \/ RegisterFails(m)
      PROVE  EvidenceInv' /\ (Plan!PlanNext \/ UNCHANGED Plan!planVars)
  BY <1>2, AdvanceRefines
<1>3. ASSUME NEW m \in Workers, NEW e \in emitted, Deliver(m, e)
      PROVE  EvidenceInv' /\ UNCHANGED Plan!planVars
  <2>1. CASE Known(m, e) \/ LogReadFails(m, e)
    BY <1>0, <2>1 DEF Known, LogReadFails, StripeSame, stripeVars, dbVars
  <2>2. CASE HandleWebhookEvent(m, e)
    <3>1. e \in Events /\ FirstStep(e) # "extend"
      BY EventShape DEF TypeInv, TypeOK, FirstStep, TiposEvento
    <3>2. /\ worker'[m].paso = FirstStep(e) /\ worker'[m].event = e
          /\ \A q \in Workers \ {m} : worker'[q] = worker[q]
      BY <2>2, IdleOK DEF HandleWebhookEvent, Worker, Goes, TypeInv, TypeOK
    <3> QED BY <2>2, <3>1, <3>2, ReadStep
            DEF NextLocals, HandleWebhookEvent, StripeSame, stripeVars, dbVars
  <2> QED BY <1>3, <2>1, <2>2 DEF Deliver
<1>4. CASE Crash
  <2>1. /\ UNCHANGED <<rows, subs, emitted>>
        /\ \A c \in Sessions : pedidos[c].paso = "paid" => pedidos'[c].paso = "paid"
    BY <1>4, Before DEF Crash, stripeVars, dbVars
  <2>2. UNCHANGED <<PaidSubs, FailedSubs, CanceledSubs>> /\ EventsTrue'
    BY <2>1 DEF PaidSubs, FailedSubs, CanceledSubs, EvidenceInv, EventsTrue
  <2>3. SubsBegun'  BY <2>1 DEF EvidenceInv, SubsBegun
  <2>4. RowsBound'  BY <2>1, <2>2 DEF EvidenceInv, RowsBound, Exists
  <2>5. WorkersBound'  BY <1>4, IdleOK DEF Crash, WorkersBound, At
  <2>6. UNCHANGED [r \in RowIds |-> PlanOf(r)]  BY <2>1 DEF PlanOf
  <2> QED BY <2>2, <2>3, <2>4, <2>5, <2>6 DEF EvidenceInv, Plan!planVars
<1>5. CASE UNCHANGED vars  BY <1>0, <1>5 DEF vars, StripeSame
<1> QED BY <1>1, <1>2, <1>3, <1>4, <1>5 DEF Next

\* Billing implements PlanLifecycle: a row is activated, suspended or expired

\* only when its subscription was paid, failed a charge or was cancelled.
THEOREM BillingImplementsPlan == Spec => PlanPromise
<1>1. Init => TypeInv /\ EvidenceInv /\ Plan!PlanInit
  <2>1. Init => Plan!PlanInit
    BY DEF Init, Plan!PlanInit, PlanOf, PaidSubs, FailedSubs, CanceledSubs, NoRow
  <2> QED BY <2>1, TypeInit, EvidenceInit
<1>2. TypeInv /\ EvidenceInv /\ [Next]_vars => (TypeInv /\ EvidenceInv)' /\ [Plan!PlanNext]_(Plan!planVars)
  BY TypeNext, PlanStep
<1> QED BY <1>1, <1>2, PTL DEF Spec, PlanPromise, Plan!PlanSpec

--------------------
(* Who paid has what he paid for.  The webhook does all of it from the     *)
(* locals of a delivery, and any number of deliveries of the same event    *)
(* run at once: nobody takes a business from its owner, nor a row from its *)
(* business, so what a delivery has read still holds when it writes.       *)

\* There is a row for a business the session is for.
Atendido(c) ==
    pedidos[c].negocio # NoNegocio \/ pedidos[c].datos # "none" =>
        \E r \in RowIds : Exists(r) /\ ServedBy(c, rows[r].negocio)

\* A delivery works on the business its session is for, the row that it found is of that
\* business, and when it is done there is a row.
EnCurso(w) ==
    /\ w.paso \in {"retrieveSub", "findRow", "upsert"} => ServedBy(w.event.sub, w.negocio)
    /\ w.paso = "upsert" /\ w.row # 0 => Exists(w.row) /\ rows[w.row].negocio = w.negocio
    /\ (w.paso = "register" /\ ~w.error /\ w.event.tipo = "checkout.session.completed")
          => Atendido(w.event.sub)

\* Who opens a session for a business owns it, and who pays for a new one will.
Comprado == \A c \in Sessions : pedidos[c].paso # "none" /\ pedidos[c].negocio # NoNegocio =>
                negocios[pedidos[c].negocio].dueno = pedidos[c].suscriptor
Fundado == \A n \in Negocios : negocios[n].origen # NoSession =>
                /\ negocios[n].origen \in PaidSubs
                /\ negocios[n].dueno = pedidos[negocios[n].origen].suscriptor

\* Only the event of a session that was paid is logged.
Anotado == \A c \in Sessions : eventLog[Completed(c)] # "none" => c \in PaidSubs

\* A row is what its subscriber bought.
Comprada(r) ==
    LET c == rows[r].sub IN
    /\ c \in PaidSubs
    /\ rows[r].suscriptor = pedidos[c].suscriptor /\ rows[r].membresia = pedidos[c].membresia
    /\ ServedBy(c, rows[r].negocio)
    /\ negocios[rows[r].negocio].dueno = rows[r].suscriptor

PurchaseInv == /\ Comprado /\ Fundado /\ Anotado /\ RowMatchesPayment /\ SuccessMeansPlan
               /\ \A m \in Workers : EnCurso(worker[m])

Todo == TypeInv /\ EvidenceInv /\ PurchaseInv

\* What no step takes back: a request, the owner of a business, a row of a business.
PedidosKept == \A c \in Sessions : pedidos[c].paso # "none" =>
    /\ pedidos'[c].paso # "none"
    /\ pedidos'[c].suscriptor = pedidos[c].suscriptor
    /\ pedidos'[c].membresia = pedidos[c].membresia
    /\ pedidos'[c].negocio = pedidos[c].negocio /\ pedidos'[c].datos = pedidos[c].datos
NegociosKept == \A n \in Negocios : negocios[n].dueno # NoSuscriptor => negocios'[n] = negocios[n]
FilasKept == \A r \in RowIds : Exists(r) => Exists(r)' /\ rows'[r].negocio = rows[r].negocio
Kept == PedidosKept /\ NegociosKept /\ FilasKept /\ PaidSubs \subseteq PaidSubs'

\* The request of a session that was paid.

LEMMA PaidEs ==
    ASSUME Todo, NEW c \in PaidSubs
    PROVE  /\ c \in Sessions /\ pedidos[c].paso = "paid" /\ pedidos[c].suscriptor \in Suscriptores
           /\ pedidos[c].negocio \in Negocios \cup {NoNegocio}
<1>1. c \in Sessions /\ subs[c].estado # "none"  BY DEF PaidSubs
<1>2. pedidos[c].paso = "paid"  BY <1>1 DEF Todo, EvidenceInv, SubsBegun
<1>3. pedidos[c] \in Pedido /\ RequestOK(pedidos[c])  BY <1>1 DEF Todo, TypeInv, TypeOK
<1> QED BY <1>1, <1>2, <1>3 DEF RequestOK, Pedido

\* The business a paid session is for is its subscriber's.

LEMMA ServedOwner ==
    ASSUME Todo, NEW c \in PaidSubs, NEW n \in Negocios \cup {NoNegocio}, ServedBy(c, n)
    PROVE  n \in Negocios /\ negocios[n].dueno = pedidos[c].suscriptor
<1>0. n \in Negocios  BY DEF ServedBy
<1>1. CASE pedidos[c].negocio = n  BY <1>0, <1>1, PaidEs DEF ServedBy, Todo, PurchaseInv, Comprado
<1>2. CASE negocios[n].origen = c
  <2>1. c # NoSession  BY PaidEs, BillingAssumption DEF BillingAssumption
  <2> QED BY <1>0, <1>2, <2>1 DEF Todo, PurchaseInv, Fundado
<1> QED BY <1>0, <1>1, <1>2 DEF ServedBy

LEMMA AtendidoKept ==
    ASSUME Todo, Kept, NEW c \in PaidSubs, Atendido(c)
    PROVE  Atendido(c)'
<1>1. c \in Sessions /\ pedidos'[c].negocio = pedidos[c].negocio /\ pedidos'[c].datos = pedidos[c].datos
  BY PaidEs DEF Kept, PedidosKept
<1> SUFFICES ASSUME pedidos[c].negocio # NoNegocio \/ pedidos[c].datos # "none"
             PROVE  \E r \in RowIds : Exists(r)' /\ ServedBy(c, rows[r].negocio)'
  BY <1>1 DEF Atendido
<1>2. PICK r \in RowIds : Exists(r) /\ ServedBy(c, rows[r].negocio)  BY DEF Atendido
<1>3. rows[r].negocio \in Negocios \cup {NoNegocio}  BY Before DEF Todo, Row
<1>4. Exists(r)' /\ rows'[r].negocio = rows[r].negocio  BY <1>2 DEF Kept, FilasKept
<1>5. ServedBy(c, rows[r].negocio)'
  <2> DEFINE n == rows[r].negocio
  <2>1. ServedBy(c, n) /\ n \in Negocios \cup {NoNegocio} /\ rows'[r].negocio = n
    BY <1>2, <1>3, <1>4
  <2>2. negocios'[n] = negocios[n] /\ pedidos'[c].negocio = pedidos[c].negocio
    BY <2>1, ServedOwner, PaidEs, BillingAssumption, <1>1 DEF BillingAssumption, Kept, NegociosKept
  <2> HIDE DEF n
  <2> QED BY <2>1, <2>2 DEF ServedBy
<1> QED BY <1>4, <1>5

\* A delivery in progress is for a session that was paid.

LEMMA EnCursoKept ==
    ASSUME Todo, Kept, NEW m \in Workers, worker'[m] = worker[m]
    PROVE  EnCurso(worker[m])'
<1> DEFINE w == worker[m]
<1>1. CASE w.paso = "idle"  BY <1>1 DEF EnCurso
<1>2. CASE w.paso # "idle"
  <2>1. /\ w \in Worker /\ w.event \in emitted /\ w.event.sub \in PaidSubs /\ EnCurso(w)
    BY <1>2, InProgress DEF Todo, EvidenceInv, WorkersBound, EventsTrue, At, Event, PurchaseInv
  <2>2. w.negocio \in Negocios \cup {NoNegocio} /\ w.row \in 0 .. MaxRows  BY <2>1 DEF Worker
  <2>3. w.paso \in {"retrieveSub", "findRow", "upsert"} => ServedBy(w.event.sub, w.negocio)'
    <3> DEFINE c == w.event.sub
               n == w.negocio
    <3>1. ASSUME ServedBy(c, n) PROVE negocios'[n] = negocios[n] /\ pedidos'[c].negocio = pedidos[c].negocio
      <4>1. n \in Negocios /\ negocios[n].dueno = pedidos[c].suscriptor
        BY <2>1, <2>2, <3>1, ServedOwner
      <4>2. pedidos[c].suscriptor # NoSuscriptor /\ c \in Sessions /\ pedidos[c].paso # "none"
        BY <2>1, PaidEs, BillingAssumption DEF BillingAssumption
      <4> QED BY <4>1, <4>2 DEF Kept, NegociosKept, PedidosKept
    <3>2. w' = w  OBVIOUS
    <3> QED BY <2>1, <3>1, <3>2 DEF EnCurso, ServedBy
  <2>4. w.paso = "upsert" /\ w.row # 0 => Exists(w.row)' /\ rows'[w.row].negocio = w.negocio
    BY <2>1, <2>2 DEF EnCurso, Kept, FilasKept, Exists
  <2>5. Atendido(w.event.sub) => Atendido(w.event.sub)'  BY <2>1, AtendidoKept
  <2> QED BY <2>1, <2>3, <2>4, <2>5 DEF EnCurso
<1> QED BY <1>1, <1>2

\* The row still says what was bought while its purchase is left alone.

LEMMA CompradaKept ==
    ASSUME Todo, Kept, NEW r \in RowIds, Exists(r), Comprada(r),
           rows'[r].sub = rows[r].sub, rows'[r].suscriptor = rows[r].suscriptor,
           rows'[r].membresia = rows[r].membresia, rows'[r].negocio = rows[r].negocio
    PROVE  Comprada(r)'
<1> DEFINE c == rows[r].sub
           n == rows[r].negocio
<1>1. c \in PaidSubs /\ c \in PaidSubs' /\ rows[r].negocio \in Negocios \cup {NoNegocio}
  BY Before DEF Comprada, Kept, Todo, Row
<1>2. n \in Negocios /\ negocios[n].dueno = pedidos[c].suscriptor  BY <1>1, ServedOwner DEF Comprada
<1>3. c \in Sessions /\ pedidos[c].paso = "paid" /\ pedidos[c].suscriptor # NoSuscriptor
  BY <1>1, PaidEs, BillingAssumption DEF BillingAssumption
<1>4. /\ negocios'[n] = negocios[n] /\ pedidos'[c].suscriptor = pedidos[c].suscriptor
      /\ pedidos'[c].membresia = pedidos[c].membresia /\ pedidos'[c].negocio = pedidos[c].negocio
  BY <1>2, <1>3 DEF Kept, NegociosKept, PedidosKept
<1> QED BY <1>1, <1>4 DEF Comprada, ServedBy

\* What is left to show of a step that keeps what was there.
NuevosPedidos == \A c \in Sessions :
    pedidos[c].paso = "none" /\ pedidos'[c].paso # "none" /\ pedidos'[c].negocio # NoNegocio =>
        negocios'[pedidos'[c].negocio].dueno = pedidos'[c].suscriptor
NuevosNegocios == \A n \in Negocios : negocios'[n] # negocios[n] =>
    /\ negocios'[n].origen \in PaidSubs
    /\ negocios'[n].dueno = pedidos[negocios'[n].origen].suscriptor
NuevasNotas == \A c \in Sessions : eventLog'[Completed(c)] # eventLog[Completed(c)] =>
    c \in PaidSubs /\ (eventLog'[Completed(c)] = "success" => Atendido(c)')
NuevasFilas == \A r \in RowIds : Exists(r)' =>
    \/ /\ Exists(r) /\ rows'[r].sub = rows[r].sub /\ rows'[r].suscriptor = rows[r].suscriptor
       /\ rows'[r].membresia = rows[r].membresia /\ rows'[r].negocio = rows[r].negocio
    \/ Comprada(r)'
NuevosPasos == \A m \in Workers : worker'[m] # worker[m] => EnCurso(worker[m])'

LEMMA Conserva ==
    ASSUME Todo, Kept, NuevosPedidos, NuevosNegocios, NuevasNotas, NuevasFilas, NuevosPasos
    PROVE  PurchaseInv'
<1>1. Comprado'
  <2> SUFFICES ASSUME NEW c \in Sessions, pedidos'[c].paso # "none", pedidos'[c].negocio # NoNegocio
               PROVE  negocios'[pedidos'[c].negocio].dueno = pedidos'[c].suscriptor
    BY DEF Comprado
  <2>1. CASE pedidos[c].paso = "none"  BY <2>1 DEF NuevosPedidos
  <2>2. CASE pedidos[c].paso # "none"
    <3>1. /\ pedidos'[c].suscriptor = pedidos[c].suscriptor
          /\ pedidos'[c].negocio = pedidos[c].negocio
      BY <2>2 DEF Kept, PedidosKept
    <3>2. pedidos[c] \in Pedido /\ RequestOK(pedidos[c])  BY DEF Todo, TypeInv, TypeOK
    <3>3. pedidos[c].suscriptor # NoSuscriptor /\ pedidos[c].negocio \in Negocios
      BY <2>2, <3>1, <3>2, BillingAssumption DEF RequestOK, Pedido, BillingAssumption
    <3>4. negocios[pedidos[c].negocio].dueno = pedidos[c].suscriptor
      BY <2>2, <3>1 DEF Todo, PurchaseInv, Comprado
    <3> QED BY <3>1, <3>3, <3>4 DEF Kept, NegociosKept
  <2> QED BY <2>1, <2>2
<1>2. ASSUME NEW c \in PaidSubs
      PROVE  /\ c \in PaidSubs' /\ pedidos'[c].suscriptor = pedidos[c].suscriptor
  BY <1>2, PaidEs DEF Kept, PedidosKept
<1>3. Fundado'
  <2> SUFFICES ASSUME NEW n \in Negocios, negocios'[n].origen # NoSession
               PROVE  /\ negocios'[n].origen \in PaidSubs'
                      /\ negocios'[n].dueno = pedidos'[negocios'[n].origen].suscriptor
    BY DEF Fundado
  <2>1. /\ negocios'[n].origen \in PaidSubs
        /\ negocios'[n].dueno = pedidos[negocios'[n].origen].suscriptor
    BY DEF NuevosNegocios, Todo, PurchaseInv, Fundado
  <2> QED BY <1>2, <2>1
<1>4. Anotado'
  <2> SUFFICES ASSUME NEW c \in Sessions, eventLog'[Completed(c)] # "none" PROVE c \in PaidSubs'
    BY DEF Anotado, Completed, Ev
  <2>1. c \in PaidSubs  BY DEF NuevasNotas, Todo, PurchaseInv, Anotado
  <2> QED BY <1>2, <2>1
<1>5. \A r \in RowIds : Exists(r)' => Comprada(r)'
  <2> TAKE r \in RowIds
  <2>1. CASE Exists(r) /\ rows'[r].sub = rows[r].sub /\ rows'[r].suscriptor = rows[r].suscriptor
             /\ rows'[r].membresia = rows[r].membresia /\ rows'[r].negocio = rows[r].negocio
    <3>1. Comprada(r)  BY <2>1 DEF Todo, PurchaseInv, RowMatchesPayment, Comprada
    <3> QED BY <2>1, <3>1, CompradaKept
  <2> QED BY <2>1 DEF NuevasFilas
<1>6. RowMatchesPayment'  BY <1>5 DEF RowMatchesPayment, Comprada
<1>7. SuccessMeansPlan'
  <2>1. \A c \in Sessions : eventLog'[Completed(c)] = "success" => Atendido(c)'
    <3> SUFFICES ASSUME NEW c \in Sessions, eventLog'[Completed(c)] = "success",
                        eventLog'[Completed(c)] = eventLog[Completed(c)]
                 PROVE  Atendido(c)'
      BY DEF NuevasNotas
    <3>1. c \in PaidSubs /\ Atendido(c)
      BY DEF Todo, PurchaseInv, Anotado, SuccessMeansPlan, Atendido
    <3> QED BY <3>1, AtendidoKept
  <2> QED BY <2>1 DEF SuccessMeansPlan, Atendido, Completed, Ev
<1>8. \A m \in Workers : EnCurso(worker[m])'
  <2> TAKE m \in Workers
  <2>1. CASE worker'[m] = worker[m]  BY <2>1, EnCursoKept
  <2>2. CASE worker'[m] # worker[m]  BY <2>2 DEF NuevosPasos
  <2> QED BY <2>1, <2>2
<1> QED BY <1>1, <1>3, <1>4, <1>6, <1>7, <1>8 DEF PurchaseInv

LEMMA PurchaseInit == Init => PurchaseInv
<1> SUFFICES ASSUME Init PROVE PurchaseInv  OBVIOUS
<1>1. Comprado /\ Fundado  BY DEF Init, Comprado, Fundado, NoPedido
<1>2. \A c \in Sessions : eventLog[Completed(c)] = "none"  BY EventsBuilt, MarkerShape DEF Init
<1>3. Anotado /\ SuccessMeansPlan  BY <1>2 DEF Anotado, SuccessMeansPlan
<1>4. RowMatchesPayment  BY DEF Init, RowMatchesPayment, Exists, NoRow
<1>5. \A m \in Workers : EnCurso(worker[m])  BY IdleOK DEF Init, EnCurso
<1> QED BY <1>1, <1>3, <1>4, <1>5 DEF PurchaseInv

--------------------
(* Stripe and the requests.                                                *)

\* A request that moves on asks for what it asked.

LEMMA PedidoMoves ==
    ASSUME TypeInv, NEW c \in Sessions, pedidos[c].paso # "none",
           NEW paso \in PasosPedido \ {"none"}, PedidoGoes(c, paso)
    PROVE  PedidosKept /\ NuevosPedidos
<1>1. pedidos \in [Sessions -> Pedido]  BY Before
<1> QED BY <1>1 DEF PedidoGoes, PedidosKept, NuevosPedidos, Pedido

LEMMA PedidoSame == ASSUME UNCHANGED pedidos PROVE PedidosKept /\ NuevosPedidos
  BY DEF PedidosKept, NuevosPedidos

LEMMA RequestStep ==
    ASSUME Todo, NEW c \in Sessions, Stripe(c) \/ Checkout(c)
    PROVE  PurchaseInv'
<1>1. UNCHANGED <<rows, worker, negocios, eventLog>>
  BY DEF Stripe, Pay, Renew, ChargeFails, Recover, Cancel, Checkout,
     CreateCheckoutSession, CancelExisting, CancelExistingFails, EnsureStripeCustomer,
     SaveStripeCustomer, OpenSession, CheckoutFails, dbVars
<1>2. PaidSubs \subseteq PaidSubs'  BY StripeGrows, CheckoutGrows DEF Grows, Todo
<1>3. NegociosKept /\ FilasKept /\ NuevosNegocios /\ NuevasNotas /\ NuevasFilas /\ NuevosPasos
  BY <1>1 DEF NegociosKept, FilasKept, Exists, NuevosNegocios, NuevasNotas, NuevasFilas, NuevosPasos
<1>4. ASSUME PedidosKept, NuevosPedidos PROVE PurchaseInv'  BY <1>2, <1>3, <1>4, Conserva DEF Kept
<1>5. CASE Stripe(c)
  <2>1. CASE Pay(c)  BY <1>4, <2>1, PedidoMoves DEF Pay, PedidoGoes, PasosPedido, Todo
  <2>2. CASE UNCHANGED pedidos  BY <1>4, <2>2, PedidoSame
  <2> QED BY <1>5, <2>1, <2>2 DEF Stripe, Renew, ChargeFails, Recover, Cancel
<1>6. CASE CancelExisting(c) \/ CancelExistingFails(c) \/ SaveStripeCustomer(c)
           \/ OpenSession(c) \/ CheckoutFails(c)
  <2>1. PICK paso \in PasosPedido \ {"none"} : PedidoGoes(c, paso) /\ pedidos[c].paso # "none"
    BY <1>6 DEF CancelExisting, CancelExistingFails, SaveStripeCustomer, OpenSession,
       CheckoutFails, PedidoAt, PasosPedido
  <2> QED BY <1>4, <2>1, PedidoMoves DEF Todo
<1>7. CASE EnsureStripeCustomer(c)
  <2>1. pedidos \in [Sessions -> Pedido]  BY Before DEF Todo
  <2>4. PICK paso \in {"saveCustomer", "create"} :
           \E id : pedidos' = [pedidos EXCEPT ![c].paso = paso, ![c].customer = id]
    BY <1>7 DEF EnsureStripeCustomer
  <2>2. PICK id : pedidos' = [pedidos EXCEPT ![c].paso = paso, ![c].customer = id]  BY <2>4
  <2>3. pedidos[c].paso # "none"  BY <1>7 DEF EnsureStripeCustomer, PedidoAt
  <2> QED BY <1>4, <2>1, <2>2, <2>3 DEF PedidosKept, NuevosPedidos, Pedido
<1>8. ASSUME NEW s \in Suscriptores, NEW mb \in Membresias, NEW o \in Ofertas,
             CreateCheckoutSession(c, s, mb, o[1], o[2])
      PROVE  PurchaseInv'
  <2>1. pedidos \in [Sessions -> Pedido] /\ pedidos[c].paso = "none"
    BY <1>8, Before DEF CreateCheckoutSession, PedidoAt, Todo
  <2> DEFINE q(paso, previa) ==
                [NoPedido EXCEPT !.paso = paso, !.suscriptor = s, !.membresia = mb,
                                 !.negocio = o[1], !.datos = o[2], !.previa = previa]
  <2>a. \E paso, previa : pedidos' = [pedidos EXCEPT ![c] = q(paso, previa)]
    BY <1>8 DEF CreateCheckoutSession
  <2>b. \A paso, previa : q(paso, previa).suscriptor = s /\ q(paso, previa).negocio = o[1]
    BY DEF NoPedido
  <2> HIDE DEF q
  <2>2. PICK p : /\ pedidos' = [pedidos EXCEPT ![c] = p]
                 /\ p.suscriptor = s /\ p.negocio = o[1]
    <3>1. PICK paso, previa : pedidos' = [pedidos EXCEPT ![c] = q(paso, previa)]  BY <2>a
    <3> WITNESS q(paso, previa)
    <3> QED BY <2>b, <3>1
  <2>3. o[1] # NoNegocio => negocios[o[1]].dueno = s  BY <1>8 DEF CreateCheckoutSession
  <2>4. PedidosKept /\ NuevosPedidos  BY <1>1, <2>1, <2>2, <2>3 DEF PedidosKept, NuevosPedidos
  <2> QED BY <1>4, <2>4
<1> QED BY <1>5, <1>6, <1>7, <1>8 DEF Checkout

--------------------
(* The deliveries.                                                         *)

\* A step of a delivery that leaves the tables alone.

LEMMA DeliveryReads ==
    ASSUME Todo, StripeSame, UNCHANGED <<rows, negocios>>, NEW m \in Workers, NEW w,
           Goes(m, w), NuevasNotas, EnCurso(w)
    PROVE  PurchaseInv'
<1>1. worker'[m] = w /\ \A q \in Workers \ {m} : worker'[q] = worker[q]
  BY DEF Goes, Todo, TypeInv, TypeOK
<1>2. EnCurso(worker[m])'  BY <1>1 DEF EnCurso, Atendido, ServedBy, Exists, StripeSame
<1>3. NuevosPasos  BY <1>1, <1>2 DEF NuevosPasos
<1>4. Kept /\ NuevosNegocios /\ NuevasFilas /\ NuevosPedidos
  BY PedidoSame DEF StripeSame, Kept, NegociosKept, FilasKept, Exists, NuevosNegocios,
     NuevasFilas, PaidSubs
<1> QED BY <1>3, <1>4, Conserva

\* The locals of a delivery in progress, and the session it is for.

LEMMA Delivering ==
    ASSUME Todo, NEW m \in Workers, ~At(m, "idle")
    PROVE  /\ worker[m] \in Worker /\ LocalsOK(worker[m]) /\ EnCurso(worker[m])
           /\ Event(m) \in Events /\ Event(m).sub \in PaidSubs /\ Event(m).sub \in Sessions
  BY InProgress DEF Todo, EvidenceInv, WorkersBound, EventsTrue, PurchaseInv

\* A delivery that is done has left a row, or had failed, or was of another type.

LEMMA OutcomeEnCurso ==
    ASSUME NEW m \in Workers, NEW err \in BOOLEAN,
           err \/ Event(m).tipo # "checkout.session.completed" \/ Atendido(Event(m).sub)
    PROVE  EnCurso(Outcome(m, err))
<1>1. /\ Outcome(m, err).paso = "register" /\ Outcome(m, err).event = Event(m)
      /\ Outcome(m, err).error = err
  BY DEF Outcome, Idle
<1> QED BY <1>1 DEF EnCurso

LEMMA NotasSame == ASSUME UNCHANGED eventLog PROVE NuevasNotas
  BY DEF NuevasNotas

LEMMA ThrowStep ==
    ASSUME Todo, NEW m \in Workers,
           NegocioDataUnreadable(m) \/ UpsertRefused(m) \/ HandlerFails(m)
    PROVE  PurchaseInv'
<1>1. Throw(m) /\ StripeSame /\ UNCHANGED <<rows, negocios, eventLog>>
  BY DEF NegocioDataUnreadable, UpsertRefused, HandlerFails, StripeSame, stripeVars, dbVars
<1>2. EnCurso(Outcome(m, TRUE))  BY OutcomeEnCurso
<1> QED BY <1>1, <1>2, NotasSame, DeliveryReads DEF Throw

LEMMA CheckoutReads ==
    ASSUME Todo, NEW m \in Workers,
           RetrieveSub(m) \/ RetrieveSubFails(m) \/ FindRow(m)
    PROVE  PurchaseInv'
<1>0. /\ ~At(m, "idle") /\ StripeSame /\ UNCHANGED <<rows, negocios, eventLog>>
      /\ worker[m].paso \in {"retrieveSub", "findRow"}
  BY DEF RetrieveSub, RetrieveSubFails, FindRow, At, StripeSame, stripeVars, dbVars
<1>1. worker[m] \in Worker /\ ServedBy(worker[m].event.sub, worker[m].negocio)
  BY <1>0, Delivering DEF EnCurso
<1>2. ASSUME NEW w, Goes(m, w), w.event = worker[m].event, w.negocio = worker[m].negocio,
             \/ w.paso = "findRow"
             \/ w.paso = "upsert" /\ (w.row # 0 => w.row \in RowsOf(w.negocio))
      PROVE  PurchaseInv'
  <2>1. EnCurso(w)  BY <1>1, <1>2 DEF EnCurso, RowsOf
  <2> QED BY <1>0, <1>2, <2>1, NotasSame, DeliveryReads
<1>3. CASE RetrieveSub(m)
  <2> DEFINE w == [worker[m] EXCEPT !.paso = "findRow", !.vigencia = subs[Event(m).sub].periodo]
  <2>1. w.event = worker[m].event /\ w.negocio = worker[m].negocio /\ w.paso = "findRow"
    BY <1>1 DEF Worker
  <2>2. Goes(m, w)  BY <1>3 DEF RetrieveSub
  <2> HIDE DEF w
  <2> QED BY <1>2, <2>1, <2>2
<1>4. CASE RetrieveSubFails(m)
  <2> DEFINE w == [worker[m] EXCEPT !.paso = "findRow"]
  <2>1. w.event = worker[m].event /\ w.negocio = worker[m].negocio /\ w.paso = "findRow"
    BY <1>1 DEF Worker
  <2>2. Goes(m, w)  BY <1>4 DEF RetrieveSubFails, Step
  <2> HIDE DEF w
  <2> QED BY <1>2, <2>1, <2>2
<1>5. CASE FindRow(m)
  <2> DEFINE found == RowsOf(worker[m].negocio)
  <2>1. PICK r \in IF found = {} THEN {0} ELSE found :
           Goes(m, [worker[m] EXCEPT !.paso = "upsert", !.row = r])
    BY <1>5 DEF FindRow
  <2>2. r = 0 \/ r \in RowsOf(worker[m].negocio)  BY <2>1
  <2> DEFINE w == [worker[m] EXCEPT !.paso = "upsert", !.row = r]
  <2>3. /\ w.event = worker[m].event /\ w.negocio = worker[m].negocio /\ w.paso = "upsert"
        /\ w.row = r
    BY <1>1 DEF Worker
  <2>4. Goes(m, w)  BY <2>1
  <2> HIDE DEF w, found
  <2> QED BY <1>2, <2>2, <2>3, <2>4
<1> QED BY <1>3, <1>4, <1>5

LEMMA InvoiceReads ==
    ASSUME Todo, NEW m \in Workers,
           MarkInvoice(m) \/ MarkInvoiceFails(m) \/ RetrieveInvoiceSub(m) \/ FindBySub(m)
    PROVE  PurchaseInv'
<1>0. /\ ~At(m, "idle") /\ StripeSame /\ UNCHANGED <<rows, negocios>>
      /\ worker[m].paso \in InvoiceSteps \cup {"mark"}
  BY DEF MarkInvoice, MarkInvoiceFails, RetrieveInvoiceSub, FindBySub, At, StripeSame,
     stripeVars, dbVars, InvoiceSteps
<1>1. worker[m] \in Worker /\ Event(m).tipo # "checkout.session.completed"
  BY <1>0, Delivering DEF LocalsOK, InvoiceTypes, Event
<1>2. ASSUME NEW w, w.paso \in {"retrieveInvoiceSub", "findBySub", "extend"} PROVE EnCurso(w)
  BY <1>2 DEF EnCurso
<1>3. EnCurso(Outcome(m, FALSE))  BY <1>1, OutcomeEnCurso
<1>4. CASE MarkInvoice(m)
  <2> DEFINE w == [worker[m] EXCEPT !.paso = "retrieveInvoiceSub"]
  <2>1. w.paso = "retrieveInvoiceSub" /\ Goes(m, w)  BY <1>1, <1>4 DEF Worker, MarkInvoice, Step
  <2>2. InvoiceKey(Event(m)).tipo = "invoice.paid.dedupe"  BY DEF InvoiceKey, Marker, Ev
  <2>3. \A c \in Sessions : Completed(c).tipo = "checkout.session.completed"  BY DEF Completed, Ev
  <2>4. NuevasNotas  BY <1>4, <2>2, <2>3, Before DEF MarkInvoice, NuevasNotas, Todo
  <2> HIDE DEF w
  <2> QED BY <1>0, <1>2, <2>1, <2>4, DeliveryReads
<1>5. CASE MarkInvoiceFails(m)
  BY <1>0, <1>3, <1>5, NotasSame, DeliveryReads DEF MarkInvoiceFails, Finish, dbVars
<1>6. CASE RetrieveInvoiceSub(m)
  <2> DEFINE w == [worker[m] EXCEPT !.paso = "findBySub", !.vigencia = subs[Event(m).sub].periodo]
  <2>1. w.paso = "findBySub" /\ Goes(m, w) /\ UNCHANGED eventLog
    BY <1>1, <1>6 DEF Worker, RetrieveInvoiceSub, dbVars
  <2> HIDE DEF w
  <2> QED BY <1>0, <1>2, <2>1, NotasSame, DeliveryReads
<1>7. CASE FindBySub(m)
  <2>0. UNCHANGED eventLog  BY <1>7 DEF FindBySub, dbVars
  <2>1. CASE Finish(m)  BY <1>0, <1>3, <2>0, <2>1, NotasSame, DeliveryReads DEF Finish
  <2>2. ASSUME NEW r, Goes(m, [worker[m] EXCEPT !.paso = "extend", !.row = r])
        PROVE  PurchaseInv'
    <3> DEFINE w == [worker[m] EXCEPT !.paso = "extend", !.row = r]
    <3>1. w.paso = "extend" /\ Goes(m, w)  BY <1>1, <2>2 DEF Worker
    <3> HIDE DEF w
    <3> QED BY <1>0, <1>2, <2>0, <3>1, NotasSame, DeliveryReads
  <2> QED BY <1>7, <2>1, <2>2 DEF FindBySub
<1> QED BY <1>4, <1>5, <1>6, <1>7

\* The outcome is saved: a success has left its row.

LEMMA RegisterStep ==
    ASSUME Todo, NEW m \in Workers, Register(m) \/ RegisterFails(m)
    PROVE  PurchaseInv'
<1>1. /\ ~At(m, "idle") /\ StripeSame /\ UNCHANGED <<rows, negocios>> /\ Goes(m, Idle)
      /\ worker[m].paso = "register"
  BY DEF Register, RegisterFails, At, StripeSame, stripeVars, dbVars
<1>2. EnCurso(Idle)  BY IdleOK DEF EnCurso
<1>3. NuevasNotas
  <2>1. CASE RegisterFails(m)  BY <2>1, NotasSame DEF RegisterFails, dbVars
  <2>2. CASE Register(m)
    <3> SUFFICES ASSUME NEW c \in Sessions, eventLog'[Completed(c)] # eventLog[Completed(c)]
                 PROVE  c \in PaidSubs /\ (eventLog'[Completed(c)] = "success" => Atendido(c)')
      BY DEF NuevasNotas
    <3>1. /\ Event(m) = Completed(c)
          /\ eventLog'[Completed(c)] = "success" => ~worker[m].error
      BY <2>2, Before DEF Register, Todo
    <3>2. Event(m).sub = c /\ Event(m).tipo = "checkout.session.completed"
      BY <3>1 DEF Completed, Ev
    <3>3. c \in PaidSubs /\ EnCurso(worker[m])  BY <1>1, <3>2, Delivering
    <3>4. ~worker[m].error => Atendido(c)  BY <1>1, <3>2, <3>3 DEF EnCurso, Event
    <3>5. Atendido(c) => Atendido(c)'  BY <1>1 DEF Atendido, ServedBy, Exists, StripeSame
    <3> QED BY <3>1, <3>3, <3>4, <3>5
  <2> QED BY <2>1, <2>2
<1> QED BY <1>1, <1>2, <1>3, DeliveryReads

\* A step of a delivery that writes a table.

LEMMA DeliveryWrites ==
    ASSUME Todo, StripeSame, NEW m \in Workers, NEW w, Goes(m, w), EnCurso(worker[m])',
           NegociosKept, FilasKept, NuevosNegocios, NuevasFilas, UNCHANGED eventLog
    PROVE  PurchaseInv'
<1>1. \A q \in Workers \ {m} : worker'[q] = worker[q]  BY DEF Goes, Todo, TypeInv, TypeOK
<1>2. NuevosPasos  BY <1>1 DEF NuevosPasos
<1>3. Kept /\ NuevosPedidos  BY PedidoSame DEF StripeSame, Kept, PaidSubs
<1> QED BY <1>2, <1>3, NotasSame, Conserva

\* The business is new: nobody owned that id.

LEMMA CreateNegocioStep == ASSUME Todo, NEW m \in Workers, CreateNegocio(m) PROVE PurchaseInv'
<1> DEFINE c == Event(m).sub
           n == CHOOSE x \in FreeNegocios : TRUE
           w == [worker[m] EXCEPT !.paso = "retrieveSub", !.negocio = n]
           nuevo == [dueno |-> pedidos[c].suscriptor, origen |-> c]
<1>1. ~At(m, "idle") /\ StripeSame /\ UNCHANGED <<rows, eventLog>> /\ Goes(m, w)
  BY DEF CreateNegocio, At, StripeSame, stripeVars
<1>2. n \in Negocios /\ negocios[n].dueno = NoSuscriptor /\ n # NoNegocio
  BY BillingAssumption DEF CreateNegocio, FreeNegocios, BillingAssumption
<1>3. negocios' = [negocios EXCEPT ![n] = nuevo]  BY DEF CreateNegocio
<1>4. w.paso = "retrieveSub" /\ w.negocio = n /\ w.event = Event(m) /\ c \in PaidSubs
  BY <1>1, Delivering DEF Worker, Event
<1>5. nuevo.dueno = pedidos[c].suscriptor /\ nuevo.origen = c  OBVIOUS
<1> HIDE DEF n, w, nuevo
<1>6. negocios'[n] = nuevo /\ \A x \in Negocios \ {n} : negocios'[x] = negocios[x]
  BY <1>2, <1>3, Before DEF Todo
<1>7. NegociosKept /\ NuevosNegocios  BY <1>2, <1>4, <1>5, <1>6 DEF NegociosKept, NuevosNegocios
<1>8. FilasKept /\ NuevasFilas  BY <1>1 DEF FilasKept, NuevasFilas, Exists
<1>9. worker'[m] = w  BY <1>1 DEF Goes, Todo, TypeInv, TypeOK
<1>10. EnCurso(worker[m])'  BY <1>2, <1>4, <1>5, <1>6, <1>9 DEF EnCurso, ServedBy
<1> QED BY <1>1, <1>7, <1>8, <1>10, DeliveryWrites

\* The row is of the business the session is for, and of nobody else.

LEMMA UpsertStep == ASSUME Todo, NEW m \in Workers, Upsert(m) PROVE PurchaseInv'
<1>0. PICK c, n : c = Event(m).sub /\ n = worker[m].negocio  OBVIOUS
<1>1. /\ ~At(m, "idle") /\ StripeSame /\ UNCHANGED <<negocios, eventLog>>
      /\ Goes(m, Outcome(m, FALSE))
  BY DEF Upsert, At, StripeSame, stripeVars, Finish
<1>2. /\ c \in PaidSubs /\ ServedBy(c, n) /\ n \in Negocios \cup {NoNegocio}
      /\ worker[m].row # 0 => Exists(worker[m].row) /\ rows[worker[m].row].negocio = n
  BY <1>0, <1>1, Delivering DEF Upsert, At, EnCurso, Event, Worker
<1>3. n \in Negocios /\ negocios[n].dueno = pedidos[c].suscriptor  BY <1>2, ServedOwner
<1>4. PICK r \in RowIds : /\ IF worker[m].row = 0 THEN NextRowId(r) ELSE r = worker[m].row
                          /\ rows' = [rows EXCEPT ![r] = UpsertedRow(m, r)]
  BY DEF Upsert
<1>5. Exists(r) => rows[r].negocio = n  BY <1>0, <1>2, <1>4 DEF NextRowId
<1>6. rows'[r] = UpsertedRow(m, r) /\ \A q \in RowIds \ {r} : rows'[q] = rows[q]
  BY <1>4, Before DEF Todo
<1>7. /\ rows'[r].sub = c /\ rows'[r].negocio = n /\ rows'[r].estatus = "activo"
      /\ rows'[r].suscriptor = pedidos[c].suscriptor /\ rows'[r].membresia = pedidos[c].membresia
  BY <1>0, <1>6 DEF UpsertedRow
<1>8. FilasKept  BY <1>5, <1>6, <1>7 DEF FilasKept, Exists
<1>9. ServedBy(c, rows[r].negocio)'  BY <1>1, <1>2, <1>7 DEF ServedBy, StripeSame
<1>10. Comprada(r)'  BY <1>1, <1>2, <1>3, <1>7, <1>9 DEF Comprada, StripeSame, PaidSubs
<1>11. NuevasFilas  BY <1>6, <1>10 DEF NuevasFilas, Exists
<1>12. /\ worker'[m].paso = "register" /\ worker'[m].event.sub = c
  BY <1>0, <1>1 DEF Goes, Outcome, Idle, Todo, TypeInv, TypeOK
<1>13. \E q \in RowIds : Exists(q)' /\ ServedBy(c, rows[q].negocio)'  BY <1>7, <1>9 DEF Exists
<1>14. EnCurso(worker[m])'  BY <1>12, <1>13 DEF EnCurso, Atendido
<1>15. NegociosKept /\ NuevosNegocios  BY <1>1 DEF NegociosKept, NuevosNegocios
<1> QED BY <1>1, <1>8, <1>11, <1>14, <1>15, DeliveryWrites

\* The writes that leave the purchase of a row alone.

LEMMA StatusStep ==
    ASSUME Todo, NEW m \in Workers, ~At(m, "idle"), StripeSame, Finish(m),
           UNCHANGED <<negocios, eventLog>>, Event(m).tipo # "checkout.session.completed",
           \A r \in RowIds : /\ Exists(r)' <=> Exists(r)
                             /\ rows'[r].sub = rows[r].sub
                             /\ rows'[r].suscriptor = rows[r].suscriptor
                             /\ rows'[r].membresia = rows[r].membresia
                             /\ rows'[r].negocio = rows[r].negocio
    PROVE  PurchaseInv'
<1>1. Goes(m, Outcome(m, FALSE)) /\ NegociosKept /\ NuevosNegocios /\ FilasKept /\ NuevasFilas
  BY DEF Finish, NegociosKept, NuevosNegocios, FilasKept, NuevasFilas
<1>2. worker'[m].paso = "register" /\ worker'[m].event = Event(m)
  BY <1>1 DEF Goes, Outcome, Idle, Todo, TypeInv, TypeOK
<1>3. EnCurso(worker[m])'  BY <1>2 DEF EnCurso
<1> QED BY <1>1, <1>3, DeliveryWrites

LEMMA ExtendStep == ASSUME Todo, NEW m \in Workers, ExtendPlan(m) PROVE PurchaseInv'
<1>1. /\ ~At(m, "idle") /\ StripeSame /\ Finish(m) /\ UNCHANGED <<negocios, eventLog>>
      /\ At(m, "extend")
  BY DEF ExtendPlan, At, StripeSame, stripeVars
<1>2. Event(m).tipo # "checkout.session.completed"
  BY <1>1, Delivering DEF LocalsOK, InvoiceSteps, InvoiceTypes, At, Event
<1>3. Exists(worker[m].row)  BY <1>1 DEF Todo, EvidenceInv, WorkersBound
<1>4. /\ rows \in [RowIds -> Row]
      /\ rows' = [rows EXCEPT ![worker[m].row].estatus = "activo",
                              ![worker[m].row].vigencia = worker[m].vigencia]
  BY Before DEF ExtendPlan, Todo
<1>5. \A r \in RowIds : /\ Exists(r)' <=> Exists(r)
                        /\ rows'[r].sub = rows[r].sub
                        /\ rows'[r].suscriptor = rows[r].suscriptor
                        /\ rows'[r].membresia = rows[r].membresia
                        /\ rows'[r].negocio = rows[r].negocio
  BY <1>3, <1>4 DEF Row, Exists
<1> QED BY <1>1, <1>2, <1>5, StatusStep

LEMMA UpdateStep ==
    ASSUME Todo, NEW m \in Workers,
           OnInvoicePaymentFailed(m) \/ OnSubscriptionUpdated(m) \/ OnSubscriptionDeleted(m)
    PROVE  PurchaseInv'
<1>a. PICK st \in Estatus : \E v : UpdateRowsOf(m, st, v)
  <2>1. CASE OnInvoicePaymentFailed(m) \/ OnSubscriptionDeleted(m)
    BY <2>1 DEF OnInvoicePaymentFailed, OnSubscriptionDeleted, Estatus
  <2>2. CASE OnSubscriptionUpdated(m)
    BY <2>2, Delivering, EventShape DEF OnSubscriptionUpdated, At, Event, LocalsOK, PlanEstatus,
       Estatus
  <2> QED BY <2>1, <2>2
<1>1. PICK v : UpdateRowsOf(m, st, v)  BY <1>a
<1>2. /\ ~At(m, "idle") /\ StripeSame /\ Finish(m) /\ UNCHANGED <<negocios, eventLog>>
      /\ worker[m].paso \in {"paymentFailed", "updated", "deleted"}
  BY <1>1 DEF UpdateRowsOf, OnInvoicePaymentFailed, OnSubscriptionUpdated,
     OnSubscriptionDeleted, At, StripeSame, stripeVars
<1>3. Event(m).tipo # "checkout.session.completed"  BY <1>2, Delivering DEF LocalsOK, Event
<1>4. \A r \in RowIds : /\ Exists(r)' <=> Exists(r)
                        /\ rows'[r].sub = rows[r].sub
                        /\ rows'[r].suscriptor = rows[r].suscriptor
                        /\ rows'[r].membresia = rows[r].membresia
                        /\ rows'[r].negocio = rows[r].negocio
  <2> TAKE r \in RowIds
  <2>1. rows[r] \in Row  BY Before DEF Todo
  <2> QED BY <1>1, <2>1 DEF UpdateRowsOf, Row, Exists, RowsOfSub, Estatus
<1> QED BY <1>2, <1>3, <1>4, StatusStep

LEMMA DeliverStep ==
    ASSUME Todo, NEW m \in Workers, NEW e \in emitted, Deliver(m, e)
    PROVE  PurchaseInv'
<1>1. e \in Events /\ e.sub \in PaidSubs /\ StripeSame /\ UNCHANGED <<rows, negocios, eventLog>>
  BY DEF Todo, TypeInv, TypeOK, EvidenceInv, EventsTrue, Deliver, Known, LogReadFails,
     HandleWebhookEvent, StripeSame, stripeVars, dbVars
<1>2. CASE Known(m, e) \/ LogReadFails(m, e)
  <2>1. NuevosPasos /\ NuevosPedidos /\ NuevosNegocios /\ NuevasFilas /\ Kept
    BY <1>1, <1>2, PedidoSame DEF Known, LogReadFails, NuevosPasos, NuevosNegocios, NuevasFilas,
       Kept, NegociosKept, FilasKept, Exists, StripeSame, PaidSubs
  <2> QED BY <1>1, <2>1, NotasSame, Conserva
<1>3. CASE HandleWebhookEvent(m, e)
  <2> DEFINE n == IF FirstStep(e) = "retrieveSub" THEN pedidos[e.sub].negocio ELSE NoNegocio
             w == [Idle EXCEPT !.paso = FirstStep(e), !.event = e, !.negocio = n]
  <2>1. Goes(m, w)  BY <1>3 DEF HandleWebhookEvent
  <2>2. w.paso = FirstStep(e) /\ w.event = e /\ w.negocio = n  BY DEF Idle
  <2>3. /\ FirstStep(e) \notin {"findRow", "upsert"}
        /\ FirstStep(e) = "retrieveSub" => pedidos[e.sub].negocio # NoNegocio
        /\ FirstStep(e) = "register" => /\ pedidos[e.sub].negocio = NoNegocio
                                        /\ pedidos[e.sub].datos = "none"
    BY <1>1, EventShape DEF FirstStep, TiposEvento
  <2>4. FirstStep(e) = "retrieveSub" => n = pedidos[e.sub].negocio  OBVIOUS
  <2> HIDE DEF w, n
  <2>5. EnCurso(w)  BY <2>2, <2>3, <2>4 DEF EnCurso, Atendido, ServedBy
  <2> QED BY <1>1, <2>1, <2>5, NotasSame, DeliveryReads
<1> QED BY <1>2, <1>3 DEF Deliver

LEMMA CrashStep == ASSUME Todo, Crash PROVE PurchaseInv'
<1>1. UNCHANGED <<rows, negocios, eventLog, subs>>  BY DEF Crash, stripeVars, dbVars
<1>2. PedidosKept /\ NuevosPedidos  BY Before DEF Crash, PedidosKept, NuevosPedidos, Pedido, Todo
<1>3. Kept /\ NuevosNegocios /\ NuevasFilas
  BY <1>1, <1>2 DEF Kept, NegociosKept, FilasKept, Exists, NuevosNegocios, NuevasFilas, PaidSubs
<1>4. \A m \in Workers : worker'[m] = Idle  BY DEF Crash
<1>5. NuevosPasos  BY <1>4, IdleOK DEF NuevosPasos, EnCurso
<1> QED BY <1>1, <1>2, <1>3, <1>5, NotasSame, Conserva

LEMMA PurchaseNext == Todo /\ [Next]_vars => Todo'
<1> SUFFICES ASSUME Todo, [Next]_vars PROVE Todo'  OBVIOUS
<1>1. TypeInv' /\ EvidenceInv'  BY TypeNext, PlanStep DEF Todo
<1> SUFFICES PurchaseInv'  BY <1>1 DEF Todo
<1>2. ASSUME NEW c \in Sessions, Stripe(c) \/ Checkout(c) PROVE PurchaseInv'  BY <1>2, RequestStep
<1>3. ASSUME NEW m \in Workers, Advance(m) \/ HandlerFails(m) \/ RegisterFails(m)
      PROVE  PurchaseInv'
  BY <1>3, ThrowStep, CheckoutReads, InvoiceReads, RegisterStep, CreateNegocioStep, UpsertStep,
     ExtendStep, UpdateStep DEF Advance, OnCheckoutSessionCompleted, OnInvoicePaid
<1>4. ASSUME NEW m \in Workers, NEW e \in emitted, Deliver(m, e) PROVE PurchaseInv'
  BY <1>4, DeliverStep
<1>5. CASE UNCHANGED vars
  <2>1. NuevosPasos /\ NuevosPedidos /\ NuevosNegocios /\ NuevasFilas /\ NuevasNotas /\ Kept
    BY <1>5, PedidoSame, NotasSame DEF vars, NuevosPasos, NuevosNegocios, NuevasFilas,
       Kept, NegociosKept, FilasKept, Exists, PaidSubs
  <2> QED BY <2>1, Conserva
<1>6. CASE Crash  BY <1>6, CrashStep
<1> QED BY <1>2, <1>3, <1>4, <1>5, <1>6 DEF Next

LEMMA PurchaseHolds == Spec => []Todo
<1>1. Init => Todo  BY TypeInit, EvidenceInit, PurchaseInit DEF Todo
<1> QED BY <1>1, PurchaseNext, PTL DEF Spec

\* Every row of billing_subscriptions is what its subscriber bought: the

\* session was paid, and the owner, the membership and the business are its.
THEOREM RowsArePurchases == Spec => []RowMatchesPayment
<1>1. Todo => RowMatchesPayment  BY DEF Todo, PurchaseInv
<1> QED BY <1>1, PurchaseHolds, PTL

\* A checkout logged as success has left a row for its business, whatever

\* deliveries were repeated, cut short or handled at the same time.
THEOREM LoggedMeansServed == Spec => []SuccessMeansPlan
<1>1. Todo => SuccessMeansPlan  BY DEF Todo, PurchaseInv
<1> QED BY <1>1, PurchaseHolds, PTL
=============================================================================

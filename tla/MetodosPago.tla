------------------------------- MODULE MetodosPago -------------------------------
(***************************************************************************)
(* The Stripe customer of a subscriber and the cards saved under it        *)
(* (PagosService; BillingService makes the customer in the same way).  The *)
(* customer is looked for in the row of the subscriber, created at Stripe  *)
(* and written to the row in three calls; everything about a card goes     *)
(* through the customer the row names.                                     *)
(***************************************************************************)
EXTENDS Integers

CONSTANTS Tarjetas, NoTarjeta,
          Cajeros,      \* the requests at work
          MaxClientes, MaxCobranzas, MaxFallasStripe \* bounds

ASSUME MetodosAssumption ==
    /\ NoTarjeta \notin Tarjetas
    /\ MaxClientes \in Nat /\ MaxCobranzas \in Nat /\ MaxFallasStripe \in Nat

VARIABLES
    clienteId,    \* suscriptores.stripe_customer_id; 0 is NULL
    clientes,     \* how many customers Stripe created
    tarjeta,      \* the customer each card is attached to, 0 if none
    predeterminada, \* invoice_settings.default_payment_method of each customer
    secretos,     \* the SetupIntents handed out: their customers
    cajero, cobranzas, fallasStripe,
    pisado        \* two requests were creating the customer at once, or a profile that
                  \* was read before the customer was written was saved after it

metodosVars == <<clienteId, clientes, tarjeta, predeterminada, secretos,
                 cajero, cobranzas, fallasStripe, pisado>>

--------------------
Cliente == 1 .. MaxClientes
Oficio == {"cliente", "setup-intent", "checkout", "borra", "default", "perfil"}
SinCajero == [paso |-> "libre", oficio |-> "cliente", cliente |-> 0, tarjeta |-> NoTarjeta]
Cajero == [paso : {"crea", "guarda", "usa", "perfil"}, oficio : Oficio, cliente : 0 .. MaxClientes,
           tarjeta : Tarjetas \cup {NoTarjeta}]

MetodosTypeOK ==
    /\ clienteId \in 0 .. clientes /\ clientes \in 0 .. MaxClientes
    /\ tarjeta \in [Tarjetas -> 0 .. clientes]
    /\ predeterminada \in [Cliente -> Tarjetas \cup {NoTarjeta}]
    /\ secretos \subseteq Cliente
    /\ cajero \in [Cajeros -> Cajero \cup {SinCajero}]
    /\ cobranzas \in 0 .. MaxCobranzas /\ fallasStripe \in 0 .. MaxFallasStripe
    /\ pisado \in BOOLEAN

MetodosInit ==
    /\ clienteId = 0 /\ clientes = 0
    /\ tarjeta = [t \in Tarjetas |-> 0]
    /\ predeterminada = [c \in Cliente |-> NoTarjeta]
    /\ secretos = {}
    /\ cajero = [k \in Cajeros |-> SinCajero]
    /\ cobranzas = 0 /\ fallasStripe = 0 /\ pisado = FALSE

--------------------
Va(k, w) == cajero' = [cajero EXCEPT ![k] = w]
Acaba(k) == Va(k, SinCajero)
NuevaCobranza(k) ==
    cajero[k] = SinCajero /\ cobranzas < MaxCobranzas /\ cobranzas' = cobranzas + 1

\* ensureStripeCustomer: the row is read.
EnsureStripeCustomer(k, oficio) ==
    /\ NuevaCobranza(k)
    /\ Va(k, [paso |-> IF clienteId = 0 THEN "crea" ELSE "usa", oficio |-> oficio,
              cliente |-> clienteId, tarjeta |-> NoTarjeta])
    /\ pisado' = (pisado \/ (clienteId = 0 /\ \E o \in Cajeros :
                                  cajero[o].paso \in {"crea", "guarda"}))
    /\ UNCHANGED <<clienteId, clientes, tarjeta, predeterminada, secretos,
                   fallasStripe>>
GetOrCreateCustomer(k) == EnsureStripeCustomer(k, "cliente")
CreateSetupIntent(k) == EnsureStripeCustomer(k, "setup-intent")
CreateCheckout(k) == EnsureStripeCustomer(k, "checkout")

\* customers.create, which nothing makes idempotent.
CreaCliente(k) ==
    /\ cajero[k].paso = "crea" /\ clientes < MaxClientes
    /\ clientes' = clientes + 1
    /\ Va(k, [cajero[k] EXCEPT !.paso = "guarda", !.cliente = clientes + 1])
    /\ UNCHANGED <<clienteId, tarjeta, predeterminada, secretos, cobranzas,
                   fallasStripe, pisado>>

\* Mutant: the customer that was created is not written to the row.
NoSeEscribe(k) == clienteId
EscribeCliente(k) == cajero[k].cliente
GuardaCliente(k) ==
    /\ cajero[k].paso = "guarda"
    /\ clienteId' = EscribeCliente(k)
    /\ Va(k, [cajero[k] EXCEPT !.paso = "usa"])
    /\ UNCHANGED <<clientes, tarjeta, predeterminada, secretos, cobranzas,
                   fallasStripe, pisado>>

\* External to this part: a call of SuscriptoresService saves the whole row it read, the
\* customer in it too.
LeePerfil(k) ==
    /\ NuevaCobranza(k)
    /\ Va(k, [paso |-> "perfil", oficio |-> "perfil", cliente |-> clienteId,
              tarjeta |-> NoTarjeta])
    /\ UNCHANGED <<clienteId, clientes, tarjeta, predeterminada, secretos,
                   fallasStripe, pisado>>
GuardaPerfil(k) ==
    /\ cajero[k].paso = "perfil"
    /\ pisado' = (pisado \/ clienteId # cajero[k].cliente)
    /\ clienteId' = cajero[k].cliente
    /\ Acaba(k)
    /\ UNCHANGED <<clientes, tarjeta, predeterminada, secretos, cobranzas,
                   fallasStripe>>

\* assertPaymentMethodOwnedBySuscriptor: the card is of the customer the row names.
AssertPaymentMethodOwnedBySuscriptor(k, oficio, t) ==
    /\ clienteId # 0 /\ tarjeta[t] = clienteId /\ NuevaCobranza(k)
    /\ Va(k, [paso |-> "usa", oficio |-> oficio, cliente |-> clienteId, tarjeta |-> t])
    /\ UNCHANGED <<clienteId, clientes, tarjeta, predeterminada, secretos,
                   fallasStripe, pisado>>
DeletePaymentMethod(k, t) == AssertPaymentMethodOwnedBySuscriptor(k, "borra", t)
SetDefaultPaymentMethod(k, t) == AssertPaymentMethodOwnedBySuscriptor(k, "default", t)

\* What the request asks of Stripe (external): a card that is not of the customer is
\* refused as default, and one that is detached stops being it.  The payment is in Pagos.
AtiendeStripe(k) ==
    LET w == cajero[k]
        suya == w.tarjeta # NoTarjeta /\ tarjeta[w.tarjeta] = w.cliente
    IN  /\ w.paso = "usa" /\ Acaba(k)
        /\ secretos' = IF w.oficio = "setup-intent" THEN secretos \cup {w.cliente}
                       ELSE secretos
        /\ tarjeta' = IF w.oficio = "borra" THEN [tarjeta EXCEPT ![w.tarjeta] = 0]
                      ELSE tarjeta
        /\ predeterminada' =
             CASE w.oficio = "borra" -> [c \in Cliente |-> IF predeterminada[c] = w.tarjeta
                                                           THEN NoTarjeta ELSE predeterminada[c]]
               [] w.oficio = "default" /\ suya -> [predeterminada EXCEPT ![w.cliente] = w.tarjeta]
               [] OTHER -> predeterminada
        /\ UNCHANGED <<clienteId, clientes, cobranzas, fallasStripe, pisado>>

\* External: the application confirms a SetupIntent with a new card.
ConfirmaTarjeta(c, t) ==
    /\ c \in secretos /\ tarjeta[t] = 0
    /\ tarjeta' = [tarjeta EXCEPT ![t] = c] /\ secretos' = secretos \ {c}
    /\ UNCHANGED <<clienteId, clientes, predeterminada, cajero, cobranzas,
                   fallasStripe, pisado>>

\* A call to Stripe or to the database fails, done or not: the customer made is forgotten.
FallaCajero(k) ==
    /\ cajero[k] # SinCajero
    /\ fallasStripe < MaxFallasStripe /\ fallasStripe' = fallasStripe + 1
    /\ Acaba(k)
    /\ UNCHANGED <<clienteId, clientes, tarjeta, predeterminada, secretos,
                   cobranzas, pisado>>

MetodosNext ==
    \E k \in Cajeros :
        \/ GetOrCreateCustomer(k) \/ CreateSetupIntent(k) \/ CreaCliente(k)
        \/ GuardaCliente(k) \/ AtiendeStripe(k) \/ FallaCajero(k)
        \/ CreateCheckout(k) \/ LeePerfil(k) \/ GuardaPerfil(k)
        \/ \E t \in Tarjetas :
            \/ DeletePaymentMethod(k, t)
            \/ SetDefaultPaymentMethod(k, t)
            \/ \E c \in Cliente : ConfirmaTarjeta(c, t)

MetodosSpec == MetodosInit /\ [][MetodosNext]_metodosVars

--------------------
\* listPaymentMethods: the cards of the customer the row names, and which is the default.
ListPaymentMethods ==
    IF clienteId = 0 THEN {} ELSE {t \in Tarjetas : tarjeta[t] = clienteId}
EsDefault(t) == clienteId # 0 /\ predeterminada[clienteId] = t

\* "Idempotente": while no two requests were creating the customer at once, and no profile
\* read before it was saved after it, every card that was saved and not removed since is in
\* the list its owner sees, and the default one is in it, whatever failed in between.
TarjetasALaVista ==
    ~pisado =>
        /\ {t \in Tarjetas : tarjeta[t] # 0} = ListPaymentMethods
        /\ \A t \in Tarjetas : EsDefault(t) => t \in ListPaymentMethods
=============================================================================

# Verification of JelpyCore

JelpyCore is the backend of Jelpy, a directory of local businesses with
promotions, advertisements, paid memberships and an assistant: one NestJS
process (TypeORM over MySQL 8, Stripe through its SDK and webhooks). This
directory holds TLA+ models of the parts of it where concurrency, repeated
messages and failures decide whether the data stay right, the TLC runs that check
them on small instances, and TLAPS proofs of what holds for every size.

- Paths below are relative to `src/src/` unless they start with `src/`.
- `tlc -config X.cfg M.tla` repeats a run, `tlapm M.tla` a proof.

## 1. Inventory

The process serves HTTP requests and webhook deliveries on one thread. Every
`await` (a call to MySQL or to Stripe) lets any other request run, so the units of
interleaving are the awaited calls; MySQL adds row and gap locks where the code
asks for them (`pessimistic_write`) and at every UPDATE. Several handlers exist
in one process and nothing in the code prevents several processes.

| Component | State | Operations | Why it is hard |
|---|---|---|---|
| Billing (`modules/billing`) | `billing_subscriptions` (one row per subscription or business), `stripe_processed_events`, `suscriptor.stripeCustomerId` | open a Checkout Session, handle six webhook event types, upsert the plan, ask for a CFDI | deliveries repeat, overlap and come out of order; the event is logged after it was applied; the twin events of one charge |
| Pagos (`modules/pagos`) | `pagos`, PaymentIntents at Stripe | create a payment and an intent, webhook, settle, fail | two nested transactions on two connections of one pool; retries after a partial failure |
| Account statement (`modules/suscripciones`, `crearMovimientoEstadoCuenta`) | `estado_cuenta_movimientos` | append a charge or a credit with its balance | the balance is read and then written; an empty account has only a gap to lock |
| Suscripciones (`modules/suscripciones`) | `suscriptor_suscripciones`, `suscripcion_ciclos`, `membresia_cuotas` | consume a quota unit, give a subscription on first use, change plan, create, renew, cancel, toggle renewal | transactions with locks against writers without any; stale entities saved back; cycles keyed by dates |
| Auth (`modules/auth`) | `codigos_otp`, `refresh_sessions` | send and verify codes, login, refresh with rotation, logout | attempt counters and single use under concurrent requests, reuse detection, revocation |
| Accounts (`modules/business/suscriptores`, `core/data-retention`) | `suscriptores` | sign up, edit, delete, empty after thirty days | a whole row is saved that was read before; a deletion is a sequence of statements without a transaction |
| Saved cards (`modules/pagos`) | the Stripe customer of a subscriber, its cards | create the customer, add, list, remove, choose the default | the customer is looked for, created and written in three calls |
| Businesses, branches (`modules/business/negocios`, `sucursales_negocios`) | `negocios`, `sucursales_negocios` | create within the units and the limit, edit, move, delete | a count, then an insert; whole entities saved back |
| Opening hours (`horarios_sucursal`) | a row for each day | create, edit, remove; four readings of "open now" | the readings have to agree about nights that cross midnight |
| Promotions (`promociones_negocio`, `promociones_sucursal`) | promotions, links to branches, wall events | create for one branch, a lot or the business, edit, remove | promotion, links and event are written one after the other |
| Images (Cloudinary) | files, and the rows that show them | upload, destroy, save, in an order each controller has of its own | what a row shows may be destroyed before the row changes |
| Menu, characteristics of a branch | rules of a branch on top of what its business or its kind offers | edit, assign, query | the query and the check in JavaScript have to agree; a rule is looked for, then inserted |
| Anuncios (`modules/business/anuncios`) | `anuncios`, `anuncios_cupo_mensual` | create, change status, edit, count impressions | slots and quota are read, changed and saved without a lock |
| Memory cache (`common/cache`) | a Map with expiry and LRU eviction | get, set, wrap, del, delByPrefix | a loader in progress while its key is invalidated |
| Search cache, rate limiter (`modules/core/ai/utils`) | Maps with a timer | get, set, verify, clean up | window borders, clean-up of what is in use |
| Conversation (`modules/core/conversation`) | `conversation_sessions`, turns | get or create a session, save context and pending question, expire | merges into a context read before; clean-up during a message |
| Messages, notifications, news of favourites | inbox rows, events, cached summaries | send in batches, edit, mark read, count | a failure between the push and the inbox; a summary stored after the invalidation |
| Search (`modules/core/search`, `jelpy-assistant`) | a view, keywords learned | find, widen until something is found, learn | raw rows and entities are paired by position |
| Facturas | draft invoices | draft from a payment | check, then insert |
| Metrics and dashboards (`core/metrics`) | counters, rows of detail, daily and weekly history | count, daily and weekly job, dashboards, sales reports | several figures for the same thing, counted in different tables |
| Addresses, tree of categories | rows switched off and on, trees saved whole | create, edit, remove | uniqueness without an index; a save that carries children read earlier |
| Reviews, support tickets | a row that author, business and panel save whole | write, edit, answer, moderate, attend | a save puts back what another call changed |
| Memberships, ranking, preferences, reports, legal, health | rows read and written one at a time | CRUD, queries | no state shared between operations beyond the row and its UNIQUE indexes |

How they interact. The Pagos webhook settles a payment, appends to the account
statement, and calls the renewal of Suscripciones. Billing is a second,
independent way to pay, for the plan of a business; it writes nothing that
Suscripciones reads. Creating a business or a promotion first consumes a unit of
Suscripciones. Deleting an account revokes sessions (Auth) and cancels
subscriptions (Suscripciones). Catalogues, messages and notifications go through
the memory cache.

What makes each correct:

- *Billing*: a plan changes only on Stripe's evidence; a charge counts once; who
  paid gets the plan they paid for; an event recorded as success was applied.
- *Pagos*: the account statement is a chain of balances; a payment stands as paid
  only if it was credited; money taken is credited in the end.
- *Suscripciones*: no unit granted beyond the limit, none lost; units charged only
  to an active subscription; at most one active subscription.
- *Auth*: a code is used once and within its attempts; a rotated refresh token
  never works again; after revocation no session remains.
- *Anuncios*: active advertisements within slots and quota; a unit pays for one.
- *Caches*: nothing stale is served beyond what its time to live allows.
- *Conversation*: a pending question is answered once; a message in progress keeps
  its session.
- *Businesses, promotions, menu, images*: what was deleted stays deleted, limits are
  kept, and what the owner was told is what the public sees.
- *Messages, metrics, dashboards*: figures that speak of the same thing agree, and
  what was sent is found.
- *Accounts*: a deleted account stays deleted and leaves nothing open.

`PROJECT.json` lists every part under "components" and every hazard, at its line,
under "hazards", with the properties that cover it or the reason why none does.

## 2. Modules

Four components are worth a module of their own state space and an abstract
specification or a liveness property: these have their own runs.

| Module | What it is |
|---|---|
| `PlanLifecycle` | abstract: what a plan of a business may do, given Stripe's evidence |
| `Billing` | `modules/billing` with Stripe as environment |
| `MCBilling` | its small instances, five `.cfg` |
| `BillingProofs` | theorems: types, invoices, purchases, Billing implements PlanLifecycle |
| `EstadoCuenta` | abstract: the account statement as an append-only chain of balances |
| `Pagos` | `modules/pagos` and `crearMovimientoEstadoCuenta`, with the pool and the locks |
| `MCPagos` | its small instances, three `.cfg` |
| `ServiciosProofs` | theorems: types, a settled payment was credited, Pagos implements EstadoCuenta; and those of four components below |
| `Suscripciones` | `modules/suscripciones` without the account statement, and the deletion of an account |
| `SuscripcionesProofs` | theorems: types, quotas, consumption, automatic subscription; and those of the three components below |
| `SesionDispositivo` | abstract: what the sessions of a subscriber promise |
| `Sesiones` | refresh sessions: `modules/auth` without the one-time codes, and the operations of `modules/business/suscriptores` that close sessions |
| `NegocioProofs` | theorems: types, nobody is logged out on its own, Sesiones implements SesionDispositivo; and those of two components below |
| `Sumas` | lemmas about sums over finite sets and about ranks, for the proofs of the models that count |

The others are smaller and share no state with one another, so they are checked
several in a run: a module `MC...` EXTENDS them, a variable (`servicio`, `parte`,
`ambito`) says which one a behaviour is about, that component takes all the steps
and the rest stay in one initial state. The state spaces add up instead of
multiplying. The `VIEW Mirada` shows TLC the component a behaviour is about; since
the others never change, nothing is lost. (For Interprete it shows Buscador too, whose
branches the texts are looked for in.)

| Module | Code | Composed in |
|---|---|---|
| `Anuncios`, `ServiciosProofs` | `modules/business/anuncios` | `MCServicios` |
| `CacheMemoria`, `VisitantesProofs` | `common/cache`, and what goes through it | `MCServicios` |
| `Conversacion`, `VisitantesProofs` | `core/conversation`, and the branches of `core/ai/ai.service.ts` | `MCServicios` |
| `Codigos`, `ServiciosProofs` | the one-time codes of `modules/auth`, the accounts they open | `MCServicios` |
| `Horarios`, `ServiciosProofs` | opening hours and their four readings | `MCServicios` |
| `Limitador`, `CatalogosProofs` | `core/ai/utils`, the rate limiter | `MCServicios` |
| `Facturas`, `ServiciosProofs` | `modules/facturas` | `MCServicios` |
| `Resenas`, `VisitantesProofs` | reviews and reactions | `MCServicios` |
| `Busquedas`, `VisitantesProofs` | searches that share a cached result, likes, counters | `MCServicios` |
| `Buzon`, `VisitantesProofs` | `modules/messages`, notifications | `MCServicios` |
| `Novedades`, `VisitantesProofs` | promotions told to favourites: events, bookmarks, their summary | `MCServicios` |
| `Buscador` | `core/search/search.service.ts` | `MCServicios` (and used by `Interprete`) |
| `Interprete` | `core/ai/jelpy-assistant`: a text becomes filters | `MCServicios` |
| `Domicilios`, `CatalogosProofs` | `modules/business/domicilios` | `MCServicios` |
| `Taxonomia`, `CatalogosProofs` | the tree of categories of `modules/catalogos` | `MCServicios` |
| `Soporte`, `VisitantesProofs` | `modules/support` | `MCServicios` |
| `Imagenes`, `NegocioProofs` | every controller that uploads to Cloudinary | `MCNegocio` |
| `Establecimientos`, `NegocioProofs` | businesses and branches | `MCNegocio` |
| `PromocionesGlobales`, `OfertasProofs` | `promociones_negocio` | `MCNegocio` |
| `PromocionesSucursal`, `OfertasProofs` | `promociones_sucursal` and the public suggestions | `MCNegocio` |
| `Metricas`, `OfertasProofs` | `core/metrics`: counters, jobs | `MCNegocio` |
| `Caracteristicas`, `OfertasProofs` | characteristics of branches, their rules and aliases | `MCNegocio` |
| `MenuSucursal`, `OfertasProofs` | `catalogo_productos` | `MCNegocio` |
| `Cuentas`, `SuscripcionesProofs` | `modules/business/suscriptores`, `core/data-retention` | `MCSuscripciones` |
| `MetodosPago`, `SuscripcionesProofs` | saved cards of `modules/pagos`, `ensureStripeCustomer` | `MCSuscripciones` |
| `Tableros`, `SuscripcionesProofs` | dashboards, reports of sales, front page | `MCSuscripciones` |

`MCNegocio` also holds Sesiones, and `MCSuscripciones` Suscripciones.

### Correspondence, common to the models

- *A step is one awaited call.* The local variables of a request or a delivery are
  the record `worker[m]` (in Billing and Pagos also `pedidos[c]` for checkout
  requests); its field `paso` names the call it will make next. What a handler does
  between two awaits is part of the step. A workload limit, `Workers`, is how many
  are in progress at once.
- *A failed call* (`...Fails`, `Falla`) moves the request to its catch clause. A
  failed call has no effect; the one exception, where the effect matters, is the
  creation of an intent in Pagos, whose answer may be lost after Stripe charged.
- *A restart* (`Crash`) empties the workers and keeps the database and Stripe.
- *Dates* are numbers: periods of a subscription in Billing, months since January
  of year 0 in Suscripciones. Ids Stripe gives are the name of the thing itself.
- *MySQL.* A statement outside a transaction is atomic. A transaction's writes
  become visible at its commit; its plain reads take no lock. `SELECT ... FOR
  UPDATE` and `UPDATE` wait for the rows others have locked. A locking read that
  finds no row locks the gap, which several may hold; an insert into it waits for
  the others, and two that wait for each other are a deadlock, in which one is
  rolled back (`Interbloqueo`). The isolation level is MySQL's default and the
  locking reads are taken to use the index on `suscriptor_id`. An insert and the
  commit that follows it are one step, since nobody sees what lies between.
- *TypeORM's save* writes the columns in which the entity differs from the row at
  that moment. An entity read before another write therefore puts the old values
  back; the models save what was read.

### Billing

State: `pedidos` (what each checkout asked for, its progress), `subs` (subscriptions
as Stripe knows them), `emitted` and `acked` (webhook events, and those answered
with 200), `eventLog` (`stripe_processed_events`: event ids and invoice keys),
`rows` (`billing_subscriptions`), `negocios` (owner and originating session of a
business), `cfdi` (invoices asked for, per payment), `worker`.

Stripe (`Pay`, `Renew`, `ChargeFails`, `Recover`, `Cancel`) is external: it changes
`subs` and emits the events that go with the change. Any emitted event may be
delivered at any time, again, and while another delivery of it is in progress;
Stripe's duty to repeat what got no 200 is fairness (below).

| Actions | Code |
|---|---|
| `CreateCheckoutSession`, `CancelExisting`, `EnsureStripeCustomer`, `SaveStripeCustomer`, `OpenSession` and their failures | `createCheckoutSession`, `ensureStripeCustomer` |
| `Known`, `HandleWebhookEvent`, `Register`, `HandlerFails`, `LogReadFails`, `RegisterFails` | `handleWebhookEvent`, `stripeWebhook` |
| `CreateNegocio`, `NegocioDataUnreadable`, `RetrieveSub`, `FindRow`, `Upsert...` | `onCheckoutSessionCompleted`, `upsertBillingSubscription` |
| `MarkInvoice`, `MarkInvoiceFails`, `RetrieveInvoiceSub`, `FindBySub`, `ExtendPlan` | `onInvoicePaid` |
| `OnInvoicePaymentFailed`, `OnSubscriptionUpdated`, `OnSubscriptionDeleted` | the handlers of those events |

Simplifications: a subscription has one invoice per period; Stripe's statuses are
active, past_due and canceled (the default of the switch is in `PlanEstatus`); the webhook's signature, prices and the text of
mails are left out; metadata that TypeScript would send with an id and data for a
new business at once does not occur (with an id the code ignores the data).

### Pagos and EstadoCuenta

State: `pedidos`, `intents`, `emitted`, `acked` as above; `pagos` and `movimientos`
as committed; `activados` (payments that renewed a subscription); `worker`. Nothing
stores locks or connections: which step a worker is at says what it holds
(`EnTransaccion`, `Anidados`, `PagoBloqueado`, `Bloquean`), and `HayConexion` says
whether the pool has one left. `markAsPaid` keeps its connection until the renewal
has returned (the `finally` after it), so `renovar` counts as holding one.

| Actions | Code |
|---|---|
| `CreatePayment`, `CreateIntent`, `AttachReference`, `CheckoutFails` | `createCheckout`, `createPayment`, `attachExternalReferenceIfMissing` |
| `Recibe`, `Responde200`, `Responde400`, `Falla` | `stripeWebhook` |
| `AttachExternalReferenceIfMissing`, `BeginMarkAsPaid`, `UpdatePago`, `ConectaMovimiento`, `CommitPago`, `RenovarOCrear` | `markAsPaid` |
| `MarkAsFailed` | `markAsFailed` |
| `CrearMovimiento`, `LeeSaldo`, `RegistraMovimiento`, `Interbloqueo` | `crearMovimientoEstadoCuenta` |

`EstadoCuenta` is the account a subscriber is promised: a step appends one movement,
a charge or a credit and never both, whose balance is the previous balance minus
the charge plus the credit. The refinement maps `cuenta` to `movimientos`.

### Suscripciones

State: `suscripciones` and `ciclos` as committed, `membresiaDe`
(`suscriptores.membresia_id`), `concedidas` (what callers of `consumirCuota` were
told: the history the property compares with), `mes`, `worker`.

| Actions | Code |
|---|---|
| `LeeActivaBloqueando`, `AutoProvisionar`, `CicloActualBloqueado`, `Consume`, `Agotada`, `Interbloqueo` | `consumirCuota`, `autoProvisionarSuscripcionActiva`, `obtenerOCrearCicloActualLockeado` |
| `LeeParaCambiar`, `CancelaAnterior`, `InsertaNueva` | `cambiarPlan` |
| `LeeParaCrear`, `Alta`, `ObtenerOCrearCiclo` | `crearSuscripcion`, `obtenerOCrearCicloActual` |
| `LeeParaRenovar`, `Guarda`, `SincronizaMembresia` | `renovarOCrearSuscripcion` |
| `LeeParaGuardar`, `LeeParaCancelar`, `Guarda` | `setAutoRenew`, `cancelarSuscripcion` |
| `LeeParaGuardar`, `ObtenerOCrearCiclo` | `obtenerResumenSuscriptor`, which opens the cycle |
| `EliminarCuenta` | the UPDATE of `eliminarCuenta` |

`CalcularRangoCiclo` gives first and last month of a cycle; with the subscription it
is the key of `uq_ciclo_unico`. Not modelled here: administrators changing the
limits (`Limite` is a constant), manual creation with a state other than `activa`,
the dates of a subscription, and the extra columns of a cycle, which no code
writes.

### Sesiones and SesionDispositivo

State: `sesiones` (`refresh_sessions`: subscriber, jti, revoked), `legado` and `eliminado`
(`suscriptores.refresh_token`, by the device whose token it is the hash of, and the mark of
deletion), `jti` (the last one signed), `tiene` (the token each device holds), `pide`
(devices waiting for an answer), `worker`; and two histories, `perdio` (devices that lost
an answer since their last login) and `cerradas` (sessions that one of the three closing
operations revoked).

| Actions | Code |
|---|---|
| `LoginEmail`, `VerifyOtp`, `LeeLogin`, `IssueRefreshSession`, `UltimoLogin`, `Responde` | `loginEmail`, `verifyOtp` once the code was accepted, `issueRefreshSession` |
| `Refresh`, `LeeSesion`, `Rota`, `Responde` | `refresh` |
| `Refresh`, `LeeLegado`, `AnulaLegado`, `IssueRefreshSession`, `MigraLegado`, `Responde` | `refreshLegacy` |
| `Logout`, `RevocaTodas`, `BorraLegado` | `logout` |
| `CambiarContrasena`, `LeeCuenta`, `EscribeCuenta`, `RevocaTodas` | `cambiarContrasena` |
| `EliminarCuenta`, `LeeCuenta`, `EscribeCuenta`, `RevocaTodas` | the first statements of `eliminarCuenta` |

The device is external. It sends one request at a time with the token it holds, takes over
the token of an answer, and keeps what it has after an error. It may give up (`Desiste`) and
ask again while the server is still at work on the first request: that is the only way one
device has two requests in progress.

Simplifications: the jti and the hash of a row are written together, so the comparison of
the hash after a row was found by its jti cannot fail, and the branch for a reused token
(`modules/auth/auth.service.ts:511`) is never taken; the two reads of `refresh` (row, then
subscriber) are one step, since the second decides nothing the model distinguishes;
sessions do not expire by time; credentials and codes were accepted before the request
appears here.

### The components of MCServicios

Each has requests at work (`gestion`, `cliente`, `hilo`, ... one record each with the step
and what was read), counters that bound the environment, and where the code guards nothing
against overlap a history variable (`solapo...`) that says whether two requests were at work
at once: the properties then speak of behaviours without overlap, and a finding of what
happens with it.

| Module | State | Steps | Its property says |
|---|---|---|---|
| `Anuncios` | adverts, months of quota, extra units bought, membership, clock | `Create`, `UpdateStatus`, `CreaCupo`, `GuardaCupo`, `Cobra`, `GuardaAnuncio`, failures; a month passes, the membership changes | `AnunciosEnRegla`: the quota of a month is the adverts charged (`CupoExacto`), an active advert was charged (`ActivoConCupo`, with overlap too), those that run are within the slots of the largest membership there was (`SlotsRespetados`) |
| `CacheMemoria` | the Map in order of insertion, versions in the database, requests | `wrap`, `get`, `set`, `del`, `delByPrefix` (`Acierta`, `Pon`, `Anuncia`, `Olvida`), writers, restart, tick | `VeLoAnunciado`: after an invalidation nobody gets the older value, unless a load was out; `ExpulsaLaMasAntigua`: eviction takes the least recently used |
| `Conversacion` | sessions, turns by day, messages being answered, clean-ups | `ProcessUserMessage` and the awaited calls of each branch, `LimpiaTurnos`, `LimpiaSesiones`, `CerrarSesion` | `SesionEnRegla`: one session, alive while in use; `MensajesEnRegla`: two turns a message, a question answered once |
| `Codigos` | `codigos_otp`, who has the telephone, requests | `Invalida`, `Inserta`, `ValidarOtp`, `GuardaFallo`, `Marca`, `BuscaTitular`, `Crea`; the deletion and emptying of the account, a minute | `CodigosEnRegla`: one code in force by medium, good for one use within its attempts, and a registration code taken gives its account, unless its call failed after the mark (`cortados`) or an account was deleted |
| `Horarios` | the hours of a branch by day | `Crear`, `Actualizar`, `Eliminar`, the saves | `AbiertoSegunHorario`: the four readings of "open now" follow what was kept, but for the closing minute and the small hours of a crossing day; `EtiquetaDeAcuerdo`: label and filter agree |
| `Limitador` | windows by user, clock | `Acepta`, `Limpiar`, `Arranca` | `DobleDelLimite`: less than twice the limit in any window |
| `Facturas` | invoices, billing profile | `Solicitar`, `CreaPerfil`, `GuardaFactura`, `Cancelar`, `GuardaCancelada` | `FacturaUnica`: one live invoice a payment; `DesgloseExacto`: subtotal and tax add up |
| `Resenas` | the review, a reaction | `CreateResena`, `LeeResena`, `GuardaResena`, `Reaccionar` | `RespuestaIntacta`: the text that was answered stays under its answer |
| `Busquedas` | lists in memory, likes, counters | `Busca`, `OrdenaPorLikes`, `CuentaSucursal`, `CuentaNegocio`, `Toca` | `CuentaCadaUna`: a search counts each result and each business once, although requests sort one list under each other |
| `Buzon` | notifications, inboxes, messages | `EnviarNotificacion`, `InsertarLote`, `EditarMensaje`, `EliminarMensaje`, marks | `BuzonFiel`: what is shown as sent is in the inbox of everyone; badge and inbox agree (`BandejaCuadra`) |
| `Novedades` | promotions, events, read marks, favourites, cached summary | create, change, remove with their events; `MarcarFavorito`, `ObtenerResumen` | `NovedadesAlDia`: the summary is of the favourites there are and of nothing already read; every promotion was announced |
| `Buscador` | the view, a query, its result | `HaceBusqueda` (two queries) | `ListaFiel`: what meets the filters, each once, nearest first, with its own data beside it |
| `Interprete` | keywords learned, requests | `InterpretarTexto`, each widening, `AprenderKeyword`, fallback without the microservice | `BusquedaHonrada`: what was asked for first, wider only when there is none; a word is learned once |
| `Domicilios` | four tables | create, update, remove (look up, save) | `ClavesUnicas`: no row is there twice |
| `Taxonomia` | the tree | create, update, move, remove (read whole, save whole) | `ArbolComoSeDijo`: each row is where the last call left it, and has its parent |
| `Soporte` | tickets, live accounts | `CrearTicket`, `ActualizarAdmin`, their saves, which may fail, lists | `TicketsEnRegla`: who wrote a ticket finds it as it was attended |

Three definitions of properties join two components each (`VisitantesEnRegla`: Resenas and
Busquedas; `AvisosEnRegla`: Buzon, Novedades and Soporte; `BusquedaEnRegla`: Buscador and
Interprete; `CatalogosEnRegla`: Domicilios and Taxonomia).

### The components of MCNegocio

| Module | State | Steps | Its property says |
|---|---|---|---|
| `Imagenes` | kind of row, what it shows, what Cloudinary keeps | upload, destroy, save, delete in each controller's order; any of them fails; `DELETE /ads/upload` | `ImagenesVivas`: what a live row shows exists, unless `DELETE /ads/upload` named it |
| `Establecimientos` | businesses, branches, units spent, requests | create (unit first), edit, delete, add a branch, move it, delete it | `EstablecimientosEnRegla`: no more live branches than the membership gives, what was deleted stays deleted, each business spent its unit |
| `PromocionesGlobales` | the promotion, links by branch | `GuardaPromo`, `BorraEnlaces`, `InsertaEnlaces`, `AnunciaPromo` | `PromoDondeSeDijo`: shown once in each branch where its owner was told |
| `PromocionesSucursal` | a row by branch, date | lot, edit, remove, date passes | `CadaOfertaEnSuLista`: exactly one of current, next, ended; none when deleted |
| `Metricas` | counters, detail, history | events, views, daily and weekly job, move of a branch, deletion of a business | `MetricasCuadran`: counter and detail (`EventosCuadran`), views of a promotion (`VistasCuadran`), business and branches (`EmpresasCuadran`), the history of each business grows (`HistoricoCrece`) |
| `Caracteristicas` | characteristic, rules, aliases, assignments | edit rules (delete, insert), alias, assign | `OfreceLoQueAcepta`: what a branch is offered it may take, and both follow the rules told |
| `MenuSucursal` | items, rules of the branch | items, availability and price | `MenuComoSePidio`: item shown as the branch asked for it |

`PromosEnRegla` joins the two kinds of promotions, `OfertaEnRegla` the last two.

### The components of MCSuscripciones

| Module | State | Steps | Its property says |
|---|---|---|---|
| `Cuentas` | accounts, what is open for each | sign-up, editions, both deletions statement by statement, the job of thirty days | `CuentasEnRegla`: deleted stays deleted (`BajaDefinitiva`), a deletion that ended leaves nothing open (`BajaCompleta`), an emptied account stays empty (`SinRastro`) |
| `MetodosPago` | customer in the row, customers at Stripe, cards | `EnsureStripeCustomer`, `CreaCliente`, `GuardaCliente`, the card calls | `TarjetasALaVista`: a saved card is in the list |
| `Tableros` | counters, detail, branches, sales | events, likes, sales; the dashboards and reports are operators | `TablerosEnRegla`: list and dashboard agree, the breakdown is complete, the four reports add up to the same, the front page shows what it should |

`SuscriptorEnRegla` joins the three.

## 3. Runs

All runs give every action of their specification a way to fire; between them the
passing runs fire all of them. Deadlock is not checked: when every bound is used up
and every request has ended the models stop, and so may the system when nobody
calls it.

| Run | Question | Bounds and why they are enough |
|---|---|---|
| `billing` | do rows match payments, move only on evidence, and does success mean a plan? | one session, two subscribers and two memberships (to tell owners and plans apart), an existing and a new business, readable, cut and missing data, two periods (a renewal), every event type, one failing call, one delivery at a time |
| `billing_twin` | is a charge applied once, and does who paid get a plan? | two concurrent deliveries, one crash, the three event types of a first payment; five businesses and two rows so that no repetition is cut short by a bound |
| `billing_upgrade` | the same evidence when the row of a business changes subscription | two sessions of one owner for one business, two deliveries, one of the sessions ends |
| `billing_deleted` | (violation) is a deleted subscription `vencido` in the end? | the smallest instance with a payment and a deletion |
| `billing_repeat` | (violation) does a repeated delivery change nothing? | two overlapping deliveries of one checkout |
| `pagos` | the account is in order, a settled payment was credited, taken money is credited | one payment, two deliveries at a time, two manual movements, one needless repetition, one failing call, one restart, pool of three |
| `pagos_abono` | (violation) is a payment credited once? | two overlapping deliveries |
| `pagos_pool` | (violation) does waiting for a connection end? | as many deliveries as connections |
| `suscripciones` | what hangs from a subscriber: quotas under every interleaving; accounts, cards, dashboards | quotas: two workers, three requests, one failing call, a free monthly and a paid once-only membership, two months with a new year in between, three subscriptions. Accounts: two persons that share an address, three calls, two editions. Cards: two cards and two customers, four calls, one failure of Stripe. Dashboards: two branches, two businesses, three notices, two years of two months |
| `suscripciones_activa` | (violation) is there at most one active subscription? | two overlapping changes of plan |
| `negocio` | what an owner works with: is nobody logged out on its own and does a closed session stay closed; and the seven components of MCNegocio | sessions: two devices of one subscriber, two requests, two rows, three tokens, one closing, one lost answer, one failing call: a retry overlaps the request it repeats, the other device's login and a closing. The rest: two requests, two branches, one unit and one business given away, at most two links, rules, aliases, events, uploads; weeks of two days |
| `servicios` | the sixteen components of MCServicios | two requests each, two rows each, and at most: adverts three calls in two months, with one slot, two or no limit, which may change; cache two entries, one tick; three messages over two days and one failure; two codes, two attempts, four requests, a minute, a deletion and a failure; three edits of three days and four hours of the day; four ticks, windows of two, limit two; three invoices and a cancellation; four calls about a review; two searches, two likes, a failure; a notification and three edits of messages; three calls about two promotions; four branches in two kinds of business and a LIMIT of three; two texts and a failure, with at most one of those branches gone; two calls about addresses, over no rows, four, or four with one switched off; four calls about the tree; two calls of support, over no ticket or one |

Two actors at once are enough for the races here, which are all between a read and
a write of one actor and a write of another; what holds for any number of actors
is what the proofs add. Bounds (`Max...`) only limit how often the environment acts
or how many ids exist; an action at its bound is disabled, it never answers
differently. Three numbers are not of the model but of the code, and are small in
the instance because only their being reached matters: `MaxIntentos` of a code,
`MaxPerMinute` of the limiter, `MaxEntries` of the cache. Overlapping texts of
Interprete are the same text: what they contend for is one keyword.

Symmetry is in requests, rows, branches and (in `negocio`) the two devices, which no
property or constant tells apart; no run with symmetry checks liveness.

Each passing property comes with a mutant in its module (a comment `Mutant:` marks
it), the definition as a plausible bug would leave it; with the mutant in place TLC
finds that property violated.

What the runs show:

- `PlanPromise` (PlanLifecycle), `RowMatchesPayment`, `SuccessMeansPlan`,
  `InvoiceOnce` and `PaidReachesPlan` hold for Billing.
- `EstadoCuentaPromise` (EstadoCuenta), `PagadoTieneAbono` and `CobroLlega` hold for
  Pagos.
- `CupoRespetado`, `ConsumoEnActiva` and `AutoProvisionUnica` hold for
  Suscripciones.
- `SesionPromise` (SesionDispositivo) and `NadieSaleSolo` hold for Sesiones.
- Each component of the three compositions keeps the property in the tables of
  section 2. Where the property has an exception ("unless two overlapped", "unless one
  failed"), the exception is what the code does, found by TLC when the property was stated
  without it, and is a finding when a document of the repository says otherwise.
- Five statements of the repository do not hold, each with its run; they and those
  met while reading are under "findings" in `PROJECT.json`.

### Fairness

`Billing!Fairness` and `Pagos!Fairness` say two things and nothing else.
Weak fairness of `Advance(m)` for each worker: Node runs a handler whose awaited
call has returned, and the calls return (a call that fails is a step of its own,
never required to happen). Weak fairness of the delivery of each event that was
emitted and not answered with 200: Stripe repeats it. Nothing requires a
subscriber, an administrator or a failure to act. In Pagos `Advance` is one
condition for a worker, so a worker waiting for a connection need not get it while
other workers keep taking them; `CobroLlega` still holds because those are finitely
many. The other modules state no liveness.

## 4. Proofs

TLAPS proves each theorem for every value of the constants that satisfies the assumption
of the module, which TLC evaluates in the run of that module. The inductive invariants
were first given to TLC on the small instances.

### Billing (`BillingProofs`)

From `BillingAssumption` (bounds are naturals, the "No..." values are outside
their sets; all other constants arbitrary):

- `TypeCorrect`: `Spec => []TypeOK`, one step per action.
- `InvoiceAtMostOnce`: `Spec => []InvoiceOnce`. The inductive
  invariant adds to it that a worker past `MarkInvoice` owns the invoice key: the key
  is in `eventLog`, no other worker is past it with the same key, and as long as one
  is, no CFDI of that invoice was asked for. A crash drops the owner and keeps the
  key, which is why the count can stay at zero but never reach two. The count is of the two
  events of an invoice; `checkout.session.completed` of a first charge asks besides.
- `BillingImplementsPlan`: `Spec => PlanPromise`. The invariant that
  makes each step an abstract step or a stutter is that whatever a worker is about
  to write is backed by evidence: its event was emitted, an emitted event implies
  that its subscription was paid (failed, cancelled), and every row is bound to a
  paid subscription. The mapping takes a row to its state and subscription.
- `RowsArePurchases`: `Spec => []RowMatchesPayment`, and `LoggedMeansServed`:
  `Spec => []SuccessMeansPlan`. They share `PurchaseInv`: a checkout names a business of its
  own subscriber (`Comprado`), a business founded by a session is its subscriber's
  (`Fundado`), an event is logged only when its session was paid (`Anotado`), what a
  delivery carries is what its session bought (`EnCurso`), and the two properties themselves.
  It is inductive together with the two invariants above because no step takes anything
  back (`Kept`): a request keeps what it asked for, a business its owner, a row its business.

### Pagos (`ServiciosProofs`)

From `PagosAssumption` (the two "No..." values are outside their sets, amounts and
bounds are naturals, the workers are finitely many and the pool is not empty):

- `TypeCorrect`: `Spec => []TypeOK`.
- `PagadoSiempreAbonado`: `Spec => []PagadoTieneAbono`.
- `PagosImplementsCuenta`: `Spec => EstadoCuentaPromise`.

The last two rest on one inductive invariant, `PagosInv`, whose parts are each needed by the
next: `TypeInv` (shapes; a worker past the read has a payment and its owner; a payment
with a row keeps its owner), `Debido` (what a delivery is about to credit is the amount of
its payment, to its owner: the row the amount was read from may have changed since, but
not in these columns), `Acreditado` (the outer transaction goes past the nested one only
when the movement was committed) and so `PagadoTieneAbono`; and `SaldoVigente` (between
`LeeSaldo` and `RegistraMovimiento` no one else appends to this subscriber's account:
the balance in the local variable is still the last one). `SaldoVigente` is where the locks
are used, and it is what makes `RegistraMovimiento` a step of `EstadoCuenta`; every other
action leaves `movimientos` alone and is a stutter.

### Suscripciones (`SuscripcionesProofs`)

From `SuscripcionesAssumption`:

- `FormaDeLasTablas`: `Spec => []TypeOK`.
- `CupoSiempreRespetado`: `Spec => []CupoRespetado`. What callers were granted is what the
  cycles count, and no cycle counts more than the plan gives.
- `ConsumeDeUnaActiva`: `Spec => ConsumoEnActiva`, and `ProveeAQuienNoTiene`:
  `Spec => AutoProvisionUnica`.

`IInv` says, of the tables, that ids are given in order (`EnOrden`) and that granted equals
counted and fits (`Cupo`); of each request, what it read that must still hold (`Solos`: the
counters it is about to save are those of the cycle, the subscription it is about to charge
is active, who is about to be given one has none); and of each two requests, that whoever
holds a subscriber's subscription in `consumirCuota` is alone with that subscriber and with
that row (`Pares`). The last is the lock, and it is needed for the others: without it the
counters read are those of another moment. Writers that take no lock (a change of plan, a
stale save) do not break it because they may change who is active but not the cycle, and the
locked row only through an UPDATE, which waits.

The module extends `MCSuscripciones`, and proves of the four components together, from
`SuscripcionesAssumption`, `CuentasAssumption`, `MetodosAssumption` and `TablerosAssumption`:

- `SuscriptorTypes`: `SuscriptorSpec => []SuscriptorTypeOK`.
- `SuscriptorSiempreEnRegla`: `SuscriptorSpec => []SuscriptorEnRegla`.

A step of the composition is a step of one component and a stutter of the others, so
`SuscriptorInv` is their four inductive invariants:

- `CuentasInv`: besides `CuentasEnRegla`, of each call at work, that the row it is about to
  save, whole as it was read, is not one that was emptied (`PorGuardarFila`), and,
  of a deletion, that what it has closed already stays closed unless a call admitted before
  wrote after it (`PorCerrar`).
- `MetodosInv`: while no two requests were creating the customer at once (`pisado`), whoever
  is creating it found none and is alone, so that every card and every SetupIntent is of the
  customer of the row (`UnSoloCliente`).
- `TablerosInv`: no table holds more than the events there were (`Caben`), and a counter is
  never ahead of its rows of detail but by those that requests are about to insert and those
  that were lost. That the queries agree with one another is a matter of the state alone: the
  joins by business against the sum of its rows (`DeAcuerdo`), the rows told apart by kind and
  origin (`Desglose`), each report against the sales it was made of whatever it is grouped by
  (`TotalDelReporte`, by `SumaPorClave` of `Sumas`; `Cuadran`), and the lists of the front page
  by what the first n of a finite set are (`LosPrimeros`; `Portada`). `TablerosAssumption` says
  that branches, cities and requests are finitely many, that there is a business, and that a
  year has from one month to as many as go by.

### Sesiones (`NegocioProofs`)

From `SesionesAssumption` (every device has a subscriber, the two "No..." values are
outside their sets, bounds are naturals):

- `TypeCorrect`: `Spec => []TypeOK`.
- `SesionesImplementaPromesa`: `Spec => SesionPromise`. `TypeInv` is enough:
  ids given out are rows, no row has a jti that was not signed, and a request that rotates
  has a row.
- `NadieSaleSoloSiempre`: `Spec => []NadieSaleSolo`. The danger is a retry
  that rotates the row between the rotation of the first request and its answer. The
  inductive invariant `SesionesInv` excludes it for a device that lost no answer: a token is known
  to one device (`Propio`), so a row about to be rotated is of one device (`Dueno`), and the
  only request about to rotate it is the one the device waits for (`SesionAtendida`, `UnaALaVez`).
  Hence when a new token is signed nobody else is about to rotate its row, and since nobody
  else knows that token (`Reciente`) nobody will before it is delivered (`Entrega`): the
  token in the device's hands is good (`Vigente`). `Cerradas` adds that only the three
  closing operations revoke.

### Conversacion (`VisitantesProofs`)

From `ConversacionAssumption` (a finite set of messages at once, `NoSesionId` outside the
sessions, bounds are naturals). Three invariants; the first is inductive alone, the others
with it:

- `ChatSiempre`, `ConversacionCumple`: `ConversacionSpec => []SesionEnRegla`. Every write of
  a session dates it today and a clean-up looks for what is older than today
  (`LimpiaLoViejo`), so a message past its first save has its session (`TocadaHoy`), however
  messages and clean-ups overlap. That the user has one open needs what a message knows
  before it saves: all that is open is the session it found, and nothing is open when it is
  about to create one (`SinOtra`), which holds until messages overlap or a call fails.
- `CadaMensajeDosTurnos`: `ConversacionSpec => []TurnosEmparejados`. The turns of a session
  that lack their pair are as many as the messages that wrote the first and not yet the
  second (`EnEspera`, a cardinality), and all of today (`ParejasInv`). Every branch writes
  one of each in that order (`GuionesConSusTurnos`), and each call of it takes the branch to
  its tail (`ColaDeDos`, `ColaDeUno`, `ColaDeNinguno`). A clean-up deletes turns of other
  days, and sessions with no message.
- `MensajesCumplen`: `ConversacionSpec => []MensajesEnRegla`, with `RespuestaInv`. A question
  is known by the message that asked it. It is pending in one session; it was not answered
  yet, or the message at work is about to clear it (`PorLimpiar`); and what a message read
  before its save is still good (`Intacta`).

### Establecimientos and Imagenes (`NegocioProofs`)

- `EstablecimientosTypes` and `EstablecimientosCumplen`:
  `EstablecimientosSpec => []EstablecimientosEnRegla`. A business that nothing exempts is
  worked on by one request at a time (`Solas`), so what that request read of it is still so
  when it saves (`Leida`): in particular the count of branches is still below the limit.
  The count is of a finite set, with the cardinality lemmas of the library. The units: each
  business that was not given away is one of `Pagados`, whose number is at most `unidades`
  because a creation spends before it inserts (`Unicas`: no two requests make one business).
- `ImagenesTypes` and `ImagenesCumplen`: `ImagenesSpec => []ImagenesVivas`. Every request is
  at a step of its plan and has what the steps before it gave it (`EnPaso`), which turns the
  orders of upload, save and destroy (`FormaDelPlan`) into facts about the row. Of the
  gallery, whose requests overlap, the invariant says that a photo about to be added is not
  shown yet, is of one request and is not one about to be taken off, and that a photo is
  destroyed after it left the table (`EnGaleria`). Of the other rows, until requests
  overlap, one is at work (`DeUnaEnUna`), what was uploaded to be shown is kept
  (`Guardadas`), an advert shows its new image before the old one is destroyed
  (`YaCambiada`), and a logo or a promotion is safe but between its destroy and its save.

### Horarios, Facturas, Anuncios and Codigos (`ServiciosProofs`)

- `HorariosTypeOKSiempre`, `AbiertoSegunHorarioSiempre`: while edits did not overlap the
  table is what was told of each day and an edit about to be saved has read its row as it
  is; the readings of "open now" are then compared with the hours for any minute of the day.
  `EtiquetaDeAcuerdoSiempre` needs no invariant beyond the shapes.
- `FacturasTypeOKSiempre`, `DesgloseExactoSiempre` (integer arithmetic, for every amount in
  centavos) and `FacturaUnicaSiempre`: two live invoices of one payment would have a
  cancelled one beside them.
- `ActivoConCupoSiempre`: requests may overlap and fail, so what is inductive is about what
  each request carries: an entity about to be saved as active is marked as charged, and one
  read under an unlimited membership raised `gratis` (`Marcada`).
- `SlotsRespetadosSiempre`: while none overlapped, a request past the count of the slots
  still has one of the largest limit there was, `techo` (`Cabe`), and an active advert had
  begun, so that a month that passes brings none into the count.
- `AnunciosTypeOKSiempre`, and `CupoExactoSiempre`, the first conjunct of `AnunciosEnRegla`
  (`AnunciosCumplen` states the three together): the units the months count as used are the
  adverts charged. What is inductive (`CupoInv`) adds one to the adverts while a request has
  used a unit and not yet marked its advert (`Deuda`), says that a month has one row
  (`UnaFila`) and that the request at work knows the row as it is (`AlDiaCupo`); after a
  failure the equality becomes an inequality, for a unit may have been used for nothing. The
  units are a sum over the months, of which a step changes one term (`SumaCambia`). That the
  requests of a behaviour stay within their type asks for `MaxSolapadas <= MaxGestiones`, a
  relation between two bounds of the model.
- `CodigosTypes`: the shapes, and `VigenteConIntentos`: a row in force has attempts left,
  whatever overlaps, since the last wrong answer and the mark are one save. The branch of
  `validarOtp` for a row in force without attempts (`modules/auth/auth.service.ts:82`) is
  therefore never taken, and the model leaves it out.
- `CodigosCumplen`: `CodigosSpec => []CodigosEnRegla`. While no two requests overlapped, the
  one at work holds the newest code as the table has it (`CodigoAlDia`), at most one code is in
  force by medium (`Unico`), the wrong answers given are those the row counts plus one being
  saved (`Contados`), a code that served is marked or about to be (`Servidos`), and a
  registration code taken has its account, the request about to create it, or a failed call
  (`Registros`).

### Promotions, menu and characteristics (`OfertasProofs`)

Four theorems are about the composition, `NegocioSpec`: a step of it is a step of one
component (`NegocioSigue`), so the invariant of each holds of it (`NegocioPartes`).
`NegocioTypes` says that the composition keeps the shapes of all its components.

- `PromosSiempreEnRegla`: `NegocioSpec => []PromosEnRegla`. Of the business, a request that
  runs alone has left the promotion and its links as far as its plan got (`Sola`): before
  its save, or if it touches no link, what is shown is what was said, between the delete and
  the insert nothing is, and at the event each branch has one link. The answer then says what
  is shown, whatever came before (`SinEnredo`): that is how a promotion left halfway is put
  right. `PromoDondeSeDijoSiempre` states it of the component. Of a branch, a row about to
  be saved is of no promotion already deleted unless two requests held it (`Retiradas`); that a
  promotion is in exactly one list, and the summary counts it so (`ResumenDeOfertas`, with
  cardinalities), is a fact of the queries, compared date by date.
- `OfertaSiempreEnRegla`: `NegocioSpec => []OfertaEnRegla`. Of the menu, an item whose calls
  did not overlap has at most one rule, and a call at work has seen whether there is one
  (`UnaRegla`). Of the characteristics, that the query and the check agree
  (`Concuerdan`) holds of any set of rules whose references are ids
  (`CaracteristicasAssumption`; section 5 says what happens to a rule with reference 0), and
  while no two edits overlapped and none stopped, the one at work has the rules removed
  before it writes its own (`ReglasDichas`).
- `MetricasSiempreCuadran`: `NegocioSpec => []MetricasCuadran`. What the counters sum is what
  the detail sums, plus the failures of the detail, plus the requests between the two writes
  (`EventosEnRegla`: a cardinality). A weekly row is the sum of the daily ones of its week but
  the last, which no later job touches (`SemanalEnRegla`), and each daily row is at most what has been counted by now
  (`HistoricoEnRegla`), which is why the history grows. No count passes the events there were
  (`CuentasCaben`); this bounds the types, and is a sum over the requests too.
  `MetricasAssumption` has branches and businesses finite, and some business.

The number of rules a menu may have is bounded in the model by `MaxReglas`, which
`MenuAssumption` asks to be no less than the number of requests, so that the bound stops none.

### Catalogues, the limiter and the composition (`CatalogosProofs`)

`CatalogosSiempreEnRegla`: `Spec => []CatalogosEnRegla`, of the composition MCServicios, whose
steps are steps of one component (`CatalogosSiguen`). It assumes that the rows there are at
the start are in order: keys that differ (`DomiciliosAssumption`), parents that are there and
of the right table, as the foreign keys ask (`TaxonomiaAssumption`).

- Domicilios (`DomInv`). That a table has no key twice is not inductive: nothing but the
  lookup a call made some steps ago keeps it. `SinPar` says what that lookup is still worth:
  in a table where no save was on top of another and none named another parent, no other row
  has the key of what a call is about to save, and a removal saves its row under the key it
  has. `Encima`, which marks the table, is exactly what another call may do to spoil it
  (`DomGuarda`); a removal is the one save it lets by, and its key was taken already.
- Taxonomia (`TaxInv`). `BienTomada` says of a call at work that what it saves hangs from a
  row of the right table and that each subcategoria it read is still where it was, unless it
  is marked. So a save that carries them along moves none that is unmarked, and `TaxTermina`
  shows that a step that changes a row another call holds marks it. That nothing is left
  hanging from a row that is gone needs the kinds (`DeSuClase`): the cascade goes two levels
  down, and there is no third (`CuelgaDeSuClase`).
- Limitador: `LimitadorTypeOKSiempre` and `DobleDelLimiteSiempre`. The limiter keeps the last
  window only, so the invariant remembers the others: there is a set of instants at which
  windows opened, each over before the next opens, that covers every accepted message and of
  which none holds more than `MaxPerMinute` (`Ventanas`). Any stretch as long as a window
  meets two of them at most, and the sum over it is at most the sum over those two.
- `VisitantesSiempreEnRegla`: `Spec => []VisitantesEnRegla`, from the invariants of Resenas and
  Busquedas below, and `AvisosSiempreEnRegla`: `Spec => []AvisosEnRegla`, from those of Buzon,
  Novedades and Soporte.

### CacheMemoria, Resenas, Busquedas, Buzon, Novedades and Soporte (`VisitantesProofs`)

- CacheMemoria: `VeLoAnunciadoSiempre` and `ExpulsaSiempre` (`CacheSpec =>
  ExpulsaLaMasAntigua`, an action property). The store is a sequence without repeated keys in
  the order of last use, which `Mapa` relates to the order the property is stated with. Keys
  leave it by their places, the finite set of those that stay (`PuestosDe`), without induction
  over the sequence. Of a request the invariant says what it knows of its family: what it
  loaded is at least what had been announced when it began, and as new as what is announced
  now unless the load was out while an invalidation passed (`carrera`).
- Resenas (`ResenasInv`): until two calls that save the review overlap, one holds it
  (`UnaGuarda`) and has the row as it is but for what it changes (`FilasAlDia`); the answer
  then stays beside the text it was given to.
- Busquedas (`BusqInv`): each request at work is measured by how many results it has counted,
  how many it still has to, whether it owes the count of its business and whether it counted
  a given branch (`MAvance`, `MFalta`, `MNegocio`, `MVista`...); counters and the sums of the
  measures over all requests add up (`Sumadas`, `EnFila`), and counters plus what remains fit
  in the bounds (`Cotas`). Two requests share one list in memory and each sorts it in place
  while the other walks it: sorting is by rank, ranking a ranked list changes nothing
  (`OrdenadaBien`), and a list of as many places as branches, none twice, misses none
  (`TodasEstan`). So while the likes do not move each branch is counted once a search.
  `BusquedasAssumption` has the requests finite, so that they can be summed.
- Buzon (`BuzonInv`): while a notification is in some request's hands its total is not written,
  and whoever it is for and is not in the inbox is still to be inserted (`ConAviso`); the total
  comes after the last batch, so a failure between two batches leaves it at zero, which is
  what the panel shows. No two requests hold one notification. Of the messages, unless an
  edit overlapped another call, who is about to be inserted has no message, and an edit was
  read as the table is, so that its save does not undo a "read" (`ConMensaje`). That panel
  and inboxes count the same rows is an equation between cardinalities, by sums over the
  subscribers (`Reparte`, and `Sumas`).
- Novedades (`NovedadesInv`): until a summary was computed beside a change (`solapoResumen`),
  the favourites counted and those still to be counted are the favourites there are, no count
  has a promotion marked as read, and nobody is at work on such a change while somebody
  counts (`CuentaAparte`); so what is stored is true, and each change forgets it. A promotion
  is announced, or in the hands of the request that will, unless a request failed in between
  (`Anunciada`).
- Soporte (`SoporteInv`): the folios differ. Of a ticket that no two updates held at once, the
  row, and the copy in the hands of the one at work on it, are as the panel was last told
  (`Atendido`): the save of the whole row is then worth only what it changes. A list sorted by
  date is taken by ranks (`EnLaLista`), so that what it holds is known without induction.
  `SoporteAssumption` has the tickets there are at first admitted, unattended and with a folio
  each, and says that there is a greatest folio, which stands for the one of the clock.

### Sums (`Sumas`)

The models add with the folds of the community modules, which are defined by recursion over a
set, and the induction theorems of the library take an operator, which no installed prover can
instantiate. Induction is done here by the smallest counterexample instead: the strict
inclusion of the parts of a finite set is well founded, so a set of parts for which a formula
fails has a smallest one (`MenorParte`). `HayParciales` gives the table of the partial sums
and `SumaTabulada` that the fold is its last row; the lemmas that follow say what a sum does when a
term changes (`SumaCambia`), when an element is added or taken (`SumaPone`, `SumaQuita`), when
terms grow (`SumaMonotona`), over parts and over disjoint unions (`SumaParte`,
`SumaDisjunta`), that a sum is no less than any of its terms (`SumaUno`), that a sum of ones is
the cardinality (`SumaDeUnos`), and that what is added up by groups adds up the same
(`SumaPorClave`). `RangosDistintos` gives the elements of a finite set that is totally ordered
their ranks: each place from 0 to its size less one is of one element.

### Only model-checked

- Liveness under fairness (`PaidReachesPlan`, `CobroLlega`): the prover has no ENABLED.
- The five violation runs, which are counterexamples.
- `BusquedaEnRegla` (Buscador, Interprete), and so `ServiciosTypeOK`, which has a part about
  Interprete: no theorem states them yet.

## 5. What is not modelled, and known gaps of the code

Behaviour of the code that the models contain and no property states, because no
document promises otherwise, or that was met while reading. `PROJECT.json` lists, under
"findings", what contradicts a document or is plainly not meant.

- *A charge may be counted and then lost.* `onInvoicePaid` stores the invoice key before it
  reads the subscription and updates the plan. When one of these fails the key stays, the
  retry stops at it, and that period is not extended and gets no CFDI
  (`modules/billing/billing.service.ts:405`). `PaidReachesPlan`
  therefore speaks of the checkout, whose event has no such key, and `InvoiceOnce` says "at
  most" once. For want of that key the first charge has two requests for a CFDI, that of its
  checkout (385) and that of its invoice (450), and more when deliveries of the checkout overlap.
- *Adverts above the limit.* `max_slots_simultaneos` is read when an advert is activated
  (`modules/business/anuncios/anuncios.service.ts:349`). When the membership becomes a smaller
  one nothing pauses those that run, so `SlotsRespetados` compares them with `techo`, the
  largest limit there was; the public feed shows no more than today's (726).
- *An image in use may be destroyed* by `DELETE /ads/upload`
  (`modules/business/anuncios/anuncios.controller.ts:197`); the model says which (`descartadas`).
- *A day's total falls* when a business is deleted, since the daily job keeps only those that
  are not; of each business no day says less than one before it.
- *Detail of another branch.* The public POST of an event names the branch of the detail
  freely: `DesgloseCompleto` counts these rows apart (`Ajenos`).
- *A plan is cancelled before the next one is paid.* `createCheckoutSession` cancels the
  current subscription when the session is opened, not when it is paid
  (`modules/billing/billing.service.ts:116`), and a lost answer of Stripe leaves the session
  open and the request failed (142).
- *Two customers.* Two first requests of a subscriber each create a Stripe customer and the
  second overwrites the first. MetodosPago shows what that does to the cards.
- *A renewal is lost.* When the process stops in Pagos between the commit of the payment
  and the renewal (`modules/pagos/pagos.service.ts:324`), the retry finds the payment paid and
  returns.
- *A consumed unit is not given back* when the creation it was consumed for fails
  (`modules/business/negocios/negocios.controller.ts:131`,
  `modules/business/promociones_negocio/promociones-negocios.service.ts:92`).
- *A stale save revives a subscription.* `setAutoRenew` saves the entity it read: a
  cancellation in between is undone. `Guarda` in the model does this too.
- *The once-only quota restarts every January*, since the first month of its cycle is that of
  the current year (`modules/suscripciones/suscripciones.service.ts:177`).
- *Two plans.* Changing the plan by an administrator does not write
  `suscriptores.membresia_id`; the renewal does
  (`modules/suscripciones/suscripciones.service.ts:361`).
- *Two first uses of two subscribers with the same membership* may wait for each other on
  the membership's row. The model has one lock per subscriber and no such wait.
- *A rule with reference 0.* The DTO of a characteristic takes any number as `referenciaId`
  (`modules/business/caracteristicas_sucursales/dtos/create-caracteristica.dto.ts:19`). A rule
  of category 0 is offered to nobody, since `findAplicables` skips a level the business does
  not have, and yet a business without that level may take the characteristic, since
  `Number(null)` is 0 (`sucursales-caracteristicas.service.ts:303`). The proof of `Concuerdan`
  needs references that are ids; the model assumes them so. A null reference applies to
  nobody either way.
- *A login with a code* does not look at `eliminado`
  (`modules/auth/auth.service.ts:319`), the one with a password does.
- *A password changed with an e-mail code* (`verifyOtpEmail`) leaves every session open.
- *Without a guard against overlap*, two requests for a code leave two in force, two edits
  of a schedule leave the older one, two invoices of a payment are both drafts, two rows of
  a rule or of a link are inserted. The properties name these in their "while no two
  overlapped", and the models contain them.

Abstractions with a consequence:

- A call that fails has no effect. A statement that MySQL executed and whose answer was
  lost is not modelled, except for the intent of Pagos.
- MySQL under REPEATABLE READ, with the indexes of the entities. In an environment without
  them a locking read would lock more, and less would interleave.
- Statements inside one transaction that nothing else can see between are one step.
- What a text says to the microservice or the dictionary is a constant of Interprete; the
  words, their tolerance to misspellings and the wording of answers are left out, and with
  them the dictionaries and suggestions of `core/ai/utils`.
- Components checked side by side do not interact in the model. Where one calls another
  (a creation that consumes a unit, a deletion that closes sessions), the caller's module
  has the call as a step with its outcomes, and the callee's module its effect.

Not modelled: what "components" lists as `not_modelled`, with its reason: the catalogue of
memberships (a constant of the others), ranking and the public views (queries that only
read), preferences, reports, legal and health (single inserts, static answers), and the
bootstrap. What is left out of a component that is `partly` modelled is in its note.

## 6. Plan

What is left, in this order:

1. Theorems about `Buscador` and `Interprete`.
2. Parts of components that are `partly` modelled and have state: the cached counts of
   messages and bookmarks as a refinement of what CacheMemoria promises.

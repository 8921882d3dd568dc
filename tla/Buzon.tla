---------------------------------- MODULE Buzon ----------------------------------
(***************************************************************************)
(* What the administrators send: notifications (AdminNotificationsService, *)
(* NotificationsService), whose rows go to the inbox of each subscriber in *)
(* batches after the push, and messages (AdminMessagesService,             *)
(* MessagesService), a row of its own for each subscriber, that may be     *)
(* edited and deleted later.  A step is a call to the database or to       *)
(* OneSignal; a batch is one row here.                                     *)
(***************************************************************************)
EXTENDS Integers, FiniteSets, Functions

CONSTANTS Destinatarios,  \* the subscribers that are not deleted
          Remitentes,     \* the calls at work
          MaxEnvios,      \* bound: notifications
          MaxEdicionesMensaje \* bound: rounds of messages, edits and deletions

ASSUME BuzonAssumption ==
    /\ IsFiniteSet(Destinatarios) /\ MaxEnvios \in Nat /\ MaxEdicionesMensaje \in Nat

VARIABLES
    notificacion, \* notifications: whom it was for, and total_sent
    bandeja,      \* user_notifications, of each notification
    mensaje,      \* business_messages: the message of each subscriber
    remitente, edicionesMensaje,
    solapoMensaje, \* an edit was at work beside another call on that message
    leyo          \* who was told the message is read

buzonVars == <<notificacion, bandeja, mensaje, remitente, edicionesMensaje, solapoMensaje, leyo>>
buzonMensajes == <<mensaje, edicionesMensaje, solapoMensaje, leyo>>
buzonAvisos   == <<notificacion, bandeja>>

--------------------
Envios == 1 .. MaxEnvios
Notificacion == [para : SUBSET Destinatarios, total : 0 .. Cardinality(Destinatarios)]
NoNotificacion == [para |-> {}, total |-> -1]
Mensaje == [leido : BOOLEAN, editado : BOOLEAN]
NoMensaje == [leido |-> FALSE]

Remitente == [paso : {"idle", "resuelve", "push", "lotes", "total", "mensajes", "edita"},
              n : Envios \cup {0}, todos : BOOLEAN, faltan : SUBSET Destinatarios,
              exito : 0 .. Cardinality(Destinatarios), fila : Mensaje \cup {NoMensaje}]
SinRemitente == [paso |-> "idle", n |-> 0, todos |-> FALSE, faltan |-> {}, exito |-> 0,
                 fila |-> NoMensaje]

BuzonTypeOK ==
    /\ notificacion \in [Envios -> Notificacion \cup {NoNotificacion}]
    /\ bandeja \in [Envios -> [Destinatarios -> {"no", "nueva", "leida"}]]
    /\ mensaje \in [Destinatarios -> Mensaje \cup {NoMensaje}]
    /\ remitente \in [Remitentes -> Remitente]
    /\ edicionesMensaje \in 0 .. MaxEdicionesMensaje /\ solapoMensaje \in BOOLEAN
    /\ leyo \subseteq Destinatarios

BuzonInit ==
    /\ notificacion = [n \in Envios |-> NoNotificacion]
    /\ bandeja = [n \in Envios |-> [d \in Destinatarios |-> "no"]]
    /\ mensaje = [d \in Destinatarios |-> NoMensaje]
    /\ remitente = [r \in Remitentes |-> SinRemitente]
    /\ edicionesMensaje = 0 /\ solapoMensaje = FALSE /\ leyo = {}

--------------------
Hace(r, paso) == remitente[r].paso = paso
Sale(r, w)  == remitente' = [remitente EXCEPT ![r] = w]
EnTabla(n)  == notificacion[n] # NoNotificacion

EnviarNotificacion(r, n, todos) ==
    /\ Hace(r, "idle") /\ notificacion[n] = NoNotificacion
    /\ \A k \in Envios : k < n => EnTabla(k)
    /\ \A o \in Remitentes : remitente[o].n # n
    /\ notificacion' = [notificacion EXCEPT ![n] = [para |-> {}, total |-> 0]]
    /\ Sale(r, [SinRemitente EXCEPT !.paso = "resuelve", !.n = n, !.todos = todos])
    /\ UNCHANGED <<bandeja, buzonMensajes>>

\* resolverUserIds: everybody, a city, or one.
ResolverUserIds(r) ==
    /\ Hace(r, "resuelve")
    /\ \E para \in IF remitente[r].todos THEN {Destinatarios} ELSE SUBSET Destinatarios :
        /\ notificacion' = IF EnTabla(remitente[r].n)
                           THEN [notificacion EXCEPT ![remitente[r].n].para = para]
                           ELSE notificacion
        /\ Sale(r, IF para = {} /\ ~remitente[r].todos THEN SinRemitente
                   ELSE [remitente[r] EXCEPT !.paso = "push", !.faltan = para])
    /\ UNCHANGED <<bandeja, buzonMensajes>>

\* Mutant: off by one, the last batch is not inserted.
QuedaMasDeUno(faltan) == Cardinality(faltan) > 1
QuedanLotes(faltan) == faltan # {}

\* OneSignal: whom the push reached, none when it fails.
EnviarPush(r) ==
    /\ Hace(r, "push")
    /\ \E exito \in 0 .. Cardinality(Destinatarios) :
        Sale(r, [remitente[r] EXCEPT !.exito = exito,
                     !.paso = IF QuedanLotes(remitente[r].faltan) THEN "lotes" ELSE "total"])
    /\ UNCHANGED <<buzonAvisos, buzonMensajes>>

\* insertarUserNotifications: INSERT IGNORE, which drops the rows of a notification that
\* was deleted meanwhile.
InsertarLote(r) ==
    /\ Hace(r, "lotes")
    /\ LET w == remitente[r]
       IN  \E d \in w.faltan :
            /\ bandeja' = IF EnTabla(w.n) THEN [bandeja EXCEPT ![w.n][d] = "nueva"] ELSE bandeja
            /\ Sale(r, [w EXCEPT !.faltan = @ \ {d},
                            !.paso = IF QuedanLotes(w.faltan \ {d}) THEN "lotes" ELSE "total"])
    /\ UNCHANGED <<notificacion, buzonMensajes>>

ActualizarTotal(r) ==
    /\ Hace(r, "total")
    /\ LET w == remitente[r]
       IN  notificacion' = IF EnTabla(w.n) THEN [notificacion EXCEPT ![w.n].total = w.exito]
                           ELSE notificacion
    /\ Sale(r, SinRemitente)
    /\ UNCHANGED <<bandeja, buzonMensajes>>

\* The rows of the inbox refer to the notification: one that reached somebody stays.
EliminarNotificacion(n) ==
    /\ EnTabla(n) /\ \A d \in Destinatarios : bandeja[n][d] = "no"
    /\ notificacion' = [notificacion EXCEPT ![n] = NoNotificacion]
    /\ UNCHANGED <<bandeja, remitente, buzonMensajes>>

MarcarLeida(n, d) ==
    /\ bandeja[n][d] = "nueva" /\ bandeja' = [bandeja EXCEPT ![n][d] = "leida"]
    /\ UNCHANGED <<notificacion, remitente, buzonMensajes>>
MarcarTodasLeidas(d) ==
    /\ bandeja' = [n \in Envios |-> [bandeja[n] EXCEPT ![d] = IF @ = "nueva" THEN "leida" ELSE @]]
    /\ UNCHANGED <<notificacion, remitente, buzonMensajes>>

--------------------
TocaMensaje ==
    /\ edicionesMensaje < MaxEdicionesMensaje
    /\ edicionesMensaje' = edicionesMensaje + 1
Editando(d) == \E o \in Remitentes : Hace(o, "edita") /\ d \in remitente[o].faltan

\* enviarMensaje, createBulkMessages: the rows, batch by batch.
EnviarMensaje(r, para) ==
    /\ Hace(r, "idle") /\ para # {} /\ TocaMensaje
    /\ \A d \in para : mensaje[d] = NoMensaje
    /\ \A o \in Remitentes : remitente[o].faltan \cap para = {}
    /\ Sale(r, [SinRemitente EXCEPT !.paso = "mensajes", !.faltan = para])
    /\ UNCHANGED <<buzonAvisos, mensaje, solapoMensaje, leyo>>
InsertaMensaje(r) ==
    /\ Hace(r, "mensajes")
    /\ LET w == remitente[r]
       IN  \E d \in w.faltan :
            /\ mensaje' = [mensaje EXCEPT ![d] = [leido |-> FALSE, editado |-> FALSE]]
            /\ leyo' = leyo \ {d}
            /\ Sale(r, IF w.faltan = {d} THEN SinRemitente ELSE [w EXCEPT !.faltan = @ \ {d}])
    /\ UNCHANGED <<buzonAvisos, edicionesMensaje, solapoMensaje>>

\* editarMensaje: findOne, then a save of what was found; one row of the round.
EditarMensaje(r, d) ==
    /\ Hace(r, "idle") /\ mensaje[d] # NoMensaje /\ TocaMensaje
    /\ Sale(r, [SinRemitente EXCEPT !.paso = "edita", !.faltan = {d},
                                    !.fila = [mensaje[d] EXCEPT !.editado = TRUE]])
    /\ solapoMensaje' = (solapoMensaje \/ Editando(d))
    /\ UNCHANGED <<buzonAvisos, mensaje, leyo>>
GuardaMensaje(r) ==
    /\ Hace(r, "edita")
    /\ \E d \in remitente[r].faltan :
        mensaje' = [mensaje EXCEPT ![d] = remitente[r].fila]
    /\ Sale(r, SinRemitente)
    /\ UNCHANGED <<buzonAvisos, edicionesMensaje, solapoMensaje, leyo>>

EliminarMensaje(d) ==
    /\ mensaje[d] # NoMensaje /\ TocaMensaje
    /\ mensaje' = [mensaje EXCEPT ![d] = NoMensaje]
    /\ solapoMensaje' = (solapoMensaje \/ Editando(d))
    /\ leyo' = leyo \ {d}
    /\ UNCHANGED <<buzonAvisos, remitente>>

MarkAsRead(d) ==
    /\ mensaje[d] # NoMensaje /\ ~mensaje[d].leido
    /\ mensaje' = [mensaje EXCEPT ![d].leido = TRUE]
    /\ solapoMensaje' = (solapoMensaje \/ Editando(d))
    /\ leyo' = leyo \cup {d}
    /\ UNCHANGED <<buzonAvisos, remitente, edicionesMensaje>>

\* A call that rejects, or the end of the process.
FallaBuzon(r) ==
    /\ ~Hace(r, "idle") /\ Sale(r, SinRemitente)
    /\ UNCHANGED <<buzonAvisos, buzonMensajes>>

BuzonNext ==
    \/ \E r \in Remitentes :
        \/ \E n \in Envios, todos \in BOOLEAN : EnviarNotificacion(r, n, todos)
        \/ ResolverUserIds(r) \/ EnviarPush(r) \/ InsertarLote(r) \/ ActualizarTotal(r)
        \/ \E para \in SUBSET Destinatarios : EnviarMensaje(r, para)
        \/ InsertaMensaje(r) \/ GuardaMensaje(r) \/ FallaBuzon(r)
        \/ \E d \in Destinatarios : EditarMensaje(r, d)
    \/ \E n \in Envios :
        EliminarNotificacion(n) \/ \E d \in Destinatarios : MarcarLeida(n, d)
    \/ \E d \in Destinatarios : MarcarTodasLeidas(d) \/ EliminarMensaje(d) \/ MarkAsRead(d)

BuzonSpec == BuzonInit /\ [][BuzonNext]_buzonVars

--------------------
\* What is read.  The rows of a subscriber whose notification is found, all of them or the
\* unread; his badge, which counts the rows alone; and his inbox, of messages and rows.
GetBandeja(d, estados) == {n \in Envios : bandeja[n][d] \in estados /\ EnTabla(n)}
GetUnreadCount(d) == Cardinality({n \in Envios : bandeja[n][d] = "nueva"})
GetAll(d) == IF mensaje[d] = NoMensaje THEN {} ELSE {mensaje[d]}
GetInbox(d, unreadOnly) ==
    {<<"message", m>> : m \in {m \in GetAll(d) : unreadOnly => ~m.leido}} \cup
    {<<"notification", n>> :
        n \in GetBandeja(d, IF unreadOnly THEN {"nueva"} ELSE {"nueva", "leida"})}

\* The panel: one line for the rows of equal content, of which there are two when some were
\* edited; and the totals of the module.
Lineas == {e \in BOOLEAN : \E d \in Destinatarios : \E m \in GetAll(d) : m.editado = e}
ListarMensajes ==
    [e \in Lineas |->
        LET filas == {d \in Destinatarios : \E m \in GetAll(d) : m.editado = e}
        IN  [enviados |-> Cardinality(filas),
             leidos |-> Cardinality({d \in filas : mensaje[d].leido})]]
ObtenerStats ==
    [total |-> Cardinality({d \in Destinatarios : GetAll(d) # {}}),
     leidos |-> Cardinality({d \in Destinatarios : \E m \in GetAll(d) : m.leido})]

--------------------
\* Nobody has an unread badge for what his inbox cannot show him, nor the reverse; and the
\* lines of the panel leave out no row, however the edits split them.
BandejaCuadra ==
    /\ \A d \in Destinatarios :
        /\ Cardinality(GetInbox(d, FALSE)) =
             Cardinality(GetAll(d)) + Cardinality({n \in Envios : bandeja[n][d] # "no"})
        /\ GetUnreadCount(d) = Cardinality({r \in GetInbox(d, TRUE) : r[1] = "notification"})
    /\ \A c \in {"enviados", "leidos"} :
        (IF c = "enviados" THEN ObtenerStats.total ELSE ObtenerStats.leidos) =
            FoldFunction(+, 0, [e \in Lineas |-> ListarMensajes[e][c]])

\* A notification the panel shows as sent to somebody is in the inbox of everyone it was
\* for, whatever failed between the push and the last batch, or was deleted meanwhile;
\* and a message read stays read, while no edit of it overlapped another call on it.
BuzonFiel ==
    /\ BandejaCuadra
    /\ \A n \in Envios : notificacion[n].total > 0 =>
           \A d \in notificacion[n].para : bandeja[n][d] # "no"
    /\ ~solapoMensaje => \A d \in leyo : mensaje[d].leido
=============================================================================

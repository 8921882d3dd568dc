---------------------------- MODULE Conversacion ----------------------------
(***************************************************************************)
(* The chat of one user with the assistant: AiService.processUserMessage   *)
(* over ConversationService (src/src/modules/core/ai, core/conversation).  *)
(*                                                                         *)
(* What a message says decides the branch of the pipeline: here any branch *)
(* the session allows.  A branch is its guion, the awaited calls it makes  *)
(* in order; a step is one of them.  The clean-up each message launches is *)
(* not awaited and runs beside it.  A save of a session makes its row what *)
(* the entity was when read.  Of the filters of a session only the pending *)
(* question is kept.  A tick is the 24 hours of retention.                 *)
(***************************************************************************)
EXTENDS Integers, Sequences, FiniteSets

CONSTANTS SesionIds, Hilos, NoSesionId,
          MaxMensajes,     \* bound: messages
          MaxSolapados,    \* bound: messages of a behaviour where some overlap, a call
                           \* fails or a session is closed
          MaxDias,         \* bound: ticks; a message takes less than one
          MaxTropiezos     \* bound: sessions closed by the user, and failed calls,
                           \* none once messages have overlapped

ASSUME ConversacionAssumption ==
    /\ NoSesionId \notin SesionIds /\ IsFiniteSet(Hilos)
    /\ MaxMensajes \in Nat /\ MaxSolapados \in 0 .. MaxMensajes /\ MaxDias \in Nat
    /\ MaxTropiezos \in Nat

VARIABLES
    sesion,      \* conversation_sessions
    turno,       \* conversation_turns, by session and day: those of the user less
                 \* those of the assistant
    hilo,        \* the messages being answered
    limpieza,    \* the clean-up each of them launched
    dia,
    mensajes, cierres, fallasChat,
    solapoChat,  \* two messages, or a message and a close, were at work at once
    contestadas, \* questions taken as answered, by the message that asked them
    repetida     \* one was taken as answered twice

conversacionVars == <<sesion, turno, hilo, limpieza, dia, mensajes, cierres, fallasChat,
                      solapoChat, contestadas, repetida>>
conversacionHistoria == <<cierres, solapoChat, contestadas, repetida>>

--------------------
Roles == {"U", "A"}
Dias == 0 .. MaxDias

\* PreguntaPendiente: quien is corte_pelo_para_quien and mascota_para_que, similares
\* buscar_similares_promo, categoria promociones_categoria, catalogo
\* catalogo_item_accion; de is the message that asked.
Tipos == {"quien", "similares", "categoria", "catalogo"}
Pregunta == [tipo : Tipos \cup {"null"}, de : 0 .. MaxMensajes]
SinPregunta == [tipo |-> "null", de |-> 0]

Fila == [activa : BOOLEAN, pend : Pregunta, ctx : BOOLEAN, tocada : Dias]
NoFila == [activa |-> FALSE]
FilaNueva == [activa |-> TRUE, pend |-> SinPregunta, ctx |-> FALSE, tocada |-> dia]

\* "U", "A": guardarTurnoUsuario, guardarTurnoAsistente.  A type, or "null":
\* guardarPreguntaPendiente.  "ctx": actualizarContextoBusqueda.  "q": a call that
\* may reject (promotions, search, interpretation).
Llamada == {"U", "A", "q", "ctx", "null"} \cup Tipos

Aviso == <<"U", "A">>
PromosCiudad == <<"U", "q", "categoria", "A">>
PromosGenericas == <<"U", "categoria", "A">>
Negativa == <<"null", "U", "A">>
Detalle == {<<p, "U", "A">> : p \in {"null", "similares"}}
CatalogoAmbiguo == <<"catalogo", "U", "A">>
Aclara == <<"quien", "U", "A">>
\* Mutant: the answer is not kept.
FiltradasSinTurno == {<<"q", "U", "q", p>> : p \in {"null", "catalogo"}}
Filtradas == {<<"q", "U", "q", "A", p>> : p \in {"null", "catalogo"}}
Interpretada == <<"q", "U", "categoria", "A">>
Charla == <<"q", "U", "A">>
Busqueda == <<"q", "U", "q", "ctx", "A">>

SinResolver == {Aviso, PromosCiudad, PromosGenericas}
Resto == {CatalogoAmbiguo, Aclara, Interpretada, Charla, Busqueda} \cup Filtradas

\* Mutant: the question stays when it was answered.
ConsumeSinLimpiar(tipo) ==
    IF tipo = "null" THEN {}
    ELSE Resto \cup (IF tipo = "quien" THEN {} ELSE {Negativa})

\* ContextResolverUseCase: the message answers the question that is pending.
Consume(tipo) ==
    IF tipo = "null" THEN {}
    ELSE {<<"null">> \o g : g \in Resto} \cup (IF tipo = "quien" THEN {} ELSE {Negativa})
\* After promociones_categoria whatever is said is the category.
NoConsume(tipo, ctx) ==
    IF tipo = "categoria" THEN {} ELSE Resto \cup (IF ctx THEN Detalle ELSE {})

Prefijos(G) == UNION {{SubSeq(g, n, Len(g)) : n \in 1 .. Len(g) + 1} : g \in G}
Guiones == SinResolver \cup UNION {Consume(t) \cup NoConsume(t, TRUE) : t \in Tipos \cup {"null"}}

Hilo == [paso : {"idle", "lee", "porUsuario", "guarda", "crea", "elige", "guion"},
         id : SesionIds \cup {NoSesionId}, fila : Fila \cup {NoFila},
         guion : Prefijos(Guiones), de : 0 .. MaxMensajes]
SinHilo == [paso |-> "idle", id |-> NoSesionId, fila |-> NoFila, guion |-> <<>>, de |-> 0]
Limpieza == [paso : {"no", "turnos", "sesiones"}, limite : Dias]
SinLimpieza == [paso |-> "no", limite |-> 0]

SinTurnos == [d \in Dias |-> 0]

ConversacionTypeOK ==
    /\ sesion \in [SesionIds -> Fila \cup {NoFila}]
    /\ turno \in [SesionIds -> [Dias -> -MaxMensajes .. MaxMensajes]]
    /\ \A s \in SesionIds : sesion[s] = NoFila =>
           turno[s] = SinTurnos                        \* ON DELETE CASCADE
    /\ hilo \in [Hilos -> Hilo] /\ limpieza \in [Hilos -> Limpieza]
    /\ dia \in Dias /\ mensajes \in 0 .. MaxMensajes
    /\ cierres \in Nat /\ fallasChat \in Nat /\ cierres + fallasChat <= MaxTropiezos
    /\ solapoChat \in BOOLEAN /\ repetida \in BOOLEAN
    /\ contestadas \subseteq 1 .. MaxMensajes

ConversacionInit ==
    /\ sesion = [s \in SesionIds |-> NoFila] /\ turno = [s \in SesionIds |-> SinTurnos]
    /\ hilo = [h \in Hilos |-> SinHilo] /\ limpieza = [h \in Hilos |-> SinLimpieza]
    /\ dia = 0 /\ mensajes = 0 /\ cierres = 0 /\ fallasChat = 0
    /\ solapoChat = FALSE /\ contestadas = {} /\ repetida = FALSE

--------------------
PuedeTropezar ==
    cierres + fallasChat < MaxTropiezos /\ mensajes <= MaxSolapados /\ ~solapoChat

EnHilo(h, paso) == hilo[h].paso = paso
Sigue(h, w) == hilo' = [hilo EXCEPT ![h] = w]
Contestado == \A h \in Hilos : EnHilo(h, "idle")
Activas == {s \in SesionIds : sesion[s].activa}
Quieto == UNCHANGED <<limpieza, dia, mensajes, fallasChat, conversacionHistoria>>

\* A message, with the session the client names or none.
ProcessUserMessage(h, id) ==
    /\ EnHilo(h, "idle") /\ limpieza[h] = SinLimpieza
    /\ solapoChat' = (solapoChat \/ ~Contestado)
    /\ mensajes < (IF solapoChat' \/ cierres + fallasChat > 0 THEN MaxSolapados ELSE MaxMensajes)
    /\ mensajes' = mensajes + 1
    /\ limpieza' = IF dia < 2 THEN limpieza          \* it would find nothing
                   ELSE [limpieza EXCEPT ![h] = [paso |-> "turnos", limite |-> dia - 1]]
    /\ Sigue(h, [SinHilo EXCEPT !.paso = IF id = NoSesionId THEN "porUsuario" ELSE "lee",
                                !.id = id, !.de = mensajes + 1])
    /\ UNCHANGED <<sesion, turno, dia, cierres, fallasChat, contestadas, repetida>>

LeeSesion(h) ==
    /\ EnHilo(h, "lee")
    /\ LET w == hilo[h]
       IN  Sigue(h, IF w.id \in Activas
                    THEN [w EXCEPT !.paso = "guarda", !.fila = sesion[w.id]]
                    ELSE [w EXCEPT !.paso = "porUsuario"])
    /\ Quieto /\ UNCHANGED <<sesion, turno>>

Recientes == {s \in Activas : \A o \in Activas : sesion[o].tocada <= sesion[s].tocada}
\* Mutant: only the session named is looked for.
SoloPorId(h) ==
    /\ EnHilo(h, "porUsuario")
    /\ Sigue(h, [hilo[h] EXCEPT !.paso = "crea"])
    /\ Quieto /\ UNCHANGED <<sesion, turno>>
LeePorUsuario(h) ==
    /\ EnHilo(h, "porUsuario")
    /\ \/ \E s \in Recientes :
            Sigue(h, [hilo[h] EXCEPT !.paso = "guarda", !.id = s, !.fila = sesion[s]])
       \/ Activas = {} /\ Sigue(h, [hilo[h] EXCEPT !.paso = "crea"])
    /\ Quieto /\ UNCHANGED <<sesion, turno>>

\* Mutant: the session keeps the date of its last message.
GuardaSinFecha(h) ==
    /\ EnHilo(h, "guarda")
    /\ sesion' = [sesion EXCEPT ![hilo[h].id] = hilo[h].fila]
    /\ Sigue(h, [hilo[h] EXCEPT !.paso = "elige"])
    /\ Quieto /\ UNCHANGED turno
\* save: a row that was deleted meanwhile is inserted again.
GuardaSesion(h) ==
    /\ EnHilo(h, "guarda")
    /\ sesion' = [sesion EXCEPT ![hilo[h].id] = [hilo[h].fila EXCEPT !.tocada = dia]]
    /\ Sigue(h, [hilo[h] EXCEPT !.paso = "elige"])
    /\ Quieto /\ UNCHANGED turno

\* A row of that id, closed before, is opened again with what it had.
CreaSesion(h) ==
    /\ EnHilo(h, "crea")
    /\ \E id \in IF hilo[h].id # NoSesionId THEN {hilo[h].id}
                 ELSE {s \in SesionIds : sesion[s] = NoFila} :
        /\ sesion' = [sesion EXCEPT ![id] =
               IF @ = NoFila THEN FilaNueva ELSE [@ EXCEPT !.activa = TRUE, !.tocada = dia]]
        /\ Sigue(h, [hilo[h] EXCEPT !.paso = "elige", !.id = id, !.fila = FilaNueva])
    /\ Quieto /\ UNCHANGED turno

\* Moderation, then the resolver, which reads the entity of the start.
Elige(h) ==
    /\ EnHilo(h, "elige")
    /\ LET w == hilo[h]
           p == w.fila.pend
       IN  \/ /\ \E g \in SinResolver \cup NoConsume(p.tipo, w.fila.ctx) :
                    Sigue(h, [w EXCEPT !.paso = "guion", !.guion = g, !.fila = NoFila])
              /\ UNCHANGED <<contestadas, repetida>>
           \/ /\ \E g \in Consume(p.tipo) :
                    Sigue(h, [w EXCEPT !.paso = "guion", !.guion = g, !.fila = NoFila])
              /\ contestadas' = contestadas \cup {p.de}
              /\ repetida' = (repetida \/ p.de \in contestadas)
    /\ UNCHANGED <<sesion, turno, limpieza, dia, mensajes, fallasChat, cierres, solapoChat>>

--------------------
\* The calls of a guion.
Llama(h, c) == EnHilo(h, "guion") /\ hilo[h].guion # <<>> /\ Head(hilo[h].guion) = c
Avanza(h) ==
    LET g == Tail(hilo[h].guion)
    IN  Sigue(h, IF g = <<>> THEN SinHilo ELSE [hilo[h] EXCEPT !.guion = g])

GuardarTurno(h, r) ==
    /\ Llama(h, r)
    /\ turno' = IF sesion[hilo[h].id] = NoFila THEN turno      \* foreign key
                ELSE [turno EXCEPT ![hilo[h].id][dia] = IF r = "U" THEN @ + 1 ELSE @ - 1]
    /\ Avanza(h) /\ Quieto /\ UNCHANGED sesion

GuardarPreguntaPendiente(h, t) ==
    /\ Llama(h, t)
    /\ sesion' = [sesion EXCEPT ![hilo[h].id] =
           IF @ = NoFila THEN @
           ELSE [@ EXCEPT !.pend = IF t = "null" THEN SinPregunta
                                   ELSE [tipo |-> t, de |-> hilo[h].de],
                          !.tocada = dia]]
    /\ Avanza(h) /\ Quieto /\ UNCHANGED turno

\* The filters are replaced, the pending question with them.
ActualizarContextoBusqueda(h) ==
    /\ Llama(h, "ctx")
    /\ sesion' = [sesion EXCEPT ![hilo[h].id] =
           IF @ = NoFila THEN @
           ELSE [@ EXCEPT !.pend = SinPregunta, !.ctx = TRUE, !.tocada = dia]]
    /\ Avanza(h) /\ Quieto /\ UNCHANGED turno

Consulta(h) ==
    /\ Llama(h, "q")
    /\ Avanza(h) /\ Quieto /\ UNCHANGED <<sesion, turno>>

\* A call that rejects.  What ConversationService writes for a branch, and the session
\* looked for by user, are passed over; any other ends the message, with an answer.
Tolerada(h) == \/ \E c \in Llamada \ {"q"} : Llama(h, c)
               \/ EnHilo(h, "porUsuario")
FallaChat(h) ==
    /\ ~EnHilo(h, "idle") /\ PuedeTropezar
    /\ fallasChat' = fallasChat + 1
    /\ IF ~Tolerada(h) THEN Sigue(h, SinHilo)
       ELSE IF EnHilo(h, "porUsuario") THEN Sigue(h, [hilo[h] EXCEPT !.paso = "crea"])
       ELSE Avanza(h)
    /\ UNCHANGED <<sesion, turno, limpieza, dia, mensajes, conversacionHistoria>>

--------------------
\* limpiarSesionesViejas: turns, then sessions, and their turns with them.  Its last
\* statement finds nothing.
LimpiaTurnos(h) ==
    /\ limpieza[h].paso = "turnos"
    /\ turno' = [s \in SesionIds |-> [d \in Dias |->
                    IF d < limpieza[h].limite THEN 0 ELSE turno[s][d]]]
    /\ limpieza' = [limpieza EXCEPT ![h].paso = "sesiones"]
    /\ UNCHANGED <<sesion, hilo, dia, mensajes, fallasChat, conversacionHistoria>>

Vieja(s, limite) == sesion[s] # NoFila /\ sesion[s].tocada < limite
LimpiaSesiones(h) ==
    /\ limpieza[h].paso = "sesiones"
    /\ LET borradas == {s \in SesionIds : Vieja(s, limpieza[h].limite)}
       IN  /\ sesion' = [s \in SesionIds |-> IF s \in borradas THEN NoFila ELSE sesion[s]]
           /\ turno' = [s \in SesionIds |-> IF s \in borradas THEN SinTurnos ELSE turno[s]]
    /\ limpieza' = [limpieza EXCEPT ![h] = SinLimpieza]
    /\ UNCHANGED <<hilo, dia, mensajes, fallasChat, conversacionHistoria>>

FallaLimpieza(h) ==
    /\ limpieza[h] # SinLimpieza /\ PuedeTropezar
    /\ fallasChat' = fallasChat + 1
    /\ limpieza' = [limpieza EXCEPT ![h] = SinLimpieza]
    /\ UNCHANGED <<sesion, turno, hilo, dia, mensajes, conversacionHistoria>>

CerrarSesion(s) ==
    /\ s \in Activas /\ PuedeTropezar
    /\ cierres' = cierres + 1
    /\ sesion' = [sesion EXCEPT ![s].activa = FALSE]
    /\ solapoChat' = (solapoChat \/ ~Contestado)
    /\ UNCHANGED <<turno, hilo, limpieza, dia, mensajes, fallasChat, contestadas, repetida>>

PasaDia ==
    /\ Contestado /\ dia < MaxDias /\ dia' = dia + 1
    /\ UNCHANGED <<sesion, turno, hilo, limpieza, mensajes, fallasChat, conversacionHistoria>>

ConversacionNext ==
    \/ \E h \in Hilos, id \in SesionIds \cup {NoSesionId} : ProcessUserMessage(h, id)
    \/ \E h \in Hilos :
        \/ LeeSesion(h) \/ LeePorUsuario(h) \/ GuardaSesion(h) \/ CreaSesion(h) \/ Elige(h)
        \/ ActualizarContextoBusqueda(h) \/ Consulta(h) \/ FallaChat(h)
        \/ LimpiaTurnos(h) \/ LimpiaSesiones(h) \/ FallaLimpieza(h)
    \/ \E h \in Hilos, r \in Roles : GuardarTurno(h, r)
    \/ \E h \in Hilos, t \in Tipos \cup {"null"} : GuardarPreguntaPendiente(h, t)
    \/ \E s \in SesionIds : CerrarSesion(s)
    \/ PasaDia

ConversacionSpec == ConversacionInit /\ [][ConversacionNext]_conversacionVars

--------------------
\* The user has one conversation open, whatever session the client names or forgets,
\* while no two messages overlapped and nothing failed (the search by user passes its
\* failures over, and opens a second one).
UnaSesionActiva ==
    ~solapoChat /\ fallasChat = 0 =>
        \A s, o \in Activas : s = o

\* A message being answered has its session: no clean-up takes it, whichever message
\* launched it and whatever it read (conversation.service.ts:385 against 60, 96, 112).
SesionViva ==
    \A h \in Hilos : EnHilo(h, "elige") \/ EnHilo(h, "guion") => sesion[hilo[h].id] # NoFila

\* Every message answered left its two turns, in one session and of one day, through
\* every branch and clean-up, and however messages overlap, if no call failed.
TurnosEmparejados ==
    Contestado /\ fallasChat = 0 =>
        \A s \in SesionIds, d \in Dias : turno[s][d] = 0

\* A question is taken as answered once, while no two messages overlapped and no
\* call failed: the one that answers it clears it before anything else.
RespuestaUnica ==
    ~solapoChat /\ fallasChat = 0 => ~repetida

\* The session of the user is one, and it is there while it is written to.
SesionEnRegla == UnaSesionActiva /\ SesionViva

\* Each message has its two turns, and each question its one answer.
MensajesEnRegla == TurnosEmparejados /\ RespuestaUnica
=============================================================================

--------------------------------- MODULE Soporte ---------------------------------
(***************************************************************************)
(* The support tickets (SupportService): written by a subscriber or by     *)
(* nobody in particular, about a business or not, found by their folio, by *)
(* their author and by the owner of the business, and attended from the    *)
(* panel, where an update reads the whole ticket and saves it whole.       *)
(***************************************************************************)
EXTENDS Integers, Sequences, FiniteSets, SequencesExt

CONSTANTS Solicitantes,  \* the subscribers
          Anonimo,       \* a request without a token
          NegocioDe,     \* the business of each
          NoNegocio,
          Folios,        \* JLP-XXXXXX; the last one is what the clock would give
          Agentes, NoAgente,
          Ventanillas,   \* the requests at work
          TicketsIniciales, \* what the table may hold at first, unattended
          MaxTickets, MaxPeticionesSoporte \* bounds: tickets, requests

VARIABLES
    ticket,      \* support_tickets, in order of creation
    vivos,       \* the subscribers and the businesses that were not deleted
    ventanilla, peticionesSoporte,
    respondido,       \* what the panel last said of each ticket: state and answer
    solapados    \* the tickets two updates held at once

soporteVars == <<ticket, vivos, ventanilla, peticionesSoporte, respondido, solapados>>

--------------------
TipoTicket == {"reporte_bug", "solicitud_negocio"}
PrioridadTicket == {"normal", "urgente"}
EstadoTicket == {"pendiente", "en_atencion", "resuelto", "cerrado"}
Negocios == {NegocioDe[s] : s \in Solicitantes} \ {NoNegocio}
\* An answer is the number of the request that gave it.
Respuestas == 0 .. MaxPeticionesSoporte
Ticket == [folio : Folios, tipo : TipoTicket, usuario : Solicitantes \cup {Anonimo},
           negocio : Negocios \cup {NoNegocio}, prioridad : PrioridadTicket,
           estado : EstadoTicket, respuesta : Respuestas,
           agente : Agentes \cup {NoAgente}, resueltoAt : BOOLEAN, cerradoAt : BOOLEAN]

\* What the table may hold at first: rows with a folio each, admitted and not attended.
DeAlta(t) ==
    /\ t \in Ticket /\ t.estado = "pendiente" /\ t.respuesta = 0 /\ t.agente = NoAgente
    /\ t.tipo = "reporte_bug" => t.prioridad = "normal"
    /\ t.tipo = "solicitud_negocio" =>
         t.usuario # Anonimo /\ t.negocio \in {NoNegocio, NegocioDe[t.usuario]}

ASSUME SoporteAssumption ==
    /\ Anonimo \notin Solicitantes /\ NoNegocio \notin Solicitantes /\ NoAgente \notin Agentes
    /\ Solicitantes \subseteq DOMAIN NegocioDe
    /\ Folios \subseteq Nat /\ \E f \in Folios : \A g \in Folios : g <= f
    /\ \A s \in TicketsIniciales :
         /\ s \in Seq(Ticket) /\ Len(s) <= MaxTickets /\ \A i \in DOMAIN s : DeAlta(s[i])
         /\ \A i, j \in DOMAIN s : s[i].folio = s[j].folio => i = j
    /\ MaxTickets \in Nat /\ MaxPeticionesSoporte \in Nat

\* What an update says of a ticket (0 is no answer), and what the panel last said.
Cambios == [estado : EstadoTicket \cup {"ausente"}, respuesta : Respuestas,
            agente : {"ausente", "alguien", "nadie"}]
Dicho == [estado : EstadoTicket, respuesta : Respuestas, agente : BOOLEAN]
SinVentanilla == [paso |-> "libre", id |-> 0, fila |-> <<>>]
Ventanilla == [paso : {"inserta"}, id : {0}, fila : Ticket]
    \cup [paso : {"atiende"}, id : 1 .. MaxTickets, fila : Ticket, cambios : Cambios]

SoporteTypeOK ==
    /\ ticket \in Seq(Ticket) /\ Len(ticket) <= MaxTickets
    /\ vivos \subseteq Solicitantes \cup Negocios
    /\ ventanilla \in [Ventanillas -> Ventanilla \cup {SinVentanilla}]
    /\ peticionesSoporte \in Respuestas
    /\ respondido \in Seq(Dicho)
    /\ Len(respondido) = Len(ticket)
    /\ solapados \subseteq 1 .. MaxTickets

PorAtender == [estado |-> "pendiente", respuesta |-> 0, agente |-> FALSE]

SoporteInit ==
    /\ ticket \in TicketsIniciales /\ vivos = Solicitantes \cup Negocios
    /\ ventanilla = [v \in Ventanillas |-> SinVentanilla]
    /\ peticionesSoporte = 0 /\ respondido = [i \in DOMAIN ticket |-> PorAtender]
    /\ solapados = {}

--------------------
\* extraerUsuarioId: nobody without a token, refused if the account is gone.
ExtraerUsuarioId(quien) == quien = Anonimo \/ quien \in vivos

\* A request about a business needs its owner; a report of a bug keeps whatever business it
\* names, without asking whose it is.
Admitida(tipo, quien, negocio) ==
    tipo = "solicitud_negocio" =>
        /\ quien # Anonimo
        /\ negocio # NoNegocio => negocio \in vivos /\ NegocioDe[quien] = negocio

ExisteFolio(folio) == \E i \in DOMAIN ticket : ticket[i].folio = folio
FolioDeReloj == CHOOSE f \in Folios : \A g \in Folios : g <= f
GenerarFolioUnico == {f \in Folios : ~ExisteFolio(f)} \cup {FolioDeReloj}

NuevaPeticion(v) ==
    /\ ventanilla[v] = SinVentanilla
    /\ peticionesSoporte < MaxPeticionesSoporte
    /\ peticionesSoporte' = peticionesSoporte + 1

CrearTicket(v, tipo, quien, negocio, pedida) ==
    /\ NuevaPeticion(v) /\ Len(ticket) < MaxTickets
    /\ ExtraerUsuarioId(quien) /\ Admitida(tipo, quien, negocio)
    /\ \E folio \in GenerarFolioUnico :
         ventanilla' = [ventanilla EXCEPT ![v] =
             [paso |-> "inserta", id |-> 0,
              fila |-> [folio |-> folio, tipo |-> tipo, usuario |-> quien,
                        negocio |-> negocio,
                        prioridad |-> IF tipo = "reporte_bug" THEN "normal" ELSE pedida,
                        estado |-> "pendiente", respuesta |-> 0, agente |-> NoAgente,
                        resueltoAt |-> FALSE, cerradoAt |-> FALSE]]]
    /\ UNCHANGED <<ticket, vivos, respondido, solapados>>

\* The index of folios refuses one that another request took meanwhile.
GuardaTicket(v) ==
    LET w == ventanilla[v]
    IN  /\ w.paso = "inserta"
        /\ Len(ticket) < MaxTickets
        /\ ticket' = IF ExisteFolio(w.fila.folio) THEN ticket ELSE Append(ticket, w.fila)
        /\ respondido' = IF ExisteFolio(w.fila.folio) THEN respondido
                    ELSE Append(respondido, PorAtender)
        /\ ventanilla' = [ventanilla EXCEPT ![v] = SinVentanilla]
        /\ UNCHANGED <<vivos, peticionesSoporte, solapados>>

--------------------
\* What an update leaves of the ticket it read: entering a state dates it, and attending it
\* names the agent, unless the update names one, or takes it away.
ConEstado(t, estado) ==
    IF estado = "ausente" THEN t
    ELSE [t EXCEPT !.estado = estado, !.resueltoAt = @ \/ estado = "resuelto",
                   !.cerradoAt = @ \/ estado = "cerrado"]
\* Mutant: whoever attends is named only if the update says so.
ConAgenteDicho(t, estado, agente, yo) ==
    IF agente # "ausente" THEN [t EXCEPT !.agente = agente] ELSE t
ConAgente(t, estado, agente, yo) ==
    IF agente # "ausente" THEN [t EXCEPT !.agente = agente]
    ELSE IF estado = "en_atencion" /\ t.agente = NoAgente THEN [t EXCEPT !.agente = yo]
    ELSE t

ActualizarAdmin(v, id, estado, responde, agente, yo) ==
    LET leido == ticket[id]
        fila == [ConAgente(ConEstado(leido, estado), estado, agente, yo) EXCEPT
                     !.respuesta = IF responde THEN peticionesSoporte + 1 ELSE @]
        cambios == [estado |-> estado, respuesta |-> IF responde THEN peticionesSoporte + 1 ELSE 0,
                    agente |-> IF agente = "ausente"
                               THEN IF estado = "en_atencion" THEN "alguien" ELSE "ausente"
                               ELSE IF agente \in Agentes THEN "alguien" ELSE "nadie"]
    IN  /\ id \in DOMAIN ticket /\ NuevaPeticion(v)
        /\ ventanilla' = [ventanilla EXCEPT ![v] =
               [paso |-> "atiende", id |-> id, fila |-> fila, cambios |-> cambios]]
        /\ solapados' = IF \E o \in Ventanillas : ventanilla[o].id = id
                        THEN solapados \cup {id} ELSE solapados
        /\ UNCHANGED <<ticket, vivos, respondido>>
\* What the panel has said of a ticket once an update is saved.
ConCambios(r, c) ==
    [estado |-> IF c.estado = "ausente" THEN r.estado ELSE c.estado,
     respuesta |-> IF c.respuesta = 0 THEN r.respuesta ELSE c.respuesta,
     agente |-> IF c.agente = "ausente" THEN r.agente ELSE c.agente = "alguien"]
GuardaAtencion(v) ==
    LET w == ventanilla[v]
    IN  /\ w.paso = "atiende"
        /\ ticket' = [ticket EXCEPT ![w.id] = w.fila]
        /\ respondido' = [respondido EXCEPT ![w.id] = ConCambios(@, w.cambios)]
        /\ ventanilla' = [ventanilla EXCEPT ![v] = SinVentanilla]
        /\ UNCHANGED <<vivos, peticionesSoporte, solapados>>

\* A save that rejects, of a ticket or of an update: nothing is written.
FallaGuardar(v) ==
    /\ ventanilla[v] # SinVentanilla
    /\ ventanilla' = [ventanilla EXCEPT ![v] = SinVentanilla]
    /\ UNCHANGED <<ticket, vivos, peticionesSoporte, respondido, solapados>>

\* External: an account or a business is deleted.
SeVa(x) ==
    /\ x \in vivos /\ vivos' = vivos \ {x}
    /\ UNCHANGED <<ticket, ventanilla, peticionesSoporte, respondido, solapados>>

SoporteNext ==
    \/ \E v \in Ventanillas :
        \/ GuardaTicket(v) \/ GuardaAtencion(v) \/ FallaGuardar(v)
        \/ \E tipo \in TipoTicket, quien \in Solicitantes \cup {Anonimo},
              negocio \in Negocios \cup {NoNegocio}, pedida \in PrioridadTicket :
               CrearTicket(v, tipo, quien, negocio, pedida)
        \/ \E id \in 1 .. MaxTickets, estado \in EstadoTicket \cup {"ausente"},
              responde \in BOOLEAN, agente \in Agentes \cup {NoAgente, "ausente"},
              yo \in Agentes :
               ActualizarAdmin(v, id, estado, responde, agente, yo)
    \/ \E x \in vivos : SeVa(x)

SoporteSpec == SoporteInit /\ [][SoporteNext]_soporteVars

--------------------
\* The lists, the newest first.
Listar(S) == [k \in 1 .. Cardinality(S) |->
                 ticket[CHOOSE i \in S : Cardinality({h \in S : h > i}) = k - 1]]
ListarPorUsuario(quien) == Listar({i \in DOMAIN ticket : ticket[i].usuario = quien})
PuedeListar(quien, negocio) == negocio \in vivos /\ NegocioDe[quien] = negocio
ListarPorNegocio(quien, negocio) ==
    IF PuedeListar(quien, negocio)
    THEN Listar({i \in DOMAIN ticket : ticket[i].negocio = negocio}) ELSE <<>>
ObtenerPorFolio(quien, folio) ==
    {i \in DOMAIN ticket : /\ ticket[i].folio = folio
                           /\ ticket[i].usuario \in {Anonimo, quien}}

\* Whoever wrote a ticket finds it, alone under its folio and in the list of what is theirs;
\* the owner of a business finds there every request made about it.
QuienEscribeLoEncuentra ==
    \A i \in DOMAIN ticket :
        LET t == ticket[i]
        IN  t.usuario # Anonimo =>
              /\ ObtenerPorFolio(t.usuario, t.folio) = {i}
              /\ Contains(ListarPorUsuario(t.usuario), t)
              /\ t.tipo = "solicitud_negocio" /\ t.negocio \in vivos =>
                    Contains(ListarPorNegocio(t.usuario, t.negocio), t)

\* "resuelto_at / cerrado_at se llenan automaticamente", "se autoasigna al admin": whatever
\* the updates and their order, a ticket solved or closed has its date; and while no two
\* overlapped, it shows the last state and the last answer that an update saved, and
\* whoever attends it, unless an update took the agent away; one whose save failed
\* leaves nothing.
AtencionFiel ==
    \A i \in DOMAIN ticket :
        LET t == ticket[i]
            solo == i \notin solapados
        IN  /\ t.estado = "resuelto" => t.resueltoAt
            /\ t.estado = "cerrado" => t.cerradoAt
            /\ t.tipo = "reporte_bug" => t.prioridad = "normal"
            /\ solo => /\ t.estado = respondido[i].estado /\ t.respuesta = respondido[i].respuesta
                       /\ (t.agente # NoAgente) = respondido[i].agente

TicketsEnRegla == QuienEscribeLoEncuentra /\ AtencionFiel
=============================================================================

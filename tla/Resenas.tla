--------------------------------- MODULE Resenas ---------------------------------
(***************************************************************************)
(* One review of a branch (SucursalReviewService): written and edited by   *)
(* its author, answered by the business, moderated by an administrator;    *)
(* and the reaction of one reader to it.  A step is a call to the          *)
(* database: a save makes the row what the entity was when it was read.    *)
(***************************************************************************)
EXTENDS Integers

CONSTANTS Llamadores,     \* the calls at work
          MaxLlamadasResena \* bound: calls

ASSUME ResenasAssumption == MaxLlamadasResena \in Nat

VARIABLES
    resena,       \* the row of sucursales_resenas
    reaccion,     \* the row of sucursales_resenas_reacciones, UNIQUE by reader
    llamador, llamadasResena,
    solapoResena, \* two calls that save the review were at work at once
    contestada    \* the last answer given, and the text it was given to

resenasVars == <<resena, reaccion, llamador, llamadasResena, solapoResena, contestada>>

--------------------
\* A text or an answer is the number of the call that wrote it; 0 is no answer, or an
\* empty one, which the code does not tell apart.
VersionResena == 0 .. MaxLlamadasResena
Estado == {"pendiente", "publicada", "rechazada"}
ReaccionTipo == {"like", "dislike"}
Resena == [texto : VersionResena, respuesta : VersionResena, estado : Estado]
NoResena == [texto |-> 0, respuesta |-> 0, estado |-> "no"]
Reaccion == [id : VersionResena \ {0}, tipo : ReaccionTipo]
NoReaccion == [id |-> 0, tipo |-> "no"]

Llamador == [paso : {"idle", "edita", "responde", "modera", "reacciona"},
             fila : Resena \cup {NoResena},
             tipo : ReaccionTipo \cup {"no"}, id : VersionResena, visto : Reaccion \cup {NoReaccion}]
SinLlamador == [paso |-> "idle", fila |-> NoResena, tipo |-> "no", id |-> 0, visto |-> NoReaccion]
NoContestada == [texto |-> 0, respuesta |-> 0]

ResenasTypeOK ==
    /\ resena \in Resena \cup {NoResena}
    /\ reaccion \in Reaccion \cup {NoReaccion}
    /\ llamador \in [Llamadores -> Llamador]
    /\ llamadasResena \in VersionResena /\ solapoResena \in BOOLEAN
    /\ contestada \in [texto : VersionResena, respuesta : VersionResena]

ResenasInit ==
    /\ resena = NoResena /\ reaccion = NoReaccion
    /\ llamador = [c \in Llamadores |-> SinLlamador]
    /\ llamadasResena = 0 /\ solapoResena = FALSE
    /\ contestada = NoContestada

--------------------
Guardan == {c \in Llamadores : llamador[c].paso \in {"edita", "responde", "modera"}}
NuevaLlamada ==
    /\ llamadasResena < MaxLlamadasResena
    /\ llamadasResena' = llamadasResena + 1
EstaLlamada == llamadasResena + 1

CreateResena ==
    /\ resena = NoResena /\ NuevaLlamada
    /\ resena' = [texto |-> EstaLlamada, respuesta |-> 0, estado |-> "publicada"]
    /\ UNCHANGED <<reaccion, llamador, solapoResena, contestada>>

LeeResena(c, paso, fila) ==
    /\ resena # NoResena /\ llamador[c] = SinLlamador /\ NuevaLlamada
    /\ llamador' = [llamador EXCEPT ![c] = [SinLlamador EXCEPT !.paso = paso, !.fila = fila]]
    /\ solapoResena' = (solapoResena \/ Guardan # {})
    /\ UNCHANGED <<resena, reaccion, contestada>>

\* Mutant: what is refused is an edit of a review that is not shown.
EditablePublicada(r) == r.estado = "publicada"
Editable(r) == r.respuesta = 0

UpdateResena(c) ==
    Editable(resena) /\ LeeResena(c, "edita", [resena EXCEPT !.texto = EstaLlamada])
ResponderReview(c) ==
    \E respuesta \in {0, EstaLlamada} :
        LeeResena(c, "responde", [resena EXCEPT !.respuesta = respuesta])
UpdateEstado(c, estado) == LeeResena(c, "modera", [resena EXCEPT !.estado = estado])

GuardaResena(c) ==
    /\ c \in Guardan
    /\ LET w == llamador[c].fila
       IN  /\ resena' = w
           /\ contestada' = IF llamador[c].paso # "responde" THEN contestada
                            ELSE [texto |-> w.texto, respuesta |-> w.respuesta]
    /\ llamador' = [llamador EXCEPT ![c] = SinLlamador]
    /\ UNCHANGED <<reaccion, llamadasResena, solapoResena>>

\* reaccionar: findOne, then an insert, a removal or a save.
Reaccionar(c, tipo) ==
    /\ resena # NoResena /\ llamador[c] = SinLlamador /\ NuevaLlamada
    /\ llamador' = [llamador EXCEPT ![c] =
           [SinLlamador EXCEPT !.paso = "reacciona", !.tipo = tipo, !.id = EstaLlamada,
                               !.visto = reaccion]]
    /\ UNCHANGED <<resena, reaccion, solapoResena, contestada>>

\* The row is found by its id; one that is gone is inserted, if the reader has no other.
GuardaReaccion(c) ==
    /\ llamador[c].paso = "reacciona"
    /\ LET w == llamador[c]
           libre == reaccion.id \in {0, w.visto.id}
       IN  reaccion' =
             IF w.visto = NoReaccion
             THEN IF reaccion = NoReaccion THEN [id |-> w.id, tipo |-> w.tipo] ELSE reaccion
             ELSE IF ~libre THEN reaccion
             ELSE IF w.visto.tipo = w.tipo THEN NoReaccion
             ELSE [w.visto EXCEPT !.tipo = w.tipo]
    /\ llamador' = [llamador EXCEPT ![c] = SinLlamador]
    /\ UNCHANGED <<resena, llamadasResena, solapoResena, contestada>>

FallaResena(c) ==
    /\ llamador[c] # SinLlamador
    /\ llamador' = [llamador EXCEPT ![c] = SinLlamador]
    /\ UNCHANGED <<resena, reaccion, llamadasResena, solapoResena, contestada>>

ResenasNext ==
    \/ CreateResena
    \/ \E c \in Llamadores :
        \/ UpdateResena(c) \/ ResponderReview(c) \/ GuardaResena(c)
        \/ GuardaReaccion(c) \/ FallaResena(c)
        \/ \E estado \in Estado : UpdateEstado(c, estado)
        \/ \E tipo \in ReaccionTipo : Reaccionar(c, tipo)

ResenasSpec == ResenasInit /\ [][ResenasNext]_resenasVars

--------------------
\* "No puedes editar una reseña que ya fue respondida por el negocio": while no two
\* calls that save the review overlapped, the answer shown is the last one given and
\* the text above it is the one that was answered, whatever moderation did since.
RespuestaIntacta ==
    ~solapoResena /\ contestada.respuesta # 0 =>
        resena.respuesta = contestada.respuesta /\ resena.texto = contestada.texto
=============================================================================

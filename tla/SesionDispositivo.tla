--------------------------- MODULE SesionDispositivo ---------------------------
(***************************************************************************)
(* What the sessions of a subscriber promise: each has one token that can  *)
(* renew it; a renewal gives it a token nobody has had before and leaves   *)
(* the other sessions alone; a session that was closed stays closed.       *)
(***************************************************************************)
CONSTANTS Sesion,    \* names of sessions
          Titulares, \* subscribers
          Tokens

VARIABLES estado,    \* session |-> how it stands
          gastados   \* tokens ever handed out

Nueva         == [es |-> "nueva"]
Abierta(s, t) == [es |-> "abierta", titular |-> s, token |-> t]
Cerrada(s)    == [es |-> "cerrada", titular |-> s]

Gasta(t) == t \notin gastados /\ gastados' = gastados \cup {t}

Abre(i, s, t) ==
    /\ Gasta(t) /\ estado[i] = Nueva
    /\ estado' = [estado EXCEPT ![i] = Abierta(s, t)]

Renueva(i, s, u, t) ==
    /\ Gasta(t) /\ estado[i] = Abierta(s, u)
    /\ estado' = [estado EXCEPT ![i] = Abierta(s, t)]

\* Every session of the subscriber is closed at once.
Cierra(s) ==
    /\ estado' = [i \in Sesion |-> IF \E t \in Tokens : estado[i] = Abierta(s, t)
                                   THEN Cerrada(s) ELSE estado[i]]
    /\ UNCHANGED gastados

\* A token that nobody will be able to use.
Pierde(t) == Gasta(t) /\ UNCHANGED estado

SesionInit == estado = [i \in Sesion |-> Nueva] /\ gastados = {}
SesionNext ==
    \/ \E s \in Titulares : Cierra(s)
    \/ \E i \in Sesion, s \in Titulares, t \in Tokens :
          Abre(i, s, t) \/ \E u \in Tokens : Renueva(i, s, u, t)
    \/ \E t \in Tokens : Pierde(t)
SesionSpec == SesionInit /\ [][SesionNext]_<<estado, gastados>>
=============================================================================

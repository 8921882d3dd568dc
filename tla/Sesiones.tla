-------------------------------- MODULE Sesiones --------------------------------
(***************************************************************************)
(* Refresh sessions: one row per device, whose token is rotated at each    *)
(* use (src/src/modules/auth/auth.service.ts), and the operations that     *)
(* close all the sessions of a subscriber (logout; change of password and  *)
(* deletion of the account in business/suscriptores).  A step is one       *)
(* awaited call to the database.  Each device sends one request at a time, *)
(* but it may give up on an answer and ask again while the server is still *)
(* at work on the first request.                                           *)
(*                                                                         *)
(* A row holds the jti and the hash of the same token, written together:   *)
(* the comparison of the hash after a row was found by its jti (refresh,   *)
(* line 509) cannot fail, and a token that was rotated is one whose jti no *)
(* row has.                                                                *)
(***************************************************************************)
EXTENDS Integers

CONSTANTS Suscriptores, Dispositivos, Workers,
          De,            \* De[d]: whose device d is
          NoDispositivo, NoSuscriptor,
          MaxSesiones,   \* bound: rows
          MaxJti,        \* bound: tokens signed
          MaxCierres,    \* bound: closings requested
          MaxPerdidas,   \* bound: answers lost
          MaxFaults      \* bound: failed calls

ASSUME SesionesAssumption ==
    /\ De \in [Dispositivos -> Suscriptores]
    /\ NoDispositivo \notin Dispositivos /\ NoSuscriptor \notin Suscriptores
    /\ MaxSesiones \in Nat /\ MaxJti \in Nat /\ MaxCierres \in Nat
    /\ MaxPerdidas \in Nat /\ MaxFaults \in Nat

VARIABLES
    sesiones,    \* refresh_sessions
    siguienteId, \* next auto-increment id
    legado,      \* suscriptores.refresh_token: whose token its hash is of
    eliminado,   \* suscriptores.eliminado
    jti,         \* the last jti signed; randomUUID never repeats one
    tiene,       \* the token each device holds
    pide,        \* devices that wait for an answer
    perdio,      \* devices that lost an answer since their last login
    cerradas,    \* sessions that logout, password or deletion revoked
    worker, cierres, perdidas, faults

vars == <<sesiones, siguienteId, legado, eliminado, jti, tiene, pide, perdio,
          cerradas, worker, cierres, perdidas, faults>>
tablas == <<sesiones, siguienteId, legado, eliminado, jti, cerradas>>
cuentas == <<cierres, perdidas, faults>>

--------------------
Ids  == 1 .. MaxSesiones
Jtis == 1 .. MaxJti

\* What a device may hold: a token of a session, by its jti, none, or a token
\* from before refresh_sessions, which has no jti.
Nada  == 0
Viejo == -1
Token == -1 .. MaxJti

Fila   == [suscriptor : Suscriptores, jti : Jtis, revocada : BOOLEAN]
NoFila == [suscriptor |-> NoSuscriptor, jti |-> 0, revocada |-> FALSE]

Ops   == {"none", "email", "otp", "refresh", "logout", "contrasena", "cuenta"}
Pasos == {"idle", "cuenta", "emite", "ultimoLogin", "lee", "leeLegado", "anula", "migra",
          "rota", "responde", "leeCuenta", "escribe", "revoca", "borraLegado"}
Worker == [op : Ops, paso : Pasos, suscriptor : Suscriptores \cup {NoSuscriptor},
           dispositivo : Dispositivos \cup {NoDispositivo},
           oye : BOOLEAN,            \* the device still waits for the answer
           token : Token, id : 0 .. MaxSesiones]
Idle == [op |-> "none", paso |-> "idle", suscriptor |-> NoSuscriptor,
         dispositivo |-> NoDispositivo, oye |-> FALSE, token |-> Nada, id |-> 0]

TypeOK ==
    /\ sesiones \in [Ids -> Fila \cup {NoFila}]
    /\ siguienteId \in 1 .. (MaxSesiones + 1)
    /\ legado \in [Suscriptores -> Dispositivos \cup {NoDispositivo}]
    /\ eliminado \in [Suscriptores -> BOOLEAN]
    /\ jti \in 0 .. MaxJti
    /\ tiene \in [Dispositivos -> Token]
    /\ pide \in [Dispositivos -> BOOLEAN] /\ perdio \in [Dispositivos -> BOOLEAN]
    /\ cerradas \subseteq Ids
    /\ worker \in [Workers -> Worker]
    /\ cierres \in 0 .. MaxCierres /\ perdidas \in 0 .. MaxPerdidas
    /\ faults \in 0 .. MaxFaults

\* A row as SesionDispositivo sees it: of a closed session the token is no matter.
Estado(f) == IF f.suscriptor = NoSuscriptor THEN [es |-> "nueva"]
             ELSE IF f.revocada THEN [es |-> "cerrada", titular |-> f.suscriptor]
             ELSE [es |-> "abierta", titular |-> f.suscriptor, token |-> f.jti]

Promesa == INSTANCE SesionDispositivo WITH
    Sesion <- Ids, Titulares <- Suscriptores, Tokens <- Jtis,
    estado <- [i \in Ids |-> Estado(sesiones[i])], gastados <- 1 .. jti

\* The day of the migration: some devices hold an old token, and the column has
\* the hash of at most one of each subscriber's.
Init ==
    /\ sesiones = [i \in Ids |-> NoFila] /\ siguienteId = 1
    /\ tiene \in [Dispositivos -> {Nada, Viejo}]
    /\ legado \in [Suscriptores -> Dispositivos \cup {NoDispositivo}]
    /\ \A s \in Suscriptores : legado[s] # NoDispositivo =>
           De[legado[s]] = s /\ tiene[legado[s]] = Viejo
    /\ eliminado = [s \in Suscriptores |-> FALSE]
    /\ jti = 0 /\ cerradas = {}
    /\ pide = [d \in Dispositivos |-> FALSE] /\ perdio = [d \in Dispositivos |-> FALSE]
    /\ worker = [m \in Workers |-> Idle]
    /\ cierres = 0 /\ perdidas = 0 /\ faults = 0

--------------------
At(m, paso) == worker[m].paso = paso
Es(m, op)   == worker[m].op = op
Goes(m, w)  == worker' = [worker EXCEPT ![m] = w]
Step(m, paso) == Goes(m, [worker[m] EXCEPT !.paso = paso])
Titular(m)  == worker[m].suscriptor

Oye(m, d) == worker[m].oye /\ worker[m].dispositivo = d

\* The request ends; the device, if it still waits for it, has the answer.
Termina(m) ==
    /\ Goes(m, Idle)
    /\ pide' = [d \in Dispositivos |-> pide[d] /\ ~Oye(m, d)]

\* An answer with an error: the device keeps what it has.
Rechaza(m) ==
    /\ Termina(m)
    /\ UNCHANGED <<tablas, tiene, perdio, cuentas>>

Firma == jti < MaxJti /\ jti' = jti + 1

--------------------
(* Requests of a device.                                                   *)

Pide(m, d, op, paso, t) ==
    /\ At(m, "idle") /\ ~pide[d]
    /\ pide' = [pide EXCEPT ![d] = TRUE]
    /\ Goes(m, [Idle EXCEPT !.op = op, !.paso = paso, !.suscriptor = De[d],
                            !.dispositivo = d, !.oye = TRUE, !.token = t])
    /\ UNCHANGED <<tablas, tiene, perdio, cuentas>>

LoginEmail(m, d) == Pide(m, d, "email", "cuenta", Nada)
VerifyOtp(m, d)  == Pide(m, d, "otp", "cuenta", Nada)
Refresh(m, d)    ==
    /\ tiene[d] # Nada
    /\ Pide(m, d, "refresh", IF tiene[d] = Viejo THEN "leeLegado" ELSE "lee", tiene[d])

\* loginEmail asks for an account that is not deleted; verifyOtp does not.
LeeLogin(m) ==
    /\ At(m, "cuenta")
    /\ IF Es(m, "email") /\ eliminado[Titular(m)] THEN Rechaza(m)
       ELSE Step(m, "emite") /\ UNCHANGED <<tablas, tiene, pide, perdio, cuentas>>

\* Mutant: the subscriber's sessions make room for the new one.
NuevaSesionUnica(s, t) ==
    [i \in Ids |-> IF i = siguienteId THEN [suscriptor |-> s, jti |-> t, revocada |-> FALSE]
                   ELSE IF sesiones[i].suscriptor = s THEN [sesiones[i] EXCEPT !.revocada = TRUE]
                   ELSE sesiones[i]]

NuevaSesion(s, t) ==
    [sesiones EXCEPT ![siguienteId] = [suscriptor |-> s, jti |-> t, revocada |-> FALSE]]

IssueRefreshSession(m) ==
    /\ At(m, "emite") /\ siguienteId <= MaxSesiones /\ Firma
    /\ sesiones' = NuevaSesion(Titular(m), jti')
    /\ siguienteId' = siguienteId + 1
    /\ Goes(m, [worker[m] EXCEPT !.token = jti',
                    !.paso = CASE Es(m, "email") -> "ultimoLogin"
                               [] Es(m, "otp")   -> "responde"
                               [] OTHER          -> "migra"])
    /\ UNCHANGED <<legado, eliminado, cerradas, tiene, pide, perdio, cuentas>>

UltimoLogin(m) ==
    At(m, "ultimoLogin") /\ Step(m, "responde")
    /\ UNCHANGED <<tablas, tiene, pide, perdio, cuentas>>

\* The row is found by the jti of the token.
LeeSesion(m) ==
    LET I == {i \in Ids : sesiones[i].jti = worker[m].token /\ sesiones[i].suscriptor = Titular(m)} IN
    /\ At(m, "lee")
    /\ IF \A i \in I : sesiones[i].revocada THEN Rechaza(m)
       ELSE /\ Goes(m, [worker[m] EXCEPT !.paso = "rota", !.id = CHOOSE i \in I : TRUE])
            /\ UNCHANGED <<tablas, tiene, pide, perdio, cuentas>>

\* Mutant: the entity that was read is saved, with its empty revokedAt.
RotadaComoSeLeyo(i, t) == [sesiones EXCEPT ![i].jti = t, ![i].revocada = FALSE]
Rotada(i, t) == [sesiones EXCEPT ![i].jti = t]

Rota(m) ==
    /\ At(m, "rota") /\ Firma
    /\ sesiones' = Rotada(worker[m].id, jti')
    /\ Goes(m, [worker[m] EXCEPT !.token = jti', !.paso = "responde"])
    /\ UNCHANGED <<siguienteId, legado, eliminado, cerradas, tiene, pide, perdio, cuentas>>

\* refreshLegacy: an empty column is refused.  The hash of another token of the
\* subscriber may match, since bcrypt compares no more than 72 bytes and these may
\* end before the tokens differ; when it does not, the column is emptied.
LeeLegado(m) ==
    LET l == legado[Titular(m)] IN
    /\ At(m, "leeLegado")
    /\ IF l = NoDispositivo THEN Rechaza(m)
       ELSE /\ Step(m, "emite") \/ (l # worker[m].dispositivo /\ Step(m, "anula"))
            /\ UNCHANGED <<tablas, tiene, pide, perdio, cuentas>>

VaciaLegado(m) == legado' = [legado EXCEPT ![Titular(m)] = NoDispositivo]

AnulaLegado(m) ==
    /\ At(m, "anula") /\ VaciaLegado(m) /\ Termina(m)
    /\ UNCHANGED <<sesiones, siguienteId, eliminado, jti, cerradas, tiene, perdio, cuentas>>

MigraLegado(m) ==
    /\ At(m, "migra") /\ VaciaLegado(m) /\ Step(m, "responde")
    /\ UNCHANGED <<sesiones, siguienteId, eliminado, jti, cerradas, tiene, pide, perdio, cuentas>>

\* The answer carries the new token; after a login nothing lost before matters.
Responde(m) ==
    /\ At(m, "responde") /\ Termina(m)
    /\ tiene' = [d \in Dispositivos |-> IF Oye(m, d) THEN worker[m].token ELSE tiene[d]]
    /\ perdio' = [d \in Dispositivos |-> perdio[d] /\ ~(Oye(m, d) /\ ~Es(m, "refresh"))]
    /\ UNCHANGED <<tablas, cuentas>>

--------------------
(* Requests that close every session of a subscriber.                      *)

PideCierre(m, s, op, paso) ==
    /\ At(m, "idle") /\ cierres < MaxCierres /\ cierres' = cierres + 1
    /\ Goes(m, [Idle EXCEPT !.op = op, !.paso = paso, !.suscriptor = s])
    /\ UNCHANGED <<tablas, tiene, pide, perdio, perdidas, faults>>

Logout(m, s)            == PideCierre(m, s, "logout", "revoca")
CambiarContrasena(m, s) == PideCierre(m, s, "contrasena", "leeCuenta")
EliminarCuenta(m, s)    == PideCierre(m, s, "cuenta", "leeCuenta")

LeeCuenta(m) ==
    /\ At(m, "leeCuenta")
    /\ IF eliminado[Titular(m)] THEN Rechaza(m)
       ELSE Step(m, "escribe") /\ UNCHANGED <<tablas, tiene, pide, perdio, cuentas>>

\* The new password, or the mark of the deletion; both empty the old column.
EscribeCuenta(m) ==
    /\ At(m, "escribe") /\ VaciaLegado(m) /\ Step(m, "revoca")
    /\ eliminado' = [eliminado EXCEPT ![Titular(m)] = @ \/ Es(m, "cuenta")]
    /\ UNCHANGED <<sesiones, siguienteId, jti, cerradas, tiene, pide, perdio, cuentas>>

\* Mutant: the UPDATE has no WHERE.
TodasLasFilas(s) == Ids
SesionesDe(s) == {i \in Ids : sesiones[i].suscriptor = s}

\* One UPDATE, of all the rows of the subscriber.
RevocaTodas(m) ==
    /\ At(m, "revoca")
    /\ sesiones' = [i \in Ids |-> IF i \in SesionesDe(Titular(m))
                                  THEN [sesiones[i] EXCEPT !.revocada = TRUE] ELSE sesiones[i]]
    /\ cerradas' = cerradas \cup SesionesDe(Titular(m))
    /\ Goes(m, IF Es(m, "logout") THEN [worker[m] EXCEPT !.paso = "borraLegado"] ELSE Idle)
    /\ UNCHANGED <<siguienteId, legado, eliminado, jti, tiene, pide, perdio, cuentas>>

BorraLegado(m) ==
    /\ At(m, "borraLegado") /\ VaciaLegado(m) /\ Goes(m, Idle)
    /\ UNCHANGED <<sesiones, siguienteId, eliminado, jti, cerradas, tiene, pide, perdio, cuentas>>

--------------------
(* What goes wrong.                                                        *)

\* A call to the database fails: the answer is an error.
Falla(m) ==
    /\ worker[m].paso \notin {"idle", "responde"} /\ faults < MaxFaults /\ faults' = faults + 1
    /\ Termina(m)
    /\ UNCHANGED <<tablas, tiene, perdio, cierres, perdidas>>

\* The device stops waiting; the server goes on with the request.
Desiste(m) ==
    /\ worker[m].oye /\ perdidas < MaxPerdidas /\ perdidas' = perdidas + 1
    /\ Goes(m, [worker[m] EXCEPT !.oye = FALSE])
    /\ pide' = [d \in Dispositivos |-> pide[d] /\ ~Oye(m, d)]
    /\ perdio' = [d \in Dispositivos |-> perdio[d] \/ Oye(m, d)]
    /\ UNCHANGED <<tablas, tiene, cierres, faults>>

\* The process restarts: every request in progress is lost.
Crash ==
    /\ perdidas < MaxPerdidas /\ perdidas' = perdidas + 1
    /\ worker' = [m \in Workers |-> Idle]
    /\ pide' = [d \in Dispositivos |-> FALSE]
    /\ perdio' = [d \in Dispositivos |-> perdio[d] \/ pide[d]]
    /\ UNCHANGED <<tablas, tiene, cierres, faults>>

--------------------
Atiende(m) ==
    \/ LeeLogin(m) \/ IssueRefreshSession(m) \/ UltimoLogin(m) \/ LeeSesion(m) \/ Rota(m)
    \/ LeeLegado(m) \/ AnulaLegado(m) \/ MigraLegado(m) \/ Responde(m)
    \/ LeeCuenta(m) \/ EscribeCuenta(m) \/ RevocaTodas(m) \/ BorraLegado(m)

Next ==
    \/ \E m \in Workers, d \in Dispositivos : LoginEmail(m, d) \/ VerifyOtp(m, d) \/ Refresh(m, d)
    \/ \E m \in Workers, s \in Suscriptores :
          Logout(m, s) \/ CambiarContrasena(m, s) \/ EliminarCuenta(m, s)
    \/ \E m \in Workers : Atiende(m) \/ Falla(m) \/ Desiste(m)
    \/ Crash

Spec == Init /\ [][Next]_vars

--------------------
(* Correctness.                                                            *)

(* refresh-session.entity.ts:10-27: no device is logged out on its own, or *)
(* by what another device does.  A device that waits for nothing and lost  *)
(* no answer since its last login holds the token its session accepts,     *)
(* unless the subscriber closed it.                                        *)
NadieSaleSolo ==
    \A d \in Dispositivos : ~pide[d] /\ ~perdio[d] /\ tiene[d] \in Jtis =>
        \E i \in Ids : /\ sesiones[i].jti = tiene[d] /\ sesiones[i].suscriptor = De[d]
                       /\ sesiones[i].revocada => i \in cerradas

(* The rows implement SesionDispositivo: overlapping renewals, logins,     *)
(* closings, retries and failures never reopen a closed session, never     *)
(* make a token of the past good again and never touch another session.    *)
SesionPromise == Promesa!SesionSpec
=============================================================================

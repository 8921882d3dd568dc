--------------------------------- MODULE Cuentas ---------------------------------
(***************************************************************************)
(* The row of a subscriber (SuscriptoresService): sign-up, the calls that  *)
(* edit it, its deletion by the owner or by an administrator, and the job  *)
(* that empties it thirty days later (DataRetentionService).  A call reads *)
(* the whole row, changes it in memory and saves it whole; what else hangs *)
(* from the account (sessions, subscription, push token of a device) is    *)
(* closed by statements of their own.                                      *)
(***************************************************************************)
EXTENDS Integers

CONSTANTS Personas,     \* the accounts
          Tramitadores, \* the calls at work
          Correos, NoCorreo,
          MaxPapeleos,  \* bound: calls
          MaxEdicionesCuenta \* bound: those that edit the row

ASSUME CuentasAssumption ==
    /\ MaxPapeleos \in Nat /\ MaxEdicionesCuenta \in Nat /\ NoCorreo \notin Correos

VARIABLES
    cuenta,     \* suscriptores
    abierto,    \* the sessions, the subscription and the push token in use, per account
    papeleo, papeleos, edicionesCuenta,
    pedidas,    \* accounts whose owner's deletion was saved
    concluidas, \* and those whose deletion went to its end
    encimadas   \* accounts a call admitted before the deletion wrote after it

cuentasVars == <<cuenta, abierto, papeleo, papeleos, edicionesCuenta,
                 pedidas, concluidas, encimadas>>

--------------------
Ruta == {"actualizar", "completar", "completar-perfil", "permisos", "datos-fiscales",
         "eliminar", "eliminar-me"}
PlanDeCuenta == {"ninguno", "gratis", "pago"}
Cosas == {"sesion", "token", "suscripcion"}
FilaCuenta == [eliminado : BOOLEAN, fechaEliminacion : BOOLEAN,
           correo : Correos \cup {NoCorreo}, plan : PlanDeCuenta,
           registroCompleto : BOOLEAN, tieneNegocios : BOOLEAN,
           permiso : {"nulo", "si", "no"}, fiscales : BOOLEAN, anonima : BOOLEAN]
SinCuenta == [eliminado |-> TRUE, fechaEliminacion |-> FALSE, correo |-> NoCorreo,
              plan |-> "sin_cuenta", registroCompleto |-> FALSE, tieneNegocios |-> FALSE,
              permiso |-> "nulo", fiscales |-> FALSE, anonima |-> FALSE]
CuentaNueva == [SinCuenta EXCEPT !.eliminado = FALSE, !.plan = "ninguno"]

\* paso: what the call does next; cosa: what a late request opens.
SinPapeleo == [paso |-> "libre", ruta |-> "ninguna", persona |-> "nadie",
               fila |-> SinCuenta, cosa |-> "ninguna"]
Papeleo == [paso : {"guarda", "sesion", "token", "suscripcion", "abre"},
            ruta : Ruta \cup {"abrir"}, persona : Personas, fila : FilaCuenta \cup {SinCuenta},
            cosa : Cosas \cup {"ninguna"}]

CuentasTypeOK ==
    /\ cuenta \in [Personas -> FilaCuenta \cup {SinCuenta}]
    /\ abierto \in [Personas -> SUBSET Cosas]
    /\ papeleo \in [Tramitadores -> Papeleo \cup {SinPapeleo}]
    /\ papeleos \in 0 .. MaxPapeleos /\ edicionesCuenta \in 0 .. MaxEdicionesCuenta
    /\ concluidas \subseteq pedidas /\ pedidas \subseteq Personas
    /\ encimadas \subseteq Personas

CuentasInit ==
    /\ cuenta \in [Personas -> {SinCuenta, CuentaNueva}]
    /\ abierto = [p \in Personas |-> IF cuenta[p] = SinCuenta THEN {} ELSE Cosas]
    /\ papeleo = [t \in Tramitadores |-> SinPapeleo]
    /\ papeleos = 0 /\ edicionesCuenta = 0
    /\ pedidas = {} /\ concluidas = {} /\ encimadas = {}

--------------------
\* Mutant: the row is found whether or not the account was deleted.
Encuentra(p) == cuenta[p] # SinCuenta
ObtenerPorId(p) == ~cuenta[p].eliminado

CorreoDeOtra(p, correo) ==
    correo # NoCorreo /\ \E o \in Personas \ {p} : cuenta[o].correo = correo

NuevoPapeleo(t) ==
    /\ papeleo[t] = SinPapeleo
    /\ papeleos < MaxPapeleos /\ papeleos' = papeleos + 1

\* crear: the address is looked for among all the rows, deleted ones too.
CrearCuenta(p, correo) ==
    /\ cuenta[p] = SinCuenta /\ papeleos < MaxPapeleos /\ papeleos' = papeleos + 1
    /\ ~CorreoDeOtra(p, correo)
    /\ cuenta' = [cuenta EXCEPT ![p] = [CuentaNueva EXCEPT !.correo = correo]]
    /\ UNCHANGED <<abierto, papeleo, edicionesCuenta, pedidas, concluidas, encimadas>>

LeeFila(t, p, ruta, fila) ==
    /\ ObtenerPorId(p) /\ NuevoPapeleo(t)
    /\ papeleo' = [papeleo EXCEPT ![t] =
           [SinPapeleo EXCEPT !.paso = "guarda", !.ruta = ruta, !.persona = p,
                              !.fila = fila]]
    /\ UNCHANGED <<cuenta, abierto, pedidas, concluidas, encimadas>>
EditaCuenta(t, p, ruta, fila) ==
    /\ edicionesCuenta < MaxEdicionesCuenta /\ edicionesCuenta' = edicionesCuenta + 1
    /\ LeeFila(t, p, ruta, fila)

Actualizar(t, p, correo) ==
    /\ correo # NoCorreo /\ ~CorreoDeOtra(p, correo)
    /\ EditaCuenta(t, p, "actualizar", [cuenta[p] EXCEPT !.correo = correo])
CompletarRegistro(t, p) ==
    /\ ~cuenta[p].registroCompleto
    /\ EditaCuenta(t, p, "completar", [cuenta[p] EXCEPT !.registroCompleto = TRUE])
\* tieneNegocios is what the price of the chosen plan says.
CompletarPerfil(t, p, plan) ==
    /\ plan # "ninguno"
    /\ EditaCuenta(t, p, "completar-perfil",
             [cuenta[p] EXCEPT !.plan = plan, !.tieneNegocios = (plan = "gratis"),
                               !.registroCompleto = TRUE])
UpdatePermisos(t, p, permiso) ==
    permiso # "nulo" /\ EditaCuenta(t, p, "permisos", [cuenta[p] EXCEPT !.permiso = permiso])
UpdateDatosFiscales(t, p) ==
    EditaCuenta(t, p, "datos-fiscales", [cuenta[p] EXCEPT !.fiscales = TRUE])
Eliminar(t, p) ==
    LeeFila(t, p, "eliminar", [cuenta[p] EXCEPT !.eliminado = TRUE]) /\ UNCHANGED edicionesCuenta
EliminarMiCuenta(t, p) ==
    /\ LeeFila(t, p, "eliminar-me",
           [cuenta[p] EXCEPT !.eliminado = TRUE, !.fechaEliminacion = TRUE])
    /\ UNCHANGED edicionesCuenta

Sigue(t, paso) ==
    papeleo' = [papeleo EXCEPT ![t] =
                    IF paso = "fin" THEN SinPapeleo ELSE [@ EXCEPT !.paso = paso]]

\* save: the row becomes what the entity is; the index of addresses may refuse it.
GuardaCuenta(t) ==
    LET w == papeleo[t]
        p == w.persona
    IN  /\ w.paso = "guarda"
        /\ ~CorreoDeOtra(p, w.fila.correo)
        /\ cuenta' = [cuenta EXCEPT ![p] = w.fila]
        /\ Sigue(t, IF w.ruta = "eliminar-me" THEN "sesion"
                    ELSE IF w.ruta = "permisos" /\ w.fila.permiso = "no" THEN "token"
                    ELSE "fin")
        /\ pedidas' = IF w.ruta = "eliminar-me" THEN pedidas \cup {p} ELSE pedidas
        /\ encimadas' = IF cuenta[p].eliminado
                           /\ ~(w.fila.eliminado /\ w.fila.fechaEliminacion)
                        THEN encimadas \cup {p} ELSE encimadas
        /\ UNCHANGED <<abierto, papeleos, edicionesCuenta, concluidas>>

\* The sessions, the push tokens and the subscription, one statement each.
CierraCosa(t) ==
    LET w == papeleo[t]
        borra == w.ruta = "eliminar-me"
    IN  /\ w.paso \in Cosas
        /\ abierto' = [abierto EXCEPT ![w.persona] = @ \ {w.paso}]
        /\ Sigue(t, CASE w.paso = "sesion" -> "token"
                      [] w.paso = "token" /\ borra -> "suscripcion"
                      [] OTHER -> "fin")
        /\ concluidas' = IF w.paso = "suscripcion" THEN concluidas \cup {w.persona}
                         ELSE concluidas
        /\ UNCHANGED <<cuenta, papeleos, edicionesCuenta, pedidas, encimadas>>

FallaPapeleo(t) ==
    /\ papeleo[t] # SinPapeleo /\ Sigue(t, "fin")
    /\ UNCHANGED <<cuenta, abierto, papeleos, edicionesCuenta,
                   pedidas, concluidas, encimadas>>

\* A sign-in, a checkout or registrarToken: its guard finds the account alive, and what it
\* opens is written later.
Admite(t, p, cosa) ==
    /\ ObtenerPorId(p) /\ NuevoPapeleo(t) /\ cosa \notin abierto[p]
    /\ papeleo' = [papeleo EXCEPT ![t] =
           [SinPapeleo EXCEPT !.paso = "abre", !.ruta = "abrir", !.persona = p,
                              !.cosa = cosa]]
    /\ UNCHANGED <<cuenta, abierto, edicionesCuenta, pedidas, concluidas, encimadas>>
AbreCosa(t) ==
    LET w == papeleo[t]
    IN  /\ w.paso = "abre"
        /\ abierto' = [abierto EXCEPT ![w.persona] = @ \cup {w.cosa}]
        /\ Sigue(t, "fin")
        /\ encimadas' = IF cuenta[w.persona].eliminado
                        THEN encimadas \cup {w.persona} ELSE encimadas
        /\ UNCHANGED <<cuenta, papeleos, edicionesCuenta, pedidas, concluidas>>
\* eliminarToken.
CierraToken(p) ==
    /\ ObtenerPorId(p) /\ "token" \in abierto[p]
    /\ abierto' = [abierto EXCEPT ![p] = @ \ {"token"}]
    /\ UNCHANGED <<cuenta, papeleo, papeleos, edicionesCuenta,
                   pedidas, concluidas, encimadas>>

\* The daily job, thirty days later: no call of then is still at work.  The deletion of
\* the sessions is a second statement, which may fail.
Anonimizar(p) ==
    /\ cuenta[p].eliminado /\ cuenta[p].fechaEliminacion
    /\ \A t \in Tramitadores : papeleo[t].persona # p
    /\ cuenta' = [cuenta EXCEPT ![p] = [@ EXCEPT !.anonima = TRUE, !.correo = NoCorreo,
                                                 !.permiso = "nulo", !.fiscales = FALSE]]
    /\ \E borra \in SUBSET {"sesion"} : abierto' = [abierto EXCEPT ![p] = @ \ borra]
    /\ UNCHANGED <<papeleo, papeleos, edicionesCuenta, pedidas, concluidas, encimadas>>

CuentasNext ==
    \/ \E p \in Personas :
        \/ CierraToken(p) \/ Anonimizar(p)
        \/ \E correo \in Correos \cup {NoCorreo} : CrearCuenta(p, correo)
        \/ \E t \in Tramitadores :
            \/ CompletarRegistro(t, p) \/ UpdateDatosFiscales(t, p)
            \/ Eliminar(t, p) \/ EliminarMiCuenta(t, p)
            \/ \E correo \in Correos : Actualizar(t, p, correo)
            \/ \E plan \in PlanDeCuenta : CompletarPerfil(t, p, plan)
            \/ \E permiso \in {"si", "no"} : UpdatePermisos(t, p, permiso)
            \/ \E cosa \in Cosas : Admite(t, p, cosa)
    \/ \E t \in Tramitadores :
        GuardaCuenta(t) \/ CierraCosa(t) \/ FallaPapeleo(t) \/ AbreCosa(t)

CuentasSpec == CuentasInit /\ [][CuentasNext]_cuentasVars

--------------------
\* "eliminarCuenta": an account its owner deleted stays deleted, with the date the job of
\* the thirty days looks for, unless a call that had read it alive saved it afterwards.
BajaDefinitiva ==
    \A p \in pedidas \ encimadas : cuenta[p].eliminado /\ cuenta[p].fechaEliminacion

\* A deletion that went to its end leaves no session, no push token and no subscription
\* open, unless a request admitted before it wrote after it.
BajaCompleta == \A p \in concluidas \ encimadas : abierto[p] = {}

\* "vaciando todos los campos PII": no call brings data back to an emptied account.
SinRastro ==
    \A p \in Personas :
        LET r == cuenta[p]
        IN  r.anonima => /\ r.eliminado /\ r.correo = NoCorreo
                         /\ r.permiso = "nulo" /\ ~r.fiscales

CuentasEnRegla == BajaDefinitiva /\ BajaCompleta /\ SinRastro
=============================================================================

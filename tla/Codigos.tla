-------------------------------- MODULE Codigos --------------------------------
(***************************************************************************)
(* One-time codes of one person, by telephone and by mail, and the account *)
(* that has the telephone (AuthService, SuscriptoresService and            *)
(* DataRetentionService).  A step is an awaited call to the database, or   *)
(* two reads with nothing between them; a save makes the row of a code     *)
(* what it was when read, with the changes of the request.  The sessions a *)
(* login opens are in Sesiones.                                            *)
(***************************************************************************)
EXTENDS Integers, FiniteSets

CONSTANTS Peticiones,
          MaxIntentos,      \* MAX_OTP_ATTEMPTS
          MaxOtp,           \* bound: codes
          MaxPedidos,       \* bound: requests
          MaxMinutos,       \* bound: ticks; a code lives for one
          MaxBajas,         \* bound: accounts deleted
          MaxFallasOtp      \* bound: failed calls

ASSUME CodigosAssumption ==
    /\ MaxIntentos \in Nat \ {0} /\ MaxOtp \in Nat /\ MaxPedidos \in Nat
    /\ MaxMinutos \in Nat /\ MaxBajas \in Nat /\ MaxFallasOtp \in Nat

VARIABLES
    otp,         \* codigos_otp, by id
    titular,     \* the row of suscriptores that has the telephone (UNIQUE)
    pedido,      \* the requests at work
    minuto,
    codigosPedidos, bajas, fallasOtp,
    solapoOtp,   \* two requests were at work at once
    usos,        \* what each code was good for: logins, accounts, passwords
    fallidos,    \* wrong codes given against it
    perdidos,    \* registration codes taken that gave no account
    cortados     \* those whose call failed between the mark and the insert

codigosVars == <<otp, titular, pedido, minuto, codigosPedidos, bajas, fallasOtp, solapoOtp,
                 usos, fallidos, perdidos, cortados>>
codigosCuentas == <<codigosPedidos, bajas, fallasOtp, solapoOtp, cortados>>

--------------------
OtpIds == 1 .. MaxOtp
Medios == {"tel", "correo"}
Otp == [medio : Medios, registro : BOOLEAN, usado : BOOLEAN,
        intentos : 0 .. MaxIntentos, vence : 1 .. MaxMinutos + 1]
NoOtp == [usado |-> TRUE]

\* sinFecha: deleted by an administrator, who writes no fecha_eliminacion.
Titular == {"nadie", "viva", "eliminada", "sinFecha"}

Pedido == [op : {"none", "sendOtpRegister", "sendOtp", "sendOtpEmail", "verifyOtpRegister",
                 "verifyOtp", "checkOtpEmail", "verifyOtpEmail"},
           paso : {"idle", "invalida", "inserta", "correo", "falla", "marca", "cuenta",
                   "crea", "busca", "contrasena"},
           id : 0 .. MaxOtp, fila : Otp \cup {NoOtp}]
SinPedido == [op |-> "none", paso |-> "idle", id |-> 0, fila |-> NoOtp]

CodigosTypeOK ==
    /\ otp \in [OtpIds -> Otp \cup {NoOtp}] /\ titular \in Titular
    /\ pedido \in [Peticiones -> Pedido] /\ minuto \in 0 .. MaxMinutos
    /\ codigosPedidos \in 0 .. MaxPedidos /\ bajas \in 0 .. MaxBajas
    /\ fallasOtp \in 0 .. MaxFallasOtp /\ solapoOtp \in BOOLEAN
    /\ usos \in [OtpIds -> Nat] /\ fallidos \in [OtpIds -> Nat]
    /\ perdidos \subseteq OtpIds /\ cortados \subseteq OtpIds

CodigosInit ==
    /\ otp = [i \in OtpIds |-> NoOtp] /\ titular = "nadie"
    /\ pedido = [p \in Peticiones |-> SinPedido]
    /\ minuto = 0 /\ codigosPedidos = 0 /\ bajas = 0 /\ fallasOtp = 0 /\ solapoOtp = FALSE
    /\ usos = [i \in OtpIds |-> 0] /\ fallidos = [i \in OtpIds |-> 0]
    /\ perdidos = {} /\ cortados = {}

--------------------
EnPedido(p, paso) == pedido[p].paso = paso
Toma(p, w)  == pedido' = [pedido EXCEPT ![p] = w]
Salta(p, paso) == Toma(p, [pedido[p] EXCEPT !.paso = paso])
Termina(p)  == Toma(p, SinPedido)
Medio(op)   == IF op \in {"sendOtpEmail", "checkOtpEmail",
    "verifyOtpEmail"} THEN "correo" ELSE "tel"
Vigente(i, medio) == ~otp[i].usado /\ otp[i].medio = medio /\ otp[i].vence > minuto
Vigentes(medio) == {i \in OtpIds : Vigente(i, medio)}

Pide(p, w) ==
    /\ EnPedido(p, "idle") /\ codigosPedidos < MaxPedidos
    /\ codigosPedidos' = codigosPedidos + 1
    /\ solapoOtp' = (solapoOtp \/ \E o \in Peticiones : ~EnPedido(o, "idle"))
    /\ Toma(p, w)
    /\ UNCHANGED <<otp, titular, minuto, bajas, fallasOtp, usos, perdidos, cortados>>

\* sendOtp asks of nothing; a registration wants no account, a recovery wants one.
SendOtp(p, op) ==
    /\ op = "sendOtpRegister" => titular # "viva"
    /\ op = "sendOtpEmail" => titular = "viva"
    /\ Pide(p, [op |-> op, paso |-> "invalida", id |-> 0, fila |-> NoOtp])
    /\ UNCHANGED fallidos

\* By mail only those that have not expired are marked.
Invalida(p) ==
    /\ EnPedido(p, "invalida")
    /\ LET medio == Medio(pedido[p].op)
       IN  otp' = [i \in OtpIds |->
             IF otp[i] # NoOtp /\ otp[i].medio = medio /\ (medio = "tel" \/ otp[i].vence > minuto)
             THEN [otp[i] EXCEPT !.usado = TRUE] ELSE otp[i]]
    /\ Salta(p, "inserta")
    /\ UNCHANGED <<titular, minuto, codigosCuentas, usos, fallidos, perdidos>>

Inserta(p) ==
    /\ EnPedido(p, "inserta")
    /\ \E i \in OtpIds :
        /\ otp[i] = NoOtp /\ \A k \in OtpIds : k < i => otp[k] # NoOtp
        /\ otp' = [otp EXCEPT ![i] = [medio |-> Medio(pedido[p].op), usado |-> FALSE,
               registro |-> pedido[p].op = "sendOtpRegister", intentos |-> 0,
               vence |-> minuto + 1]]
    /\ IF pedido[p].op = "sendOtpEmail" THEN Salta(p, "correo") ELSE Termina(p)
    /\ UNCHANGED <<titular, minuto, codigosCuentas, usos, fallidos, perdidos>>

MailService(p) ==
    /\ EnPedido(p, "correo") /\ Termina(p)
    /\ UNCHANGED <<otp, titular, minuto, codigosCuentas, usos, fallidos, perdidos>>

\* validarOtp: the newest code in force, against the one given, which may be that of
\* any row, or wrong.
SiguePedido(op) ==
    CASE op \in {"verifyOtpRegister", "verifyOtp"} -> "marca"
      [] op = "verifyOtpEmail" -> "busca"
      [] op = "checkOtpEmail" -> "idle"
Equivocada(f) == IF f.intentos + 1 < MaxIntentos
                 THEN [f EXCEPT !.intentos = @ + 1]
                 ELSE [f EXCEPT !.intentos = @ + 1, !.usado = TRUE]
ValidarOtp(p, op, dado) ==
    \E i \in Vigentes(Medio(op)) :
        LET paso == IF dado = i THEN SiguePedido(op) ELSE "falla"
            fila == IF dado = i THEN otp[i] ELSE Equivocada(otp[i])
        IN  /\ \A o \in Vigentes(Medio(op)) : o <= i
            /\ Pide(p, IF paso = "idle" THEN SinPedido
                       ELSE [op |-> op, paso |-> paso, id |-> i, fila |-> fila])
            /\ fallidos' = [fallidos EXCEPT ![i] = IF dado = i THEN @ ELSE @ + 1]

GuardaFallo(p) ==
    /\ EnPedido(p, "falla")
    /\ otp' = [otp EXCEPT ![pedido[p].id] = pedido[p].fila]
    /\ Termina(p)
    /\ UNCHANGED <<titular, minuto, codigosCuentas, usos, fallidos, perdidos>>

TrasMarca(op) == IF op = "verifyOtp" THEN "cuenta" ELSE "crea"
\* Mutant: the account is made, or the person comes in, with the code left in force.
MarcaSinUsar(p) ==
    /\ EnPedido(p, "marca")
    /\ IF pedido[p].op = "verifyOtpEmail" THEN Termina(p) ELSE Salta(p, TrasMarca(pedido[p].op))
    /\ UNCHANGED <<otp, titular, minuto, codigosCuentas, usos, fallidos, perdidos>>
Marca(p) ==
    /\ EnPedido(p, "marca")
    /\ otp' = [otp EXCEPT ![pedido[p].id] = [pedido[p].fila EXCEPT !.usado = TRUE]]
    /\ IF pedido[p].op = "verifyOtpEmail" THEN Termina(p) ELSE Salta(p, TrasMarca(pedido[p].op))
    /\ UNCHANGED <<titular, minuto, codigosCuentas, usos, fallidos, perdidos>>

Sirve(i) == usos' = [usos EXCEPT ![i] = @ + 1]
\* verifyOtp finds the account of the telephone, deleted or not; one that has none is
\* made by the next call.
BuscaTitular(p) ==
    /\ EnPedido(p, "cuenta")
    /\ IF titular = "nadie" THEN Salta(p, "crea") /\ UNCHANGED usos
       ELSE Termina(p) /\ Sirve(pedido[p].id)
    /\ UNCHANGED <<otp, titular, minuto, codigosCuentas, fallidos, perdidos>>

\* A registration code that its request holds, already marked.
DeRegistro(w) == w.op = "verifyOtpRegister" /\ w.fila.registro
\* The insert: of verifyOtpRegister if the code was asked to register, of verifyOtp
\* always; the UNIQUE index of the telephone may refuse it.
Crea(p) ==
    /\ EnPedido(p, "crea")
    /\ LET w == pedido[p]
           alta == titular = "nadie" /\ (w.op = "verifyOtp" \/ w.fila.registro)
       IN  /\ titular' = IF alta THEN "viva" ELSE titular
           /\ IF alta THEN Sirve(w.id) ELSE UNCHANGED usos
           /\ perdidos' = IF DeRegistro(w) /\ ~alta THEN perdidos \cup {w.id} ELSE perdidos
    /\ Termina(p)
    /\ UNCHANGED <<otp, minuto, codigosCuentas, fallidos>>

BuscaCuenta(p) ==
    /\ EnPedido(p, "busca")
    /\ IF titular = "viva" THEN Salta(p, "contrasena") ELSE Termina(p)
    /\ UNCHANGED <<otp, titular, minuto, codigosCuentas, usos, fallidos, perdidos>>

\* The password is written before the code is marked.
Contrasena(p) ==
    /\ EnPedido(p, "contrasena")
    /\ Sirve(pedido[p].id) /\ Salta(p, "marca")
    /\ UNCHANGED <<otp, titular, minuto, codigosCuentas, fallidos, perdidos>>

\* A call that rejects: when it is the insert of a registration, its code is spent.
FallaPedido(p) ==
    /\ ~EnPedido(p, "idle") /\ fallasOtp < MaxFallasOtp
    /\ fallasOtp' = fallasOtp + 1
    /\ LET w == pedido[p]
           gastado == IF w.paso = "crea" /\ DeRegistro(w) THEN {w.id} ELSE {}
       IN  perdidos' = perdidos \cup gastado /\ cortados' = cortados \cup gastado
    /\ Termina(p)
    /\ UNCHANGED <<otp, titular, minuto, codigosPedidos, bajas, solapoOtp, usos, fallidos>>

--------------------
EliminarCuenta(t) ==
    /\ titular = "viva" /\ bajas < MaxBajas
    /\ bajas' = bajas + 1 /\ titular' = t
    /\ UNCHANGED <<otp, pedido, minuto, codigosPedidos, fallasOtp, solapoOtp, usos, fallidos,
           perdidos, cortados>>

\* 30 days after fecha_eliminacion the telephone is free again.
AnonimizarCuentasEliminadas ==
    /\ titular = "eliminada" /\ titular' = "nadie"
    /\ UNCHANGED <<otp, pedido, minuto, codigosCuentas, usos, fallidos, perdidos>>

PasaMinuto ==
    /\ minuto < MaxMinutos /\ minuto' = minuto + 1
    /\ UNCHANGED <<otp, titular, pedido, codigosCuentas, usos, fallidos, perdidos>>

CodigosNext ==
    \/ \E p \in Peticiones, op \in {"sendOtpRegister", "sendOtp", "sendOtpEmail"} : SendOtp(p, op)
    \/ \E p \in Peticiones, dado \in 0 .. MaxOtp,
          op \in {"verifyOtpRegister", "verifyOtp", "checkOtpEmail", "verifyOtpEmail"} :
          ValidarOtp(p, op, dado)
    \/ \E p \in Peticiones :
        \/ Invalida(p) \/ Inserta(p) \/ MailService(p) \/ GuardaFallo(p) \/ Marca(p)
        \/ BuscaTitular(p) \/ Crea(p) \/ BuscaCuenta(p) \/ Contrasena(p) \/ FallaPedido(p)
    \/ \E t \in {"eliminada", "sinFecha"} : EliminarCuenta(t)
    \/ AnonimizarCuentasEliminadas \/ PasaMinuto

CodigosSpec == CodigosInit /\ [][CodigosNext]_codigosVars

--------------------
\* While no two requests overlapped: a telephone or a mail has one code in force
\* ("un solo OTP vigente", auth.service.ts:225), and no code, in force or not, took
\* more wrong answers than it may.
UnCodigoVigente ==
    ~solapoOtp =>
        /\ \A medio \in Medios : Cardinality(Vigentes(medio)) <= 1
        /\ fallasOtp = 0 => \A i \in OtpIds : fallidos[i] <= MaxIntentos

\* While no two requests overlapped and no call failed, a code is good for one login,
\* one account or one new password.  (By mail the password comes first: a failure
\* before the mark leaves the code in force.)
CodigoDeUnUso ==
    ~solapoOtp /\ fallasOtp = 0 => \A i \in OtpIds : usos[i] <= 1

\* The code is marked before the account is inserted (auth.service.ts:255 and 278): a
\* call that fails between the two spends it, and no account is made.  While no two
\* requests overlapped and no account was deleted, that is the only way to lose one:
\* every other registration code taken gives its account, though other codes were
\* asked for and used meanwhile, and calls failed elsewhere.
RegistroCumplido ==
    ~solapoOtp /\ bajas = 0 => perdidos \subseteq cortados

\* A code in force is the only one, is good once, and gives what it was asked for.
CodigosEnRegla == UnCodigoVigente /\ CodigoDeUnUso /\ RegistroCumplido
=============================================================================

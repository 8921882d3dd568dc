------------------------------- MODULE Limitador -------------------------------
(***************************************************************************)
(* The limiter of messages to the assistant (RateLimiterService): a fixed  *)
(* window for each user, in the memory of the process, and the clean-up    *)
(* that runs every five minutes.  verificar and limpiar are synchronous.   *)
(***************************************************************************)
EXTENDS Integers, Functions

CONSTANTS Usuarios,
          MaxPerMinute,    \* MAX_PER_MINUTE
          Window,          \* WINDOW_MS, in ticks
          MaxAhora,        \* bound: ticks
          MaxLlamadas      \* bound: messages of a user in a tick

ASSUME LimitadorAssumption ==
    /\ MaxPerMinute \in Nat \ {0} /\ Window \in Nat \ {0}
    /\ MaxAhora \in Nat /\ MaxLlamadas \in Nat

VARIABLES
    entradas,    \* the Map
    ahora,
    aceptados    \* messages accepted of each user, by tick

limitadorVars == <<entradas, ahora, aceptados>>

--------------------
Instantes == 0 .. MaxAhora
RateEntry == [count : 1 .. MaxPerMinute, resetAt : Window .. MaxAhora + Window]
NoEntry   == [count |-> 0, resetAt |-> 0]

LimitadorTypeOK ==
    /\ entradas \in [Usuarios -> RateEntry \cup {NoEntry}]
    /\ ahora \in Instantes
    /\ aceptados \in [Usuarios -> [Instantes -> 0 .. MaxLlamadas]]

LimitadorInit ==
    /\ entradas = [u \in Usuarios |-> NoEntry]
    /\ ahora = 0
    /\ aceptados = [u \in Usuarios |-> [t \in Instantes |-> 0]]

--------------------
Vencida(e) == e = NoEntry \/ ahora > e.resetAt

LlenaVentana(e) == e.count >= MaxPerMinute

Acepta(u, e) ==
    /\ aceptados[u][ahora] < MaxLlamadas
    /\ entradas' = [entradas EXCEPT ![u] = e]
    /\ aceptados' = [aceptados EXCEPT ![u][ahora] = @ + 1]
    /\ UNCHANGED ahora

Abre(u) ==
    /\ Vencida(entradas[u])
    /\ Acepta(u, [count |-> 1, resetAt |-> ahora + Window])
Suma(u) ==
    /\ ~Vencida(entradas[u]) /\ ~LlenaVentana(entradas[u])
    /\ Acepta(u, [entradas[u] EXCEPT !.count = @ + 1])
Rechaza(u) ==
    /\ ~Vencida(entradas[u]) /\ LlenaVentana(entradas[u])
    /\ UNCHANGED limitadorVars

\* Mutant: the time a window opened, taken for the time it ends.
CaducaPronto(e) == ahora > e.resetAt - Window
Caduca(e) == ahora > e.resetAt
Limpiar ==
    /\ entradas' = [u \in Usuarios |-> IF Caduca(entradas[u]) THEN NoEntry ELSE entradas[u]]
    /\ UNCHANGED <<ahora, aceptados>>

\* A process that starts again has forgotten its windows: what it promises counts
\* from then.
Arranca ==
    /\ entradas' = [u \in Usuarios |-> NoEntry]
    /\ aceptados' = [u \in Usuarios |-> [t \in Instantes |-> 0]]
    /\ UNCHANGED ahora

AvanzaAhora ==
    /\ ahora < MaxAhora /\ ahora' = ahora + 1
    /\ UNCHANGED <<entradas, aceptados>>

LimitadorNext ==
    \/ \E u \in Usuarios : Abre(u) \/ Suma(u) \/ Rechaza(u)
    \/ Limpiar \/ Arranca \/ AvanzaAhora

LimitadorSpec == LimitadorInit /\ [][LimitadorNext]_limitadorVars

--------------------
\* Messages of a user accepted from tick t to tick s.
Mensajes(f, S) == FoldFunctionOnSet(+, 0, f, S)
Tramo(t, s) == {i \in Instantes : t <= i /\ i <= s}
Entre(u, t, s) == Mensajes(aceptados[u], Tramo(t, s))

\* In any window a user gets less than twice the limit, clean-ups included: a window of
\* his ends in it and another begins (the limit itself, "30 mensajes por minuto", is
\* only that of his own windows).  A window that has not ended is looked at when it has.
DobleDelLimite ==
    \A u \in Usuarios, t \in 0 .. ahora - Window :
        Entre(u, t, t + Window) < 2 * MaxPerMinute
=============================================================================

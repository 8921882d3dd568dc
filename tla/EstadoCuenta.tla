----------------------------- MODULE EstadoCuenta -----------------------------
(***************************************************************************)
(* What the account statement of a subscriber promises: movements are only *)
(* appended, one at a time, each is a charge or a credit, and each carries *)
(* the balance that results from it.                                       *)
(***************************************************************************)
EXTENDS Integers, Sequences

CONSTANTS Titulares,   \* subscribers
          Montos,      \* amounts of a movement, in cents
          Refs         \* what a movement may refer to

VARIABLE cuenta        \* subscriber |-> sequence of movements

Saldo(movs) == IF movs = <<>> THEN 0 ELSE movs[Len(movs)].saldo

\* A charge subtracts, a credit adds, and a movement is never both.
Asiento(movs, ref, cargo, abono) ==
    Append(movs, [ref |-> ref, cargo |-> cargo, abono |-> abono,
                  saldo |-> Saldo(movs) - cargo + abono])

Registra(s, ref, cargo, abono) ==
    /\ (cargo > 0) # (abono > 0)
    /\ cuenta' = [cuenta EXCEPT ![s] = Asiento(@, ref, cargo, abono)]

CuentaInit == cuenta = [s \in Titulares |-> <<>>]
CuentaNext == \E s \in Titulares, ref \in Refs, cargo, abono \in Montos :
                  Registra(s, ref, cargo, abono)
CuentaSpec == CuentaInit /\ [][CuentaNext]_cuenta
=============================================================================

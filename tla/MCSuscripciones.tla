---------------------------- MODULE MCSuscripciones ----------------------------
(* What hangs from a subscriber: subscriptions with their quotas, the      *)
(* account, the cards and what the dashboards tell him, which share no     *)
(* state; in one run, ambito says which one a behaviour is about.          *)
(* Suscripciones has one subscriber, a free monthly membership and a paid  *)
(* one given once, around a new year.                                      *)
EXTENDS Suscripciones, Cuentas, MetodosPago, Tableros, TLC

CONSTANTS s1, s2, w1, w2, f1, f2, n1, n2, gratis, plus, negocios, promociones

MCLimite == (gratis :> (negocios :> 1)) @@ (plus :> (negocios :> 2))
MCReset  == (gratis :> "mensual") @@ (plus :> "una_vez")

Simetria == Permutations(Workers)

VARIABLE ambito
suscriptorVars == <<ambito, vars, cuentasVars, metodosVars, tablerosVars>>

\* The component that is not looked at starts in one state.
SuscriptorInit ==
    /\ ambito \in {"suscripciones", "cuentas", "metodos", "tableros"}
    /\ Init /\ CuentasInit /\ MetodosInit /\ TablerosInit
    /\ ambito # "suscripciones" => \A s \in Suscriptores : membresiaDe[s] = NoMembresia
    /\ ambito # "cuentas" => \A p \in Personas : cuenta[p] = SinCuenta
    /\ ambito # "tableros" => mesTablero = 0

SuscriptorNext ==
    /\ UNCHANGED ambito
    /\ \/ ambito = "suscripciones" /\ Next
          /\ UNCHANGED <<cuentasVars, metodosVars, tablerosVars>>
       \/ ambito = "cuentas" /\ CuentasNext
          /\ UNCHANGED <<vars, metodosVars, tablerosVars>>
       \/ ambito = "metodos" /\ MetodosNext
          /\ UNCHANGED <<vars, cuentasVars, tablerosVars>>
       \/ ambito = "tableros" /\ TablerosNext
          /\ UNCHANGED <<vars, cuentasVars, metodosVars>>

\* Nothing but the component that is looked at changes.
Mirada ==
    <<ambito,
      CASE ambito = "suscripciones" -> vars
        [] ambito = "cuentas" -> cuentasVars
        [] ambito = "metodos" -> metodosVars
        [] ambito = "tableros" -> tablerosVars>>

SuscriptorSpec == SuscriptorInit /\ [][SuscriptorNext]_suscriptorVars

\* Subscriptions, accounts, cards and dashboards keep the shape of their rows.
SuscriptorTypeOK ==
    CASE ambito = "suscripciones" -> TypeOK [] ambito = "cuentas" -> CuentasTypeOK
      [] ambito = "metodos" -> MetodosTypeOK [] ambito = "tableros" -> TablerosTypeOK

\* What its owner deleted stays deleted, the cards that were saved are in the list, and the
\* dashboards agree with one another and with what was counted.
SuscriptorEnRegla ==
    CASE ambito = "cuentas" -> CuentasEnRegla [] ambito = "metodos" -> TarjetasALaVista
      [] ambito = "tableros" -> TablerosEnRegla [] OTHER -> TRUE
=============================================================================

---------------------------- MODULE Establecimientos ----------------------------
(***************************************************************************)
(* The businesses of a subscriber and their branches: NegociosService and  *)
(* SucursalesNegociosService.  Nothing runs in a transaction: a call reads *)
(* the entity, and later saves it whole.  The businesses a subscriber may  *)
(* create are units of the cycle, spent first; the branches of a business  *)
(* are counted when one is asked for.                                      *)
(***************************************************************************)
EXTENDS Integers, FiniteSets

CONSTANTS Negocios, SucursalesDelNegocio, Llamadas,
          Cortesia,          \* the businesses an admin created, which spend no unit
          MaxSucursales,     \* membresia_cuotas.max_sucursales
          MaxNegocios        \* the units of the cycle

Ninguno == "ninguno"

ASSUME EstablecimientosAssumption ==
    /\ Negocios \cap SucursalesDelNegocio = {}
    /\ Ninguno \notin Negocios \cup SucursalesDelNegocio
    /\ Cortesia \subseteq Negocios /\ MaxSucursales \in Nat /\ MaxNegocios \in Nat

VARIABLES
    negocio, sucursal,       \* the two tables; eliminado is a soft delete
    unidades,                \* units of the cycle spent on businesses
    llamada,                 \* the requests at work
    exento,                  \* businesses whose branches an admin added, a move
                             \* brought, or overlapping requests touched
    borrados                 \* rows whose deletion ended well

establecimientosVars == <<negocio, sucursal, unidades, llamada, exento, borrados>>

--------------------
Estados == {"libre", "vivo", "eliminado"}
FilaSucursal == [estado : Estados, negocio : Negocios \cup {Ninguno}]
SucursalLibre == [estado |-> "libre", negocio |-> Ninguno]
\* fila: the entity read, with the changes of the request.
LlamadaNegocio == [op : {"nada", "alta", "guardaSucursal", "creaNegocio", "guardaNegocio"},
            id : Negocios \cup SucursalesDelNegocio \cup {Ninguno}, fila : FilaSucursal]
SinLlamada == [op |-> "nada", id |-> Ninguno, fila |-> SucursalLibre]

EstablecimientosTypeOK ==
    /\ negocio \in [Negocios -> Estados] /\ sucursal \in [SucursalesDelNegocio -> FilaSucursal]
    /\ \A s \in SucursalesDelNegocio : (sucursal[s].estado = "libre") = (sucursal[s].negocio = Ninguno)
    /\ unidades \in 0 .. MaxNegocios
    /\ llamada \in [Llamadas -> LlamadaNegocio] /\ exento \subseteq Negocios
    /\ borrados \subseteq Negocios \cup SucursalesDelNegocio

EstablecimientosInit ==
    /\ negocio = [n \in Negocios |-> IF n \in Cortesia THEN "vivo" ELSE "libre"]
    /\ sucursal = [s \in SucursalesDelNegocio |-> SucursalLibre] /\ unidades = 0
    /\ llamada = [w \in Llamadas |-> SinLlamada]
    /\ exento = {} /\ borrados = {}

--------------------
AtiendeLlamada(w, l) == llamada[w] = SinLlamada /\ llamada' = [llamada EXCEPT ![w] = l]
RespondeLlamada(w) == llamada' = [llamada EXCEPT ![w] = SinLlamada]
\* The businesses the request of w is about.
NegociosDe(w) == LET l == llamada[w] IN
    {l.id, l.fila.negocio} \cup IF l.id \in SucursalesDelNegocio THEN {sucursal[l.id].negocio} ELSE {}
Tocados == UNION {NegociosDe(w) : w \in Llamadas}

\* POST /negocios: an owner spends a unit first, and it is not given back.
PideNegocio(w, n) ==
    /\ negocio[n] = "libre" /\ n \notin Tocados /\ unidades < MaxNegocios
    /\ AtiendeLlamada(w, [op |-> "creaNegocio", id |-> n, fila |-> SucursalLibre])
    /\ unidades' = unidades + 1
    /\ UNCHANGED <<negocio, sucursal, exento, borrados>>

CreaNegocio(w) ==
    /\ llamada[w].op = "creaNegocio"
    /\ negocio' = [negocio EXCEPT ![llamada[w].id] = "vivo"]
    /\ RespondeLlamada(w)
    /\ UNCHANGED <<sucursal, unidades, exento, borrados>>

\* actualizar, eliminar: the business is found while it is not deleted, and saved whole.
PideCambioNegocio(w, n, estado) ==
    /\ negocio[n] = "vivo" /\ estado \in {"vivo", "eliminado"}
    /\ AtiendeLlamada(w, [op |-> "guardaNegocio", id |-> n,
                   fila |-> [estado |-> estado, negocio |-> n]])
    /\ exento' = exento \cup ({n} \cap Tocados)
    /\ UNCHANGED <<negocio, sucursal, unidades, borrados>>

Borrado(id, estado) == IF estado = "eliminado" THEN {id} ELSE {}
GuardaNegocio(w) ==
    LET l == llamada[w] IN
    /\ l.op = "guardaNegocio"
    /\ negocio' = [negocio EXCEPT ![l.id] = l.fila.estado]
    /\ borrados' = borrados \cup Borrado(l.id, l.fila.estado)
    /\ RespondeLlamada(w)
    /\ UNCHANGED <<sucursal, unidades, exento>>

--------------------
Vivas(n) == {s \in SucursalesDelNegocio : sucursal[s] = [estado |-> "vivo", negocio |-> n]}
\* assertLimiteSucursales.  Mutant: the last place is given twice.
CabeUnaMas(n) == Cardinality(Vivas(n)) <= MaxSucursales
Cabe(n) == Cardinality(Vivas(n)) < MaxSucursales

\* POST /sucursales: the business may be a deleted one, its owner is looked up by id.
PideAlta(w, n, admin) ==
    /\ negocio[n] # "libre"
    /\ admin \/ Cabe(n)
    /\ AtiendeLlamada(w, [op |-> "alta", id |-> Ninguno, fila |-> [estado |-> "vivo", negocio |-> n]])
    /\ exento' = exento \cup ({n} \cap Tocados) \cup IF admin THEN {n} ELSE {}
    /\ UNCHANGED <<negocio, sucursal, unidades, borrados>>

GuardaAlta(w, s) ==
    /\ llamada[w].op = "alta" /\ sucursal[s] = SucursalLibre
    /\ sucursal' = [sucursal EXCEPT ![s] = llamada[w].fila]
    /\ RespondeLlamada(w)
    /\ UNCHANGED <<negocio, unidades, exento, borrados>>

\* actualizar, with or without another negocioId, and eliminar: the same two calls.
PideCambioSucursal(w, s, estado, n) ==
    /\ sucursal[s].estado = "vivo" /\ estado \in {"vivo", "eliminado"}
    /\ IF estado = "vivo" THEN negocio[n] # "libre" ELSE n = sucursal[s].negocio
    /\ AtiendeLlamada(w, [op |-> "guardaSucursal", id |-> s, fila |-> [estado |-> estado, negocio |-> n]])
    /\ exento' = exento \cup ({n, sucursal[s].negocio} \cap Tocados)
                        \cup IF n = sucursal[s].negocio THEN {} ELSE {n}
    /\ UNCHANGED <<negocio, sucursal, unidades, borrados>>

GuardaSucursal(w) ==
    LET l == llamada[w] IN
    /\ l.op = "guardaSucursal"
    /\ sucursal' = [sucursal EXCEPT ![l.id] = l.fila]
    /\ borrados' = borrados \cup Borrado(l.id, l.fila.estado)
    /\ RespondeLlamada(w)
    /\ UNCHANGED <<negocio, unidades, exento>>

\* A call to the database rejects: what is written stays.
FallaLlamada(w) ==
    /\ llamada[w] # SinLlamada /\ RespondeLlamada(w)
    /\ UNCHANGED <<negocio, sucursal, unidades, exento, borrados>>

EstablecimientosNext ==
    \E w \in Llamadas :
        \/ \E n \in Negocios : \/ PideNegocio(w, n)
                               \/ \E admin \in BOOLEAN : PideAlta(w, n, admin)
                               \/ \E e \in Estados : PideCambioNegocio(w, n, e)
        \/ \E s \in SucursalesDelNegocio, n \in Negocios, e \in Estados : PideCambioSucursal(w, s, e, n)
        \/ \E s \in SucursalesDelNegocio : GuardaAlta(w, s)
        \/ CreaNegocio(w) \/ GuardaNegocio(w) \/ GuardaSucursal(w) \/ FallaLlamada(w)

EstablecimientosSpec == EstablecimientosInit /\ [][EstablecimientosNext]_establecimientosVars

--------------------
CupoDeSucursales == \A n \in Negocios \ exento : Cardinality(Vivas(n)) <= MaxSucursales
BorradosQuedan ==
    /\ \A n \in borrados \cap Negocios : n \in exento \/ negocio[n] = "eliminado"
    /\ \A s \in borrados \cap SucursalesDelNegocio :
         sucursal[s].negocio \in exento \/ sucursal[s].estado = "eliminado"
NegociosPagados ==
    Cardinality({n \in Negocios \ Cortesia : negocio[n] # "libre"}) <= unidades

\* Outside of the businesses an admin, a move or overlapping requests touched, no
\* business has more live branches than its membership gives, and what was deleted
\* stays deleted; and each business its owner created has spent a unit of the cycle.
EstablecimientosEnRegla == CupoDeSucursales /\ BorradosQuedan /\ NegociosPagados
=============================================================================

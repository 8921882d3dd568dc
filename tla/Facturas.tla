-------------------------------- MODULE Facturas --------------------------------
(***************************************************************************)
(* The invoices of one subscriber (FacturasService): requested for a       *)
(* payment or for an amount, and cancelled while they are drafts.  Nothing *)
(* in the code issues one yet.  A step is a call to the database.          *)
(***************************************************************************)
EXTENDS Integers

CONSTANTS Solicitudes,
          PagosFacturables, SinPago,
          MontoDe,           \* MontoDe[p]: what was paid, in centavos
          Totales,         \* the amounts a request may name
          MaxFacturas,     \* bound: invoices
          MaxCancelaciones \* bound: cancellations

ASSUME FacturasAssumption ==
    /\ SinPago \notin PagosFacturables
    /\ MontoDe \in [PagosFacturables -> Nat \ {0}] /\ Totales \subseteq Nat \ {0}
    /\ MaxFacturas \in Nat /\ MaxCancelaciones \in Nat

VARIABLES
    factura,      \* facturas, by id
    perfil,       \* the subscriber has a row in perfiles_facturacion (UNIQUE)
    solicitud,    \* the calls at work
    cancelaciones,
    solapoFactura \* two calls were at work at once

facturasVars == <<factura, perfil, solicitud, cancelaciones, solapoFactura>>

--------------------
FacturaIds == 1 .. MaxFacturas
Importes == Totales \cup {MontoDe[p] : p \in PagosFacturables}

\* desglosarIva: round(total / 1.16); 50 t / 58 is never half way between two integers.
\* Mutant: the tax is taken from the total.
SubtotalDelTotal(total) == total - (16 * total) \div 100
Subtotal(total) == (50 * total + 29) \div 58
DesglosarIva(total) ==
    [subtotal |-> Subtotal(total), impuestos |-> total - Subtotal(total), total |-> total]

Factura == [pago : PagosFacturables \cup {SinPago}, estatus : {"borrador", "cancelada"},
            importe : {DesglosarIva(t) : t \in Importes}]
NoFactura == [pago |-> SinPago, estatus |-> "no"]
Solicitud == [paso : {"idle", "perfil", "creaPerfil", "factura", "cancela"},
              pago : PagosFacturables \cup {SinPago}, total : Importes \cup {0},
              id : FacturaIds \cup {0}]
SinSolicitud == [paso |-> "idle", pago |-> SinPago, total |-> 0, id |-> 0]

FacturasTypeOK ==
    /\ factura \in [FacturaIds -> Factura \cup {NoFactura}]
    /\ perfil \in BOOLEAN /\ solapoFactura \in BOOLEAN
    /\ solicitud \in [Solicitudes -> Solicitud]
    /\ cancelaciones \in 0 .. MaxCancelaciones

FacturasInit ==
    /\ factura = [i \in FacturaIds |-> NoFactura]
    /\ perfil \in BOOLEAN
    /\ solicitud = [s \in Solicitudes |-> SinSolicitud]
    /\ cancelaciones = 0 /\ solapoFactura = FALSE

--------------------
SolicitudLibre(s) == solicitud[s].paso = "idle"
EmpiezaSolicitud(s, w) ==
    /\ SolicitudLibre(s)
    /\ solicitud' = [solicitud EXCEPT ![s] = w]
    /\ solapoFactura' = (solapoFactura \/ \E o \in Solicitudes : ~SolicitudLibre(o))
PasaSolicitud(s, paso) ==
    /\ solicitud' = [solicitud EXCEPT ![s].paso = paso]
    /\ UNCHANGED solapoFactura
AcabaSolicitud(s) ==
    /\ solicitud' = [solicitud EXCEPT ![s] = SinSolicitud]
    /\ UNCHANGED solapoFactura

\* findOne of the payment's invoices takes any of them.
DelPago(p) == {i \in FacturaIds : factura[i].pago = p /\ factura[i].estatus # "no"}
\* Mutant: the check is on its state alone.
PuedeSiNoEmitida(p) == \A i \in DelPago(p) : factura[i].estatus # "emitida"
PuedeFacturar(p) ==
    DelPago(p) = {} \/ \E i \in DelPago(p) : factura[i].estatus = "cancelada"

\* The amount of the request goes before that of the payment.
Solicitar(s, p, total) ==
    /\ p # SinPago => PuedeFacturar(p)
    /\ EmpiezaSolicitud(s, [SinSolicitud EXCEPT !.paso = "perfil", !.pago = p, !.total = total])
    /\ UNCHANGED <<factura, perfil, cancelaciones>>

\* resolverPerfilFacturacion: findOne, then an update of what was found or an insert.
ResolverPerfil(s) ==
    /\ solicitud[s].paso = "perfil"
    /\ PasaSolicitud(s, IF perfil THEN "factura" ELSE "creaPerfil")
    /\ UNCHANGED <<factura, perfil, cancelaciones>>

CreaPerfil(s) ==
    /\ solicitud[s].paso = "creaPerfil"
    /\ IF perfil THEN AcabaSolicitud(s) ELSE PasaSolicitud(s, "factura")
    /\ perfil' = TRUE
    /\ UNCHANGED <<factura, cancelaciones>>

GuardaFactura(s) ==
    /\ solicitud[s].paso = "factura"
    /\ \E i \in FacturaIds :
        /\ factura[i] = NoFactura /\ \A k \in FacturaIds : k < i => factura[k] # NoFactura
        /\ factura' = [factura EXCEPT ![i] =
               [pago |-> solicitud[s].pago, estatus |-> "borrador",
                importe |-> DesglosarIva(solicitud[s].total)]]
    /\ AcabaSolicitud(s)
    /\ UNCHANGED <<perfil, cancelaciones>>

Cancelar(s, i) ==
    /\ factura[i].estatus = "borrador" /\ cancelaciones < MaxCancelaciones
    /\ cancelaciones' = cancelaciones + 1
    /\ EmpiezaSolicitud(s, [SinSolicitud EXCEPT !.paso = "cancela", !.id = i])
    /\ UNCHANGED <<factura, perfil>>

GuardaCancelada(s) ==
    /\ solicitud[s].paso = "cancela"
    /\ factura' = [factura EXCEPT ![solicitud[s].id].estatus = "cancelada"]
    /\ AcabaSolicitud(s)
    /\ UNCHANGED <<perfil, cancelaciones>>

FallaFactura(s) ==
    /\ ~SolicitudLibre(s) /\ AcabaSolicitud(s)
    /\ UNCHANGED <<factura, perfil, cancelaciones>>

FacturasNext ==
    \E s \in Solicitudes :
        \/ \E t \in Totales, p \in PagosFacturables \cup {SinPago} : Solicitar(s, p, t)
        \/ \E p \in PagosFacturables : Solicitar(s, p, MontoDe[p])
        \/ ResolverPerfil(s) \/ CreaPerfil(s) \/ GuardaFactura(s)
        \/ \E i \in FacturaIds : Cancelar(s, i)
        \/ GuardaCancelada(s) \/ FallaFactura(s)

FacturasSpec == FacturasInit /\ [][FacturasNext]_facturasVars

--------------------
\* "El SAT no admite dos facturas vivas por la misma operación": a payment has one
\* live invoice, while no calls overlapped and none of its invoices was cancelled.
\* (After a cancellation the check may look at the cancelled one.)
FacturaUnica ==
    ~solapoFactura =>
        \A i, j \in FacturaIds :
            /\ factura[i].estatus = "borrador" /\ factura[j].estatus = "borrador"
            /\ factura[i].pago = factura[j].pago /\ factura[i].pago # SinPago
            /\ ~ \E k \in FacturaIds : factura[k].estatus = "cancelada"
                   /\ factura[k].pago = factura[i].pago
            => i = j

\* "subtotal + impuestos === total" to the centavo, and the tax is 16 % of the
\* subtotal to less than a centavo.
DesgloseExacto ==
    \A i \in FacturaIds : factura[i].estatus # "no" =>
        LET m == factura[i].importe
            resto == 100 * m.impuestos - 16 * m.subtotal
        IN  /\ m.subtotal + m.impuestos = m.total /\ m.total > 0
            /\ -100 < resto /\ resto < 100
=============================================================================

------------------------------ MODULE MCBilling ------------------------------
(* Small instances of Billing: businesses n1 (owned by s1) and, where the  *)
(* webhook creates them, n2 to n5.                                         *)
EXTENDS Billing, TLC

CONSTANTS c1, c2, s1, s2, n1, n2, n3, n4, n5, w1, w2, basico, premium

UnNegocio == [n \in Negocios |-> IF n = n1 THEN s1 ELSE NoSuscriptor]

Existente  == {<<n1, "none">>}
Nuevo      == {<<NoNegocio, "valid">>}
Cualquiera == Existente \cup Nuevo \cup {<<NoNegocio, "cut">>, <<NoNegocio, "none">>}

\* The subscriptions of the endpoint to Stripe's event types.
TiposCobro  == {"checkout.session.completed", "invoice.paid", "invoice.payment_succeeded"}
TiposCambio == {"checkout.session.completed", "invoice.paid", "customer.subscription.deleted"}

Planes   == Permutations(Membresias)
Symmetry == Permutations(Workers) \cup Permutations(Sessions)
=============================================================================

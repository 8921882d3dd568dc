---------------------------- MODULE PlanLifecycle ----------------------------
(***************************************************************************)
(* What JelpyCore promises about the billing rows of its businesses,       *)
(* without a word about webhooks, retries or workers: the plan stored in a *)
(* row changes only when Stripe holds evidence for the change.             *)
(*                                                                         *)
(*   free            the row does not exist                                *)
(*   activo          a subscription of the row has been paid               *)
(*   pago_pendiente  a charge of the row's subscription failed             *)
(*   vencido         the row's subscription was cancelled                  *)
(***************************************************************************)
CONSTANTS Rows,     \* ids of billing_subscriptions
          Subs,     \* Stripe subscriptions
          NoSub     \* the subscription of a row that does not exist

VARIABLES plan,     \* row |-> [estado, sub]
          paid,     \* subscriptions with at least one paid invoice
          failed,   \* subscriptions with at least one failed charge
          canceled  \* subscriptions Stripe has cancelled

planVars == <<plan, paid, failed, canceled>>

PlanInit == /\ plan = [f \in Rows |-> [estado |-> "free", sub |-> NoSub]]
            /\ paid = {} /\ failed = {} /\ canceled = {}

\* Evidence only accumulates, and only a paid subscription can fail or end.
Evidence == /\ paid \subseteq paid' /\ paid' \subseteq Subs
            /\ failed \subseteq failed' /\ failed' \subseteq paid'
            /\ canceled \subseteq canceled' /\ canceled' \subseteq paid'
            /\ UNCHANGED plan

\* The row starts, renews or is bound to a paid subscription.
Activate(f, s) == /\ s \in paid
                  /\ plan' = [plan EXCEPT ![f] = [estado |-> "activo", sub |-> s]]
                  /\ UNCHANGED <<paid, failed, canceled>>

Suspend(f) == /\ plan[f].sub \in failed
              /\ plan' = [plan EXCEPT ![f].estado = "pago_pendiente"]
              /\ UNCHANGED <<paid, failed, canceled>>

Expire(f) == /\ plan[f].sub \in canceled
             /\ plan' = [plan EXCEPT ![f].estado = "vencido"]
             /\ UNCHANGED <<paid, failed, canceled>>

PlanNext == \/ Evidence
            \/ \E f \in Rows : Suspend(f) \/ Expire(f)
            \/ \E f \in Rows, s \in Subs : Activate(f, s)

PlanSpec == PlanInit /\ [][PlanNext]_planVars
=============================================================================

----------------------------- MODULE MCBilling -----------------------------
(***************************************************************************)
(* Instances of Billing for TLC: one shopper, up to three orders of a      *)
(* monthly (2 clock units) and a yearly (3 units) plan.                    *)
(***************************************************************************)
EXTENDS Billing, TLC

CONSTANTS u1, t1, t2, o1, o2, o3, monthly, yearly

OneBuyer == [o \in Order |-> u1]
AllMonthly == [o \in Order |-> monthly]
MixedPlans == [o \in Order |-> IF o = o2 THEN yearly ELSE monthly]
Periods == [p \in Plan |-> IF p = monthly THEN 2 ELSE 3]

SlotSymmetry == Permutations(Tx)

\* Deliveries that cannot be processed, and deliveries refused once.
NoEvents == {}
CaptureOfFirst == {<<o1, "payment.captured">>}
PaidOfFirst == {<<o1, "order.paid">>}
=============================================================================

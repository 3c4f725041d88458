------------------------------- MODULE Ledger -------------------------------
(***************************************************************************)
(* What BuyWise Pro billing promises about an order, whichever of checkout *)
(* and webhooks carries it: subscription time is credited only after the   *)
(* payment was authorized, and nothing takes a credit back.  The stronger  *)
(* promise, one credit per order, is OnceSpec.                             *)
(***************************************************************************)
EXTENDS Naturals

CONSTANT Order

VARIABLES
    authorized,   \* orders whose payment was authorized
    credits       \* activations per order

vars == <<authorized, credits>>

Init ==
    /\ authorized = {}
    /\ credits = [o \in Order |-> 0]

Authorize(o) ==
    /\ o \notin authorized
    /\ authorized' = authorized \cup {o}
    /\ UNCHANGED credits

Credit(o) ==
    /\ o \in authorized
    /\ credits' = [credits EXCEPT ![o] = @ + 1]
    /\ UNCHANGED authorized

CreditOnce(o) == credits[o] = 0 /\ Credit(o)

Next == \E o \in Order : Authorize(o) \/ Credit(o)
NextOnce == \E o \in Order : Authorize(o) \/ CreditOnce(o)

Spec == Init /\ [][Next]_vars
OnceSpec == Init /\ [][NextOnce]_vars
=============================================================================

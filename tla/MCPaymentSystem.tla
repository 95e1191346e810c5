--------------------------- MODULE MCPaymentSystem ---------------------------
(* Instances of PaymentSystem for TLC.                                     *)
EXTENDS PaymentSystem, TLC

CONSTANTS p1, p2, paid, back, other, w1, w2, r1

(* Two events about one payment, delivered in either order.                *)
OnePaymentOf == [e \in Events |-> p1]
PaidThenBack == (paid :> "succeeded") @@ (back :> "refunded")

(* A third event, about another payment.                                   *)
TwoPaymentsOf == (paid :> p1) @@ (back :> p1) @@ (other :> p2)
ThreeEvents == PaidThenBack @@ (other :> "failed")

Symmetric == Permutations(Workers)
=============================================================================

---------------------------- MODULE PaymentLedger ----------------------------
(***************************************************************************)
(* What the payment subsystem promises about provider events: each event   *)
(* is applied to its payment at most once, in one step with the change of  *)
(* the payment's status, and for good.  An event whose handling failed may *)
(* be applied by a later delivery.  Besides, a payment's status is set     *)
(* only by observers of the provider, where there are any.                 *)
(***************************************************************************)
CONSTANTS Payments, Events, PaymentOf, StatusOf, Statuses, Observers

VARIABLES
    status,     \* each payment's status, "absent" before it is stored
    outcome     \* each event's outcome: "new", "failed" or "applied"

ledger == <<status, outcome>>

Init == /\ status = [p \in Payments |-> "absent"]
        /\ outcome = [e \in Events |-> "new"]

(* A payment is stored, pending.                                           *)
Store(p) == /\ status[p] = "absent"
            /\ status' = [status EXCEPT ![p] = "pending"]
            /\ UNCHANGED outcome

(* An event, new or failed before, is applied to its stored payment; one   *)
(* that was overtaken may leave the status as it is.                       *)
Apply(e) ==
    /\ outcome[e] # "applied"
    /\ status[PaymentOf[e]] # "absent"
    /\ outcome' = [outcome EXCEPT ![e] = "applied"]
    /\ \/ status' = [status EXCEPT ![PaymentOf[e]] = StatusOf[e]]
       \/ UNCHANGED status

(* An event fails: its payment was not known when it was looked for.       *)
Reject(e) == /\ outcome[e] = "new"
             /\ outcome' = [outcome EXCEPT ![e] = "failed"]
             /\ UNCHANGED status

(* Stored payments take the statuses observed at the provider.             *)
Observe ==
    /\ Observers # {}
    /\ status' \in [Payments -> Statuses \cup {"absent"}]
    /\ \A p \in Payments : (status[p] = "absent") = (status'[p] = "absent")
    /\ UNCHANGED outcome

Next == \/ \E p \in Payments : Store(p)
        \/ \E e \in Events : Apply(e) \/ Reject(e)
        \/ Observe

Spec == Init /\ [][Next]_ledger
=============================================================================

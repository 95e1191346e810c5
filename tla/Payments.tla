------------------------------ MODULE Payments ------------------------------
(***************************************************************************)
(* The payments table of backend/app/db/models/payment.py: the row every   *)
(* handler of the payment subsystem reads into its own database session,   *)
(* changes there and writes back when the session commits.                 *)
(*                                                                         *)
(* Handlers run in separate sessions at READ COMMITTED isolation, without  *)
(* SELECT ... FOR UPDATE and without a version column, and the ORM writes  *)
(* only the columns that a handler changed, with the values it computed    *)
(* from the row it had read.  The modules that EXTEND this one therefore   *)
(* keep a copy of the row ("seen") beside the stored one.                  *)
(***************************************************************************)
EXTENDS Naturals

CONSTANT Payments       \* payments, each with its provider_payment_id

VARIABLE payment        \* the payments table

(* PaymentStatus, and the value "absent" of a row that is not stored. *)
Status == {"pending", "processing", "succeeded", "failed", "canceled",
           "refunded", "partially_refunded"}

(* The statuses that have a timestamp column: paid_at, failed_at, and      *)
(* canceled_at.  The timestamps are modelled by which of them are set.     *)
Stamped == {"succeeded", "failed", "canceled"}

(* A row: its status, the timestamp columns that are not NULL, and         *)
(* webhook_events_count.                                                   *)
Row == [status: Status \cup {"absent"}, stamps: SUBSET Stamped, count: Nat]

AbsentRow == [status |-> "absent", stamps |-> {}, count |-> 0]

Exists(row) == row.status # "absent"

Stored == {p \in Payments : Exists(payment[p])}

(* update_status_timestamps: the columns a handler sets when it gives the  *)
(* row it has seen the status s.  A column it saw set is left alone.       *)
NewStamps(seen, s) == ({s} \cap Stamped) \ seen.stamps

(* PaymentRepository.create, with the column default of status.            *)
StorePayment(p) ==
    /\ ~Exists(payment[p])
    /\ payment' = [payment EXCEPT ![p] = [AbsentRow EXCEPT !.status = "pending"]]

PaymentsInit == payment = [p \in Payments |-> AbsentRow]

PaymentsTypeOK == payment \in [Payments -> Row]
=============================================================================

------------------------ MODULE PaymentReconciliation ------------------------
(***************************************************************************)
(* ReconciliationService (backend/app/domain/payments/services/            *)
(* reconciliation_service.py) against the mock provider                    *)
(* (backend/app/domain/payments/providers/mock.py).                        *)
(*                                                                         *)
(* A run selects payments, asks the provider about one after the other,    *)
(* and commits once at the end.  Webhook deliveries and other runs go on   *)
(* while it waits for the provider; the statuses it compares are those it  *)
(* selected.  Time is abstracted: the age and staleness limits of a run,   *)
(* and its row limit, let it select any part of the rows in its statuses.  *)
(***************************************************************************)
EXTENDS Payments

CONSTANTS
    Runs,           \* reconciliation runs that may overlap
    Scenarios       \* bound: the statuses configure_scenario is given

ASSUME ScenariosAssumption == Scenarios \subseteq Status

VARIABLES
    provider,   \* each payment's status at the provider
    run         \* what each reconciliation run has selected and changed

reconciliationVars == <<provider, run>>

(* A run: whether it is active, the payments it has still to ask about,    *)
(* the rows it has selected, and the statuses its commit will write.       *)
Run == [active: BOOLEAN, todo: SUBSET Payments, seen: [Payments -> Row],
        write: [Payments -> Status \cup {"absent"}]]

NoRun == [active |-> FALSE, todo |-> {},
          seen   |-> [p \in Payments |-> AbsentRow],
          write  |-> [p \in Payments |-> "absent"]]

Selects(r, selected) ==
    /\ ~run[r].active
    /\ run' = [run EXCEPT
         ![r] = [NoRun EXCEPT !.active = TRUE, !.todo = selected,
                              !.seen = [p \in Payments |->
                                          IF p \in selected THEN payment[p]
                                          ELSE AbsentRow]]]
    /\ UNCHANGED <<payment, provider>>

InStatus(statuses) == {p \in Payments : payment[p].status \in statuses}

(* reconcile_pending_payments: payments that may have a news.              *)
StartPending(r) ==
    \E selected \in SUBSET InStatus({"pending", "processing"}) :
        selected # {} /\ Selects(r, selected)

(* reconcile_stale_payments: payments no webhook has touched for long.     *)
StartStale(r) ==
    \E selected \in SUBSET InStatus({"pending", "processing", "succeeded"}) :
        selected # {} /\ Selects(r, selected)

(* reconcile_single_payment: any payment that is stored.                   *)
StartSingle(r) == \E p \in Stored : Selects(r, {p})

(* get_payment_status: the provider may complete a pending payment as it   *)
(* answers.                                                                *)
Answers(p) ==
    IF provider[p] = "pending" THEN {"pending", "succeeded", "failed"}
    ELSE {provider[p]}

(* _reconcile_single_payment: the answer is compared with the status that  *)
(* was selected, and a difference is kept for the commit.                  *)
Ask(r, p) ==
    /\ p \in run[r].todo
    /\ provider[p] # "absent"
    /\ \E s \in Answers(p) :
         /\ provider' = [provider EXCEPT ![p] = s]
         /\ run' = [run EXCEPT
              ![r].todo = @ \ {p},
              ![r].write[p] = IF run[r].seen[p].status # s THEN s ELSE "absent"]
    /\ UNCHANGED payment

(* The provider does not know the payment, is unavailable or is not        *)
(* registered: the error is recorded in the result and the run goes on.    *)
AskFails(r, p) ==
    /\ p \in run[r].todo
    /\ run' = [run EXCEPT ![r].todo = @ \ {p}]
    /\ UNCHANGED <<payment, provider>>

(* Mutant: the commit writes back the whole row that was selected.         *)
WithAnswerSeen(row, seen, s) ==
    IF s = "absent" THEN row
    ELSE [seen EXCEPT !.status = s, !.stamps = @ \cup NewStamps(seen, s)]

(* The row after the commit has written the status s over it.              *)
WithAnswer(row, seen, s) ==
    IF s = "absent" THEN row
    ELSE [row EXCEPT !.status = s, !.stamps = @ \cup NewStamps(seen, s)]

(* The one commit at the end of the run.                                   *)
CommitRun(r) ==
    /\ run[r].active /\ run[r].todo = {}
    /\ payment' = [p \in Payments |->
                     WithAnswer(payment[p], run[r].seen[p], run[r].write[p])]
    /\ run' = [run EXCEPT ![r] = NoRun]
    /\ UNCHANGED provider

(* The run's session fails, or its process dies: nothing is written.       *)
FailRun(r) ==
    /\ run[r].active
    /\ run' = [run EXCEPT ![r] = NoRun]
    /\ UNCHANGED <<payment, provider>>

(***************************************************************************)
(* The provider.                                                           *)
(***************************************************************************)
ProviderCreates(p) ==
    /\ provider[p] = "absent"
    /\ \E s \in {"succeeded", "failed"} : provider' = [provider EXCEPT ![p] = s]
    /\ UNCHANGED <<payment, run>>

(* configure_scenario sets any status, after a delay.                      *)
ProviderConfigures(p) ==
    /\ provider[p] # "absent"
    /\ \E s \in Scenarios : provider' = [provider EXCEPT ![p] = s]
    /\ UNCHANGED <<payment, run>>

ProviderCancels(p) ==
    /\ provider[p] \in {"pending", "processing"}
    /\ provider' = [provider EXCEPT ![p] = "canceled"]
    /\ UNCHANGED <<payment, run>>

(* create_refund: of the whole amount or of a part; a payment refunded in  *)
(* part is not refunded again.                                             *)
ProviderRefunds(p) ==
    /\ provider[p] = "succeeded"
    /\ \E s \in {"refunded", "partially_refunded"} :
         provider' = [provider EXCEPT ![p] = s]
    /\ UNCHANGED <<payment, run>>

(***************************************************************************)
(* The component.                                                          *)
(***************************************************************************)
ReconciliationInit ==
    /\ provider = [p \in Payments |-> "absent"]
    /\ run = [r \in Runs |-> NoRun]

ReconciliationNext ==
    \/ \E r \in Runs :
         \/ StartPending(r)
         \/ StartStale(r)
         \/ StartSingle(r)
         \/ \E p \in Payments : Ask(r, p) \/ AskFails(r, p)
         \/ CommitRun(r)
         \/ FailRun(r)
    \/ \E p \in Payments :
         \/ ProviderCreates(p)
         \/ ProviderConfigures(p)
         \/ ProviderCancels(p)
         \/ ProviderRefunds(p)

ReconciliationTypeOK ==
    /\ provider \in [Payments -> Status \cup {"absent"}]
    /\ run \in [Runs -> Run]
=============================================================================

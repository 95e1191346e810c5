---------------------------- MODULE PaymentSystem ----------------------------
(***************************************************************************)
(* The payment subsystem: webhook deliveries and reconciliation runs over  *)
(* one payments table.  The two services never call each other and take no *)
(* lock; they meet in the rows they read and write.                        *)
(***************************************************************************)
EXTENDS PaymentWebhooks, PaymentReconciliation, FiniteSets

ASSUME FiniteEvents == IsFiniteSet(Events)

vars == <<payment, event, acked, worker, provider, run>>

Init == PaymentsInit /\ WebhookInit /\ ReconciliationInit

Create == /\ \E p \in Payments : StorePayment(p)
          /\ UNCHANGED <<webhookVars, reconciliationVars>>

Webhooks == WebhookNext /\ UNCHANGED reconciliationVars

Reconciliation == ReconciliationNext /\ UNCHANGED webhookVars

Next == Create \/ Webhooks \/ Reconciliation

Spec == Init /\ [][Next]_vars

(* The webhook service alone, for instances with more deliveries.          *)
WebhooksSpec == Init /\ [][Create \/ Webhooks]_vars

(* Every variable has its type; a busy worker has a job.                   *)
TypeOK == PaymentsTypeOK /\ WebhookTypeOK /\ ReconciliationTypeOK

(***************************************************************************)
(* Safety.                                                                 *)
(***************************************************************************)

(* A provider told that its event is processed (and so free to forget it)  *)
(* is told so only after the record that says so is committed: across the  *)
(* fast path, the commit, and the answer given after an IntegrityError.    *)
AckedIsProcessed == acked \subseteq Processed

(* An event's record and its payment agree: a record is processed exactly  *)
(* when it is linked, links only a stored payment, and no attempt of an    *)
(* event without a record leaves a trace.                                  *)
RecordsAreConsistent ==
    \A e \in Events :
        /\ event[e].processed = event[e].linked
        /\ event[e].linked => event[e].stored /\ Exists(payment[PaymentOf[e]])
        /\ ~event[e].stored => event[e].attempts = 0

ProcessedOf(p) == {e \in Processed : PaymentOf[e] = p}

(* webhook_events_count never counts an event twice, whatever is delivered *)
(* again, retried or handled by two workers at a time: each payment counts *)
(* at most its processed events.  (It may count fewer: an event that does  *)
(* not change the status is not counted, and of two workers that have read *)
(* the same row one overwrites the other's count.)                         *)
CountsEachEventOnce ==
    \A p \in Payments : payment[p].count <= Cardinality(ProcessedOf(p))

(* A payment that says it is paid, failed or canceled has the time of it,  *)
(* though handlers decide from stale rows whether to set the timestamp.    *)
StatusHasTimestamp ==
    \A p \in Payments :
        payment[p].status \in Stamped => payment[p].status \in payment[p].stamps

(* What a session has read is never ahead of what is stored, and what it   *)
(* concluded from it is still true when it commits: a payment that was     *)
(* found is still stored, its timestamps are still set, each event counted *)
(* in it is still processed; a failed event under retry is still failed.   *)
CopyIsOld(w) ==
    LET row == worker[w].row IN
      \A p \in Payments :
          /\ worker[w].at = "commit" /\ Exists(row)
          /\ p = PaymentOf[worker[w].job]
          => /\ Exists(payment[p])
             /\ row.stamps \subseteq payment[p].stamps
             /\ row.count <= Cardinality(ProcessedOf(p))

RetryIsOfFailed(w) ==
    worker[w].at = "retry" =>
        ~worker[w].record.linked /\ event[worker[w].job].stored

RunSawThePast(r) ==
    \A p \in Payments :
        /\ run[r].seen[p].stamps \subseteq payment[p].stamps
        /\ p \in run[r].todo \/ run[r].write[p] # "absent" => Exists(payment[p])

SessionsSawThePast ==
    /\ \A w \in Workers : CopyIsOld(w) /\ RetryIsOfFailed(w)
    /\ \A r \in Runs : RunSawThePast(r)

AbsentRowsAreBlank ==
    \A p \in Payments : ~Exists(payment[p]) => payment[p] = AbsentRow

(* The conjunction is inductive.                                           *)
Inv ==
    /\ TypeOK
    /\ AckedIsProcessed
    /\ RecordsAreConsistent
    /\ CountsEachEventOnce
    /\ StatusHasTimestamp
    /\ SessionsSawThePast
    /\ AbsentRowsAreBlank

(***************************************************************************)
(* Action properties.                                                      *)
(***************************************************************************)

(* Run r commits the status s to payment p.                                *)
RunWrites(r, p, s) == run[r].active /\ run[r].write[p] = s /\ ~run'[r].active

(* The status of a stored payment changes only to the status of an event   *)
(* that the same commit marks processed, or to the answer that a           *)
(* reconciliation run was given about this payment: a crash, a rollback or *)
(* an IntegrityError never leaves a status without its cause on record.    *)
ChangesHaveCause ==
    \A p \in Stored :
        LET s == payment'[p].status IN
          s # payment[p].status =>
            \/ \E e \in Events :
                 /\ PaymentOf[e] = p /\ StatusOf[e] = s
                 /\ ~event[e].processed /\ event'[e].processed
            \/ \E r \in Runs : RunWrites(r, p, s)

StatusChangesHaveCause == [][ChangesHaveCause]_vars

(* What is committed about the past stays: stored payments, timestamps,    *)
(* records and processed flags, under every race of sessions that have     *)
(* read the same rows.  (Counters are not part of it: a session that has   *)
(* read an old webhook_events_count or processing_attempts lowers it.)     *)
HistoryGrows ==
    /\ \A p \in Payments :
         /\ Exists(payment[p]) => Exists(payment'[p])
         /\ payment[p].stamps \subseteq payment'[p].stamps
    /\ \A e \in Events : /\ event[e].stored => event'[e].stored
                         /\ event[e].processed => event'[e].processed

HistoryIsKept == [][HistoryGrows]_vars

(***************************************************************************)
(* The abstract specification: a ledger that applies each event once.      *)
(***************************************************************************)
Outcome == [e \in Events |-> IF event[e].processed THEN "applied"
                             ELSE IF event[e].stored THEN "failed" ELSE "new"]

Ledger == INSTANCE PaymentLedger
            WITH status <- [p \in Payments |-> payment[p].status],
                 outcome <- Outcome,
                 Statuses <- Status,
                 Observers <- Runs

(* Every behaviour of the two services is one of the ledger's: an event is *)
(* applied at most once, to a stored payment, in the commit that marks it  *)
(* processed, and no status changes besides, unless a reconciliation run   *)
(* observes it.  A later delivery may apply an event recorded as failed,   *)
(* as webhook_service.py:210 has it; the code's retries never get so far   *)
(* (see RetryFinds).                                                       *)
ImplementsLedger == Ledger!Spec
=============================================================================

--------------------------- MODULE PaymentWebhooks ---------------------------
(***************************************************************************)
(* WebhookService (backend/app/domain/payments/services/                   *)
(* webhook_service.py): each worker handles one delivery of a provider's   *)
(* event at a time, in a database session of its own.                      *)
(*                                                                         *)
(* A delivery is a transaction of three statements with the scheduler free *)
(* to run other sessions between them: read the event's record, read the   *)
(* payment, commit.  The commit is one atomic step: it inserts the record  *)
(* and updates the payment, or, when another session has inserted a record *)
(* of the same event first, hits the unique index                          *)
(* idx_webhook_provider_event and rolls both back.                         *)
(***************************************************************************)
EXTENDS Payments

CONSTANTS
    Events,         \* provider events, each with its provider_event_id
    NoEvent,        \* the job of an idle worker
    PaymentOf,      \* the payment an event is about
    StatusOf,       \* the status parse_webhook finds in it
    Workers,        \* request handlers that may run at the same time
    MaxAttempts     \* bound: no retry is started that could count beyond it

ASSUME EventsAssumption ==
    /\ NoEvent \notin Events
    /\ PaymentOf \in [Events -> Payments]
    /\ StatusOf \in [Events -> Status]
    /\ MaxAttempts \in Nat

VARIABLES
    event,      \* the payment_webhook_events table
    acked,      \* events for which some delivery was answered processed=True
    worker      \* what each worker is doing and has read

webhookVars == <<event, acked, worker>>

(* A record of an event: whether it is stored, its processed flag, whether *)
(* payment_id is set, and processing_attempts.                             *)
Record == [stored: BOOLEAN, processed: BOOLEAN, linked: BOOLEAN, attempts: Nat]

NoRecord == [stored |-> FALSE, processed |-> FALSE, linked |-> FALSE,
             attempts |-> 0]

Processed == {e \in Events : event[e].processed}

(* A worker: the point it has reached, the event it handles, and the event *)
(* record and the payment row as it has read them.                         *)
Worker == [at: {"idle", "find", "commit", "retry"}, job: Events \cup {NoEvent},
           record: Record, row: Row]

Idle == [at |-> "idle", job |-> NoEvent, record |-> NoRecord, row |-> AbsentRow]

Release(w) == worker' = [worker EXCEPT ![w] = Idle]

(***************************************************************************)
(* The steps of _process_webhook_event.                                    *)
(***************************************************************************)

(* Mutant: the worker forgets which event it handles.                      *)
ReceiveNewForgets(w, e) ==
    /\ worker[w].at = "idle"
    /\ ~event[e].stored
    /\ worker' = [worker EXCEPT ![w] = [Idle EXCEPT !.at = "find"]]
    /\ UNCHANGED <<payment, event, acked>>

(* A delivery arrives and its record is looked up: there is none.          *)
ReceiveNew(w, e) ==
    /\ worker[w].at = "idle"
    /\ ~event[e].stored
    /\ worker' = [worker EXCEPT ![w] = [Idle EXCEPT !.at = "find", !.job = e]]
    /\ UNCHANGED <<payment, event, acked>>

(* The record says processed: the delivery is answered at once.            *)
ReceiveProcessed(w, e) ==
    /\ worker[w].at = "idle"
    /\ event[e].processed
    /\ acked' = acked \cup {e}
    /\ UNCHANGED <<payment, event, worker>>

(* The record says it is not processed: _retry_webhook_processing.         *)
ReceiveFailed(w, e) ==
    /\ worker[w].at = "idle"
    /\ event[e].stored /\ ~event[e].processed
    /\ event[e].attempts + 2 <= MaxAttempts
    /\ worker' = [worker EXCEPT
         ![w] = [Idle EXCEPT !.at = "retry", !.job = e, !.record = event[e]]]
    /\ UNCHANGED <<payment, event, acked>>

(* _find_payment_by_provider_id; the row is absent when nothing is found.  *)
FindPayment(w) ==
    /\ worker[w].at = "find"
    /\ worker' = [worker EXCEPT ![w].at = "commit",
                                ![w].row = payment[PaymentOf[worker[w].job]]]
    /\ UNCHANGED <<payment, event, acked>>

(* Mutant: the commit writes every timestamp, with NULL for the others.    *)
WithEventAlone(row, seen, s) ==
    IF seen.status = s THEN row
    ELSE [status |-> s, stamps |-> {s} \cap Stamped, count |-> seen.count + 1]

(* _update_payment_status, as the commit writes it over the stored row:    *)
(* nothing if the row the worker has seen had the status already.          *)
WithEvent(row, seen, s) ==
    IF seen.status = s THEN row
    ELSE [status |-> s, stamps |-> row.stamps \cup NewStamps(seen, s),
          count  |-> seen.count + 1]

(* The new record: processing_attempts starts at 1, and mark_failed adds   *)
(* another one.                                                            *)
NewRecord(found) ==
    [stored |-> TRUE, processed |-> found, linked |-> found,
     attempts |-> IF found THEN 1 ELSE 2]

(* The payment was found: the event is applied and its record inserted.    *)
CommitProcessed(w) ==
    LET e == worker[w].job
        p == PaymentOf[e]
    IN  /\ worker[w].at = "commit"
        /\ Exists(worker[w].row)
        /\ ~event[e].stored
        /\ payment' = [payment EXCEPT
                         ![p] = WithEvent(@, worker[w].row, StatusOf[e])]
        /\ event' = [event EXCEPT ![e] = NewRecord(TRUE)]
        /\ acked' = acked \cup {e}
        /\ Release(w)

(* The payment was not found: the record is inserted as failed.            *)
CommitNotFound(w) ==
    LET e == worker[w].job
    IN  /\ worker[w].at = "commit"
        /\ ~Exists(worker[w].row)
        /\ ~event[e].stored
        /\ event' = [event EXCEPT ![e] = NewRecord(FALSE)]
        /\ Release(w)
        /\ UNCHANGED <<payment, acked>>

(* Mutant: the answer after the conflict does not look at the record.      *)
CommitConflictAcks(w) ==
    LET e == worker[w].job
    IN  /\ worker[w].at = "commit"
        /\ event[e].stored
        /\ acked' = acked \cup {e}
        /\ Release(w)
        /\ UNCHANGED <<payment, event>>

(* Mutant: the payment had been committed before the record was inserted.  *)
CommitConflictApplies(w) ==
    LET e == worker[w].job
        p == PaymentOf[e]
    IN  /\ worker[w].at = "commit"
        /\ event[e].stored
        /\ payment' = [payment EXCEPT
                         ![p] = WithEvent(@, worker[w].row, StatusOf[e])]
        /\ acked' = IF event[e].processed THEN acked \cup {e} ELSE acked
        /\ Release(w)
        /\ UNCHANGED event

(* IntegrityError: the session rolls back, reads the other session's       *)
(* record and answers with its processed flag.                             *)
CommitConflict(w) ==
    LET e == worker[w].job
    IN  /\ worker[w].at = "commit"
        /\ event[e].stored
        /\ acked' = IF event[e].processed THEN acked \cup {e} ELSE acked
        /\ Release(w)
        /\ UNCHANGED <<payment, event>>

(* Only when the record has a payment_id does a retry look for the payment. *)
(* A record without one, as CommitNotFound leaves it, is never linked later *)
(* on: the retry fails again although the payment may be stored by now.     *)
RetryFinds(w) ==
    worker[w].record.linked /\ Exists(payment[PaymentOf[worker[w].job]])

(* Mutant: a retry marks the record processed without finding the payment. *)
RetriedAlways(record, found, attempts) ==
    [record EXCEPT !.processed = TRUE, !.attempts = attempts + 1]

(* The record after a retry: marked processed, or failed once more.        *)
Retried(record, found, attempts) ==
    IF found THEN [record EXCEPT !.processed = TRUE, !.attempts = attempts + 1]
    ELSE [record EXCEPT !.attempts = attempts + 2]

(* _retry_webhook_processing on the record the worker has seen: the ORM    *)
(* writes the attempts the worker counted, and the columns of the branch   *)
(* that was taken.                                                         *)
Retry(w) ==
    LET e == worker[w].job
        p == PaymentOf[e]
        found == RetryFinds(w)
    IN  /\ worker[w].at = "retry"
        /\ event' = [event EXCEPT
             ![e] = Retried(@, found, worker[w].record.attempts)]
        /\ payment' = [payment EXCEPT
             ![p] = IF found THEN WithEvent(@, @, StatusOf[e]) ELSE @]
        /\ acked' = IF found THEN acked \cup {e} ELSE acked
        /\ Release(w)

(* Mutant: the payment is committed, and then inserting the record fails.  *)
FailHalfway(w) ==
    LET p == PaymentOf[worker[w].job]
    IN  /\ worker[w].at # "idle"
        /\ payment' = [payment EXCEPT ![p] =
             IF Exists(@) /\ worker[w].at = "commit" /\ Exists(worker[w].row)
             THEN WithEvent(@, worker[w].row, StatusOf[worker[w].job]) ELSE @]
        /\ Release(w)
        /\ UNCHANGED <<event, acked>>

(* A statement or the commit fails, or the process dies: the transaction   *)
(* is rolled back and the delivery answered processed=False or not at all. *)
(* (The second commit that _retry_webhook_processing tries in its error    *)
(* path reads an attribute the rollback has expired, which an asynchronous *)
(* session refuses: it raises and nothing is stored.)                      *)
Fail(w) ==
    /\ worker[w].at # "idle"
    /\ Release(w)
    /\ UNCHANGED <<payment, event, acked>>

(***************************************************************************)
(* The component.                                                          *)
(***************************************************************************)
WebhookInit ==
    /\ event = [e \in Events |-> NoRecord]
    /\ acked = {}
    /\ worker = [w \in Workers |-> Idle]

Handle(w) ==
    \/ \E e \in Events : \/ ReceiveNew(w, e)
                         \/ ReceiveProcessed(w, e)
                         \/ ReceiveFailed(w, e)
    \/ FindPayment(w)
    \/ CommitProcessed(w)
    \/ CommitNotFound(w)
    \/ CommitConflict(w)
    \/ Retry(w)
    \/ Fail(w)

WebhookNext == \E w \in Workers : Handle(w)

WebhookTypeOK ==
    /\ event \in [Events -> Record]
    /\ acked \subseteq Events
    /\ worker \in [Workers -> Worker]
    /\ \A w \in Workers : worker[w].at # "idle" => worker[w].job \in Events
=============================================================================

---------------------------- MODULE PaymentProofs ----------------------------
(***************************************************************************)
(* Proofs about PaymentSystem, for every set of payments, finite set of    *)
(* events, set of workers and set of reconciliation runs.                  *)
(***************************************************************************)
EXTENDS PaymentSystem, FiniteSetTheorems, TLAPS

(***************************************************************************)
(* Rows.                                                                   *)
(***************************************************************************)

(* The absent row is a row.                                                *)
LEMMA AbsentRowType == AbsentRow \in Row
  BY DEF AbsentRow, Row

(* Applying an event's status to a row gives a row.                        *)
LEMMA WithEventType ==
  ASSUME NEW row \in Row, NEW seen \in Row, NEW s \in Status
  PROVE  /\ WithEvent(row, seen, s) \in Row
         /\ Exists(row) => Exists(WithEvent(row, seen, s))
         /\ row.stamps \subseteq WithEvent(row, seen, s).stamps
         /\ WithEvent(row, seen, s).status \in {row.status, s}
         /\ WithEvent(row, seen, s).count \in {row.count, seen.count + 1}
  BY DEF WithEvent, Row, Exists, NewStamps, Status

(* The timestamp of the row's status is set, if there is a column for it.  *)
HasTimestamp(row) == row.status \in Stamped => row.status \in row.stamps

(* A timestamp that the old copy of the row has is still set in the row,   *)
(* so leaving it alone is right: the new status has its timestamp.         *)
LEMMA WithEventTimestamp ==
  ASSUME NEW row \in Row, NEW seen \in Row, NEW s \in Status,
         seen.stamps \subseteq row.stamps, HasTimestamp(row)
  PROVE  HasTimestamp(WithEvent(row, seen, s))
  BY DEF WithEvent, HasTimestamp, Row, NewStamps

(* The same holds of a provider's answer.                                  *)
LEMMA WithAnswerTimestamp ==
  ASSUME NEW row \in Row, NEW seen \in Row, NEW s \in Status \cup {"absent"},
         seen.stamps \subseteq row.stamps, HasTimestamp(row)
  PROVE  HasTimestamp(WithAnswer(row, seen, s))
  BY DEF WithAnswer, HasTimestamp, Row, NewStamps

(* Writing a provider's answer over a row gives a row.                     *)
LEMMA WithAnswerType ==
  ASSUME NEW row \in Row, NEW seen \in Row, NEW s \in Status \cup {"absent"}
  PROVE  /\ WithAnswer(row, seen, s) \in Row
         /\ Exists(row) => Exists(WithAnswer(row, seen, s))
         /\ row.stamps \subseteq WithAnswer(row, seen, s).stamps
         /\ WithAnswer(row, seen, s).count = row.count
         /\ WithAnswer(row, seen, s).status =
              IF s = "absent" THEN row.status ELSE s
  BY DEF WithAnswer, Row, Exists, NewStamps, Status

(* Counting a retry changes nothing of a record but its attempts, and, if  *)
(* the payment was found, its processed flag.                              *)
LEMMA RetriedType ==
  ASSUME NEW record \in Record, NEW found \in BOOLEAN, NEW n \in Nat
  PROVE  /\ Retried(record, found, n) \in Record
         /\ Retried(record, found, n).stored = record.stored
         /\ Retried(record, found, n).linked = record.linked
         /\ ~found => Retried(record, found, n).processed = record.processed
<1>1. CASE found
  <2> DEFINE marked == [record EXCEPT !.processed = TRUE]
  <2>1. /\ marked \in Record
        /\ marked.stored = record.stored /\ marked.linked = record.linked
    BY DEF Record
  <2>2. Retried(record, found, n) = [marked EXCEPT !.attempts = n + 1]
    BY <1>1 DEF Retried
  <2> HIDE DEF marked
  <2>3. QED BY <2>1, <2>2, <1>1 DEF Record
<1>2. CASE ~found
  BY <1>2 DEF Retried, Record
<1>3. QED BY <1>1, <1>2

(***************************************************************************)
(* Type correctness.                                                       *)
(***************************************************************************)

(* The steps of a webhook worker keep the types.                           *)
LEMMA WebhooksKeepTypes ==
  ASSUME TypeOK, NEW w \in Workers, Handle(w), UNCHANGED reconciliationVars
  PROVE  TypeOK'
<1> USE EventsAssumption, AbsentRowType
    DEF TypeOK, PaymentsTypeOK, WebhookTypeOK, ReconciliationTypeOK,
        reconciliationVars
<1>0. NoRecord \in Record /\ Idle \in Worker /\ Idle.at = "idle"
  BY DEF NoRecord, Record, Idle, Worker
<1>1. ASSUME NEW e \in Events, ReceiveNew(w, e)
      PROVE  TypeOK'
  BY <1>1, <1>0 DEF ReceiveNew, Idle, Worker
<1>2. ASSUME NEW e \in Events, ReceiveProcessed(w, e)
      PROVE  TypeOK'
  BY <1>2 DEF ReceiveProcessed
<1>3. ASSUME NEW e \in Events, ReceiveFailed(w, e)
      PROVE  TypeOK'
  BY <1>3, <1>0 DEF ReceiveFailed, Idle, Worker
<1>4. CASE FindPayment(w)
  <2>1. PICK old \in Worker : old = worker[w]
    OBVIOUS
  <2>2. PICK row \in Row : row = payment[PaymentOf[old.job]]
    BY <1>4, <2>1 DEF FindPayment
  <2>3. PICK new \in Worker : new = [old EXCEPT !.at = "commit", !.row = row]
    BY DEF Worker
  <2>4. worker' = [worker EXCEPT ![w] = new]
    BY <1>4, <2>1, <2>2, <2>3 DEF FindPayment
  <2>5. old.job \in Events /\ new.job = old.job
    BY <1>4, <2>1, <2>3 DEF FindPayment, Worker
  <2>6. worker' \in [Workers -> Worker]
    BY <2>4
  <2>7. \A v \in Workers : worker'[v].at # "idle" => worker'[v].job \in Events
    BY <2>1, <2>4, <2>5
  <2> QED BY <1>4, <2>6, <2>7 DEF FindPayment
<1>5. CASE CommitProcessed(w)
  <2>1. payment' \in [Payments -> Row]
    BY <1>5, WithEventType DEF CommitProcessed, Worker
  <2>2. event' \in [Events -> Record] /\ acked' \subseteq Events
    BY <1>5 DEF CommitProcessed, NewRecord, Record, Worker
  <2>3. QED BY <2>1, <2>2, <1>0, <1>5 DEF CommitProcessed, Release
<1>6. CASE CommitNotFound(w)
  BY <1>6, <1>0 DEF CommitNotFound, Release, NewRecord, Record
<1>7. CASE CommitConflict(w)
  BY <1>7, <1>0 DEF CommitConflict, Release, Worker
<1>8. CASE Retry(w)
  <2>1. payment' \in [Payments -> Row]
    BY <1>8, WithEventType DEF Retry, Worker
  <2>2. event' \in [Events -> Record] /\ acked' \subseteq Events
    <3>1. RetryFinds(w) \in BOOLEAN /\ worker[w].record.attempts \in Nat
      BY DEF RetryFinds, Worker, Record, Exists
    <3>2. QED BY <3>1, <1>8, RetriedType DEF Retry, Worker
  <2>3. QED BY <2>1, <2>2, <1>0, <1>8 DEF Retry, Release
<1>9. CASE Fail(w)
  BY <1>9, <1>0 DEF Fail, Release
<1>10. QED
  BY <1>1, <1>2, <1>3, <1>4, <1>5, <1>6, <1>7, <1>8, <1>9 DEF Handle

(* The steps of reconciliation runs and of the provider keep the types.    *)
LEMMA ReconciliationKeepsTypes ==
  ASSUME TypeOK, ReconciliationNext, UNCHANGED webhookVars
  PROVE  TypeOK'
<1> USE ScenariosAssumption, AbsentRowType
    DEF TypeOK, PaymentsTypeOK, WebhookTypeOK, ReconciliationTypeOK, webhookVars
<1>0. NoRun \in Run
  BY DEF NoRun, Run
<1>1. ASSUME NEW r \in Runs, NEW selected \in SUBSET Payments,
             Selects(r, selected)
      PROVE  TypeOK'
  <2> DEFINE seen == [p \in Payments |-> IF p \in selected THEN payment[p]
                                         ELSE AbsentRow]
             new == [NoRun EXCEPT !.active = TRUE, !.todo = selected,
                                  !.seen = seen]
  <2>1. seen \in [Payments -> Row]
    OBVIOUS
  <2>2. new \in Run
    <3> HIDE DEF seen
    <3>1. QED BY <2>1 DEF NoRun, Run
  <2>3. run' = [run EXCEPT ![r] = new] /\ UNCHANGED <<payment, provider>>
    BY <1>1 DEF Selects
  <2> HIDE DEF new
  <2>4. QED BY <2>2, <2>3
<1>2. ASSUME NEW r \in Runs, StartPending(r) \/ StartStale(r) \/ StartSingle(r)
      PROVE  TypeOK'
  BY <1>1, <1>2 DEF StartPending, StartStale, StartSingle, InStatus, Stored
<1>3. ASSUME NEW r \in Runs, NEW p \in Payments, Ask(r, p)
      PROVE  TypeOK'
  <2>1. PICK s \in Answers(p) :
          /\ provider' = [provider EXCEPT ![p] = s]
          /\ run' = [run EXCEPT
               ![r].todo = @ \ {p},
               ![r].write[p] = IF run[r].seen[p].status # s THEN s ELSE "absent"]
    BY <1>3 DEF Ask
  <2>2. s \in Status
    BY <1>3 DEF Ask, Answers, Status
  <2>3. provider' \in [Payments -> Status \cup {"absent"}]
    BY <2>1, <2>2
  <2>4. run' \in [Runs -> Run]
    <3> DEFINE answer == IF run[r].seen[p].status # s THEN s ELSE "absent"
               asked == [run EXCEPT ![r].todo = @ \ {p}]
    <3>1. asked \in [Runs -> Run]
      BY DEF Run
    <3>2. run' = [asked EXCEPT ![r].write[p] = answer]
      BY <2>1
    <3>3. answer \in Status \cup {"absent"}
      BY <2>2
    <3> HIDE DEF answer, asked
    <3>4. PICK now \in Run : now = asked[r]
      BY <3>1
    <3>5. [now.write EXCEPT ![p] = answer] \in [Payments -> Status \cup {"absent"}]
      BY <3>3 DEF Run
    <3>6. PICK write \in [Payments -> Status \cup {"absent"}] :
            write = [now.write EXCEPT ![p] = answer]
      BY <3>5
    <3>7. [now EXCEPT !.write = write] \in Run
      BY DEF Run
    <3>8. PICK next \in Run : next = [now EXCEPT !.write = write]
      BY <3>7
    <3>9. run' = [asked EXCEPT ![r] = next]
      BY <3>2, <3>4, <3>6, <3>8
    <3>10. QED BY <3>1, <3>8, <3>9
  <2>5. QED BY <1>3, <2>3, <2>4 DEF Ask
<1>4. ASSUME NEW r \in Runs, NEW p \in Payments, AskFails(r, p)
      PROVE  TypeOK'
  <2>1. run' \in [Runs -> Run]
    BY <1>4, ZenonT(60) DEF AskFails, Run
  <2>2. QED BY <1>4, <2>1 DEF AskFails
<1>5. ASSUME NEW r \in Runs, CommitRun(r)
      PROVE  TypeOK'
  <2>1. payment' \in [Payments -> Row]
    BY <1>5, WithAnswerType DEF CommitRun, Run
  <2>2. QED BY <1>0, <1>5, <2>1 DEF CommitRun
<1>6. ASSUME NEW r \in Runs, FailRun(r)
      PROVE  TypeOK'
  BY <1>0, <1>6 DEF FailRun
<1>7. ASSUME NEW p \in Payments,
             \/ ProviderCreates(p) \/ ProviderConfigures(p)
             \/ ProviderCancels(p) \/ ProviderRefunds(p)
      PROVE  TypeOK'
  BY <1>7 DEF ProviderCreates, ProviderConfigures, ProviderCancels,
              ProviderRefunds, Status
<1>8. QED
  BY <1>2, <1>3, <1>4, <1>5, <1>6, <1>7 DEF ReconciliationNext

(* Every step keeps the types.                                             *)
LEMMA StepsKeepTypes == TypeOK /\ [Next]_vars => TypeOK'
<1> SUFFICES ASSUME TypeOK, [Next]_vars PROVE TypeOK'
  OBVIOUS
<1>1. CASE Create
  BY <1>1, AbsentRowType
  DEF Create, StorePayment, TypeOK, PaymentsTypeOK, WebhookTypeOK,
      ReconciliationTypeOK, webhookVars, reconciliationVars, AbsentRow, Row,
      Status
<1>2. CASE Webhooks
  BY <1>2, WebhooksKeepTypes DEF Webhooks, WebhookNext
<1>3. CASE Reconciliation
  BY <1>3, ReconciliationKeepsTypes DEF Reconciliation
<1>4. CASE UNCHANGED vars
  BY <1>4 DEF vars, TypeOK, PaymentsTypeOK, WebhookTypeOK, ReconciliationTypeOK
<1>5. QED
  BY <1>1, <1>2, <1>3, <1>4 DEF Next

(* Every variable of the payment subsystem keeps its type.                 *)
THEOREM TypeCorrect == Spec => []TypeOK
<1>1. Init => TypeOK
  BY AbsentRowType
  DEF Init, PaymentsInit, WebhookInit, ReconciliationInit, TypeOK,
      PaymentsTypeOK, WebhookTypeOK, ReconciliationTypeOK, NoRecord, Record,
      Idle, Worker, NoRun, Run
<1>2. QED
  BY <1>1, StepsKeepTypes, PTL DEF Spec

(***************************************************************************)
(* The inductive invariant.                                                *)
(***************************************************************************)

(* Processed events are counted: their number never falls, and grows with  *)
(* each event that becomes processed.                                      *)
LEMMA ProcessedCount ==
  ASSUME NEW p \in Payments,
         \A e \in Events : event[e].processed => event'[e].processed
  PROVE  /\ Cardinality(ProcessedOf(p)) \in Nat
         /\ Cardinality(ProcessedOf(p)') \in Nat
         /\ Cardinality(ProcessedOf(p)) <= Cardinality(ProcessedOf(p)')
         /\ \A e \in Events :
              PaymentOf[e] = p /\ ~event[e].processed /\ event'[e].processed =>
                Cardinality(ProcessedOf(p)) + 1 <= Cardinality(ProcessedOf(p)')
<1>1. ProcessedOf(p) \subseteq Events /\ ProcessedOf(p)' \subseteq Events
  BY DEF ProcessedOf, Processed
<1>2. ProcessedOf(p) \subseteq ProcessedOf(p)'
  BY DEF ProcessedOf, Processed
<1>3. IsFiniteSet(ProcessedOf(p)) /\ IsFiniteSet(ProcessedOf(p)')
  BY <1>1, FiniteEvents, FS_Subset
<1>4. /\ Cardinality(ProcessedOf(p)) \in Nat
      /\ Cardinality(ProcessedOf(p)') \in Nat
      /\ Cardinality(ProcessedOf(p)) <= Cardinality(ProcessedOf(p)')
  BY <1>2, <1>3, FS_Subset, FS_CardinalityType
<1>5. ASSUME NEW e \in Events,
             PaymentOf[e] = p /\ ~event[e].processed /\ event'[e].processed
      PROVE  Cardinality(ProcessedOf(p)) + 1 <= Cardinality(ProcessedOf(p)')
  <2>1. e \notin ProcessedOf(p) /\ e \in ProcessedOf(p)'
    BY <1>5 DEF ProcessedOf, Processed
  <2>2. ProcessedOf(p) # ProcessedOf(p)'
    BY <2>1
  <2>3. Cardinality(ProcessedOf(p)') # Cardinality(ProcessedOf(p))
    BY <1>2, <1>3, <2>2, FS_Subset
  <2>4. QED BY <1>4, <2>3
<1>6. QED BY <1>4, <1>5

(* Copies a session has made stay old while what is stored grows.          *)
LEMMA CopiesStayOld ==
  ASSUME TypeOK, HistoryGrows
  PROVE  /\ \A w \in Workers :
              worker'[w] = worker[w] /\ CopyIsOld(w) => CopyIsOld(w)'
         /\ \A w \in Workers :
              worker'[w] = worker[w] /\ RetryIsOfFailed(w) => RetryIsOfFailed(w)'
         /\ \A r \in Runs :
              run'[r] = run[r] /\ RunSawThePast(r) => RunSawThePast(r)'
<1>1. ASSUME NEW w \in Workers, worker'[w] = worker[w], CopyIsOld(w)
      PROVE  CopyIsOld(w)'
  <2> SUFFICES ASSUME NEW p \in Payments, worker[w].at = "commit",
                      Exists(worker[w].row), p = PaymentOf[worker[w].job]
               PROVE  /\ Exists(payment'[p])
                      /\ worker[w].row.stamps \subseteq payment'[p].stamps
                      /\ worker[w].row.count <= Cardinality(ProcessedOf(p)')
    BY <1>1 DEF CopyIsOld
  <2>1. /\ Exists(payment[p]) /\ worker[w].row.stamps \subseteq payment[p].stamps
        /\ worker[w].row.count <= Cardinality(ProcessedOf(p))
    BY <1>1 DEF CopyIsOld
  <2>2. Exists(payment'[p]) /\ payment[p].stamps \subseteq payment'[p].stamps
    BY <2>1 DEF HistoryGrows
  <2>3. /\ Cardinality(ProcessedOf(p)) \in Nat
        /\ Cardinality(ProcessedOf(p)') \in Nat
        /\ Cardinality(ProcessedOf(p)) <= Cardinality(ProcessedOf(p)')
    BY ProcessedCount DEF HistoryGrows
  <2>4. worker[w].row.count \in Nat
    BY DEF TypeOK, WebhookTypeOK, Worker, Row
  <2>5. QED BY <2>1, <2>2, <2>3, <2>4
<1>2. ASSUME NEW w \in Workers, worker'[w] = worker[w], RetryIsOfFailed(w)
      PROVE  RetryIsOfFailed(w)'
  BY <1>2 DEF RetryIsOfFailed, HistoryGrows, TypeOK, WebhookTypeOK
<1>3. ASSUME NEW r \in Runs, run'[r] = run[r], RunSawThePast(r)
      PROVE  RunSawThePast(r)'
  BY <1>3 DEF RunSawThePast, HistoryGrows, Exists
<1>4. QED BY <1>1, <1>2, <1>3

(* A step of one worker leaves what the other sessions have read old.      *)
LEMMA SessionsStayBehind ==
  ASSUME Inv, HistoryGrows, UNCHANGED run, NEW w \in Workers,
         \A v \in Workers \ {w} : worker'[v] = worker[v],
         CopyIsOld(w)', RetryIsOfFailed(w)'
  PROVE  SessionsSawThePast'
<1>1. ASSUME NEW v \in Workers PROVE CopyIsOld(v)' /\ RetryIsOfFailed(v)'
  <2>1. CASE v = w
    BY <2>1
  <2>2. CASE v # w
    <3>1. worker'[v] = worker[v] /\ CopyIsOld(v) /\ RetryIsOfFailed(v)
      BY <2>2 DEF Inv, SessionsSawThePast
    <3>2. QED BY <3>1, CopiesStayOld DEF Inv
  <2>3. QED BY <2>1, <2>2
<1>2. ASSUME NEW r \in Runs PROVE RunSawThePast(r)'
  BY CopiesStayOld DEF Inv, SessionsSawThePast
<1>3. QED BY <1>1, <1>2 DEF SessionsSawThePast

(* What every step does: it keeps the invariant and obeys the two action   *)
(* properties.                                                             *)
GoodStep == Inv' /\ HistoryGrows /\ ChangesHaveCause

(* Steps of a worker that write neither table.                             *)
LEMMA ReadingSteps ==
  ASSUME Inv, TypeOK', UNCHANGED <<payment, event, provider, run>>,
         NEW w \in Workers, \A v \in Workers \ {w} : worker'[v] = worker[v],
         acked' \subseteq Processed, CopyIsOld(w)', RetryIsOfFailed(w)'
  PROVE  GoodStep
<1>1. HistoryGrows /\ ChangesHaveCause
  BY DEF HistoryGrows, ChangesHaveCause, Stored
<1>2. SessionsSawThePast'
  BY <1>1, SessionsStayBehind
<1>3. AckedIsProcessed'
  BY DEF AckedIsProcessed, Processed
<1>4. /\ RecordsAreConsistent' /\ CountsEachEventOnce' /\ StatusHasTimestamp'
      /\ AbsentRowsAreBlank'
  BY DEF Inv, RecordsAreConsistent, CountsEachEventOnce, StatusHasTimestamp,
         AbsentRowsAreBlank, ProcessedOf, Processed, Exists
<1>5. QED BY <1>1, <1>2, <1>3, <1>4 DEF GoodStep, Inv

(* The commit that applies an event and records it.                        *)
LEMMA CommitProcessedIsGood ==
  ASSUME Inv, TypeOK', NEW w \in Workers, CommitProcessed(w),
         UNCHANGED reconciliationVars
  PROVE  GoodStep
<1>1. PICK e \in Events, p \in Payments, s \in Status, seen \in Row :
        /\ e = worker[w].job /\ seen = worker[w].row
        /\ p = PaymentOf[e] /\ s = StatusOf[e]
  BY EventsAssumption
  DEF CommitProcessed, Inv, TypeOK, WebhookTypeOK, Worker
<1>2. /\ payment[p] \in Row
      /\ payment \in [Payments -> Row] /\ event \in [Events -> Record]
      /\ ~event[e].stored /\ ~event[e].processed
  BY <1>1 DEF CommitProcessed, Inv, TypeOK, WebhookTypeOK, PaymentsTypeOK,
     RecordsAreConsistent
<1>3. /\ Exists(payment[p]) /\ seen.stamps \subseteq payment[p].stamps
      /\ seen.count <= Cardinality(ProcessedOf(p))
  BY <1>1 DEF Inv, SessionsSawThePast, CopyIsOld, CommitProcessed
<1>4. /\ payment' = [payment EXCEPT ![p] = WithEvent(payment[p], seen, s)]
      /\ event' = [event EXCEPT ![e] = NewRecord(TRUE)]
      /\ acked' = acked \cup {e}
      /\ worker' = [worker EXCEPT ![w] = Idle]
      /\ UNCHANGED <<provider, run>>
  BY <1>1 DEF CommitProcessed, Release, reconciliationVars
<1>5. /\ event'[e].stored /\ event'[e].processed /\ event'[e].linked
      /\ \A f \in Events : f # e => event'[f] = event[f]
  <2>1. event'[e] = NewRecord(TRUE) /\ \A f \in Events : f # e => event'[f] = event[f]
    BY <1>2, <1>4
  <2>2. NewRecord(TRUE).stored /\ NewRecord(TRUE).processed /\ NewRecord(TRUE).linked
    BY DEF NewRecord
  <2>3. QED BY <2>1, <2>2
<1>6. HistoryGrows
  BY <1>2, <1>3, <1>4, <1>5, WithEventType DEF HistoryGrows
<1>7. ChangesHaveCause
  <2> SUFFICES ASSUME NEW q \in Stored, payment'[q].status # payment[q].status
               PROVE  /\ PaymentOf[e] = q /\ StatusOf[e] = payment'[q].status
                      /\ ~event[e].processed /\ event'[e].processed
    BY <1>2 DEF ChangesHaveCause
  <2>1. q = p
    BY <1>2, <1>4 DEF Stored
  <2>2. payment'[p].status = s
    BY <1>2, <1>4, <2>1, WithEventType
  <2>3. QED BY <1>1, <1>2, <1>4, <1>5, <2>1, <2>2
<1>8. SessionsSawThePast'
  <2>1. worker'[w].at = "idle" /\ \A v \in Workers \ {w} : worker'[v] = worker[v]
    BY <1>4 DEF Idle, Inv, TypeOK, WebhookTypeOK
  <2>2. CopyIsOld(w)' /\ RetryIsOfFailed(w)'
    BY <2>1 DEF CopyIsOld, RetryIsOfFailed
  <2>3. QED BY <1>4, <1>6, <2>1, <2>2, SessionsStayBehind
<1>9. AckedIsProcessed'
  BY <1>2, <1>4, <1>5 DEF AckedIsProcessed, Processed, Inv
<1>10. RecordsAreConsistent'
  <2> SUFFICES ASSUME NEW f \in Events
               PROVE  /\ event'[f].processed <=> event'[f].linked
                      /\ event'[f].linked => /\ event'[f].stored
                                            /\ Exists(payment'[PaymentOf[f]])
                      /\ ~event'[f].stored => event'[f].attempts = 0
    BY DEF RecordsAreConsistent, TypeOK, WebhookTypeOK, Record
  <2>1. CASE f = e
    BY <1>1, <1>3, <1>5, <1>6, <2>1 DEF HistoryGrows
  <2>2. CASE f # e
    <3>1. PaymentOf[f] \in Payments
      BY EventsAssumption
    <3>2. QED BY <1>5, <1>6, <2>2, <3>1 DEF HistoryGrows, RecordsAreConsistent, Inv
  <2>3. QED BY <2>1, <2>2
<1>11. CountsEachEventOnce'
  <2> SUFFICES ASSUME NEW q \in Payments
               PROVE  payment'[q].count <= Cardinality(ProcessedOf(q)')
    BY DEF CountsEachEventOnce
  <2>1. /\ Cardinality(ProcessedOf(q)) \in Nat
        /\ Cardinality(ProcessedOf(q)') \in Nat
        /\ Cardinality(ProcessedOf(q)) <= Cardinality(ProcessedOf(q)')
        /\ q = p => Cardinality(ProcessedOf(q)) + 1
                      <= Cardinality(ProcessedOf(q)')
    BY <1>1, <1>2, <1>4, <1>5, <1>6, ProcessedCount DEF HistoryGrows
  <2>2. payment[q].count <= Cardinality(ProcessedOf(q)) /\ payment[q].count \in Nat
    BY <1>2 DEF Inv, CountsEachEventOnce, Row
  <2>3. CASE q = p
    <3>1. payment'[p].count \in {payment[p].count, seen.count + 1}
      BY <1>2, <1>4, WithEventType
    <3>2. seen.count \in Nat
      BY <1>2 DEF Row
    <3>3. QED BY <1>3, <2>1, <2>2, <2>3, <3>1, <3>2
  <2>4. CASE q # p
    BY <1>2, <1>4, <2>1, <2>2, <2>4
  <2>5. QED BY <2>3, <2>4
<1>12. StatusHasTimestamp'
  BY <1>2, <1>3, <1>4, WithEventTimestamp
  DEF StatusHasTimestamp, HasTimestamp, Inv
<1>13. AbsentRowsAreBlank'
  BY <1>2, <1>3, <1>4, WithEventType DEF AbsentRowsAreBlank, Inv
<1>14. QED
  BY <1>6, <1>7, <1>8, <1>9, <1>10, <1>11, <1>12, <1>13 DEF GoodStep, Inv

(* Steps of a worker that only record that an event's payment was not      *)
(* found.                                                                  *)
LEMMA NotFoundSteps ==
  ASSUME Inv, TypeOK', UNCHANGED <<payment, acked, provider, run>>,
         NEW w \in Workers, worker' = [worker EXCEPT ![w] = Idle],
         NEW e \in Events, event'[e].stored,
         event'[e].processed = event[e].processed,
         event'[e].linked = event[e].linked,
         \A f \in Events : f # e => event'[f] = event[f]
  PROVE  GoodStep
<1>1. \A f \in Events : event'[f].processed <=> event[f].processed
  OBVIOUS
<1>2. HistoryGrows /\ ChangesHaveCause
  BY <1>1 DEF HistoryGrows, ChangesHaveCause, Stored, Exists
<1>3. SessionsSawThePast'
  <2>1. worker'[w].at = "idle" /\ \A v \in Workers \ {w} : worker'[v] = worker[v]
    BY DEF Idle, Inv, TypeOK, WebhookTypeOK
  <2>2. CopyIsOld(w)' /\ RetryIsOfFailed(w)'
    BY <2>1 DEF CopyIsOld, RetryIsOfFailed
  <2>3. QED BY <1>2, <2>1, <2>2, SessionsStayBehind
<1>4. Processed' = Processed /\ \A p \in Payments : ProcessedOf(p)' = ProcessedOf(p)
  BY <1>1 DEF Processed, ProcessedOf
<1>5. AckedIsProcessed' /\ CountsEachEventOnce'
  BY <1>4 DEF AckedIsProcessed, CountsEachEventOnce, Inv
<1>6. StatusHasTimestamp' /\ AbsentRowsAreBlank'
  BY DEF StatusHasTimestamp, AbsentRowsAreBlank, Inv, Exists
<1>7. RecordsAreConsistent'
  <2> SUFFICES ASSUME NEW f \in Events
               PROVE  /\ event'[f].processed <=> event'[f].linked
                      /\ event'[f].linked => /\ event'[f].stored
                                            /\ Exists(payment'[PaymentOf[f]])
                      /\ ~event'[f].stored => event'[f].attempts = 0
    BY DEF RecordsAreConsistent, TypeOK, WebhookTypeOK, Record
  <2>1. CASE f = e
    BY <2>1 DEF RecordsAreConsistent, Inv, Exists
  <2>2. CASE f # e
    BY <2>2 DEF RecordsAreConsistent, Inv, Exists
  <2>3. QED BY <2>1, <2>2
<1>8. QED BY <1>2, <1>3, <1>5, <1>6, <1>7 DEF GoodStep, Inv

(* Every step of a worker.                                                 *)
LEMMA WebhooksAreGood ==
  ASSUME Inv, TypeOK', NEW w \in Workers, Handle(w),
         UNCHANGED reconciliationVars
  PROVE  GoodStep
<1> DEFINE Others == \A v \in Workers \ {w} : worker'[v] = worker[v]
<1>0. /\ worker \in [Workers -> Worker] /\ event \in [Events -> Record]
      /\ payment \in [Payments -> Row]
      /\ acked \subseteq Processed /\ UNCHANGED <<provider, run>>
  BY DEF Inv, TypeOK, WebhookTypeOK, PaymentsTypeOK, AckedIsProcessed,
     reconciliationVars
<1>1. ASSUME NEW e \in Events, ReceiveNew(w, e) PROVE GoodStep
  <2>1. worker'[w].at = "find" /\ Others /\ UNCHANGED <<payment, event, acked>>
    BY <1>0, <1>1 DEF ReceiveNew, Idle
  <2>2. CopyIsOld(w)' /\ RetryIsOfFailed(w)'
    BY <2>1 DEF CopyIsOld, RetryIsOfFailed
  <2>3. QED BY <1>0, <2>1, <2>2, ReadingSteps
<1>2. ASSUME NEW e \in Events, ReceiveProcessed(w, e) PROVE GoodStep
  <2>1. UNCHANGED <<payment, event, worker>> /\ acked' \subseteq Processed
    BY <1>0, <1>2 DEF ReceiveProcessed, Processed
  <2>2. CopyIsOld(w)' /\ RetryIsOfFailed(w)'
    BY <2>1 DEF Inv, SessionsSawThePast, CopyIsOld, RetryIsOfFailed,
       ProcessedOf, Processed, Exists
  <2>3. QED BY <1>0, <2>1, <2>2, ReadingSteps
<1>3. ASSUME NEW e \in Events, ReceiveFailed(w, e) PROVE GoodStep
  <2>1. /\ worker'[w].at = "retry" /\ worker'[w].job = e
        /\ worker'[w].record = event[e] /\ Others
        /\ UNCHANGED <<payment, event, acked>>
    BY <1>0, <1>3 DEF ReceiveFailed, Idle
  <2>2. ~event[e].linked /\ event[e].stored
    BY <1>3 DEF ReceiveFailed, Inv, RecordsAreConsistent
  <2>3. CopyIsOld(w)' /\ RetryIsOfFailed(w)'
    BY <2>1, <2>2 DEF CopyIsOld, RetryIsOfFailed
  <2>4. QED BY <1>0, <2>1, <2>3, ReadingSteps
<1>4. CASE FindPayment(w)
  <2>1. PICK p \in Payments : p = PaymentOf[worker[w].job]
    BY <1>4, EventsAssumption DEF FindPayment, Inv, TypeOK, WebhookTypeOK
  <2>2. /\ worker'[w].at = "commit" /\ worker'[w].job = worker[w].job
        /\ worker'[w].row = payment[p] /\ Others
        /\ UNCHANGED <<payment, event, acked>>
    BY <1>0, <1>4, <2>1 DEF FindPayment, Worker
  <2>3. payment[p].count <= Cardinality(ProcessedOf(p)')
    BY <2>2 DEF Inv, CountsEachEventOnce, ProcessedOf, Processed
  <2>4. CopyIsOld(w)' /\ RetryIsOfFailed(w)'
    BY <2>1, <2>2, <2>3 DEF CopyIsOld, RetryIsOfFailed
  <2>5. QED BY <1>0, <2>2, <2>4, ReadingSteps
<1>5. CASE CommitProcessed(w)
  BY <1>5, CommitProcessedIsGood
<1>6. CASE CommitNotFound(w)
  <2>1. PICK e \in Events : e = worker[w].job
    BY <1>6 DEF CommitNotFound, Inv, TypeOK, WebhookTypeOK
  <2>2. /\ event' = [event EXCEPT ![e] = NewRecord(FALSE)]
        /\ worker' = [worker EXCEPT ![w] = Idle]
        /\ UNCHANGED <<payment, acked>> /\ ~event[e].stored
    BY <1>6, <2>1 DEF CommitNotFound, Release
  <2>3. /\ NewRecord(FALSE).stored
        /\ ~NewRecord(FALSE).processed /\ ~NewRecord(FALSE).linked
    BY DEF NewRecord
  <2>4. ~event[e].processed /\ ~event[e].linked
    BY <2>2 DEF Inv, RecordsAreConsistent
  <2>5. /\ event'[e].stored
        /\ event'[e].processed = event[e].processed
        /\ event'[e].linked = event[e].linked
        /\ \A f \in Events : f # e => event'[f] = event[f]
    <3>1. NewRecord(FALSE).processed = FALSE /\ NewRecord(FALSE).linked = FALSE
      BY DEF NewRecord
    <3>2. event[e].processed = FALSE /\ event[e].linked = FALSE
      BY <1>0, <2>4 DEF Record
    <3>3. QED BY <1>0, <2>2, <2>3, <3>1, <3>2
  <2>6. QED BY <1>0, <2>2, <2>5, NotFoundSteps
<1>7. CASE CommitConflict(w)
  <2>1. /\ worker'[w].at = "idle" /\ Others /\ UNCHANGED <<payment, event>>
        /\ acked' \subseteq Processed
    BY <1>0, <1>7 DEF CommitConflict, Release, Idle, Processed, Inv, TypeOK,
       WebhookTypeOK
  <2>2. CopyIsOld(w)' /\ RetryIsOfFailed(w)'
    BY <2>1 DEF CopyIsOld, RetryIsOfFailed
  <2>3. QED BY <1>0, <2>1, <2>2, ReadingSteps
<1>8. CASE Retry(w)
  <2>1. PICK e \in Events, p \in Payments :
          e = worker[w].job /\ p = PaymentOf[e]
    BY <1>8, EventsAssumption DEF Retry, Inv, TypeOK, WebhookTypeOK
  <2>2. ~worker[w].record.linked /\ event[e].stored /\ worker[w].record.attempts \in Nat
    BY <1>0, <1>8, <2>1
    DEF Retry, Inv, SessionsSawThePast, RetryIsOfFailed, Worker, Record
  <2>3. RetryFinds(w) = FALSE
    BY <2>2 DEF RetryFinds
  <2>4. /\ event' = [event EXCEPT
             ![e] = Retried(event[e], FALSE, worker[w].record.attempts)]
        /\ UNCHANGED <<payment, acked>>
        /\ worker' = [worker EXCEPT ![w] = Idle]
    BY <1>0, <1>8, <2>1, <2>3 DEF Retry, Release
  <2>5. PICK new \in Record :
          /\ event' = [event EXCEPT ![e] = new]
          /\ new.stored = event[e].stored /\ new.linked = event[e].linked
          /\ new.processed = event[e].processed
    BY <1>0, <2>2, <2>4, RetriedType
  <2>6. QED BY <1>0, <2>2, <2>4, <2>5, NotFoundSteps
<1>9. CASE Fail(w)
  <2>1. worker'[w].at = "idle" /\ Others /\ UNCHANGED <<payment, event, acked>>
    BY <1>0, <1>9 DEF Fail, Release, Idle
  <2>2. CopyIsOld(w)' /\ RetryIsOfFailed(w)'
    BY <2>1 DEF CopyIsOld, RetryIsOfFailed
  <2>3. QED BY <1>0, <2>1, <2>2, ReadingSteps
<1>10. QED
  BY <1>1, <1>2, <1>3, <1>4, <1>5, <1>6, <1>7, <1>8, <1>9 DEF Handle

(* A step that changes no event, acked event or worker keeps what the      *)
(* invariant says of them, if it keeps stored payments and their counts.   *)
LEMMA WebhooksUndisturbed ==
  ASSUME Inv, HistoryGrows, UNCHANGED webhookVars,
         \A p \in Payments : payment'[p].count = payment[p].count
  PROVE  /\ AckedIsProcessed' /\ RecordsAreConsistent' /\ CountsEachEventOnce'
         /\ \A w \in Workers : CopyIsOld(w)' /\ RetryIsOfFailed(w)'
<1>1. Processed' = Processed /\ \A p \in Payments : ProcessedOf(p)' = ProcessedOf(p)
  BY DEF Processed, ProcessedOf, webhookVars
<1>2. AckedIsProcessed' /\ CountsEachEventOnce'
  BY <1>1 DEF AckedIsProcessed, CountsEachEventOnce, Inv, webhookVars
<1>3. RecordsAreConsistent'
  BY EventsAssumption
  DEF RecordsAreConsistent, Inv, HistoryGrows, webhookVars
<1>4. \A w \in Workers : CopyIsOld(w)' /\ RetryIsOfFailed(w)'
  BY CopiesStayOld DEF Inv, SessionsSawThePast, webhookVars
<1>5. QED BY <1>2, <1>3, <1>4

(* Storing a payment.                                                      *)
LEMMA CreateIsGood ==
  ASSUME Inv, TypeOK', Create
  PROVE  GoodStep
<1>1. PICK p \in Payments :
        /\ ~Exists(payment[p])
        /\ payment' = [payment EXCEPT
                         ![p] = [AbsentRow EXCEPT !.status = "pending"]]
  BY DEF Create, StorePayment
<1>2. payment \in [Payments -> Row] /\ payment[p] = AbsentRow
  BY <1>1 DEF Inv, TypeOK, PaymentsTypeOK, AbsentRowsAreBlank
<1>3. /\ payment'[p].status = "pending" /\ payment'[p].stamps = {}
      /\ payment'[p].count = payment[p].count /\ payment[p].stamps = {}
      /\ \A q \in Payments : q # p => payment'[q] = payment[q]
  BY <1>1, <1>2 DEF AbsentRow
<1>4. Exists(payment'[p])
  BY <1>3 DEF Exists
<1>5. UNCHANGED webhookVars /\ UNCHANGED reconciliationVars
  BY DEF Create
<1>6. HistoryGrows
  BY <1>3, <1>4, <1>5 DEF HistoryGrows, webhookVars
<1>7. ChangesHaveCause
  BY <1>1, <1>3 DEF ChangesHaveCause, Stored
<1>8. \A q \in Payments : payment'[q].count = payment[q].count
  BY <1>3
<1>9. /\ AckedIsProcessed' /\ RecordsAreConsistent' /\ CountsEachEventOnce'
      /\ \A w \in Workers : CopyIsOld(w)' /\ RetryIsOfFailed(w)'
  BY <1>5, <1>6, <1>8, WebhooksUndisturbed
<1>10. \A r \in Runs : RunSawThePast(r)'
  BY <1>5, <1>6, CopiesStayOld
  DEF Inv, SessionsSawThePast, reconciliationVars
<1>11. StatusHasTimestamp'
  BY <1>3 DEF StatusHasTimestamp, Inv, Stamped
<1>12. AbsentRowsAreBlank'
  BY <1>3, <1>4 DEF AbsentRowsAreBlank, Inv
<1>13. QED
  BY <1>6, <1>7, <1>9, <1>10, <1>11, <1>12
  DEF GoodStep, Inv, SessionsSawThePast

(* Steps of a run, and of the provider, that leave the tables alone.       *)
LEMMA WaitingSteps ==
  ASSUME Inv, TypeOK', UNCHANGED payment, UNCHANGED webhookVars,
         \A r \in Runs : RunSawThePast(r)'
  PROVE  GoodStep
<1>1. HistoryGrows /\ ChangesHaveCause
  BY DEF HistoryGrows, ChangesHaveCause, Stored, webhookVars
<1>2. /\ AckedIsProcessed' /\ RecordsAreConsistent' /\ CountsEachEventOnce'
      /\ \A w \in Workers : CopyIsOld(w)' /\ RetryIsOfFailed(w)'
  BY <1>1, WebhooksUndisturbed
<1>3. StatusHasTimestamp' /\ AbsentRowsAreBlank'
  BY DEF StatusHasTimestamp, AbsentRowsAreBlank, Inv, Exists
<1>4. QED BY <1>1, <1>2, <1>3 DEF GoodStep, Inv, SessionsSawThePast

(* The commit at the end of a run.                                         *)
LEMMA CommitRunIsGood ==
  ASSUME Inv, TypeOK', UNCHANGED webhookVars, NEW r \in Runs, CommitRun(r)
  PROVE  GoodStep
<1>1. /\ payment \in [Payments -> Row] /\ run \in [Runs -> Run]
      /\ run[r].active /\ run' = [run EXCEPT ![r] = NoRun]
      /\ payment' = [p \in Payments |->
                       WithAnswer(payment[p], run[r].seen[p], run[r].write[p])]
  BY DEF CommitRun, Inv, TypeOK, PaymentsTypeOK, ReconciliationTypeOK
<1>2. ASSUME NEW p \in Payments
      PROVE  /\ Exists(payment[p]) => Exists(payment'[p])
             /\ payment[p].stamps \subseteq payment'[p].stamps
             /\ payment'[p].count = payment[p].count
             /\ payment'[p].status = IF run[r].write[p] = "absent"
                                     THEN payment[p].status ELSE run[r].write[p]
             /\ StatusHasTimestamp => HasTimestamp(payment'[p])
             /\ run[r].write[p] = "absent" => payment'[p] = payment[p]
  <2>1. PICK seen \in Row, s \in Status \cup {"absent"} :
          seen = run[r].seen[p] /\ s = run[r].write[p]
    BY <1>1 DEF Run
  <2>2. payment'[p] = WithAnswer(payment[p], seen, s) /\ payment[p] \in Row
    BY <1>1, <2>1
  <2>3. seen.stamps \subseteq payment[p].stamps
    BY <2>1 DEF Inv, SessionsSawThePast, RunSawThePast
  <2>4. StatusHasTimestamp => HasTimestamp(payment'[p])
    BY <2>2, <2>3, WithAnswerTimestamp DEF StatusHasTimestamp, HasTimestamp
  <2>5. s = "absent" => payment'[p] = payment[p]
    BY <2>2 DEF WithAnswer
  <2>6. /\ WithAnswer(payment[p], seen, s) \in Row
        /\ Exists(payment[p]) => Exists(WithAnswer(payment[p], seen, s))
        /\ payment[p].stamps \subseteq WithAnswer(payment[p], seen, s).stamps
        /\ WithAnswer(payment[p], seen, s).count = payment[p].count
        /\ WithAnswer(payment[p], seen, s).status =
             IF s = "absent" THEN payment[p].status ELSE s
    BY <2>2, WithAnswerType
  <2>7. /\ Exists(payment[p]) => Exists(payment'[p])
        /\ payment[p].stamps \subseteq payment'[p].stamps
        /\ payment'[p].count = payment[p].count
        /\ payment'[p].status = IF s = "absent" THEN payment[p].status ELSE s
    BY <2>2, <2>6
  <2>8. QED BY <2>1, <2>4, <2>5, <2>7
<1>3. HistoryGrows
  BY <1>2 DEF HistoryGrows, webhookVars
<1>4. ~run'[r].active
  BY <1>1 DEF NoRun
<1>5. ChangesHaveCause
  BY <1>1, <1>2, <1>4 DEF ChangesHaveCause, RunWrites, Stored
<1>6. /\ AckedIsProcessed' /\ RecordsAreConsistent' /\ CountsEachEventOnce'
      /\ \A w \in Workers : CopyIsOld(w)' /\ RetryIsOfFailed(w)'
  BY <1>2, <1>3, WebhooksUndisturbed
<1>7. ASSUME NEW v \in Runs PROVE RunSawThePast(v)'
  <2>1. CASE v = r
    BY <1>1, <2>1 DEF RunSawThePast, NoRun, AbsentRow
  <2>2. CASE v # r
    BY <1>1, <1>3, <2>2, CopiesStayOld DEF Inv, SessionsSawThePast
  <2>3. QED BY <2>1, <2>2
<1>8. StatusHasTimestamp'
  BY <1>2 DEF StatusHasTimestamp, HasTimestamp, Inv
<1>9. AbsentRowsAreBlank'
  <2> SUFFICES ASSUME NEW p \in Payments, ~Exists(payment'[p])
               PROVE  payment'[p] = AbsentRow
    BY DEF AbsentRowsAreBlank
  <2>1. ~Exists(payment[p])
    BY <1>2
  <2>2. run[r].write[p] = "absent"
    BY <2>1 DEF Inv, SessionsSawThePast, RunSawThePast
  <2>3. QED BY <1>2, <2>1, <2>2 DEF Inv, AbsentRowsAreBlank
<1>10. QED
  BY <1>3, <1>5, <1>6, <1>7, <1>8, <1>9 DEF GoodStep, Inv, SessionsSawThePast

(* Every step of a reconciliation run and of the provider.                 *)
LEMMA ReconciliationIsGood ==
  ASSUME Inv, TypeOK', ReconciliationNext, UNCHANGED webhookVars
  PROVE  GoodStep
<1>0. /\ payment \in [Payments -> Row] /\ run \in [Runs -> Run]
      /\ \A v \in Runs : RunSawThePast(v)
  BY DEF Inv, TypeOK, PaymentsTypeOK, ReconciliationTypeOK, SessionsSawThePast
<1>1. ASSUME UNCHANGED <<payment, run>> PROVE GoodStep
  BY <1>0, <1>1, WaitingSteps DEF RunSawThePast, Exists
<1>2. ASSUME NEW r \in Runs, UNCHANGED payment, RunSawThePast(r)',
             NEW new, run' = [run EXCEPT ![r] = new]
      PROVE  GoodStep
  <2>1. ASSUME NEW v \in Runs PROVE RunSawThePast(v)'
    <3>1. CASE v = r
      BY <1>2, <3>1
    <3>2. CASE v # r
      BY <1>0, <1>2, <3>2 DEF RunSawThePast, Exists
    <3>3. QED BY <3>1, <3>2
  <2>2. QED BY <1>2, <2>1, WaitingSteps
<1>3. ASSUME NEW r \in Runs, NEW selected \in SUBSET Stored,
             Selects(r, selected)
      PROVE  GoodStep
  <2> DEFINE seen == [p \in Payments |-> IF p \in selected THEN payment[p]
                                         ELSE AbsentRow]
             new == [NoRun EXCEPT !.active = TRUE, !.todo = selected,
                                  !.seen = seen]
  <2>1. run' = [run EXCEPT ![r] = new] /\ UNCHANGED payment
    BY <1>3 DEF Selects
  <2>2. /\ new.todo = selected /\ new.seen = seen
        /\ \A p \in Payments : new.write[p] = "absent"
    BY DEF NoRun
  <2>3. \A p \in Payments : seen[p].stamps \subseteq payment[p].stamps
    BY DEF AbsentRow
  <2>4. \A p \in selected : Exists(payment[p])
    BY DEF Stored
  <2>5. run'[r] = new
    BY <1>0, <2>1
  <2> HIDE DEF new, seen
  <2>6. RunSawThePast(r)'
    BY <2>1, <2>2, <2>3, <2>4, <2>5 DEF RunSawThePast
  <2>7. QED BY <1>2, <2>1, <2>6
<1>4. ASSUME NEW r \in Runs, StartPending(r) \/ StartStale(r) \/ StartSingle(r)
      PROVE  GoodStep
  <2>1. InStatus({"pending", "processing"}) \subseteq Stored
    BY DEF InStatus, Stored, Exists
  <2>2. InStatus({"pending", "processing", "succeeded"}) \subseteq Stored
    BY DEF InStatus, Stored, Exists
  <2>3. PICK selected \in SUBSET Stored : Selects(r, selected)
    BY <1>4, <2>1, <2>2 DEF StartPending, StartStale, StartSingle
  <2>4. QED BY <1>3, <2>3
<1>5. ASSUME NEW r \in Runs, NEW p \in Payments, Ask(r, p)
      PROVE  GoodStep
  <2>1. PICK s \in Answers(p) :
          run' = [run EXCEPT
            ![r].todo = @ \ {p},
            ![r].write[p] = IF run[r].seen[p].status # s THEN s ELSE "absent"]
    BY <1>5 DEF Ask
  <2>2. p \in run[r].todo /\ UNCHANGED payment
    BY <1>5 DEF Ask
  <2>3. /\ run'[r].seen = run[r].seen /\ run'[r].todo \subseteq run[r].todo
        /\ \A q \in Payments : q # p => run'[r].write[q] = run[r].write[q]
    BY <1>0, <2>1 DEF Run
  <2>4. RunSawThePast(r)'
    BY <1>0, <2>2, <2>3 DEF RunSawThePast
  <2>5. run' = [run EXCEPT ![r] = run'[r]]
    BY <1>0, <2>1
  <2>6. PICK new : run' = [run EXCEPT ![r] = new]
    BY <2>5
  <2>7. QED BY <1>2, <2>2, <2>4, <2>6
<1>6. ASSUME NEW r \in Runs, NEW p \in Payments, AskFails(r, p)
      PROVE  GoodStep
  <2>1. /\ run' = [run EXCEPT ![r].todo = @ \ {p}] /\ UNCHANGED payment
    BY <1>6 DEF AskFails
  <2>2. /\ run'[r].seen = run[r].seen /\ run'[r].todo \subseteq run[r].todo
        /\ run'[r].write = run[r].write
    BY <1>0, <2>1 DEF Run
  <2>3. RunSawThePast(r)'
    BY <1>0, <2>1, <2>2 DEF RunSawThePast
  <2>4. PICK new : run' = [run EXCEPT ![r] = new]
    BY <2>1
  <2>5. QED BY <1>2, <2>1, <2>3, <2>4
<1>7. ASSUME NEW r \in Runs, CommitRun(r) PROVE GoodStep
  BY <1>7, CommitRunIsGood
<1>8. ASSUME NEW r \in Runs, FailRun(r) PROVE GoodStep
  <2>1. run' = [run EXCEPT ![r] = NoRun] /\ UNCHANGED payment
    BY <1>8 DEF FailRun
  <2>2. RunSawThePast(r)'
    BY <1>0, <2>1 DEF RunSawThePast, NoRun, AbsentRow
  <2>3. QED BY <1>2, <2>1, <2>2
<1>9. ASSUME NEW p \in Payments,
             \/ ProviderCreates(p) \/ ProviderConfigures(p)
             \/ ProviderCancels(p) \/ ProviderRefunds(p)
      PROVE  GoodStep
  BY <1>1, <1>9 DEF ProviderCreates, ProviderConfigures, ProviderCancels,
     ProviderRefunds
<1>10. QED
  BY <1>4, <1>5, <1>6, <1>7, <1>8, <1>9 DEF ReconciliationNext

(* Every step keeps the invariant and obeys the action properties.         *)
LEMMA StepsAreGood ==
  ASSUME Inv, [Next]_vars
  PROVE  GoodStep
<1>0. TypeOK'
  BY StepsKeepTypes DEF Inv
<1>1. CASE Create
  BY <1>0, <1>1, CreateIsGood
<1>2. CASE Webhooks
  BY <1>0, <1>2, WebhooksAreGood DEF Webhooks, WebhookNext
<1>3. CASE Reconciliation
  BY <1>0, <1>3, ReconciliationIsGood DEF Reconciliation
<1>4. CASE UNCHANGED vars
  <2>1. UNCHANGED payment /\ UNCHANGED webhookVars /\ UNCHANGED run
    BY <1>4 DEF vars, webhookVars
  <2>2. \A r \in Runs : RunSawThePast(r)'
    BY <2>1 DEF Inv, SessionsSawThePast, RunSawThePast, Exists
  <2>3. QED BY <1>0, <2>1, <2>2, WaitingSteps
<1>5. QED
  BY <1>1, <1>2, <1>3, <1>4 DEF Next

(* The invariant holds initially.                                          *)
LEMMA InitInv == Init => Inv
<1> SUFFICES ASSUME Init PROVE Inv
  OBVIOUS
<1> USE DEF Init, PaymentsInit, WebhookInit, ReconciliationInit
<1>1. TypeOK
  BY AbsentRowType
  DEF TypeOK, PaymentsTypeOK, WebhookTypeOK, ReconciliationTypeOK, NoRecord,
      Record, Idle, Worker, NoRun, Run
<1>2. AckedIsProcessed /\ RecordsAreConsistent
  BY DEF AckedIsProcessed, RecordsAreConsistent, NoRecord
<1>3. CountsEachEventOnce
  <2>1. ASSUME NEW p \in Payments PROVE payment[p].count <= Cardinality(ProcessedOf(p))
    <3>1. ProcessedOf(p) = {}
      BY DEF ProcessedOf, Processed, NoRecord
    <3>2. QED BY <3>1, FS_EmptySet DEF AbsentRow
  <2>2. QED BY <2>1 DEF CountsEachEventOnce
<1>4. StatusHasTimestamp /\ AbsentRowsAreBlank
  BY DEF StatusHasTimestamp, AbsentRowsAreBlank, AbsentRow, Stamped
<1>5. SessionsSawThePast
  BY DEF SessionsSawThePast, CopyIsOld, RetryIsOfFailed, RunSawThePast, Idle,
     NoRun, AbsentRow
<1>6. QED BY <1>1, <1>2, <1>3, <1>4, <1>5 DEF Inv

(* The inductive invariant holds in every behaviour.                       *)
THEOREM Invariant == Spec => []Inv
<1>1. Inv /\ [Next]_vars => Inv'
  BY StepsAreGood DEF GoodStep
<1>2. QED
  BY <1>1, InitInv, PTL DEF Spec

(***************************************************************************)
(* What the runs check, for every instance.                                *)
(***************************************************************************)

(* A delivery is answered processed only for an event whose record says so *)
(* (CommitProcessed, ReceiveProcessed, CommitConflict).                    *)
THEOREM AckedCorrect == Spec => []AckedIsProcessed
<1>1. Inv => AckedIsProcessed
  BY DEF Inv
<1>2. QED BY <1>1, Invariant, PTL

(* Records and payments agree: IntegrityErrors, crashes and failed         *)
(* attempts leave no half-written pair.                                    *)
THEOREM RecordsCorrect == Spec => []RecordsAreConsistent
<1>1. Inv => RecordsAreConsistent
  BY DEF Inv
<1>2. QED BY <1>1, Invariant, PTL

(* webhook_events_count counts no event twice, with any number of workers  *)
(* and deliveries.                                                         *)
THEOREM CountCorrect == Spec => []CountsEachEventOnce
<1>1. Inv => CountsEachEventOnce
  BY DEF Inv
<1>2. QED BY <1>1, Invariant, PTL

(* A payment's status has its timestamp, whichever of the two services set *)
(* it and however old the row was from which it decided to.                *)
THEOREM TimestampCorrect == Spec => []StatusHasTimestamp
<1>1. Inv => StatusHasTimestamp
  BY DEF Inv
<1>2. QED BY <1>1, Invariant, PTL

(* What sessions have read stays a past of what is stored.                 *)
THEOREM SessionsCorrect == Spec => []SessionsSawThePast
<1>1. Inv => SessionsSawThePast
  BY DEF Inv
<1>2. QED BY <1>1, Invariant, PTL

(* No step takes back a stored payment, a timestamp, a record or a         *)
(* processed flag.                                                         *)
THEOREM HistoryCorrect == Spec => HistoryIsKept
<1>1. Inv /\ [Next]_vars => [HistoryGrows]_vars
  BY StepsAreGood DEF GoodStep
<1>2. QED BY <1>1, Invariant, PTL DEF Spec, HistoryIsKept

(* A status changes only together with its cause: the processed flag of an *)
(* event in the same commit, or a run's answer about that payment.         *)
THEOREM CausesCorrect == Spec => StatusChangesHaveCause
<1>1. Inv /\ [Next]_vars => [ChangesHaveCause]_vars
  BY StepsAreGood DEF GoodStep
<1>2. QED BY <1>1, Invariant, PTL DEF Spec, StatusChangesHaveCause

(***************************************************************************)
(* The refinement.                                                         *)
(***************************************************************************)

(* An event without a new outcome, on payments without a new status, is a  *)
(* step that the ledger does not see.                                      *)
LEMMA UnseenSteps ==
  ASSUME \A p \in Payments : payment'[p].status = payment[p].status,
         \A e \in Events : /\ event'[e].processed = event[e].processed
                           /\ event'[e].stored = event[e].stored
  PROVE  UNCHANGED Ledger!ledger
  BY DEF Ledger!ledger, Outcome

(* The commit that applies an event is the ledger's Apply.                 *)
LEMMA CommitProcessedApplies ==
  ASSUME Inv, NEW w \in Workers, CommitProcessed(w)
  PROVE  Ledger!Next
<1>1. PICK e \in Events, p \in Payments, s \in Status, seen \in Row :
        /\ e = worker[w].job /\ seen = worker[w].row
        /\ p = PaymentOf[e] /\ s = StatusOf[e]
  BY EventsAssumption
  DEF CommitProcessed, Inv, TypeOK, WebhookTypeOK, Worker
<1>2. /\ payment \in [Payments -> Row] /\ event \in [Events -> Record]
      /\ ~event[e].stored /\ ~event[e].processed /\ Exists(payment[p])
      /\ payment' = [payment EXCEPT ![p] = WithEvent(payment[p], seen, s)]
      /\ event' = [event EXCEPT ![e] = NewRecord(TRUE)]
  BY <1>1 DEF CommitProcessed, Inv, TypeOK, WebhookTypeOK, PaymentsTypeOK,
     RecordsAreConsistent, SessionsSawThePast, CopyIsOld
<1>3. /\ event'[e].processed
      /\ \A f \in Events : f # e => event'[f] = event[f]
  <2>1. NewRecord(TRUE).processed
    BY DEF NewRecord
  <2>2. QED BY <1>2, <2>1
<1>4. Outcome[e] = "new" /\ Outcome' = [Outcome EXCEPT ![e] = "applied"]
  <2>1. ASSUME NEW f \in Events
        PROVE  Outcome'[f] = IF f = e THEN "applied" ELSE Outcome[f]
    <3>1. CASE f = e
      BY <1>3, <3>1 DEF Outcome
    <3>2. CASE f # e
      BY <1>3, <3>2 DEF Outcome
    <3>3. QED BY <3>1, <3>2
  <2>2. Outcome[e] = "new"
    BY <1>2 DEF Outcome
  <2>3. QED BY <2>1, <2>2 DEF Outcome
<1>5. payment'[p].status \in {payment[p].status, s}
  BY <1>2, WithEventType
<1>6. \A q \in Payments : q # p => payment'[q] = payment[q]
  BY <1>2
<1>7. \/ [q \in Payments |-> payment'[q].status]
           = [[q \in Payments |-> payment[q].status] EXCEPT ![p] = s]
      \/ [q \in Payments |-> payment'[q].status]
           = [q \in Payments |-> payment[q].status]
  BY <1>5, <1>6
<1>8. Ledger!Apply(e)
  BY <1>1, <1>2, <1>4, <1>7 DEF Ledger!Apply, Exists
<1>9. QED BY <1>8 DEF Ledger!Next

(* The commit that records a failed event is the ledger's Reject.          *)
LEMMA CommitNotFoundRejects ==
  ASSUME Inv, NEW w \in Workers, CommitNotFound(w)
  PROVE  Ledger!Next
<1>1. PICK e \in Events :
        /\ ~event[e].stored /\ ~event[e].processed
        /\ event' = [event EXCEPT ![e] = NewRecord(FALSE)]
        /\ UNCHANGED payment
  BY DEF CommitNotFound, Inv, TypeOK, WebhookTypeOK, RecordsAreConsistent
<1>2. /\ event'[e].stored /\ ~event'[e].processed
      /\ \A f \in Events : f # e => event'[f] = event[f]
  <2>1. NewRecord(FALSE).stored /\ ~NewRecord(FALSE).processed
    BY DEF NewRecord
  <2>2. QED BY <1>1, <2>1 DEF Inv, TypeOK, WebhookTypeOK
<1>3. Outcome[e] = "new" /\ Outcome' = [Outcome EXCEPT ![e] = "failed"]
  <2>1. ASSUME NEW f \in Events
        PROVE  Outcome'[f] = IF f = e THEN "failed" ELSE Outcome[f]
    <3>1. CASE f = e
      BY <1>2, <3>1 DEF Outcome
    <3>2. CASE f # e
      BY <1>2, <3>2 DEF Outcome
    <3>3. QED BY <3>1, <3>2
  <2>2. Outcome[e] = "new"
    BY <1>1 DEF Outcome
  <2>3. QED BY <2>1, <2>2 DEF Outcome
<1>4. Ledger!Reject(e)
  BY <1>1, <1>3 DEF Ledger!Reject
<1>5. QED BY <1>4 DEF Ledger!Next

(* A retry never changes an outcome: it has seen a record that is not      *)
(* linked, and does not look for the payment.                              *)
LEMMA RetryIsUnseen ==
  ASSUME Inv, NEW w \in Workers, Retry(w)
  PROVE  UNCHANGED Ledger!ledger
<1>1. PICK e \in Events, p \in Payments :
        e = worker[w].job /\ p = PaymentOf[e]
  BY EventsAssumption DEF Retry, Inv, TypeOK, WebhookTypeOK
<1>2. /\ ~worker[w].record.linked /\ worker[w].record.attempts \in Nat
      /\ event \in [Events -> Record] /\ payment \in [Payments -> Row]
  BY <1>1 DEF Retry, Inv, TypeOK, WebhookTypeOK, PaymentsTypeOK,
     SessionsSawThePast, RetryIsOfFailed, Worker, Record
<1>3. RetryFinds(w) = FALSE
  BY <1>2 DEF RetryFinds
<1>4. /\ event' = [event EXCEPT
             ![e] = Retried(event[e], FALSE, worker[w].record.attempts)]
      /\ payment' = payment
  BY <1>1, <1>2, <1>3 DEF Retry
<1>5. PICK new \in Record :
        /\ event' = [event EXCEPT ![e] = new]
        /\ new.stored = event[e].stored /\ new.processed = event[e].processed
  BY <1>2, <1>4, RetriedType
<1>6. QED BY <1>2, <1>4, <1>5, UnseenSteps

(* The commit of a run is the ledger's Observe.                            *)
LEMMA CommitRunObserves ==
  ASSUME Inv, NEW r \in Runs, CommitRun(r), UNCHANGED webhookVars
  PROVE  Ledger!Next
<1>1. ASSUME NEW p \in Payments
      PROVE  /\ payment'[p].status \in Status \cup {"absent"}
             /\ (payment[p].status = "absent") = (payment'[p].status = "absent")
  <2>1. PICK row \in Row, seen \in Row, s \in Status \cup {"absent"} :
          /\ row = payment[p] /\ seen = run[r].seen[p] /\ s = run[r].write[p]
    BY DEF Inv, TypeOK, PaymentsTypeOK, ReconciliationTypeOK, Run
  <2>2. payment'[p].status = IF s = "absent" THEN row.status ELSE s
    BY <2>1, WithAnswerType DEF CommitRun
  <2>3. s # "absent" => row.status # "absent"
    BY <2>1 DEF Inv, SessionsSawThePast, RunSawThePast, Exists
  <2>4. row.status \in Status \cup {"absent"}
    BY DEF Row
  <2>5. QED BY <2>1, <2>2, <2>3, <2>4
<1>2. Outcome' = Outcome
  BY DEF Outcome, webhookVars
<1>3. Ledger!Observe
  BY <1>1, <1>2 DEF Ledger!Observe
<1>4. QED BY <1>3 DEF Ledger!Next

(* Every step of the services is a step of the ledger or unseen by it.     *)
LEMMA StepsAreLedgerSteps ==
  ASSUME Inv, [Next]_vars
  PROVE  Ledger!Next \/ UNCHANGED Ledger!ledger
<1>1. CASE Create
  <2>1. PICK p \in Payments :
          /\ ~Exists(payment[p])
          /\ payment' = [payment EXCEPT
                           ![p] = [AbsentRow EXCEPT !.status = "pending"]]
    BY <1>1 DEF Create, StorePayment
  <2>2. payment'[p].status = "pending"
    BY <2>1 DEF AbsentRow, Inv, TypeOK, PaymentsTypeOK
  <2>3. \A q \in Payments : q # p => payment'[q] = payment[q]
    BY <2>1 DEF Inv, TypeOK, PaymentsTypeOK
  <2>4. Outcome' = Outcome
    BY <1>1 DEF Create, Outcome, webhookVars
  <2>5. [q \in Payments |-> payment'[q].status]
           = [[q \in Payments |-> payment[q].status] EXCEPT ![p] = "pending"]
    BY <2>2, <2>3
  <2>6. Ledger!Store(p)
    BY <2>1, <2>4, <2>5 DEF Ledger!Store, Exists
  <2>7. QED BY <2>6 DEF Ledger!Next
<1>2. CASE Webhooks
  <2>1. PICK w \in Workers : Handle(w)
    BY <1>2 DEF Webhooks, WebhookNext
  <2>2. ASSUME UNCHANGED <<payment, event>>
        PROVE  UNCHANGED Ledger!ledger
    BY <2>2, UnseenSteps
  <2>3. QED
    BY <2>1, <2>2, CommitProcessedApplies, CommitNotFoundRejects, RetryIsUnseen
    DEF Handle, ReceiveNew, ReceiveProcessed, ReceiveFailed, FindPayment,
        CommitConflict, Fail
<1>3. CASE Reconciliation
  <2>1. UNCHANGED webhookVars /\ UNCHANGED event /\ ReconciliationNext
    BY <1>3 DEF Reconciliation, webhookVars
  <2>2. ASSUME UNCHANGED payment
        PROVE  UNCHANGED Ledger!ledger
    BY <2>1, <2>2, UnseenSteps
  <2>3. QED
    BY <2>1, <2>2, CommitRunObserves
    DEF ReconciliationNext, StartPending, StartStale, StartSingle, Selects,
        Ask, AskFails, FailRun, ProviderCreates, ProviderConfigures,
        ProviderCancels, ProviderRefunds
<1>4. CASE UNCHANGED vars
  BY <1>4, UnseenSteps DEF vars
<1>5. QED
  BY <1>1, <1>2, <1>3, <1>4 DEF Next

(* The two services implement the ledger: whatever the order of            *)
(* deliveries, retries, runs and crashes, an event is applied at most once,*)
(* in the one commit that marks it processed, and without runs no status   *)
(* changes otherwise.                                                      *)
THEOREM LedgerImplemented == Spec => ImplementsLedger
<1>1. Init => Ledger!Init
  BY DEF Init, PaymentsInit, WebhookInit, AbsentRow, NoRecord, Ledger!Init,
     Outcome
<1>2. Inv /\ [Next]_vars => [Ledger!Next]_(Ledger!ledger)
  BY StepsAreLedgerSteps
<1>3. QED
  BY <1>1, <1>2, Invariant, PTL DEF Spec, ImplementsLedger, Ledger!Spec
=============================================================================

--------------------------- MODULE Notifications ---------------------------
(***************************************************************************)
(* The notification queue of eSalao: services/notifications.py over        *)
(* db/repositories/notifications.py, run by scripts/notification_worker.py,*)
(* by the endpoint that processes the queue and by the background task     *)
(* that send_notification starts.                                          *)
(*                                                                         *)
(* A pass is a database session at work on a list of notifications: the    *)
(* request that queues them and then, with the same session, the task that *)
(* delivers them; a pass over the pending ones; a pass over those waiting  *)
(* for a retry.  Every repository method commits.  A session keeps the     *)
(* rows it has loaded, and an UPDATE names only the columns that differ    *)
(* from the loaded ones; a commit is followed by a refresh of the row.     *)
(***************************************************************************)
EXTENDS Naturals, FiniteSets

CONSTANTS Notification,     \* rows of the table notification_queue
          Event,            \* correlation identifiers
          EventOf,          \* the event each notification tells of
          Priority,         \* the priority of each notification
          Reachable,        \* those whose user has a valid address for the channel
          Session,          \* the sessions at work at a time
          Worker,           \* the session of the notification worker
          NoOne,            \* no notification
          Limit,            \* batch size of a pass over pending ones
          MaxRetries        \* max_retries of every notification

ASSUME NotificationsAssumption ==
    /\ EventOf \in [Notification -> Event]
    /\ Priority \in [Notification -> Nat]
    /\ Reachable \subseteq Notification
    /\ Worker \in Session
    /\ NoOne \notin Notification
    /\ Limit \in Nat \ {0}
    /\ MaxRetries \in Nat

VARIABLES queue,            \* the stored notifications
          pass,             \* the pass each session is at, or Idle
          sends,            \* history: messages sent of each, counted up to 2
          shared,           \* history: those that two sessions had in hand at once
          repeated          \* history: those sent whose sending was not recorded

vars == <<queue, pass, sends, shared, repeated>>

Status == {"PENDING", "QUEUED", "SENT", "DELIVERED", "FAILED", "RETRYING",
           "CANCELLED"}

\* A row: its status (absent before it is queued, deleted after a clean-up),
\* its retry count, and whether scheduled_at and next_retry_at have come.
Row == [status : Status \cup {"absent", "deleted"}, retries : Nat,
        due : BOOLEAN, retryDue : BOOLEAN]

Absent == [status |-> "absent", retries |-> 0, due |-> FALSE, retryDue |-> FALSE]

Idle == [kind |-> "idle"]

\* What a session is at: the notifications still to be delivered, the one being
\* delivered and how far it is, and the rows as the session has them.
Pass == [kind : {"request", "task", "pending", "retry"}, todo : SUBSET Notification,
         current : Notification \cup {NoOne}, event : Event \cup {NoOne}, later : BOOLEAN,
         step : {"next", "sent", "logging", "failed"}, seen : [Notification -> Row]]

NewPass(kind, todo, e, later) ==
    [kind |-> kind, todo |-> todo, current |-> NoOne, event |-> e, later |-> later,
     step |-> "next", seen |-> [n \in Notification |-> IF n \in todo THEN queue[n] ELSE Absent]]

Holds(s, n) == pass[s] # Idle /\ (n \in pass[s].todo \/ pass[s].current = n)
Held(n) == \E s \in Session : Holds(s, n)

Waiting  == {"PENDING", "QUEUED"}
Finished == {"SENT", "DELIVERED", "CANCELLED"}

\* The statuses from which cancel_notifications cancels.
Cancellable == Waiting \cup {"RETRYING"}

-----------------------------------------------------------------------------
(* send_notification: one commit for each channel, then a task.            *)

\* A request to tell of event e, now or later, arrives at an idle session.
Request(s, e) ==
    /\ pass[s] = Idle
    /\ s # Worker
    /\ \E later \in BOOLEAN :
        pass' = [pass EXCEPT ![s] = NewPass("request", {}, e, later)]
    /\ UNCHANGED <<queue, sends, shared, repeated>>

\* The row for one channel is inserted.
Enqueue(s, n) ==
    /\ pass[s] # Idle
    /\ pass[s].kind = "request"
    /\ EventOf[n] = pass[s].event
    /\ queue[n].status = "absent"
    /\ queue' = [queue EXCEPT ![n].status = "PENDING", ![n].due = ~pass[s].later]
    /\ pass' = [pass EXCEPT ![s].todo = @ \cup {n}, ![s].seen[n] = queue'[n]]
    /\ UNCHANGED <<sends, shared, repeated>>

\* The request is answered; unless the notifications are for later, a task
\* goes on with the session.
Dispatch(s) ==
    /\ pass[s] # Idle
    /\ pass[s].kind = "request"
    /\ pass' = [pass EXCEPT ![s] = IF @.later \/ @.todo = {} THEN Idle
                                   ELSE [@ EXCEPT !.kind = "task", !.event = NoOne]]
    /\ UNCHANGED <<queue, sends, shared, repeated>>

-----------------------------------------------------------------------------
(* Passes over the queue.                                                  *)

\* A pass of session s over the notifications of batch, some of which another
\* session may have in hand.
Take(s, kind, batch) ==
    /\ batch # {}
    /\ pass' = [pass EXCEPT ![s] = NewPass(kind, batch, NoOne, FALSE)]
    /\ shared' = shared \cup {n \in batch : Held(n)}
    /\ UNCHANGED <<queue, sends, repeated>>

\* Mutant of Pending: cancelled notifications are selected too.
PendingOrNot == {n \in Notification : queue[n].status \in Waiting \cup {"CANCELLED"}
                                      /\ queue[n].due}

\* What get_pending_notifications selects from.
Pending == {n \in Notification : queue[n].status \in Waiting /\ queue[n].due}

\* The first of them, up to the limit, by priority.
StartPending(s) ==
    /\ pass[s] = Idle
    /\ \E batch \in SUBSET Pending :
        /\ IF Cardinality(Pending) <= Limit THEN batch = Pending
           ELSE Cardinality(batch) = Limit
        /\ \A n \in batch : \A m \in Pending \ batch : Priority[m] <= Priority[n]
        /\ Take(s, "pending", batch)

\* What get_notifications_for_retry selects.
Retryable == {n \in Notification : queue[n].status = "RETRYING" /\ queue[n].retryDue
                                   /\ queue[n].retries < MaxRetries}

StartRetry(s) ==
    /\ pass[s] = Idle
    /\ s # Worker
    /\ \E batch \in SUBSET Retryable : Take(s, "retry", batch)

-----------------------------------------------------------------------------
(* _deliver_notification.                                                  *)

\* Session s may deliver n next; passes over pending ones go by priority.
MayDeliver(s, n) ==
    /\ pass[s] # Idle
    /\ pass[s].kind # "request"
    /\ pass[s].step = "next"
    /\ n \in pass[s].todo
    /\ pass[s].kind = "pending" => \A m \in pass[s].todo : Priority[m] <= Priority[n]

\* Session s goes on with what is left after n; it ends when nothing is left.
Continue(s, n, left) ==
    pass' = [pass EXCEPT ![s] =
        IF left = {} THEN Idle
        ELSE [@ EXCEPT !.todo = left, !.current = NoOne, !.step = "next",
                       !.seen[n] = Absent]]

\* The channel's handler has sent the message.
Send(s, n) ==
    /\ MayDeliver(s, n)
    /\ n \in Reachable
    /\ pass' = [pass EXCEPT ![s].todo = @ \ {n}, ![s].current = n, ![s].step = "sent"]
    /\ sends' = [sends EXCEPT ![n] = IF @ = 2 THEN 2 ELSE @ + 1]
    /\ UNCHANGED <<queue, shared, repeated>>

\* Mutant of SendFails: the handler keeps its exception to itself.
SendFailsQuietly(s, n) ==
    /\ MayDeliver(s, n)
    /\ n \in Reachable
    /\ pass' = [pass EXCEPT ![s].todo = @ \ {n}, ![s].current = n, ![s].step = "sent"]
    /\ UNCHANGED <<queue, sends, shared, repeated>>

\* The handler raises.
SendFails(s, n) ==
    /\ MayDeliver(s, n)
    /\ n \in Reachable
    /\ pass' = [pass EXCEPT ![s].todo = @ \ {n}, ![s].current = n, ![s].step = "failed"]
    /\ UNCHANGED <<queue, sends, shared, repeated>>

\* What an UPDATE makes of a stored value, when the session that loaded old
\* sets it to new: nothing where nothing differs.
Written(stored, old, new) == IF new = old THEN stored ELSE new

\* There is no address, or not a valid one: FAILED, without a retry.
GiveUp(s, n) ==
    /\ MayDeliver(s, n)
    /\ n \notin Reachable
    /\ queue' = [queue EXCEPT
                    ![n].status = Written(@, pass[s].seen[n].status, "FAILED")]
    /\ Continue(s, n, pass[s].todo \ {n})
    /\ UNCHANGED <<sends, shared, repeated>>

\* A task finds that its user is no longer loaded: an exception, and on to the
\* next one.
Skip(s, n) ==
    /\ MayDeliver(s, n)
    /\ pass[s].kind = "task"
    /\ Continue(s, n, pass[s].todo \ {n})
    /\ UNCHANGED <<queue, sends, shared, repeated>>

\* Mutant of MarkSent: the commit is forgotten.
MarkSentUncommitted(s) ==
    /\ pass[s] # Idle
    /\ pass[s].step = "sent"
    /\ pass' = [pass EXCEPT ![s].step = "logging"]
    /\ UNCHANGED <<queue, sends, shared, repeated>>

\* SENT is stored.
MarkSent(s) ==
    /\ pass[s] # Idle
    /\ pass[s].step = "sent"
    /\ LET n == pass[s].current
       IN  queue' = [queue EXCEPT
                        ![n].status = Written(@, pass[s].seen[n].status, "SENT")]
    /\ pass' = [pass EXCEPT ![s].step = "logging"]
    /\ UNCHANGED <<sends, shared, repeated>>

\* The delivery is logged.
Logged(s) ==
    /\ pass[s] # Idle
    /\ pass[s].step = "logging"
    /\ Continue(s, pass[s].current, pass[s].todo)
    /\ UNCHANGED <<queue, sends, shared, repeated>>

\* Mutant of LogRaises: the pass delivers the notification once more.
LogRaisesTriesAgain(s) ==
    /\ pass[s] # Idle
    /\ pass[s].step = "logging"
    /\ LET n == pass[s].current
       IN  pass' = [pass EXCEPT ![s].todo = @ \cup {n}, ![s].current = NoOne,
                                ![s].step = "next", ![s].seen[n] = queue[n]]
    /\ UNCHANGED <<queue, sends, shared, repeated>>

\* The row is refreshed, and its template is not loaded any more: an exception,
\* taken for a failure of the delivery.
LogRaises(s) ==
    /\ pass[s] # Idle
    /\ pass[s].step = "logging"
    /\ LET n == pass[s].current
       IN  pass' = [pass EXCEPT ![s].step = "failed", ![s].seen[n] = queue[n]]
    /\ UNCHANGED <<queue, sends, shared, repeated>>

\* Mutant of AfterFailure: the retry that is refused is the one after next.
AfterFailureLate(row) == IF row.retries < MaxRetries THEN "RETRYING" ELSE "FAILED"

\* The status that a failure gives a notification loaded as row.
AfterFailure(row) == IF row.retries + 1 < MaxRetries THEN "RETRYING" ELSE "FAILED"

\* The failure is stored with the next retry count, and logged or not.  What has
\* gone out may go out again.
MarkFailed(s) ==
    /\ pass[s] # Idle
    /\ pass[s].step = "failed"
    /\ LET n    == pass[s].current
           row  == pass[s].seen[n]
           next == AfterFailure(row)
       IN  /\ queue' = [queue EXCEPT
                            ![n].status   = Written(@, row.status, next),
                            ![n].retries  = row.retries + 1,
                            ![n].retryDue = @ /\ next # "RETRYING"]
           /\ repeated' = IF sends[n] > 0 THEN repeated \cup {n} ELSE repeated
           /\ Continue(s, n, pass[s].todo)
    /\ UNCHANGED <<sends, shared>>

\* The session of a task was closed with its request: what it writes next, it
\* reads anew.
Reread(s) ==
    /\ pass[s] # Idle
    /\ pass[s].kind = "task"
    /\ pass[s].step \in {"sent", "failed"}
    /\ pass' = [pass EXCEPT ![s].seen[pass[s].current] = queue[pass[s].current]]
    /\ UNCHANGED <<queue, sends, shared, repeated>>

\* The process dies or the database fails; whatever was committed stays.
Stop(s) ==
    /\ pass[s] # Idle
    /\ pass' = [pass EXCEPT ![s] = Idle]
    /\ repeated' = IF pass[s].step = "sent" THEN repeated \cup {pass[s].current}
                   ELSE repeated
    /\ UNCHANGED <<queue, sends, shared>>

-----------------------------------------------------------------------------
(* Cancellation, clean-up and the time.                                    *)

\* cancel_notifications: one UPDATE.
Cancel(e) ==
    /\ queue' = [n \in Notification |->
                    IF EventOf[n] = e /\ queue[n].status \in Cancellable
                    THEN [queue[n] EXCEPT !.status = "CANCELLED"]
                    ELSE queue[n]]
    /\ UNCHANGED <<pass, sends, shared, repeated>>

\* cleanup_old_notifications, of a row that no session has held for days.
Purge(n) ==
    /\ queue[n].status \in Finished
    /\ ~Held(n)
    /\ queue' = [queue EXCEPT ![n].status = "deleted"]
    /\ UNCHANGED <<pass, sends, shared, repeated>>

\* scheduled_at or next_retry_at comes.
Elapse(n) ==
    /\ queue[n].status # "absent"
    /\ ~queue[n].due
    /\ queue' = [queue EXCEPT ![n].due = TRUE]
    /\ UNCHANGED <<pass, sends, shared, repeated>>

RetryTime(n) ==
    /\ queue[n].status = "RETRYING"
    /\ ~queue[n].retryDue
    /\ queue' = [queue EXCEPT ![n].retryDue = TRUE]
    /\ UNCHANGED <<pass, sends, shared, repeated>>

-----------------------------------------------------------------------------
Attempt(s, n) == Send(s, n) \/ SendFails(s, n) \/ GiveUp(s, n)
Record(s) == MarkSent(s) \/ MarkFailed(s)

Init ==
    /\ queue = [n \in Notification |-> Absent]
    /\ pass = [s \in Session |-> Idle]
    /\ sends = [n \in Notification |-> 0]
    /\ shared = {}
    /\ repeated = {}

Next ==
    \/ \E s \in Session :
        \/ \E e \in Event : Request(s, e)
        \/ \E n \in Notification : Enqueue(s, n) \/ Attempt(s, n) \/ Skip(s, n)
        \/ Dispatch(s)
        \/ StartPending(s)
        \/ StartRetry(s)
        \/ Record(s)
        \/ Logged(s)
        \/ LogRaises(s)
        \/ Reread(s)
        \/ Stop(s)
    \/ \E e \in Event : Cancel(e)
    \/ \E n \in Notification : Purge(n) \/ Elapse(n) \/ RetryTime(n)

Spec == Init /\ [][Next]_vars

\* What the code of a session goes on with, once it has begun: the loops of the
\* service come back from every notification, also with an exception, and the
\* handlers of the channels return.
Work(s) ==
    \/ Dispatch(s)
    \/ \E n \in Notification : Attempt(s, n) \/ Skip(s, n)
    \/ Record(s)
    \/ Logged(s)
    \/ LogRaises(s)

\* A session that is at work goes on.  Nothing is assumed of its beginning: as
\* committed, the script of the worker imports a module that does not exist and
\* its callers give NotificationService one argument of two.
Fairness == \A s \in Session : WF_vars(Work(s))

FairSpec == Spec /\ Fairness

-----------------------------------------------------------------------------
(* Properties.                                                             *)

TypeOK ==
    /\ queue \in [Notification -> Row]
    /\ pass \in [Session -> Pass \cup {Idle}]
    /\ sends \in [Notification -> 0 .. 2]
    /\ shared \subseteq Notification
    /\ repeated \subseteq Notification

\* A message goes out a second time only if two sessions had its notification in
\* hand at once, a pass ended between sending and storing SENT, or the failure
\* of a delivery was stored after the message was out.
DuplicatesHaveCause == \A n \in Notification : 
    sends[n] = 2 => n \in shared \cup repeated

\* A notification that is cancelled while no session has it in hand is never
\* sent and never taken up again.
CancelledStaysCancelled ==
    [][\A n \in Notification :
         queue[n].status = "CANCELLED" /\ ~Held(n) =>
             /\ queue'[n].status \in {"CANCELLED", "deleted"}
             /\ ~Held(n)'
             /\ sends'[n] = sends[n]]_vars

\* Unless two sessions had it in hand at once, what waits for a retry has a retry
\* left: process_retry_notifications will not pass over it for ever.
RetryLeft == \A n \in Notification :
    queue[n].status = "RETRYING" /\ n \notin shared => queue[n].retries < MaxRetries

\* A notification stored as sent has gone out.
SentWentOut == \A n \in Notification :
    queue[n].status = "SENT" => sends[n] > 0

\* Whatever a session has begun ends: a request, a task or a pass comes to its
\* last notification although each may fail, be taken for failed after it went
\* out, or be changed by others meanwhile.  (What waits for a pass to begin is
\* not said to be taken up.)
PassesEnd == \A s \in Session : pass[s] # Idle ~> pass[s] = Idle
=============================================================================

# eSalão in TLA+

eSalão is a booking system for beauty salons: a FastAPI application
(`src/backend/app`) over PostgreSQL through SQLAlchemy's asynchronous ORM, with
Celery for background work. This directory holds TLA+ models of its stateful
services, TLC configurations that check them on small instances, and theorems
about them that the TLAPS proof system has checked.

Almost everything that is hard in this code has one cause. A handler reads rows
into its own database session, computes new values from what it has read, and
writes those values back, at READ COMMITTED isolation, without
`SELECT ... FOR UPDATE`, without version columns, and often over several
commits. Whatever another session commits in between is not seen and may be
overwritten; whatever fails in between leaves the earlier commits in place. The
models therefore take a handler apart into the statements and commits it is made
of, keep "what the session has seen" as state of its own, and let other handlers
run, and the process die, between any two of them.

## Inventory

Paths are relative to `src/backend/app`.

### Payments: webhook processing (modelled)

`domain/payments/services/webhook_service.py`, `db/models/payment.py`,
`db/repositories/payment.py`.
State: the `payments` table (status, `paid_at`/`failed_at`/`canceled_at`,
`webhook_events_count`) and the `payment_webhook_events` table (processed flag,
`payment_id`, `processing_attempts`; unique on provider and event id).
Operations: receive an event, look for its record, look for its payment, apply
its status, insert the record, all in one transaction; answer an event that is
already processed; retry one that failed; recover from the unique index.
Hard: two workers handle one event; deliveries are repeated and reordered; an
event arrives before its payment; a commit fails.
Correct if: an event is applied once, in the commit that records it; the provider
is told "processed" only after that commit; records, counters and timestamps
agree with the payments.

### Payments: reconciliation (modelled)

`domain/payments/services/reconciliation_service.py`,
`domain/payments/providers/mock.py`.
State: the provider's own status of each payment; a run's selected rows and
pending changes. Operations: three ways to select payments, one question to the
provider for each, one commit at the end.
Interacts with webhook processing only through the `payments` table.
Hard: the run compares the provider's answers with rows it read before waiting
for them, while webhooks change the same rows.
Correct if: a status changes only to what the provider has said; timestamps and
existing rows survive.

### Payments: the rest (not modelled)

Refund and payment routes (`api/v1/routes/payments.py`, `refunds.py`,
`webhooks.py`) answer 501; the Celery tasks (`core/celery/tasks`) use attributes
that do not exist; `providers/stripe.py` is remote I/O;
`services/metrics_service.py` and `logging_service.py` only read and append. The
webhook and reconciliation services are constructed by tests only; the models
describe them as the callers their docstrings name would run them.

### Loyalty programme (partly modelled)

`services/loyalty.py`, `db/repositories/loyalty.py`, `db/models/loyalty.py`,
`api/v1/routes/loyalty.py`.
State: loyalty accounts (balance, lifetime points, tier, suspension, number of
referrals), point transactions, rewards with `total_redeemed`.
Operations: create an account with its signup bonus; award points for reviews,
birthdays, referrals or by an administrator; redeem points for a discount or a
reward; expire points; suspend, reactivate, upgrade.
Hard: every operation is a sequence of commits over an account that was read
once; limits are checked in one transaction and consumed in later ones.
Correct if: the balance is backed by transactions; no redemption overdraws it;
a bonus is given once; limits of rewards hold; after serial use the books
balance.

### Notifications queue (partly modelled)

`services/notifications.py`, `db/repositories/notifications.py`,
`db/models/notifications.py`, `api/v1/endpoints/notifications.py`,
`scripts/notification_worker.py`.
State: `notification_queue` rows with status, `retry_count` and `max_retries`,
`scheduled_at` and `next_retry_at`; the delivery log. Operations: queue, deliver
at once in a background task, deliver pending ones from an endpoint or the
worker, retry, cancel, clean up.
Hard: the task and the worker select the same row; a cancellation races a
delivery; a delivery fails after the message is out; nothing calls
`process_retry_notifications`.
Correct if: a message goes out twice only for a known cause; what was cancelled
while nobody had it in hand never goes out; retries are bounded by `max_retries`;
whatever a session has begun ends.

### Bookings (partly modelled)

`api/v1/routes/bookings.py`, `db/repositories/booking.py`,
`db/models/booking.py`.
State: bookings with their status, the time and the reason of a cancellation.
Operations: change the status (PATCH), cancel (DELETE). Creating a booking
through its route always fails after the slot check: it calls
`CancellationPolicyRepository.get_applicable_policy`, which is defined on another
class. The routes that cancel with a policy and those for no-shows fail before
they change a row.
Hard: statuses are read, checked and written without a lock, and an UPDATE names
only the columns that differ from what was read.
Correct if: an accepted cancellation is stored, and is of a booking that was still
open when it was read; a cancelled booking says when.

### Multi-service bookings (partly modelled)

`services/multi_service_booking.py`, `api/v1/endpoints/multi_service_booking.py`,
`db/repositories/multi_service_booking.py`, `db/models/multi_service_booking.py`.
State: packages with a status, and the bookings in them. Operations: confirm and
cancel a package with its bookings, set the package's status (PUT), change one
booking and recalculate the package (a method of the service, tested and without
a route). Creating a package fails (`SlotService` has no `is_slot_available`), and
so does listing them. The routes compare the caller's role with names that no
role has, so they ask nothing of the caller.
Hard: package and bookings are loaded by separate SELECTs; each request writes
only the bookings it saw in some statuses; PATCH and DELETE change bookings of a
package and do not tell it.
Correct if: the status of a package agrees with its bookings, whichever request
changed them.

### Catalogue: salons, professionals, services, availability (partly modelled)

`api/v1/routes/services.py`, `api/v1/routes/professionals.py`,
`db/repositories/service.py`, `db/repositories/professional.py`.
State: services (duration, deposit, `is_active`), profiles of professionals.
Operations: create, PATCH and DELETE (which deactivates). No route writes salons
or availabilities.
Hard: a PATCH is checked against the row as it was loaded and merged into the row
as it is by then; two requests hire one person.
Correct if: a deposit percentage goes with a required deposit; what is
deactivated stays so; nobody has two profiles.

### Slots (modelled)

`domain/scheduling/services/slot_service.py`, `api/v1/routes/scheduling.py`.
A calculation over the availabilities and bookings of a professional and the
duration of a service. Interacts with the catalogue (the duration) and with
bookings (their statuses).
Hard: an existing booking is given the duration of the service asked for, not its
own; with PostgreSQL's aware times the comparison raises as soon as there is a
booking.
Correct if: a slot offered lies in the hours and overlaps no active booking, and
nothing free is held back.

### Cancellation policies (partly modelled)

`domain/policies/cancellation.py`, `domain/policies/booking_cancellation.py`,
`db/repositories/cancellation_policy.py`. A pure search for the tier that
applies to the hours of notice, and a fee. Policies cannot be stored or found: the
repository uses the query interface of a synchronous session, which an
asynchronous one does not have.
Hard: tiers whose limits of notice overlap or leave a gap.
Correct if: the tier with the longest notice still given decides; who is too
late stays too late.

### Waitlist

`services/waitlist.py`, `db/repositories/waitlist.py`, `db/models/waitlist.py`.
State: entries with status, position, offer and its expiry. Operations: join,
offer, accept (which would create a booking), decline, cancel, expire. As the
code stands each of them raises before it changes a row: they use
`WaitlistStatus.ACTIVE`, which the enumeration does not define,
`func.make_interval(hours=...)`, which takes no keywords, or compare naive with
aware times. There is no behaviour to model.

### Reviews (partly modelled)

`services/review.py`, `db/repositories/review.py`, `db/models/review.py`,
`api/v1/endpoints/review.py`.
State: reviews with a moderation status, a rating and two counters; votes and
reports, one for each user. Operations: vote, change a vote, report, edit within
a day, moderate one review or a list, respond to one for the salon.
Hard: counters are read, changed and written as absolute values; reports are
counted before they are flushed; `created_at` is the time of the import; a
moderation, or a response, writes only what differs from what it read.
Correct if: counters count the votes unless votes race; no counter is negative;
edits come from the author in time; statuses and responses are signed.

### No-show detection (partly modelled)

`domain/policies/no_show.py`; `services/no_show.py`, `jobs/no_show_detection.py`.
The rules (who missed the booking, what it costs) can run; the service and the job
around them use attributes that the booking model does not have.
Correct if: fees respect their minimum and maximum, and nobody is blamed early.

### Overbooking (partly modelled)

`services/overbooking.py`, `db/repositories/overbooking.py`,
`api/v1/routes/overbooking.py`.
State: configurations, each for a service, a professional, a salon or the
platform, active or not, with a period. Operations: create one if its scope has
none that is active; search for the one in force, most specific first. PUT and
DELETE fail (`require_role` is given a list), the capacity check and the analytics
raise `TypeError`.
Hard: the check and the INSERT are separate statements and no unique constraint
stands behind them; a search is up to four SELECTs.
Correct if: no scope has two active configurations unless their creations
raced; a search answers with the most specific one in force.

### Accounts, audit, reports (not modelled)

Tokens are stateless; the race of two registrations is stopped by the unique index
on the email address (`core/security`, `api/v1/routes/auth.py`). Audit events
(`middleware/audit.py`) are appended. The cache of the reports
(`core/performance`) never holds one: `cache_report` stores dictionaries only, and
the endpoints return models and lists; and `require_role`, given a list, refuses
before that.

## Plan

The modules, most important behaviour first. All of them are written.

1. **Payments** - `Payments`, `PaymentWebhooks`, `PaymentReconciliation`,
   composed in `PaymentSystem`, which implements the abstract `PaymentLedger`;
   proofs in `PaymentProofs`.
2. **Loyalty** - `Loyalty`, which implements the abstract `LoyaltyBook` when requests
   run one at a time; proofs in `LoyaltyProofs`.
3. **Reviews** - `Reviews`, proofs in `ReviewProofs`.
4. **Bookings and packages** - `Bookings`, proofs in `BookingProofs`.
5. **Notifications** - `Notifications`, with the termination of its passes; proofs in
   `NotificationProofs`.
6. **Catalogue and slots** - `Catalogue`, extended by `Slots`; proofs in
   `SchedulingProofs`.
7. **Overbooking** - `Overbooking`, proofs in `OverbookingProofs`.
8. **Cancellation and no-show rules** - `Policies`, proofs in `PoliciesProofs`.

What would come next depends on the code. When `WaitlistStatus.ACTIVE` exists and
the intervals of its queries work, the waitlist has a protocol worth modelling
(an offer, its expiry and its acceptance race). When the creation of a booking or
of a package gets past its slot check, `Slots` and `Bookings` are to be composed: two
clients who are offered one slot are then the most important race of the program.
When refunds do more than answer 501, they belong in `PaymentSystem`.

## Modules

| Module | Models |
| --- | --- |
| `Payments` | the `payments` row that both payment services share |
| `PaymentWebhooks` | `WebhookService`: one action per statement of `_process_webhook_event` and `_retry_webhook_processing` |
| `PaymentReconciliation` | `ReconciliationService` against the mock provider |
| `PaymentSystem` | both over one table, the properties, the refinement |
| `PaymentLedger` | what the two promise: an event is applied once, also when it failed before |
| `PaymentProofs` | the theorems about `PaymentSystem` |
| `Loyalty` | `LoyaltyService` over `LoyaltyRepository`, one action per commit |
| `LoyaltyBook` | what the programme promises its members: a book in which every request is one entry |
| `LoyaltyProofs` | the theorems about `Loyalty` |
| `Bookings` | the routes of bookings and packages down to the rows, one action per SELECT or commit |
| `BookingProofs` | the theorems about `Bookings` |
| `Reviews` | the routes of `endpoints/review.py` down to the rows, one action per query or commit |
| `ReviewProofs` | the theorems about `Reviews` |
| `Notifications` | `NotificationService`, its queue and the worker, one action per commit or message |
| `NotificationProofs` | the theorems about `Notifications` |
| `Catalogue` | the routes of services and professionals, a request's SELECT and its commit apart |
| `Slots` | GET /scheduling/slots over the catalogue and the bookings; extends `Catalogue` |
| `SchedulingProofs` | the theorems about both |
| `Overbooking` | creation of and search for configurations, one action per statement |
| `OverbookingProofs` | the theorems about `Overbooking` |
| `Policies` | the rules of cancellations and no-shows, asked while time passes |
| `PoliciesProofs` | the theorems about `Policies` |
| `MCPaymentSystem`, `MCLoyalty`, `MCBookings`, `MCReviews`, `MCNotifications`, `MCScheduling`, `MCOverbooking`, `MCPolicies` | the instances that TLC checks |

An operator whose comment begins with "Mutant" is a variant of the definition
that follows it, as a plausible bug would have it; the specification does not
use it. Each property was seen to fail for one of them.

### Payments

A worker of `PaymentWebhooks` is a request in its own session. `ReceiveNew`,
`ReceiveProcessed` and `ReceiveFailed` are the three outcomes of the lookup that
begins `_process_webhook_event`; `FindPayment` is the second lookup; the commit
has four outcomes, `CommitProcessed`, `CommitNotFound`, `CommitConflict` (the
unique index) and `Fail`. `Retry` is `_retry_webhook_processing`. A worker keeps
the record and the payment row it has read (`record`, `row`), and the commit
writes what the code computes from them: only the columns the handler changed,
with absolute values, over whatever the row holds by then.

A run of `PaymentReconciliation` selects (`StartPending`, `StartStale`,
`StartSingle`), asks the provider once for each payment (`Ask`, `AskFails`) and
commits (`CommitRun`) or fails (`FailRun`). The provider's actions are those of
the mock provider, which is the one the code can run.

Abstracted: timestamps to the set of columns that are not NULL (no property is
about their values); `last_webhook_at`, ages and row limits to any choice of
rows; metadata and raw payloads are left out. Some facts of the code that the
model shows and a reader may not expect:

- A failed first attempt counts twice in `processing_attempts` (once by the
  column default, once by `mark_failed`), and so does each failed retry.
- `webhook_events_count` and `processing_attempts` may fall, when a session
  writes what it counted from an old row.
- A redelivered event whose first delivery came before its payment is never applied
  (see "Where the code and its documentation disagree").
- A reconciliation run overwrites a status that a webhook has stored since the run
  selected its rows (reconciliation_service.py:173).
- The second commit in the error path of `_retry_webhook_processing` reads an
  attribute that the rollback has expired; an asynchronous session refuses, so
  nothing is stored (`Fail`).
- An event that is recorded as failed was recorded without `payment_id`, and a
  retry looks for a payment only if there is one: the branch of `Retry` that
  applies the event is never taken (`RetryIsOfFailed` proves it). `PaymentLedger`
  allows that step all the same: what it promises is that a retry applies an event
  at most once, not that it applies none.

Not modelled: `provider_payment_id` has an index that is not unique, so a lookup
may raise `MultipleResultsFound`; `stripe.py` maps unknown event types to
PENDING, which is one of the statuses an event may carry here.

### Loyalty

A worker is a call of the service. The routes of the administrator (custom awards,
suspension, tiers, expiry; routes/loyalty.py) give `require_role` a list where it
compares one role, so as committed they refuse everybody, and nothing calls the
awards for birthdays and referrals. `Begin` and `Administer` have these methods
working: what is said here is said of the service, whoever may call it, and it has
more behaviours than the program. Redemptions, the creation of an account on the
way and awards for reviews are behind routes that can be passed.

A worker's first read gives it the account (`seen`); every
repository method commits, so what follows are separate transactions: `Insert`
(with the signup bonus still to come), `ReadReward`, `CheckLimit`,
`SelectExpired`, `FlagExpired`, `Post` (the point transaction), `Write` (the
balance), `Count` (`total_redeemed`), `CountReferral`, `Answer`. `Stop` ends a
request anywhere. The session's object is what `Write` computes from, because
the session returns the object it holds whenever it reads the row again, and an
ORM UPDATE keeps that object in step; hence the balance that is written is the
one that was read at the start plus the request's own changes. (For the same reason
the `remaining_balance` that a redemption answers, line 312 of the service,
subtracts the points a second time; answers are not modelled.)

Point transactions are modelled by their totals; `ends` and `flagged` say which
earned points have expired, in the order in which they were earned. Abstracted:
the dates at which a reward is active (a refusal is always possible: `Stop`);
`tier_points`, always written together with `lifetime_points`. Facts that the
model shows:

- Earned points expire in full, also those that were spent: legal calls alone
  make a balance negative (`OnlyExpiryOverdraws` says by how much).
- Two claims of one user at a time pass a limit of one each (services/loyalty.py:338).
- A crash between `Post` and `Write` leaves a transaction that the balance does not
  show; between `Post` and `Count`, a redemption that `total_redeemed` does not
  count, so the check lets one more pass, once for each crash and without end.
  `LimitsHoldUpToWorkers` counts the redemptions, not the counter: they exceed a
  limit by the other requests at work and, the total one, by those crashes
  (`uncounted`, a history variable), and by nothing else.
- `award_booking_points` raises before it changes anything (it reads
  `booking.user_id`, which `Booking` does not have), so the upgrade of a tier by
  points is never reached; `UpgradeTier` is the administrator's.

`LoyaltyBook` is what the members may rely on: a book with a page for each, and
entries that happen at once. Nobody joins twice, spends points that are not on
the page, takes a reward beyond its limits, or has more points expire than were
ever credited. `Loyalty!Book` maps the program to it (`Pages`): a request is
entered when it writes the balance, so the page shows the points of the row, and
leaves out what the request at work has posted before (the bonus of an account
that has only been inserted, points that are flagged, a reward that is claimed).
A request that creates an account and awards points makes two entries, one that
only finds the account none. Requests that overlap, or that stop half-way, do
not implement the book: they overspend, or leave a transaction without its
entry. Requests that run one at a time do (`ImplementsBook`).

### Bookings

A worker is a request with its session (`Session`): what it was asked, the step it
is at, and the statuses it has loaded, which is all that the handlers decide by.
Sessions do not flush before queries and return the object they hold when a row is
read again, so the second and third `get_by_id` of a handler read nothing new.

| Request | Steps |
| --- | --- |
| PATCH, DELETE | `BeginPatch` or `BeginDelete` (the booking's SELECT and the checks), `CommitStatus` |
| confirm, cancel | `BeginConfirm` or `BeginCancel` (the package's row, which the caller's own packages bring along as early as the authentication), `ReadBookings` (and the check of the package's status), `CommitConfirm` or `CommitCancel` |
| PUT | `BeginPut`, `CommitPut` |
| individual update | `BeginUpdate` (the booking), `ReadPackage`, `ReadSiblings` (flush, then the other bookings), `CommitUpdate` (recalculate and store) |
| any | `Fail` |

The flush of the individual update locks its booking until the commit, so commits
that write it wait (`Free`); the other requests flush and commit in one step. Where
PostgreSQL would find a deadlock (a confirmation locks the package first, the
update the booking first) it aborts one of the two: `Fail`. `Calculated` is
`calculate_and_update_status`.

`touched` is history: through which kinds of requests a package or a booking of it
was changed, and whether package requests overlapped (`"race"`); it is the condition
in the properties about packages. `undated` remembers what the individual update
cancelled, which sets no `cancelled_at`. A cancellation is of kind `"client"` when a client
asks for it, by PATCH or DELETE, `"delete"` or `"staff"` when the salon does. Every
booking starts PENDING in a PENDING
package, as the failing creation would store them; rows are never deleted.

Abstracted: times (a cancellation has one or not), reasons, prices, `completed_at`,
the caller of package requests. Facts that the model shows:

- A confirmation racing a cancellation may store a confirmed package of cancelled
  bookings (`ConfirmedWithBookings`); with a third request also a cancelled
  package of confirmed bookings. What such races never do is leave the bookings
  of one package in different statuses (`PackagesNeverSplit`).
- Two individual updates at a time each calculate the package without the other:
  with both bookings completed it stays PARTIALLY_COMPLETED. One at a time, the
  package agrees with its bookings (`PackageMatchesBookings`), as far as the comments
  of the enumeration tell (`Due`): where services were missed they say only that
  the package is not COMPLETED while others are to be given.
- When all bookings go back to PENDING, the recalculation leaves the package the
  status it had; `Due` asks for nothing there.
- PATCH accepts any status over any other from anyone but clients, although its
  route lists the transitions it allows (bookings.py:343). A booking taken out of
  CANCELLED keeps the time of its cancellation.
- The salon's PATCH to CANCELLED of a booking it loaded as CANCELLED stores the
  time only: it succeeds and leaves whatever status came in between. Clients and
  DELETE cannot do that (`AcceptedCancelIsStored`).
- What a client cancels, or the cancellation of the package, was PENDING or CONFIRMED
  when the request read it (`FinishedCancelsWereOpen`), and may be finished by the
  time it is overwritten. The salon's cancellations are exempt: PATCH looks at no
  status, and DELETE refuses more than its description does (below).

### Reviews

A worker is a request in the session that `get_db` gives it. Here the routes, not
the repository, commit, so a request is one transaction: it begins, reads, and
writes when it is answered (`CommitVote`, `CommitReport`, `CommitEdit`,
`CommitModeration`, `CommitResponse`) or leaves nothing (`Fail`). A vote reads three times.
`BeginVote` is the authentication, which loads the user's own votes because that
relationship is eager; `ReadForVote` reads the review with its votes; `SelectVote`
looks for the vote, and gets the loaded object back, stale, if there was one
(`OwnVote`). Reviews are kept in the same way: those that a session holds
(`known`) stay as it has first seen them (`Loads`). Users load the reviews that
they wrote or received, and a review loads its users, so nearly any review may
come along with another; the model lets any set of stored ones. `Counted` is what
the session makes of the counters, from the review it has seen; `Accepted` are the
constraints that may refuse it. `CountReports` counts the reports in the table,
without its own, since sessions do not flush before queries.

`born` and `contended` are history: when a review was really stored, which the
program does not record, and whether two votes on it were ever in flight
together, the condition under which the counters may be wrong for good.
`Restart` ends all requests and imports the models anew, which is what gives
`created_at` its value. Rows come from the repository's `create_review` (`Store`),
as in its tests: the service's reads `booking.salon_id`, which bookings do not
have, and fails. The insert is taken to succeed: `uuid` defaults to a UUID object
for a `String(36)` column (models/review.py:42), which SQLAlchemy passes on and asyncpg
refuses, so on the program's own database reviews exist only where that default
has been given as a string.

Abstracted: titles, comments and reasons (an edit changes a rating); the time, in
ticks; the status of a resolved report (`resolve_flag` passes an argument that
the repository does not take, and fails). A moderation flushes each row as it
goes, which locks it until the commit; the model leaves the rows of a list
unlocked until the one commit, so it has all the code's interleavings and a few
more. An edit reads and decides in one step, and so does a response
(`BeginResponse`); the time of a response is written with its author. Not modelled:
the repository's delete and `auto_approve_review`, which nothing calls.

Facts that the model shows:

- Two votes at once lose one of the two counts. The check constraints then turn
  a wrong counter into a failing request rather than a negative number.
- From the threshold of reports on, `flag_review` fails for every new reporter
  who is not already counted, because it sets `ReviewStatus.FLAGGED`, which
  does not exist; nothing is ever flagged. So the reports that are stored exceed the
  threshold by a few at most, which no property says: it would be one of the defect.
- After a day without a restart no review can be edited, fresh ones included:
  the default of `created_at` is evaluated at the import (models/review.py:77).
- Any owner of a salon may respond to any review, and a professional is
  recognised by comparing the user's id with `professional_id`. A response replaces
  the one before; of two at once, the text of one may end under the other's
  name, when one author's name was on the row already.
- A moderator whose name was on the row when the request read it may sign
  nothing, and leave a status under another moderator's name.

### Notifications

A `Session` is at a pass, or `Idle`. `Request`, `Enqueue` (one commit for each
channel) and `Dispatch` are `send_notification`; the task that it starts goes on with
the same session, hence the kinds `"request"` and `"task"`. `StartPending` is a pass
of the worker or of the endpoint, `StartRetry` one over those waiting for a retry.
`_deliver_notification` is `Send`, `SendFails` or `GiveUp`, then `MarkSent` and
`Logged`, or `LogRaises` and `MarkFailed`; `Stop` ends a pass anywhere. A session
keeps the rows as it has loaded them (`seen`), and `Written` is what an UPDATE
leaves: a column whose new value equals the loaded one is not named in it.
`Cancel` is one UPDATE over the rows of an event, `Purge` the clean-up.

`sends`, `shared` and `repeated` are history: how often a message went out, which
notifications two sessions had in hand at once, and whose sending ended without a
record of it. Abstracted: the times (`due`, `retryDue`), texts, templates,
channels. Preferences and templates are left out: they are single reads and writes
that no delivery consults. Facts that the model shows:

- The entry in the delivery log reads `notification.template` after the row was
  refreshed, which an asynchronous session refuses to load: a message that went out
  is stored as failed, waits for a retry, and goes out again (`LogRaises`).
- A task's session is closed with its request. What the task reads then, it reads
  anew (`Reread`), or it finds that the user is not loaded and skips (`Skip`).
- QUEUED and DELIVERED are never written; quiet hours are never consulted; the
  worker would stop each batch at a `KeyError`, asking for `'successful'` where the
  service answers `'processed'` and `'failed'`, after the pass and before the clean-up.
- `NotificationService` takes two repositories, and every caller passes a session
  alone (scripts/notification_worker.py:99, endpoints/notifications.py:219 and 415,
  and the notification services of bookings, payments, loyalty and the waitlist), a
  `TypeError`; the worker's script imports `backend.app.core.database`, which does
  not exist (line 20), and nothing calls `process_retry_notifications`. The model is
  of the service called as its signature asks, and supposes of no pass that it begins:
  `PassesEnd` is about those that have. `RetryLeft` says that a retry would find what
  waits for it.

### Catalogue and slots

An editor of `Catalogue` handles one request: it has loaded its row (`loaded`), and
its commit writes what the request names and what differs from the loaded value
(`Assigned`). `CreateService` is one transaction; `BeginPatchService` makes the check
of the deposit, `BeginHire` looks for a profile of the person, and `CommitHire` is the
INSERT under the unique index. `waived` is history: services that a PATCH freed
from a deposit.

A reader of `Slots` handles GET /scheduling/slots. `BeginSlots` loads the service;
`Answer` loads availabilities and bookings and calculates: `Generated` is
`_generate_slots_from_availabilities`, `Filtered` and `Conflicts` are
`_filter_conflicting_slots`. `Mark` is any change of a booking's status, as the
routes of `Bookings` allow them. `zoned` says whether the database returns aware times.
Abstracted: the date (one day), minutes to a coarser unit, names, prices and
commissions but one. Slots are a set; the code may list one twice when windows
overlap. Facts that the model shows:

- A short service is offered in the middle of a long booking (`OffersAreFree` is
  violated): the end of a booking is reckoned with the duration of the service asked
  for. What does hold is `OffersAreBookable`; and a long service is held back where
  only that reckoning finds a conflict (`NothingFreeIsHidden`).
- On PostgreSQL a day with an active booking and a generated slot is answered with
  an error (`ZonedAnswersAreOfEmptyDays`, proved); the tests use SQLite.
- Effective and expiry dates of availabilities are not looked at, nor whether the
  service and the professional are active, nor bookings of the day before or in
  progress.
- A PATCH to `requires_deposit = False` leaves the percentage. Only administrators
  pass the checks; "receptionist" is no role.

### Overbooking

`BeginCreate` is `check_conflicts`, `CommitCreate` the INSERT; `BeginSearch`, then
`GoOn` for each level where nothing is found, then `Settle` or `Fail`
(`scalar_one_or_none` over two rows). The time of a search is taken at its start.
`saw` is history: what was stored when each creation looked. Abstracted:
percentages, hours of the day, names. Facts that the model shows:

- "Only one active configuration per scope combination" (routes/overbooking.py:52)
  holds unless two creations overlap (`SecondsWereRaced`). After that, each later
  search or creation of the scope fails, and nothing can remove either row.
- An active configuration keeps others out of its scope whether it is expired, not
  yet begun or in force.

### Policies

`Evaluate` is `evaluate_cancellation` in the order of its tests, over `FindTier` and
`CancellationFee`; `Detect` is `evaluate_no_show_detection`, over `Blamed` and
`NoShowFee`. Init takes any policy, any rules and any price; the actions ask,
let people arrive and let time pass. Amounts are exact here; the code keeps
cancellation fees in Decimal and no-show fees in floats. Facts that the
model shows:

- A fixed fee may exceed the price; the refund is then negative. Only percentages
  bound it (`TightestTierDecides`).
- A tier without refund refuses, also where a tier of shorter notice would allow.
- A minimum above the maximum gives way to it (`NoShowFeesInBounds`).
- If both are absent, nobody is blamed.
- `BookingCancellationService.can_cancel_booking` ignores the result that the
  evaluation refuses with.

## Runs

TLC is run with `tlc -config X.cfg M`. One run assumes fairness: `notifications`
checks `FairSpec`, whose `Fairness` is weak fairness of `Work(s)` for each session `s`,
the steps by which a session goes on with what it has begun. The code justifies it:
the loops over the notifications (services/notifications.py:580 and 599) catch
every exception and go on to the next one, and a delivery awaits only a channel's
handler, which returns, and the database. Nothing is assumed of a pass's beginning,
of the worker's loop, of the clock, or of what stops a pass: as committed no caller
begins one. So no property says that what is pending is delivered; `PassesEnd` says
that what has begun ends, although failures, other sessions and the lost record
of a sent message put notifications back among those to be delivered. Elsewhere
nothing in the repository schedules redelivery, reconciliation or expiry, so there
is nothing those services must eventually do, and every other property is a
safety property.

| Run | Configuration | What it checks, and what it shows |
| --- | --- | --- |
| `payments` | `PaymentSystem.cfg` | One payment, two events, a worker and a reconciliation run, at most 2 counted attempts. `TypeOK`, `SessionsSawThePast`, `StatusChangesHaveCause`, `HistoryIsKept` hold. |
| `webhooks` | `PaymentWebhooks.cfg` | Two payments, three events, two workers (symmetric), up to 6 counted attempts, no reconciliation. `AckedIsProcessed` and `CountsEachEventOnce` hold, and the service implements `PaymentLedger`. It may stop: when all events are processed and the retries are used up. |
| `loyalty_races` | `LoyaltyRaces.cfg` | One user, a gift of which there is one, a card for each user, two symmetric requests that may stop anywhere. `SignupBonusOnce`, `PointsArePosted`, `OnlyExpiryOverdraws`, `LimitsHoldUpToWorkers` hold. |
| `loyalty_serial` | `LoyaltySerial.cfg` | Two symmetric users, two tiers, awards for birthdays and referrals and by the administrator, a reward of the second tier that is there twice and once for each user, one request at a time that runs to its end. `BooksBalance` and `LimitsHoldInTurn` hold, and the programme implements `LoyaltyBook` (`ImplementsBook`). |
| `bookings` | `Bookings.cfg` | One package of two bookings, its client and someone of the salon, who may ask for PENDING, COMPLETED, NO_SHOW and CANCELLED, three requests at a time and four in all. `TypeOK`, `PackagesNeverSplit`, `PackageMatchesBookings`, `AcceptedCancelIsStored`, `FinishedCancelsWereOpen`, `CancelledAreDated` hold. It stops when the requests are used up. |
| `booking_confirm` | `BookingConfirm.cfg` | `ConfirmedWithBookings` is violated by a confirmation and a cancellation. |
| `reviews` | `Reviews.cfg` | One review, four users (an author, an owner, a professional who is an administrator, another administrator), two symmetric requests and two texts. `TypeOK`, `CountersMatchVotes`, `EditsAreTimely`, `ChangesAreSigned` hold. |
| `notifications` | `Notifications.cfg` | Two notifications of one event, one of them without a valid address, the worker and one other session. `DuplicatesHaveCause`, `RetryLeft`, `SentWentOut`, `CancelledStaysCancelled` hold, and under `FairSpec` `PassesEnd`. |
| `scheduling` | `Scheduling.cfg` | A service, a person to hire, two symmetric editors and a client who asks for slots while bookings change. `TypeOK`, `DepositsAreRequired`, `OffersAreBookable`, `NothingFreeIsHidden`, `RetiredServicesStayRetired` hold. It stops when the requests are used up. |
| `slot_offers` | `SlotOffers.cfg` | `OffersAreFree` is violated: a short service is offered during a long booking. |
| `overbooking` | `Overbooking.cfg` | Four subjects, one of each level, two symmetric configurations and sessions. `SecondsWereRaced`, `AnswersAreMostSpecific` hold. It stops when the requests are used up. |
| `policies` | `Policies.cfg` | All policies of up to three of seven tiers, all pairs of five rules, a booking in the middle of five instants. `NoShowFeesInBounds`, `TightestTierDecides`, `TooLateIsFinal` hold. |

The bounds. Two workers are enough for every race between a read and a write of
one row: each hazard needs one session that reads, another that commits and the
first that writes. `MaxAttempts` stops redeliveries of failed events, at a
number that leaves room for a retry racing a retry. `MaxPosted` stops new
requests once so many points are posted; it leaves room for two awards and two
redemptions, and expiry goes on. Signup bonuses, costs and awards are a few
points, different enough that points counted twice or in the wrong column change
a total. Each reward has one limit of 1 in `loyalty_races`, so that two
claims exceed it and each limit is exceeded by its own cause; in `loyalty_serial`
each user may claim the gift once and there are two, so that it is the limit of
the user that refuses the second claim. The three kinds of award are one that depends on the tier, one that counts referrals, and
one that is posted as an adjustment and never expires; reviews are posted like
birthdays. Four points (`MaxPosted`) are enough for a bonus, an award, a claim
and their expiry. In `Reviews`, `Mixes` says which kinds of requests are sent in
the same behaviour: votes, reports, edits, moderations and responses write
disjoint columns and tables and read none of each other's, so the run explores
them side by side instead of their product, each with all its races (the
theorems allow any mix). `MaxCount` admits no vote once a counter is at 2, which
leaves room for two votes at once and a change of mind after; `MaxClock` is
twice the edit window of 2 ticks, so that a review can be stored before and
after the window of its import; the threshold of reports is 1 for three possible
reporters; the clock stands still where no edits are sent, since nothing else
looks at it. In `Bookings`, four requests (`MaxRequests`) leave room for two
that prepare a package and two that race, or for three at once and one after
them; two bookings are what a package needs to be split or partly done; the
statuses that may be asked for (`AskedStatus`, `AskedPackage`) are one of each
kind that `Calculated` tells apart, CONFIRMED coming from confirmations. In
`Notifications`, `Limit` is 1 for two notifications of different priority, so
that one waits for the other; `MaxRetries` is 2, so that a first failure is
retried and a second is not; messages are counted up to 2. In `Slots`, the day
has six units, with two windows that overlap and one that is not active;
bookings last 3 units or 1, services 1 or 2, so that bookings are shorter and
longer than the service and slots touch them at both ends; three edits
(`MaxEdits`) are a creation and two PATCHes or deletions that race, or two
hirings; one slot request (`MaxReads`) and one change of a status (`MaxMarks`)
can fall between its two reads. In `Overbooking`, three requests (`MaxRequests`)
are two creations that race and a search that meets them; the periods are
always, from the next instant on, and until now. In `Policies`, three tiers
(`MaxTiers`) leave one between the others, the seven cover both kinds of fee,
with and without refund, at four limits of notice, and the five instants
(`MaxTime`) lie on both sides of each limit, of the start and of the delay. The
theorems need none of these bounds.

## Where the code and its documentation disagree

The models follow the code. Two disagreements have runs of their own
(`ConfirmedWithBookings`, `OffersAreFree`). Of the others, no property holds one
side against the other: what is checked is meant to be true of the code as it is
and of a repaired one.

- **Retries of webhook events.** `WebhookService` processes events "exactly once"
  (webhook_service.py:58) and retries a failed one (lines 210 and 361). A record
  stored because its payment was unknown has no `payment_id`, and the retry looks for
  the payment by nothing else, so it fails for ever. `ImplementsLedger` allows the
  retry to succeed and does not require it.
- **DELETE of a booking** is described as equivalent to PATCH with `cancelled`, and by it
  receptionists and administrators may cancel any booking (routes/bookings.py:441
  and 445). The code asks every role for a PENDING or CONFIRMED booking.
  `FinishedCancelsWereOpen` says nothing about the salon's cancellations.
- **Completed packages.** COMPLETED is "all services completed successfully"
  (models/multi_service_booking.py:30-31); the calculation counts NO_SHOW as
  completed (repositories/multi_service_booking.py:206), so a package that nobody
  came to is COMPLETED. `Due` requires that of no package with a missed service.
- **Limits of rewards.** The check of `total_available` can be passed again whenever a
  process dies between a redemption and its counting.
- **Flags on reviews.** "Auto-flag after 3 reports" (repositories/review.py:388) needs
  `ReviewStatus.FLAGGED`, which does not exist. The count leaves out the new report, which
  is not flushed yet, so the fourth report and all after it fail.
- **UUIDs of reviews** are objects in a column of strings (models/review.py:42).
- **The notification worker** cannot start, and no caller can build the service
  (see Notifications).
- **Administration of the loyalty programme** is refused to everybody (see Loyalty).

## Theorems

`PaymentProofs` proves of `PaymentSystem!Spec`, for any sets of payments,
workers and runs and any finite set of events, the properties of the runs
`payments` and `webhooks`, and two more: `StatusHasTimestamp` (a status that a webhook
set has its timestamp) and `RecordsAreConsistent`. The invariant `Inv` adds to them that absent rows are
blank. It is inductive because of `SessionsSawThePast`: a session commits what it
computed from old rows, which is sound only because the things it relied on
(the payment exists, a timestamp is set, an event is processed) never become
false again. `LedgerImplemented` is the refinement: every action is a step of
`PaymentLedger` or a stutter under the mapping of `PaymentSystem!Ledger`: an event
is applied to its payment in the commit that marks it processed, at most once and
for good, no status changes besides unless there are runs to observe it, and an event
that failed may be applied later, as the code means to; a program whose retries
succeed would implement this ledger too.

`LoyaltyProofs` proves of `Loyalty!Spec`, for any users and rewards, any finite
set of workers and any costs, points and limits, its type correctness and the four
properties of `loyalty_races`. The invariant `Inv` adds `WorkersAreRight`: the point that a
request of each kind can have reached (`InOrder`), and that the account a session
holds, and the row it is about to write, are backed by posted points
(`SeenIsBacked`). That is why lost updates lose points but never create them:
totals of transactions only grow, so a stale balance is still backed when it is
written. The limits need counting: the lemmas `AdmittedMove` and `ClaimingMoves`
say that one step moves one worker into or out of the set of those that have
passed a check, so that what `total_redeemed` says and what is about to be counted
never exceed the limit by more than the number of other workers
(`CounterIsLimited`). That the redemptions are those of the counter, those whose
request is about to count them (`Owing`) and those whose request stopped before
(`uncounted`) is `KnownUses`, with the sum over the users of the reward's
redemptions (`UsesCorrect`); `LimitsCorrect` puts the two together.

Of `Loyalty!SerialSpec`, in which one request runs at a time, `LoyaltyProofs`
proves first that it is a special case (`SerialImplements`), so that `Inv` holds there
as well, and then `BooksBalance` and `LimitsHoldInTurn`. Neither is inductive: both
are false in the middle of a request. `SerialInv` says what is true there: nobody
else is at work (`OneAtWork`), the session holds the totals of the row, and the row
accounts for the transactions once what was posted is written (`InBooks`); a
redemption that was posted is still to be counted (`OwesCount`). `SerialLimits`
counts the claim that has passed a check together with those that are stored.
`BooksBalance` compares `total_redeemed` with a sum over all users. That the fold of
the community modules is such a sum is proved for any finite set of users
(`FiniteUsers`): `SumsExist` shows, by a least counterexample in the size of a set,
that there is a function on the finite sets of users that satisfies the equation
which the fold is defined by, and `SumOfOneMore` that the sum grows by one with one
of its terms.

`BookImplemented` is the refinement: of the steps of a request only `Write` is
an entry (`WriteEntered`), all others leave every page as it is (`BeginUnseen`,
`InsertUnseen`, `PostUnseen`, `FlagUnseen`, `ReadIsUnseen`, `AdministerUnseen`).
When the balance is written, most of what justifies the entry is no longer
checked: the checks are several commits back, and the transaction that they
allowed is already posted. `EntryInv` carries it to that point. It says what the
request was asked for (`Asked`), that the account it holds covers what it
redeems (`Covered`), and that a point is flagged as expired as often as it was
posted as such (`ExpiresOnce`), which is why no point expires twice and why more
than `lifetime_points` never do. The limits come from `SerialLimits`, and the
number of rewards on all pages is `total_redeemed` by the lemmas about sums
(`TakenIsCounted`).

`BookingProofs` proves of `Bookings!Spec`, for any bookings, packages, users and
number of requests at a time, the six properties of `bookings`. The invariant `Inv`
adds what each kind of session has loaded by each step (`Sound`) and two conditional
facts: while a package is only confirmed and cancelled, a session about to commit has
seen all its bookings in one status (`SeesWhole`), so that it writes all of them or
none; and while no package requests overlapped, a session that is at work on a
package has seen it as it is (`SeesNow`), so that what it calculates fits what it
leaves (`LeftIn`, the exact result, of which `Due` asks what the enumeration's
comments say). `CommitStep` says once for all commits what they must leave; that other
sessions keep their facts follows there, because a commit under the eyes of another
session makes the history say so.

`ReviewProofs` proves of `Reviews!Spec`, for any reviews, any finite sets of users
and workers, any window, threshold and mix, the four properties of `reviews`. The
invariant `Inv` adds what a session may rely on (`Sound`): the reviews that its
session holds stay stored; an edit that was in time for `created_at` is in time for the moment
of storing, which is not earlier than the import (`RowsAreSound`); who is about to
respond may; and a vote that
is alone on its review (`VotesAreAlone`) has read counters and an own vote that are
still those in the tables. `CountedMatches` then says that the counters it writes
match, by adding to and removing from the finite sets of votes (`CastMoves`).

`NotificationProofs` proves of `Notifications!Spec`, for any finite or infinite sets of
notifications, events and sessions and any limits, its type correctness and
the four safety properties of `notifications`. The invariant `IInv` adds where a pass may stand with its
notifications (`Placed`), that absent rows are untouched (`AbsentUntouched`), and that
as long as no two sessions had a notification in hand at once one session holds it
(`OneHolder`) and has it as it is stored, cancellations and SENT apart (`HolderIsRight`),
so that what it concludes
about retries and sendings is right (`SentInHand`, `SentIsSettled`). A second sending
without sharing then starts from a row that does not say SENT, which only a
sending without a record leaves.

`SchedulingProofs` proves of `Slots!Spec`, for any catalogue, hours, bookings,
intervals and durations, all properties of `scheduling`,
and `OneProfileEach` and `ZonedAnswersAreOfEmptyDays`. The invariant `IInv` adds that
a session's row still exists, what a PATCH with a percentage asks for
(`AsksForDeposit`), and that the deposit it relies on, if it relies on the loaded
row, is still required unless a PATCH has waived it (`LoadedDepositHolds`).
`OffersAreBookable` is proved down to the arithmetic of `Conflicts`, and
`NothingFreeIsHidden` (`NothingHidden`) from the reckoning of `Generated` and
`Filtered`: what is not offered, either no window generates or a booking hides.

`OverbookingProofs` proves of `Overbooking!Spec`, for any subjects, periods and sessions,
its type correctness, the two properties of `overbooking`, and `FailuresHaveCause`: a search fails only
over two configurations whose creations overlapped. The invariant `IInv` adds that
a creation saw its scope free (`SawFree`) and what a search has excluded by each
level (`SessionsSound`): what was stored before it began and was in force is not
of a level it has passed.

`PoliciesProofs` proves of `Policies!Spec`, for any tiers, windows, rules and prices, the
three properties of `policies` and its type correctness. `FindTierFindsTightest`
shows that the CHOOSE in `FindTier` has a witness, by the least element of a set of
natural numbers, and that it is the tier with the longest notice still given. The
invariant `IInv` adds that a booking for which it was too late is too late for
every tier (`TooLateFor`): notice only shrinks.

The assumptions are the named ones of the modules (`EventsAssumption`,
`ScenariosAssumption`, `FiniteEvents`, `LoyaltyAssumption`, `FiniteUsers`, `BookingAssumption`,
`ReviewsAssumption`, `NotificationsAssumption`, `CatalogueAssumption`,
`SlotsAssumption`, `OverbookingAssumption`, `PoliciesAssumption`): the constants have
their types and the sets that are counted are finite. TLC evaluates them in every
run.

Only model-checked: `PassesEnd`, liveness under fairness, which is out of
the proof system's reach (as ENABLED is), and the two violated properties. Only
proved, and in no run, are `StatusHasTimestamp`, `RecordsAreConsistent`,
`OneProfileEach`, `ZonedAnswersAreOfEmptyDays`, `FailuresHaveCause` and the type
correctness of `Loyalty`, `Notifications`, `Overbooking` and `Policies`. The
induction theorems of the library take an operator as a parameter, which the
provers cannot instantiate; the one induction needed here, over the size of a
set, goes by a least counterexample instead.

## Not modelled

- **Refunds, other providers, metrics and logs of payments**: the routes answer 501, the
  Celery tasks use attributes that do not exist, Stripe is remote I/O, the
  rest reads or appends.
- **Creation of bookings and of packages, cancellation with a policy, the routes for
  no-shows and for policies**: each fails before it changes a row, at a method or an
  attribute that does not exist where it is looked for.
- **Waitlist**: every operation fails before it changes a row.
- **Booking points of the loyalty programme**: `award_booking_points` reads an
  attribute that bookings do not have.
- **Preferences, templates and statistics of notifications**: single reads and writes on
  which no delivery depends.
- **Overbooking capacity and analytics, PUT and DELETE of configurations**: they fail
  before they change a row.
- **Accounts, audit, reports**: no protocol; see the inventory.
- **Scripts, migrations, seeds, the frontend**: `src/scripts` holds reports about the
  project's own phases and deployment; none of it is the program's logic.

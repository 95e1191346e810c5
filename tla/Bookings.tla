------------------------------ MODULE Bookings ------------------------------
(***************************************************************************)
(* The bookings of eSalao and the multi-service packages they belong to:   *)
(* the routes that change the status of one booking                        *)
(* (api/v1/routes/bookings.py), the routes that confirm, cancel or edit a  *)
(* package (api/v1/endpoints/multi_service_booking.py) and the service     *)
(* method that changes one booking of a package and recalculates the       *)
(* package (services/multi_service_booking.py).                            *)
(*                                                                         *)
(* A request is a worker with a database session of its own.  Its SELECTs  *)
(* are separate steps: PostgreSQL runs them at READ COMMITTED, so each one *)
(* sees what is committed by then, and the session keeps the rows it has   *)
(* loaded until it ends.  What a request writes becomes visible with its   *)
(* commit; an UPDATE names only the columns whose value differs from the   *)
(* loaded one.  No row carries a version and no SELECT takes a lock.       *)
(***************************************************************************)
EXTENDS Naturals

CONSTANTS Booking,          \* rows of the table bookings
          Package,          \* rows of the table multi_service_bookings
          NoPackage,        \* the package of a booking made on its own
          PackageOf,        \* the package each booking belongs to
          User,             \* who calls the booking routes
          Client,           \* the users whose role is CLIENT
          ClientOf,         \* the client of each booking
          Worker,           \* the requests the server handles at a time
          AskedStatus,      \* booking statuses a request may ask for
          AskedPackage,     \* package statuses a request may ask for
          MaxRequests       \* bound: requests of a behaviour

BookingStatus == {"PENDING", "CONFIRMED", "IN_PROGRESS", "COMPLETED",
                  "CANCELLED", "NO_SHOW"}

PackageStatus == {"PENDING", "CONFIRMED", "PARTIALLY_COMPLETED", "COMPLETED",
                  "CANCELLED", "PARTIALLY_CANCELLED"}

ASSUME BookingAssumption ==
    /\ NoPackage \notin Package
    /\ PackageOf \in [Booking -> Package \cup {NoPackage}]
    /\ Client \subseteq User
    /\ ClientOf \in [Booking -> Client]
    /\ AskedStatus \subseteq BookingStatus
    /\ AskedPackage \subseteq PackageStatus
    /\ MaxRequests \in Nat

VARIABLES booking,          \* the stored bookings
          package,          \* the stored status of each package
          worker,           \* the request each worker handles, or Idle
          requests,         \* how many requests have begun
          touched,          \* history: how each package's rows were changed
          undated           \* history: bookings an individual update cancelled

vars == <<booking, package, worker, requests, touched, undated>>

Idle == [kind |-> "idle"]
Unread == "unread"          \* a row the session has not loaded

\* The bookings of package p.
Of(p) == {b \in Booking : PackageOf[b] = p}

\* The statuses from which a booking may be cancelled by its client, by
\* DELETE, or with its package.
Cancellable == {"PENDING", "CONFIRMED"}

\* can_be_cancelled of a package.
CanBeCancelled(s) == s \in {"PENDING", "CONFIRMED", "PARTIALLY_COMPLETED"}

Done == {"COMPLETED", "NO_SHOW"}

\* Mutant of Calculated: a cancelled booking is looked for first.
CalculatedInOrder(p, current, st) ==
    LET some(S) == \E b \in Of(p) : st[b] \in S
    IN  IF some({"CANCELLED"}) THEN "PARTIALLY_CANCELLED"
        ELSE IF some(Done \cup {"IN_PROGRESS"})
        THEN IF some(BookingStatus \ Done) THEN "PARTIALLY_COMPLETED"
             ELSE "COMPLETED"
        ELSE IF some({"PENDING"}) THEN current ELSE "CONFIRMED"

\* The status calculate_and_update_status gives package p, whose row holds
\* current and whose bookings it sees as st.
Calculated(p, current, st) ==
    LET all(S)  == \A b \in Of(p) : st[b] \in S
        some(S) == \E b \in Of(p) : st[b] \in S
    IN  IF Of(p) = {} THEN current
        ELSE IF all({"CANCELLED"}) THEN "CANCELLED"
        ELSE IF some({"CANCELLED"}) THEN "PARTIALLY_CANCELLED"
        ELSE IF all(Done) THEN "COMPLETED"
        ELSE IF some(Done \cup {"IN_PROGRESS"}) THEN "PARTIALLY_COMPLETED"
        ELSE IF all({"CONFIRMED"}) THEN "CONFIRMED"
        ELSE current

-----------------------------------------------------------------------------
(* Requests.                                                               *)

Kind == {"client", "staff", "delete", "confirm", "cancel", "put", "update"}

\* The session of a request: what was asked, the next thing it does, and the
\* statuses it has loaded.
Session == [kind : Kind, step : {"package", "bookings", "commit"},
            booking : Booking \cup {Unread}, target : Package \cup {NoPackage},
            status : BookingStatus \cup PackageStatus, partial : BOOLEAN,
            package : PackageStatus \cup {Unread},
            seen : [Booking -> BookingStatus \cup {Unread}]]

\* What a request that has just loaded booking b has seen.
Sees(b) == [x \in Booking |-> IF x = b THEN booking[x].status ELSE Unread]

\* What a request that has not loaded a booking has seen.
SeesNone == [x \in Booking |-> Unread]

Begin(w, session) ==
    /\ worker[w] = Idle
    /\ requests < MaxRequests
    /\ requests' = requests + 1
    /\ worker' = [worker EXCEPT ![w] = session]
    /\ UNCHANGED <<booking, package, touched, undated>>

\* Row b is free to be written by w: no other session has flushed it and not
\* committed yet.  Only the individual update has steps between the two.
Free(b, w) ==
    \A v \in Worker \ {w} :
        worker[v] # Idle =>
            ~ (worker[v].kind = "update" /\ worker[v].step = "commit"
               /\ worker[v].booking = b)

\* Package p was changed by w, in the way how says; "race" when a package
\* request of another worker is at work on it.
Touch(p, w, how) ==
    touched' = [q \in Package |->
        IF q # p THEN touched[q]
        ELSE touched[q] \cup how \cup
             IF \E v \in Worker \ {w} :
                    /\ worker[v] # Idle /\ worker[v].target = p
                    /\ worker[v].kind \in {"confirm", "cancel", "update"}
             THEN {"race"} ELSE {}]

Finish(w) ==
    /\ worker' = [worker EXCEPT ![w] = Idle]
    /\ UNCHANGED requests

\* The request ends before its commit: a guard refuses it, an UPDATE fails (as
\* the victim of a database deadlock, say) or the connection is lost.  The
\* session is rolled back.
Fail(w) ==
    /\ worker[w] # Idle
    /\ Finish(w)
    /\ UNCHANGED <<booking, package, touched, undated>>

-----------------------------------------------------------------------------
(* One booking: PATCH /bookings/{id}/status and DELETE /bookings/{id}.     *)

\* Mutant of BeginPatch: a client's cancellation does not look at the status.
BeginPatchAny(w, u, b, s) ==
    /\ u \in Client => ClientOf[b] = u /\ s = "CANCELLED"
    /\ Begin(w, [kind |-> IF u \in Client THEN "client" ELSE "staff",
                 step |-> "commit", booking |-> b, target |-> PackageOf[b],
                 status |-> s, partial |-> FALSE, package |-> Unread,
                 seen |-> Sees(b)])

\* A client may only cancel, only a booking of theirs, and only one they find
\* PENDING or CONFIRMED; any other role may ask for any status.
BeginPatch(w, u, b, s) ==
    /\ u \in Client => /\ ClientOf[b] = u
                       /\ s = "CANCELLED"
                       /\ booking[b].status \in Cancellable
    /\ Begin(w, [kind |-> IF u \in Client THEN "client" ELSE "staff",
                 step |-> "commit", booking |-> b, target |-> PackageOf[b],
                 status |-> s, partial |-> FALSE, package |-> Unread,
                 seen |-> Sees(b)])

\* DELETE cancels.  It asks every role for a PENDING or CONFIRMED booking,
\* although its description lets receptionists and administrators cancel any.
BeginDelete(w, u, b) ==
    /\ u \in Client => ClientOf[b] = u
    /\ booking[b].status \in Cancellable
    /\ Begin(w, [kind |-> IF u \in Client THEN "client" ELSE "delete",
                 step |-> "commit", booking |-> b, target |-> PackageOf[b],
                 status |-> "CANCELLED", partial |-> FALSE,
                 package |-> Unread, seen |-> Sees(b)])

\* Mutant of CommitStatus: the status is written only over the one the request
\* has loaded, and nobody looks whether a row was changed.
CommitStatusIfSame(w) ==
    /\ worker[w] # Idle
    /\ worker[w].kind \in {"client", "staff", "delete"}
    /\ LET me == worker[w]
           b  == me.booking
       IN  /\ Free(b, w)
           /\ booking' = IF booking[b].status # me.seen[b] THEN booking
                         ELSE [booking EXCEPT ![b] =
                  [status |-> me.status,
                   cancelledAt |-> \/ booking[b].cancelledAt
                                   \/ me.status = "CANCELLED"]]
           /\ Touch(me.target, w, {"booking"})
    /\ Finish(w)
    /\ UNCHANGED <<package, undated>>

\* Mutant of CommitStatus: the time of a cancellation is kept for those of
\* confirmed bookings.
CommitStatusUndated(w) ==
    /\ worker[w] # Idle
    /\ worker[w].kind \in {"client", "staff", "delete"}
    /\ LET me == worker[w]
           b  == me.booking
       IN  /\ Free(b, w)
           /\ booking' = [booking EXCEPT ![b] =
                  [status |-> IF me.status # me.seen[b] THEN me.status
                              ELSE booking[b].status,
                   cancelledAt |-> \/ booking[b].cancelledAt
                                   \/ /\ me.status = "CANCELLED"
                                      /\ me.seen[b] = "CONFIRMED"]]
           /\ Touch(me.target, w, {"booking"})
    /\ Finish(w)
    /\ UNCHANGED <<package, undated>>

\* update_status and the commit: the status is written when it differs from
\* the loaded one, the time of a cancellation always.
CommitStatus(w) ==
    /\ worker[w] # Idle
    /\ worker[w].kind \in {"client", "staff", "delete"}
    /\ LET me == worker[w]
           b  == me.booking
       IN  /\ Free(b, w)
           /\ booking' = [booking EXCEPT ![b] =
                  [status |-> IF me.status # me.seen[b] THEN me.status
                              ELSE booking[b].status,
                   cancelledAt |-> \/ booking[b].cancelledAt
                                   \/ me.status = "CANCELLED"]]
           /\ Touch(me.target, w, {"booking"})
    /\ Finish(w)
    /\ UNCHANGED <<package, undated>>

-----------------------------------------------------------------------------
(* Packages: the routes load the package's row (when the package is the    *)
(* caller's own, already with the authenticated user), then its bookings.  *)

BeginConfirm(w, p) ==
    Begin(w, [kind |-> "confirm", step |-> "bookings", booking |-> Unread,
              target |-> p, status |-> "CONFIRMED", partial |-> FALSE,
              package |-> package[p], seen |-> SeesNone])

BeginCancel(w, p, partial) ==
    Begin(w, [kind |-> "cancel", step |-> "bookings", booking |-> Unread,
              target |-> p, status |-> "CANCELLED", partial |-> partial,
              package |-> package[p], seen |-> SeesNone])

\* PUT sets the status of the package's row to any value; it loads the
\* bookings too and does not use them.
BeginPut(w, p, s) ==
    Begin(w, [kind |-> "put", step |-> "commit", booking |-> Unread,
              target |-> p, status |-> s, partial |-> FALSE,
              package |-> package[p], seen |-> SeesNone])

\* The SELECT of the bookings, after which the status of the package's row is
\* looked at: a package is confirmed when PENDING.
ReadBookings(w) ==
    /\ worker[w] # Idle
    /\ worker[w].kind \in {"confirm", "cancel"}
    /\ worker[w].step = "bookings"
    /\ worker[w].kind = "confirm" => worker[w].package = "PENDING"
    /\ worker[w].kind = "cancel" => CanBeCancelled(worker[w].package)
    /\ worker' = [worker EXCEPT ![w] =
          [@ EXCEPT !.step = "commit",
                    !.seen = [x \in Booking |->
                        IF x \in Of(worker[w].target)
                        THEN booking[x].status ELSE Unread]]]
    /\ UNCHANGED <<booking, package, requests, touched, undated>>

\* Mutant of CommitConfirm: the loop ends with the first booking it confirms.
CommitConfirmFirst(w) ==
    /\ worker[w] # Idle
    /\ worker[w].kind = "confirm" /\ worker[w].step = "commit"
    /\ LET me == worker[w]
       IN  /\ \E b \in Of(me.target) :
                  /\ me.seen[b] = "PENDING"
                  /\ booking' = [booking EXCEPT ![b].status = "CONFIRMED"]
           /\ package' = [package EXCEPT ![me.target] = "CONFIRMED"]
           /\ Touch(me.target, w, {})
    /\ Finish(w)
    /\ UNCHANGED undated

\* confirm_multi_service_booking: the bookings loaded as PENDING.
CommitConfirm(w) ==
    /\ worker[w] # Idle
    /\ worker[w].kind = "confirm" /\ worker[w].step = "commit"
    /\ LET me == worker[w]
           confirmed == {b \in Of(me.target) : me.seen[b] = "PENDING"}
       IN  /\ \A b \in confirmed : Free(b, w)
           /\ booking' = [b \in Booking |->
                  IF b \in confirmed
                  THEN [booking[b] EXCEPT !.status = "CONFIRMED"]
                  ELSE booking[b]]
           /\ package' = [package EXCEPT ![me.target] = "CONFIRMED"]
           /\ Touch(me.target, w, {})
    /\ Finish(w)
    /\ UNCHANGED undated

\* cancel_multi_service_booking: the bookings loaded as PENDING or CONFIRMED.
\* When that leaves one that is not cancelled, the caller must have asked for
\* a partial cancellation, and at least one must be cancelled; otherwise
\* ValueError.
CommitCancel(w) ==
    /\ worker[w] # Idle
    /\ worker[w].kind = "cancel" /\ worker[w].step = "commit"
    /\ LET me == worker[w]
           cancelled == {b \in Of(me.target) : me.seen[b] \in Cancellable}
           counted == {b \in Of(me.target) :
                          me.seen[b] \in Cancellable \cup {"CANCELLED"}}
           whole == counted = Of(me.target)
       IN  /\ whole \/ (counted # {} /\ me.partial)
           /\ \A b \in cancelled : Free(b, w)
           /\ booking' = [b \in Booking |->
                  IF b \in cancelled
                  THEN [status |-> "CANCELLED", cancelledAt |-> TRUE]
                  ELSE booking[b]]
           /\ package' = [package EXCEPT ![me.target] =
                  IF whole THEN "CANCELLED" ELSE "PARTIALLY_CANCELLED"]
           /\ Touch(me.target, w, {})
    /\ Finish(w)
    /\ UNCHANGED undated

CommitPut(w) ==
    /\ worker[w] # Idle
    /\ worker[w].kind = "put"
    /\ LET me == worker[w]
       IN  /\ package' = [package EXCEPT ![me.target] =
                  IF me.status # me.package THEN me.status ELSE @]
           /\ Touch(me.target, w, {"put"})
    /\ Finish(w)
    /\ UNCHANGED <<booking, undated>>

-----------------------------------------------------------------------------
(* update_individual_booking_status: load the booking and, with it, its    *)
(* package's row; flush the booking; load the other bookings; recalculate. *)

BeginUpdate(w, b, s) ==
    /\ PackageOf[b] # NoPackage
    /\ Begin(w, [kind |-> "update", step |-> "package", booking |-> b,
                 target |-> PackageOf[b], status |-> s, partial |-> FALSE,
                 package |-> Unread, seen |-> Sees(b)])

\* Mutant of ReadPackage: the package's row is left to be loaded later.
ReadPackageLazily(w) ==
    /\ worker[w] # Idle
    /\ worker[w].kind = "update" /\ worker[w].step = "package"
    /\ worker' = [worker EXCEPT ![w].step = "bookings"]
    /\ UNCHANGED <<booking, package, requests, touched, undated>>

ReadPackage(w) ==
    /\ worker[w] # Idle
    /\ worker[w].kind = "update" /\ worker[w].step = "package"
    /\ worker' = [worker EXCEPT ![w] =
          [@ EXCEPT !.step = "bookings", !.package = package[worker[w].target]]]
    /\ UNCHANGED <<booking, package, requests, touched, undated>>

\* The flush locks the booking's row until the commit; the SELECT that follows
\* finds the other bookings as they are committed by now.
ReadSiblings(w) ==
    /\ worker[w] # Idle
    /\ worker[w].kind = "update" /\ worker[w].step = "bookings"
    /\ Free(worker[w].booking, w)
    /\ worker' = [worker EXCEPT ![w] =
          [@ EXCEPT !.step = "commit",
                    !.seen = [x \in Booking |->
                        IF x \in Of(worker[w].target) \ {worker[w].booking}
                        THEN booking[x].status ELSE worker[w].seen[x]]]]
    /\ UNCHANGED <<booking, package, requests, touched, undated>>

CommitUpdate(w) ==
    /\ worker[w] # Idle
    /\ worker[w].kind = "update" /\ worker[w].step = "commit"
    /\ LET me  == worker[w]
           b   == me.booking
           new == Calculated(me.target, me.package,
                             [me.seen EXCEPT ![b] = me.status])
       IN  /\ booking' = [booking EXCEPT ![b].status =
                  IF me.status # me.seen[b] THEN me.status ELSE @]
           /\ package' = [package EXCEPT ![me.target] =
                  IF new # me.package THEN new ELSE @]
           /\ undated' = undated \cup
                  IF me.status = "CANCELLED" THEN {b} ELSE {}
           /\ Touch(me.target, w, {"update"})
    /\ Finish(w)

-----------------------------------------------------------------------------

Init ==
    /\ booking = [b \in Booking |-> [status |-> "PENDING", cancelledAt |-> FALSE]]
    /\ package = [p \in Package |-> "PENDING"]
    /\ worker = [w \in Worker |-> Idle]
    /\ requests = 0
    /\ touched = [p \in Package |-> {}]
    /\ undated = {}

BookingRequest(w) ==
    \/ \E u \in User, b \in Booking, s \in AskedStatus : BeginPatch(w, u, b, s)
    \/ \E u \in User, b \in Booking : BeginDelete(w, u, b)
    \/ CommitStatus(w)

PackageRequest(w) ==
    \/ \E p \in Package : BeginConfirm(w, p)
    \/ \E p \in Package, partial \in BOOLEAN : BeginCancel(w, p, partial)
    \/ \E p \in Package, s \in AskedPackage : BeginPut(w, p, s)
    \/ ReadBookings(w)
    \/ CommitConfirm(w)
    \/ CommitCancel(w)
    \/ CommitPut(w)

UpdateRequest(w) ==
    \/ \E b \in Booking, s \in AskedStatus : BeginUpdate(w, b, s)
    \/ ReadPackage(w)
    \/ ReadSiblings(w)
    \/ CommitUpdate(w)

Next == \E w \in Worker : \/ BookingRequest(w)
                          \/ PackageRequest(w)
                          \/ UpdateRequest(w)
                          \/ Fail(w)

Spec == Init /\ [][Next]_vars

-----------------------------------------------------------------------------
(* Properties.                                                             *)

\* Rows and sessions have their types; a session that is about to commit a
\* package has loaded its row and, but for PUT, every booking of it.
TypeOK ==
    /\ booking \in [Booking -> [status : BookingStatus, cancelledAt : BOOLEAN]]
    /\ package \in [Package -> PackageStatus]
    /\ worker \in [Worker -> Session \cup {Idle}]
    /\ requests \in 0..MaxRequests
    /\ touched \in [Package -> SUBSET {"booking", "put", "update", "race"}]
    /\ undated \subseteq Booking
    /\ \A w \in Worker :
          /\ worker[w] # Idle
          /\ worker[w].kind \in {"confirm", "cancel", "update"}
          /\ worker[w].step = "commit"
          => /\ worker[w].package # Unread
             /\ \A b \in Of(worker[w].target) : worker[w].seen[b] # Unread

\* A cancelled booking says when it was cancelled, whatever else was written to
\* the row in between, unless the individual update cancelled it: the method
\* sets completed_at and no cancelled_at.
CancelledAreDated ==
    \A b \in Booking : booking[b].status = "CANCELLED" =>
                          booking[b].cancelledAt \/ b \in undated

\* A client's cancellation, and any DELETE, that is accepted leaves the
\* booking CANCELLED, whatever was committed since the request loaded it.  An
\* UPDATE leaves out a status that equals the loaded one, so this rests on the
\* handlers' refusing a booking they find CANCELLED.
AcceptedCancelIsStored ==
    [][\A w \in Worker :
          /\ worker[w] # Idle
          /\ worker[w].kind \in {"client", "delete"}
          /\ CommitStatus(w)
          => booking'[worker[w].booking].status = "CANCELLED"]_vars

\* A booking that was completed, or missed, is cancelled by a client or with
\* its package only when the request had found it PENDING or CONFIRMED: both
\* look at the booking once, and what the salon stores between that look and
\* their commit is what they overwrite.  Nothing is asked of the salon's own
\* PATCH and DELETE, by whose descriptions it may cancel any booking, or of the
\* individual update.
FinishedCancelsWereOpen ==
    [][\A b \in Booking :
          booking[b].status \in Done /\ booking'[b].status = "CANCELLED"
          => \E w \in Worker :
                 /\ worker[w] # Idle /\ worker'[w] = Idle
                 /\ \/ worker[w].kind \in {"staff", "delete", "update"}
                    \/ worker[w].seen[b] \in Cancellable]_vars

\* As long as a package is only confirmed and cancelled, its bookings are all in
\* the same status, however many of these requests race and although each of
\* them writes only the bookings it loaded in some statuses; so the package is
\* never partially cancelled.
PackagesNeverSplit ==
    \A p \in Package : touched[p] \subseteq {"race"} =>
        /\ \A b, c \in Of(p) : booking[b].status = booking[c].status
        /\ package[p] \in {"PENDING", "CONFIRMED", "CANCELLED"}

\* What the statuses of its bookings say of the status s of package p: the
\* reading of the enumeration's comments and of is_in_progress
\* (models/multi_service_booking.py).  Of a package with missed services, some or
\* all, they do not say that it is COMPLETED, as the calculation has it, so
\* nothing is asked of it beyond this: it is not while others are to be given.
Due(p, s) ==
    LET any(S)   == \E b \in Of(p) : booking[b].status \in S
        every(S) == \A b \in Of(p) : booking[b].status \in S
    IN  /\ every({"CANCELLED"}) => s = "CANCELLED"
        /\ any({"CANCELLED"}) /\ ~ every({"CANCELLED"})
             => s = "PARTIALLY_CANCELLED"
        /\ every({"COMPLETED"}) => s = "COMPLETED"
        /\ any(Done) /\ ~ every(Done) => s # "COMPLETED"
        /\ ~ any({"CANCELLED"}) /\ ~ every(Done) /\ any({"COMPLETED", "IN_PROGRESS"})
             => s = "PARTIALLY_COMPLETED"
        /\ every({"CONFIRMED"}) => s = "CONFIRMED"

\* A package whose rows only package requests changed, one at a time, has the
\* status its bookings call for.
PackageMatchesBookings ==
    \A p \in Package : touched[p] \subseteq {"update"} /\ Of(p) # {}
                          => Due(p, package[p])

\* Confirming a package confirms all its bookings, as the docstring of
\* confirm_multi_service_booking says: while packages are only confirmed and
\* cancelled, the bookings of one that is CONFIRMED are.
ConfirmedWithBookings ==
    \A p \in Package : touched[p] \subseteq {"race"} /\ package[p] = "CONFIRMED"
        => \A b \in Of(p) : booking[b].status = "CONFIRMED"
=============================================================================

-------------------------------- MODULE Slots --------------------------------
(***************************************************************************)
(* The calendar of eSalao: the slots offered for a service, a professional *)
(* and a day (GET /scheduling/slots and                                    *)
(* domain/scheduling/services/slot_service.py), over the services of       *)
(* Catalogue and the stored bookings.                                      *)
(*                                                                         *)
(* Times are the minutes, or a coarser unit, of the one day asked about.   *)
(* The professionals' hours are constants: no route writes availabilities. *)
(* Neither does a route that works create a booking, so the bookings and   *)
(* their times are given, and their statuses change as the routes of the   *)
(* module Bookings change them.                                            *)
(***************************************************************************)
EXTENDS Catalogue

CONSTANTS Professional,     \* ids a request may name
          Windows,          \* the availabilities of each professional, that day
          Interval,         \* slot_interval_minutes a request may name
          Booking,          \* rows of the table bookings
          Times,            \* where bookings may lie: records [start, length]
          Reader,           \* the slot requests handled at a time
          MaxReads,         \* bound: slot requests of a behaviour
          MaxMarks          \* bound: status changes of a behaviour

ASSUME SlotsAssumption ==
    /\ Windows \in [Professional ->
                       SUBSET [start : Nat, end : Nat, active : BOOLEAN]]
    /\ Interval \subseteq Nat \ {0}
    /\ Times \subseteq [start : Nat, length : Nat \ {0}]
    /\ MaxReads \in Nat
    /\ MaxMarks \in Nat

VARIABLES zoned,            \* whether the database gives times a time zone
          booking,          \* the stored bookings
          reader,           \* the request each reader handles, or Idle
          reads,            \* how many slot requests have begun
          marks             \* how many status changes were made

slots == <<zoned, booking, reader, reads, marks>>
vars == <<catalogue, slots>>

BookingStatus == {"PENDING", "CONFIRMED", "IN_PROGRESS", "COMPLETED",
                  "CANCELLED", "NO_SHOW"}

\* Whether [s, s + n) and [t, t + m) have an instant in common.
Meets(s, n, t, m) == s < t + m /\ t < s + n

-----------------------------------------------------------------------------
(* The algorithm.                                                          *)

\* _generate_slots_from_availabilities: from the start of each window, every
\* interval minutes, as long as the service ends within the window.
Generated(hours, duration, interval) ==
    UNION {{t \in w.start..w.end : /\ (t - w.start) % interval = 0
                                   /\ t + duration <= w.end} : w \in hours}

\* Mutant of Conflicts: only slots that start during a booking conflict.
ConflictsAtStart(t, duration, b) ==
    t >= b.start /\ t < b.start + duration

\* Mutant of Conflicts: a slot that only touches a booking conflicts with it.
ConflictsTouching(t, duration, b) ==
    t <= b.start + duration /\ t + duration >= b.start

\* The comparison of _filter_conflicting_slots; the booking's end is reckoned
\* with the duration of the service asked for.
Conflicts(t, duration, b) ==
    t < b.start + duration /\ t + duration > b.start

\* _filter_conflicting_slots.
Filtered(starts, duration, bookings) ==
    {t \in starts : \A b \in bookings : ~ Conflicts(t, duration, b)}

-----------------------------------------------------------------------------
(* Requests.                                                               *)

\* The bookings list_by_professional_and_date finds, as loaded.
Booked(p) ==
    {[start |-> booking[b].start, length |-> booking[b].length] :
        b \in {x \in Booking : /\ booking[x].professional = p
                               /\ booking[x].status \in {"PENDING", "CONFIRMED"}}}

\* The active availabilities.
Hours(p) == {w \in Windows[p] : w.active}

\* The service is loaded; one that does not exist is answered with 404.
BeginSlots(r, p, s, i) ==
    /\ reader[r].kind # "reading"
    /\ reads < MaxReads
    /\ service[s] # Absent
    /\ reads' = reads + 1
    /\ reader' = [reader EXCEPT ![r] =
          [kind |-> "reading", professional |-> p, interval |-> i,
           duration |-> service[s].duration]]
    /\ UNCHANGED <<zoned, booking, marks, catalogue>>

\* The availabilities and the bookings are loaded and the slots worked out.
\* Slots have no time zone, so that comparing one with a booking of a database
\* that gives a time zone raises TypeError, and the request fails.
Answer(r) ==
    /\ reader[r].kind = "reading"
    /\ LET me == reader[r]
           starts == Generated(Hours(me.professional), me.duration, me.interval)
           found == Booked(me.professional)
       IN  reader' = [reader EXCEPT ![r] =
              IF zoned /\ starts # {} /\ found # {}
              THEN Idle
              ELSE [kind |-> "answered", professional |-> me.professional,
                    interval |-> me.interval, duration |-> me.duration,
                    found |-> found,
                    offered |-> Filtered(starts, me.duration, found)]]
    /\ UNCHANGED <<zoned, booking, reads, marks, catalogue>>

\* The status of a booking changes (module Bookings: any status to any other).
Mark(b, status) ==
    /\ marks < MaxMarks
    /\ booking' = [booking EXCEPT ![b].status = status]
    /\ marks' = marks + 1
    /\ UNCHANGED <<zoned, reader, reads, catalogue>>

-----------------------------------------------------------------------------

Init ==
    /\ CatalogueInit
    /\ zoned \in BOOLEAN
    /\ booking \in [Booking -> {[professional |-> p, start |-> t.start,
                                 length |-> t.length, status |-> "PENDING"] :
                                    p \in Professional, t \in Times}]
    /\ reader = [r \in Reader |-> Idle]
    /\ reads = 0
    /\ marks = 0

SlotsStep ==
    \/ \E r \in Reader, p \in Professional, s \in Service, i \in Interval :
          BeginSlots(r, p, s, i)
    \/ \E r \in Reader : Answer(r)
    \/ \E b \in Booking, status \in BookingStatus : Mark(b, status)

Next ==
    \/ SlotsStep
    \/ CatalogueNext /\ UNCHANGED slots

Spec == Init /\ [][Next]_vars

-----------------------------------------------------------------------------
(* Properties.                                                             *)

BookingRow == [professional : Professional, start : Nat, length : Nat \ {0},
               status : BookingStatus]

Request == [kind : {"reading"}, professional : Professional,
            interval : Interval, duration : Duration]

Response == [kind : {"answered"}, professional : Professional,
             interval : Interval, duration : Duration,
             found : SUBSET Times, offered : SUBSET Nat]

\* Catalogue, bookings and requests have their types.
TypeOK ==
    /\ CatalogueTypeOK
    /\ zoned \in BOOLEAN
    /\ booking \in [Booking -> BookingRow]
    /\ \A b \in Booking :
          [start |-> booking[b].start, length |-> booking[b].length] \in Times
    /\ reader \in [Reader -> Request \cup Response \cup {Idle}]
    /\ reads \in 0..MaxReads
    /\ marks \in 0..MaxMarks

\* An offered slot lies within the professional's hours and meets no booking
\* found, as long as that booking is not longer than the service: this is as
\* much as the comparison at slot_service.py:201 promises, which takes every
\* booking to last as long as the service asked for.
OffersAreBookable ==
    \A r \in Reader : reader[r].kind = "answered" =>
        \A t \in reader[r].offered :
            /\ \E w \in Hours(reader[r].professional) :
                  w.start <= t /\ t + reader[r].duration <= w.end
            /\ \A b \in reader[r].found :
                  b.length <= reader[r].duration
                  => ~ Meets(t, reader[r].duration, b.start, b.length)

\* A slot that fits in the hours is held back only when it meets a booking, or
\* would if the booking lasted as long as the service asked for.
NothingFreeIsHidden ==
    \A r \in Reader : reader[r].kind = "answered" =>
        \A w \in Hours(reader[r].professional) : \A k \in 0..w.end :
            LET me == reader[r]
                t  == w.start + k * me.interval
            IN  t + me.duration <= w.end
                => \/ t \in me.offered
                   \/ \E b \in me.found :
                         \/ Meets(t, me.duration, b.start, b.length)
                         \/ Meets(t, me.duration, b.start, me.duration)

\* Where the database gives times a time zone, as PostgreSQL does, only a day
\* without bookings, or without room for the service, is answered.
ZonedAnswersAreOfEmptyDays ==
    \A r \in Reader : zoned /\ reader[r].kind = "answered" =>
        reader[r].found = {} \/ reader[r].offered = {}

\* A slot is offered only if it meets no booking: "Filter out slots that
\* conflict with existing bookings" (slot_service.py:177).
OffersAreFree ==
    \A r \in Reader : reader[r].kind = "answered" =>
        \A t \in reader[r].offered, b \in reader[r].found :
            ~ Meets(t, reader[r].duration, b.start, b.length)
=============================================================================

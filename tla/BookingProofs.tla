---------------------------- MODULE BookingProofs ----------------------------
(***************************************************************************)
(* Theorems about Bookings, for any bookings, packages, users and number   *)
(* of requests at a time.                                                  *)
(***************************************************************************)
EXTENDS Bookings, TLAPS

Whole == {"PENDING", "CONFIRMED", "CANCELLED"}

PackageKind == {"confirm", "cancel", "update"}

(* What each kind of session has loaded by each step.                      *)
Sound(s) ==
    /\ s \in Session
    /\ s.kind \in {"client", "staff", "delete"} =>
          /\ s.booking \in Booking /\ s.target = PackageOf[s.booking]
          /\ s.status \in BookingStatus
          /\ s.seen[s.booking] \in BookingStatus
          /\ s.kind # "staff" => /\ s.status = "CANCELLED"
                                 /\ s.seen[s.booking] \in Cancellable
    /\ s.kind \in {"confirm", "cancel", "put"} =>
          s.target \in Package /\ s.package \in PackageStatus
    /\ s.kind = "put" => s.status \in PackageStatus
    /\ s.kind = "update" =>
          /\ s.booking \in Booking /\ s.target = PackageOf[s.booking]
          /\ s.target \in Package /\ s.status \in BookingStatus
          /\ s.seen[s.booking] \in BookingStatus
          /\ s.step # "package" => s.package \in PackageStatus
    /\ s.kind \in PackageKind /\ s.step = "commit" =>
          \A b \in Of(s.target) : s.seen[b] \in BookingStatus
    /\ s.kind = "confirm" /\ s.step = "commit" => s.package = "PENDING"

(* A confirmation or cancellation about to commit has seen the bookings of *)
(* its package in one status.                                              *)
SeesWhole(s) ==
    s.kind \in {"confirm", "cancel"} /\ s.step = "commit" =>
        \E x \in Whole : \A b \in Of(s.target) : s.seen[b] = x

(* What a package request has loaded is what is stored.                    *)
SeesNow(s) ==
    s.kind \in PackageKind =>
        /\ s.package # Unread => s.package = package[s.target]
        /\ \A b \in Of(s.target) :
              s.seen[b] # Unread => s.seen[b] = booking[b].status

(* Only confirmed and cancelled so far, and only changed by package        *)
(* requests that did not overlap.                                          *)
Quiet(p) == touched[p] \subseteq {"race"}
Alone(p) == touched[p] \subseteq {"update"}

Types ==
    /\ booking \in [Booking -> [status : BookingStatus, cancelledAt : BOOLEAN]]
    /\ package \in [Package -> PackageStatus]
    /\ worker \in [Worker -> Session \cup {Idle}]
    /\ requests \in 0..MaxRequests
    /\ touched \in [Package -> SUBSET {"booking", "put", "update", "race"}]
    /\ undated \subseteq Booking

WholeRows(p) ==
    /\ \E x \in Whole : \A b \in Of(p) : booking[b].status = x
    /\ package[p] \in Whole

(* The status s that the calculation leaves a package in.                  *)
LeftIn(p, s) ==
    LET any(S)   == \E b \in Of(p) : booking[b].status \in S
        every(S) == \A b \in Of(p) : booking[b].status \in S
    IN  /\ every({"CANCELLED"}) => s = "CANCELLED"
        /\ any({"CANCELLED"}) /\ ~ every({"CANCELLED"})
             => s = "PARTIALLY_CANCELLED"
        /\ every(Done) => s = "COMPLETED"
        /\ ~ any({"CANCELLED"}) /\ ~ every(Done) /\ any(Done \cup {"IN_PROGRESS"})
             => s = "PARTIALLY_COMPLETED"
        /\ every({"CONFIRMED"}) => s = "CONFIRMED"

DueRows(p) == Of(p) # {} => LeftIn(p, package[p])

Inv ==
    /\ Types
    /\ CancelledAreDated
    /\ \A p \in Package : Quiet(p) => WholeRows(p)
    /\ \A p \in Package : Alone(p) => DueRows(p)
    /\ \A w \in Worker : worker[w] # Idle =>
          /\ Sound(worker[w])
          /\ worker[w].target \in Package =>
                /\ Quiet(worker[w].target) => SeesWhole(worker[w])
                /\ Alone(worker[w].target) => SeesNow(worker[w])

-----------------------------------------------------------------------------

LEMMA IdleIsNoSession == Idle \notin Session
  BY DEF Idle, Session, Kind

LEMMA OfPackage ==
  ASSUME NEW p
  PROVE  /\ Of(p) \subseteq Booking
         /\ \A b \in Booking : b \in Of(p) <=> PackageOf[b] = p
  BY DEF Of

(* A step that only gives a worker another session, or ends it, keeps the  *)
(* invariant when the session is sound and up to date.                     *)
LEMMA SessionStep ==
  ASSUME Inv, NEW w \in Worker, NEW s,
         worker' = [worker EXCEPT ![w] = s],
         \/ s = Idle
         \/ /\ Sound(s)
            /\ s.target \in Package =>
                  /\ Quiet(s.target) => SeesWhole(s)
                  /\ Alone(s.target) => SeesNow(s),
         requests' \in 0..MaxRequests,
         UNCHANGED <<booking, package, touched, undated>>
  PROVE  Inv'
  <1>1. Types'
    BY DEF Inv, Types, Sound
  <1>2. CancelledAreDated'
    BY DEF Inv, CancelledAreDated
  <1>3. /\ \A p \in Package : (Quiet(p) => WholeRows(p))'
        /\ \A p \in Package : (Alone(p) => DueRows(p))'
    BY DEF Inv, Quiet, Alone, WholeRows, DueRows, LeftIn
  <1>4. \A v \in Worker : (worker[v] # Idle =>
          /\ Sound(worker[v])
          /\ worker[v].target \in Package =>
                /\ Quiet(worker[v].target) => SeesWhole(worker[v])
                /\ Alone(worker[v].target) => SeesNow(worker[v]))'
    <2> SUFFICES ASSUME NEW v \in Worker, worker'[v] # Idle
                 PROVE  /\ Sound(worker'[v])
                        /\ worker'[v].target \in Package =>
                             /\ Quiet(worker'[v].target) => SeesWhole(worker'[v])
                             /\ Alone(worker'[v].target) => SeesNow(worker'[v])
      BY DEF Quiet, Alone, SeesWhole, SeesNow, Sound
    <2>1. CASE v = w
      BY <2>1 DEF Inv, Types
    <2>2. CASE v # w
      <3>1. worker'[v] = worker[v]
        BY <2>2 DEF Inv, Types
      <3> QED BY <3>1 DEF Inv
    <2> QED BY <2>1, <2>2
  <1> QED BY <1>1, <1>2, <1>3, <1>4 DEF Inv

(* What a commit leaves of the rows of other packages.                     *)
ElsewhereSame(p) ==
    /\ \A b \in Booking : PackageOf[b] # p => booking'[b] = booking[b]
    /\ \A q \in Package : q # p => package'[q] = package[q]

(* A commit keeps the invariant when the rows it leaves of its package are *)
(* whole if they were only confirmed or cancelled, and due if nothing      *)
(* overlapped.                                                             *)
LEMMA CommitStep ==
  ASSUME Inv, NEW w \in Worker, worker[w] # Idle, NEW p, p = worker[w].target,
         NEW how, how \subseteq {"booking", "put", "update"},
         Finish(w), Touch(p, w, how),
         booking' \in [Booking -> [status : BookingStatus, cancelledAt : BOOLEAN]],
         package' \in [Package -> PackageStatus],
         undated' \subseteq Booking,
         ElsewhereSame(p),
         CancelledAreDated',
         p \in Package /\ Quiet(p) /\ how = {} => WholeRows(p)',
         p \in Package /\ Alone(p) /\ how \subseteq {"update"} => DueRows(p)'
  PROVE  Inv'
  <1>1. /\ touched' \in [Package -> SUBSET {"booking", "put", "update", "race"}]
        /\ \A q \in Package : touched[q] \subseteq touched'[q]
        /\ \A q \in Package : q # p => touched'[q] = touched[q]
        /\ p \in Package => how \subseteq touched'[p]
    BY DEF Touch, Inv, Types
  <1>2. Types'
    BY <1>1 DEF Inv, Types, Finish
  <1>3. \A q \in Package : (Quiet(q) => WholeRows(q))'
    <2> SUFFICES ASSUME NEW q \in Package, Quiet(q)'
                 PROVE  WholeRows(q)'
      OBVIOUS
    <2>1. Quiet(q)
      BY <1>1 DEF Quiet
    <2>2. CASE q = p
      <3>1. how = {}
        BY <2>2, <1>1 DEF Quiet
      <3> QED BY <3>1, <2>1, <2>2
    <2>3. CASE q # p
      <3>1. /\ package'[q] = package[q]
            /\ \A b \in Of(q) : booking'[b] = booking[b]
        BY <2>3, OfPackage DEF ElsewhereSame
      <3> QED BY <3>1, <2>1 DEF Inv, WholeRows
    <2> QED BY <2>2, <2>3
  <1>4. \A q \in Package : (Alone(q) => DueRows(q))'
    <2> SUFFICES ASSUME NEW q \in Package, Alone(q)'
                 PROVE  DueRows(q)'
      OBVIOUS
    <2>1. Alone(q)
      BY <1>1 DEF Alone
    <2>2. CASE q = p
      <3>1. how \subseteq {"update"}
        BY <2>2, <1>1 DEF Alone
      <3> QED BY <3>1, <2>1, <2>2
    <2>3. CASE q # p
      <3>1. /\ package'[q] = package[q]
            /\ \A b \in Of(q) : booking'[b] = booking[b]
        BY <2>3, OfPackage DEF ElsewhereSame
      <3>2. DueRows(q)
        BY <2>1 DEF Inv
      <3> QED BY <3>1, <3>2 DEF DueRows, LeftIn
    <2> QED BY <2>2, <2>3
  <1>5. \A v \in Worker : (worker[v] # Idle =>
          /\ Sound(worker[v])
          /\ worker[v].target \in Package =>
                /\ Quiet(worker[v].target) => SeesWhole(worker[v])
                /\ Alone(worker[v].target) => SeesNow(worker[v]))'
    <2> SUFFICES ASSUME NEW v \in Worker, NEW s, s = worker'[v], s # Idle
                 PROVE  /\ Sound(s)
                        /\ s.target \in Package =>
                             /\ Quiet(s.target)' => SeesWhole(s)
                             /\ Alone(s.target)' => SeesNow(s)'
      BY DEF Quiet, Alone, SeesWhole, SeesNow, Sound
    <2>1. v # w
      BY DEF Inv, Types, Finish
    <2>2. worker[v] = s
      BY <2>1 DEF Inv, Types, Finish
    <2>3. /\ Sound(s)
          /\ s.target \in Package => /\ Quiet(s.target) => SeesWhole(s)
                                     /\ Alone(s.target) => SeesNow(s)
      BY <2>1, <2>2 DEF Inv
    <2>4. ASSUME s.target \in Package, Quiet(s.target)'
          PROVE  SeesWhole(s)
      BY <2>3, <2>4, <1>1 DEF Quiet
    <2>5. ASSUME s.target \in Package, Alone(s.target)'
          PROVE  SeesNow(s)'
      <3>1. SeesNow(s)
        BY <2>3, <2>5, <1>1 DEF Alone
      <3>2. CASE s.kind \notin PackageKind
        BY <3>2 DEF SeesNow
      <3>3. CASE s.kind \in PackageKind /\ s.target = p
        <4>1. "race" \in touched'[p]
          BY <3>3, <2>1, <2>2, <2>5 DEF Touch, PackageKind
        <4> QED BY <4>1, <3>3, <2>5 DEF Alone
      <3>4. CASE s.target # p
        <4>1. /\ package'[s.target] = package[s.target]
              /\ \A b \in Of(s.target) : booking'[b] = booking[b]
          BY <3>4, <2>5, OfPackage DEF ElsewhereSame
        <4> QED BY <4>1, <3>1 DEF SeesNow
      <3> QED BY <3>2, <3>3, <3>4
    <2> QED BY <2>3, <2>4, <2>5
  <1> QED BY <1>2, <1>3, <1>4, <1>5 DEF Inv

-----------------------------------------------------------------------------

(* A booking request that has loaded its booking.                          *)
LEMMA BookingBegins ==
  ASSUME Inv, NEW w \in Worker, NEW b \in Booking, NEW s \in BookingStatus,
         NEW kind \in {"client", "staff", "delete"},
         kind # "staff" => s = "CANCELLED" /\ booking[b].status \in Cancellable,
         Begin(w, [kind |-> kind, step |-> "commit", booking |-> b,
                   target |-> PackageOf[b], status |-> s, partial |-> FALSE,
                   package |-> Unread, seen |-> Sees(b)])
  PROVE  Inv'
  <1>1. PICK seen : seen = Sees(b)
    OBVIOUS
  <1>2. /\ seen \in [Booking -> BookingStatus \cup {Unread}]
        /\ seen[b] = booking[b].status /\ seen[b] \in BookingStatus
    BY <1>1 DEF Sees, Inv, Types
  <1>3. PICK me : me = [kind |-> kind, step |-> "commit", booking |-> b,
                        target |-> PackageOf[b], status |-> s, partial |-> FALSE,
                        package |-> Unread, seen |-> seen]
    OBVIOUS
  <1>4. me \in Session
    BY <1>2, <1>3, BookingAssumption DEF Session, Kind
  <1>5. Sound(me) /\ SeesWhole(me) /\ SeesNow(me)
    BY <1>2, <1>3, <1>4 DEF Sound, SeesWhole, SeesNow, PackageKind
  <1>6. /\ worker' = [worker EXCEPT ![w] = me]
        /\ requests' \in 0..MaxRequests
        /\ UNCHANGED <<booking, package, touched, undated>>
    BY <1>1, <1>3, BookingAssumption DEF Begin, Inv, Types
  <1> QED BY <1>5, <1>6, SessionStep

LEMMA BeginPatchStep ==
  ASSUME Inv, NEW w \in Worker, NEW u \in User, NEW b \in Booking,
         NEW s \in AskedStatus, BeginPatch(w, u, b, s)
  PROVE  Inv'
  <1>1. s \in BookingStatus
    BY BookingAssumption
  <1>2. CASE u \in Client
    BY <1>1, <1>2, BookingBegins DEF BeginPatch
  <1>3. CASE u \notin Client
    BY <1>1, <1>3, BookingBegins DEF BeginPatch
  <1> QED BY <1>2, <1>3

LEMMA BeginDeleteStep ==
  ASSUME Inv, NEW w \in Worker, NEW u \in User, NEW b \in Booking,
         BeginDelete(w, u, b)
  PROVE  Inv'
  BY BookingBegins DEF BeginDelete, BookingStatus

(* One booking is written, and the package counts as touched by it.        *)
LEMMA CommitStatusStep ==
  ASSUME Inv, NEW w \in Worker, CommitStatus(w)
  PROVE  Inv'
  <1>1. PICK me : me = worker[w]
    OBVIOUS
  <1>2. PICK b : b = me.booking
    OBVIOUS
  <1>3. /\ me # Idle /\ Sound(me) /\ me.kind \in {"client", "staff", "delete"}
        /\ b \in Booking /\ me.target = PackageOf[b]
        /\ me.status \in BookingStatus
    BY <1>1, <1>2 DEF CommitStatus, Inv, Sound
  <1>4. PICK row : row = [status |-> IF me.status # me.seen[b] THEN me.status
                                     ELSE booking[b].status,
                          cancelledAt |-> \/ booking[b].cancelledAt
                                          \/ me.status = "CANCELLED"]
    OBVIOUS
  <1>5. /\ booking' = [booking EXCEPT ![b] = row]
        /\ Touch(me.target, w, {"booking"}) /\ Finish(w)
        /\ UNCHANGED <<package, undated>>
    BY <1>1, <1>2, <1>4 DEF CommitStatus
  <1>6. booking[b] \in [status : BookingStatus, cancelledAt : BOOLEAN]
    BY <1>3 DEF Inv, Types
  <1>7. row \in [status : BookingStatus, cancelledAt : BOOLEAN]
    <2>1. (booking[b].cancelledAt \/ me.status = "CANCELLED") \in BOOLEAN
      BY <1>6
    <2>2. (IF me.status # me.seen[b] THEN me.status ELSE booking[b].status)
             \in BookingStatus
      BY <1>3, <1>6
    <2> QED BY <1>4, <2>1, <2>2
  <1>8. /\ booking' \in [Booking -> [status : BookingStatus, cancelledAt : BOOLEAN]]
        /\ \A x \in Booking : x # b => booking'[x] = booking[x]
        /\ booking'[b] = row
    BY <1>3, <1>5, <1>7 DEF Inv, Types
  <1>9. row.status = "CANCELLED" => row.cancelledAt \/ b \in undated
    BY <1>3, <1>4 DEF Inv, CancelledAreDated
  <1>10. CancelledAreDated'
    BY <1>5, <1>8, <1>9 DEF Inv, CancelledAreDated
  <1>11. ElsewhereSame(me.target)
    BY <1>3, <1>5, <1>8 DEF ElsewhereSame
  <1>12. /\ package' \in [Package -> PackageStatus] /\ undated' \subseteq Booking
    BY <1>5 DEF Inv, Types
  <1> QED BY <1>1, <1>3, <1>5, <1>8, <1>10, <1>11, <1>12, CommitStep

-----------------------------------------------------------------------------

(* A package request that has loaded the package's row.                    *)
LEMMA PackageBegins ==
  ASSUME Inv, NEW w \in Worker, NEW p \in Package,
         NEW kind \in {"confirm", "cancel", "put"},
         NEW step \in {"bookings", "commit"},
         kind = "put" <=> step = "commit",
         NEW s \in PackageStatus, NEW partial \in BOOLEAN,
         Begin(w, [kind |-> kind, step |-> step, booking |-> Unread,
                   target |-> p, status |-> s, partial |-> partial,
                   package |-> package[p], seen |-> SeesNone])
  PROVE  Inv'
  <1>1. PICK seen : seen = SeesNone
    OBVIOUS
  <1>2. /\ seen \in [Booking -> BookingStatus \cup {Unread}]
        /\ \A b \in Of(p) : seen[b] = Unread
    BY <1>1 DEF SeesNone, Of
  <1>3. PICK loaded : loaded = package[p]
    OBVIOUS
  <1>4. loaded \in PackageStatus
    BY <1>3 DEF Inv, Types
  <1>5. PICK me : me = [kind |-> kind, step |-> step, booking |-> Unread,
                        target |-> p, status |-> s, partial |-> partial,
                        package |-> loaded, seen |-> seen]
    OBVIOUS
  <1>6. me \in Session
    BY <1>2, <1>4, <1>5 DEF Session, Kind
  <1>7. Sound(me)
    BY <1>4, <1>5, <1>6 DEF Sound, PackageKind
  <1>8. SeesWhole(me) /\ SeesNow(me)
    BY <1>2, <1>3, <1>5 DEF SeesWhole, SeesNow, PackageKind
  <1>9. /\ worker' = [worker EXCEPT ![w] = me]
        /\ requests' \in 0..MaxRequests
        /\ UNCHANGED <<booking, package, touched, undated>>
    BY <1>1, <1>3, <1>5, BookingAssumption DEF Begin, Inv, Types
  <1> QED BY <1>7, <1>8, <1>9, SessionStep

LEMMA BeginPackageStep ==
  ASSUME Inv, NEW w \in Worker, NEW p \in Package,
         \/ BeginConfirm(w, p)
         \/ \E partial \in BOOLEAN : BeginCancel(w, p, partial)
         \/ \E s \in AskedPackage : BeginPut(w, p, s)
  PROVE  Inv'
  <1>1. CASE BeginConfirm(w, p)
    BY <1>1, PackageBegins DEF BeginConfirm, PackageStatus
  <1>2. CASE \E partial \in BOOLEAN : BeginCancel(w, p, partial)
    BY <1>2, PackageBegins DEF BeginCancel, PackageStatus
  <1>3. CASE \E s \in AskedPackage : BeginPut(w, p, s)
    <2>1. PICK s \in AskedPackage : BeginPut(w, p, s)
      BY <1>3
    <2>2. s \in PackageStatus
      BY BookingAssumption
    <2> QED BY <2>1, <2>2, PackageBegins DEF BeginPut
  <1> QED BY <1>1, <1>2, <1>3

(* Bookings in one status are seen in that status.                         *)
LEMMA ReadBookingsStep ==
  ASSUME Inv, NEW w \in Worker, ReadBookings(w)
  PROVE  Inv'
  <1>1. PICK old : old = worker[w]
    OBVIOUS
  <1>2. /\ Sound(old) /\ old.kind \in {"confirm", "cancel"}
        /\ old.kind = "confirm" => old.package = "PENDING"
        /\ old.target \in Package /\ old.package \in PackageStatus
        /\ old \in Session
    BY <1>1 DEF ReadBookings, Inv, Sound
  <1>3. PICK seen : seen = [x \in Booking |-> IF x \in Of(old.target)
                                              THEN booking[x].status ELSE Unread]
    OBVIOUS
  <1>4. /\ seen \in [Booking -> BookingStatus \cup {Unread}]
        /\ \A b \in Of(old.target) : /\ seen[b] = booking[b].status
                                     /\ seen[b] \in BookingStatus
    BY <1>3, OfPackage DEF Inv, Types
  <1>5. PICK me : me = [old EXCEPT !.step = "commit", !.seen = seen]
    OBVIOUS
  <1>6. /\ me \in Session /\ me.kind = old.kind /\ me.step = "commit"
        /\ me.target = old.target /\ me.package = old.package /\ me.seen = seen
    BY <1>2, <1>4, <1>5 DEF Session
  <1>7. Sound(me)
    BY <1>2, <1>4, <1>6 DEF Sound, PackageKind
  <1>8. Quiet(me.target) => SeesWhole(me)
    BY <1>2, <1>4, <1>6 DEF Inv, WholeRows, SeesWhole
  <1>9. Alone(me.target) => SeesNow(me)
    <2>1. SUFFICES ASSUME Alone(old.target)
                   PROVE  SeesNow(me)
      BY <1>6
    <2>2. SeesNow(old)
      BY <1>1, <1>2, <2>1 DEF Inv, ReadBookings
    <2> QED BY <2>2, <1>2, <1>4, <1>6 DEF SeesNow, PackageKind
  <1>10. /\ worker' = [worker EXCEPT ![w] = me]
         /\ UNCHANGED <<booking, package, requests, touched, undated>>
    BY <1>1, <1>3, <1>5 DEF ReadBookings
  <1>11. requests' \in 0..MaxRequests
    BY <1>10 DEF Inv, Types
  <1> QED BY <1>7, <1>8, <1>9, <1>10, <1>11, SessionStep

(* All the bookings the request saw were PENDING, or none; the package was *)
(* PENDING.                                                                *)
LEMMA CommitConfirmStep ==
  ASSUME Inv, NEW w \in Worker, CommitConfirm(w)
  PROVE  Inv'
  <1>1. PICK me : me = worker[w]
    OBVIOUS
  <1>2. PICK p : p = me.target
    OBVIOUS
  <1>3. /\ me # Idle /\ Sound(me) /\ me.kind = "confirm" /\ me.step = "commit"
        /\ p \in Package /\ me.package = "PENDING"
        /\ Quiet(p) => SeesWhole(me)
        /\ Alone(p) => SeesNow(me)
    BY <1>1, <1>2 DEF CommitConfirm, Inv, Sound
  <1>4. PICK confirmed : confirmed = {b \in Of(p) : me.seen[b] = "PENDING"}
    OBVIOUS
  <1>5. /\ booking' = [b \in Booking |-> IF b \in confirmed
                          THEN [booking[b] EXCEPT !.status = "CONFIRMED"]
                          ELSE booking[b]]
        /\ package' = [package EXCEPT ![p] = "CONFIRMED"]
        /\ Touch(p, w, {}) /\ Finish(w) /\ UNCHANGED undated
    BY <1>1, <1>2, <1>4 DEF CommitConfirm
  <1>6. \A b \in Booking :
           /\ booking[b] \in [status : BookingStatus, cancelledAt : BOOLEAN]
           /\ booking'[b] \in [status : BookingStatus, cancelledAt : BOOLEAN]
           /\ booking'[b].status = IF b \in confirmed THEN "CONFIRMED"
                                   ELSE booking[b].status
           /\ booking'[b].cancelledAt = booking[b].cancelledAt
           /\ b \notin confirmed => booking'[b] = booking[b]
    BY <1>5 DEF Inv, Types, BookingStatus
  <1>7. /\ booking' \in [Booking -> [status : BookingStatus, cancelledAt : BOOLEAN]]
        /\ package' \in [Package -> PackageStatus]
        /\ undated' \subseteq Booking
        /\ package'[p] = "CONFIRMED"
    BY <1>3, <1>5, <1>6 DEF Inv, Types, PackageStatus
  <1>8. CancelledAreDated'
    BY <1>5, <1>6 DEF Inv, CancelledAreDated
  <1>9. ElsewhereSame(p)
    BY <1>4, <1>5, <1>6, OfPackage DEF ElsewhereSame, Inv, Types
  <1>10. ASSUME Quiet(p)
         PROVE  WholeRows(p)'
    <2>1. PICK x \in Whole : \A b \in Of(p) : me.seen[b] = x
      BY <1>2, <1>3, <1>10 DEF SeesWhole
    <2>2. CASE x = "PENDING"
      BY <2>1, <2>2, <1>4, <1>6, <1>7, OfPackage DEF WholeRows, Whole
    <2>3. CASE x # "PENDING"
      <3>1. \A b \in Of(p) : booking'[b] = booking[b]
        BY <2>1, <2>3, <1>4, <1>6, OfPackage
      <3>2. WholeRows(p)
        BY <1>3, <1>10 DEF Inv
      <3> QED BY <3>1, <3>2, <1>7 DEF WholeRows, Whole
    <2> QED BY <2>2, <2>3
  <1>11. ASSUME Alone(p)
         PROVE  DueRows(p)'
    <2> SUFFICES ASSUME Of(p) # {}
                 PROVE  LeftIn(p, package[p])'
      BY DEF DueRows
    <2>1. /\ package[p] = "PENDING"
          /\ \A b \in Of(p) : me.seen[b] = booking[b].status
      BY <1>2, <1>3, <1>11, OfPackage DEF SeesNow, PackageKind, Sound, Unread,
         BookingStatus
    <2>2. LeftIn(p, "PENDING")
      BY <2>1, <1>3, <1>11 DEF Inv, DueRows
    <2>3. \A b \in Of(p) : booking[b].status \in {"PENDING", "CONFIRMED"}
      BY <2>2, <1>6, OfPackage DEF LeftIn, Done, BookingStatus
    <2>4. \A b \in Of(p) : booking'[b].status = "CONFIRMED"
      BY <2>1, <2>3, <1>4, <1>6, OfPackage
    <2> QED BY <2>4, <1>7 DEF LeftIn, Done
  <1> QED BY <1>1, <1>2, <1>3, <1>5, <1>7, <1>8, <1>9, <1>10, <1>11, CommitStep

(* The bookings the request saw PENDING or CONFIRMED are cancelled, and the *)
(* others it counts are; the package is cancelled in whole or in part.     *)
LEMMA CommitCancelStep ==
  ASSUME Inv, NEW w \in Worker, CommitCancel(w)
  PROVE  Inv'
  <1>1. PICK me : me = worker[w]
    OBVIOUS
  <1>2. PICK p : p = me.target
    OBVIOUS
  <1>3. /\ me # Idle /\ Sound(me) /\ me.kind = "cancel" /\ me.step = "commit"
        /\ p \in Package
        /\ Quiet(p) => SeesWhole(me)
        /\ Alone(p) => SeesNow(me)
    BY <1>1, <1>2 DEF CommitCancel, Inv, Sound
  <1>4. PICK cancelled : cancelled = {b \in Of(p) : me.seen[b] \in Cancellable}
    OBVIOUS
  <1>5. PICK counted : counted = {b \in Of(p) :
                                     me.seen[b] \in Cancellable \cup {"CANCELLED"}}
    OBVIOUS
  <1>6. PICK status : status = IF counted = Of(p) THEN "CANCELLED"
                               ELSE "PARTIALLY_CANCELLED"
    OBVIOUS
  <1>7. /\ counted = Of(p) \/ counted # {}
        /\ booking' = [b \in Booking |-> IF b \in cancelled
                          THEN [status |-> "CANCELLED", cancelledAt |-> TRUE]
                          ELSE booking[b]]
        /\ package' = [package EXCEPT ![p] = status]
        /\ Touch(p, w, {}) /\ Finish(w) /\ UNCHANGED undated
    BY <1>1, <1>2, <1>4, <1>5, <1>6 DEF CommitCancel
  <1>8. \A b \in Booking :
           /\ booking[b] \in [status : BookingStatus, cancelledAt : BOOLEAN]
           /\ booking'[b] \in [status : BookingStatus, cancelledAt : BOOLEAN]
           /\ b \in cancelled => /\ booking'[b].status = "CANCELLED"
                                 /\ booking'[b].cancelledAt
           /\ b \notin cancelled => booking'[b] = booking[b]
    BY <1>7 DEF Inv, Types, BookingStatus
  <1>9. /\ booking' \in [Booking -> [status : BookingStatus, cancelledAt : BOOLEAN]]
        /\ package' \in [Package -> PackageStatus]
        /\ undated' \subseteq Booking
        /\ package'[p] = status
    BY <1>3, <1>6, <1>7, <1>8 DEF Inv, Types, PackageStatus
  <1>10. CancelledAreDated'
    BY <1>7, <1>8 DEF Inv, CancelledAreDated
  <1>11. ElsewhereSame(p)
    BY <1>4, <1>7, <1>8, OfPackage DEF ElsewhereSame, Inv, Types
  <1>12. ASSUME Quiet(p)
         PROVE  WholeRows(p)'
    <2>1. PICK x \in Whole : \A b \in Of(p) : me.seen[b] = x
      BY <1>2, <1>3, <1>12 DEF SeesWhole
    <2>2. status = "CANCELLED"
      BY <2>1, <1>5, <1>6 DEF Whole, Cancellable
    <2>3. CASE x \in Cancellable
      <3>1. \A b \in Of(p) : booking'[b].status = "CANCELLED"
        BY <2>1, <2>3, <1>4, <1>8, OfPackage
      <3> QED BY <3>1, <2>2, <1>9 DEF WholeRows, Whole
    <2>4. CASE x \notin Cancellable
      <3>1. \A b \in Of(p) : booking'[b] = booking[b]
        BY <2>1, <2>4, <1>4, <1>8, OfPackage
      <3>2. WholeRows(p)
        BY <1>3, <1>12 DEF Inv
      <3> QED BY <3>1, <3>2, <2>2, <1>9 DEF WholeRows, Whole
    <2> QED BY <2>3, <2>4
  <1>13. ASSUME Alone(p)
         PROVE  DueRows(p)'
    <2>1. \A b \in Of(p) : me.seen[b] = booking[b].status
      BY <1>2, <1>3, <1>13, OfPackage DEF SeesNow, PackageKind, Sound, Unread,
         BookingStatus
    <2>2. \A b \in Of(p) : booking'[b].status = "CANCELLED" <=> b \in counted
      BY <2>1, <1>4, <1>5, <1>8, OfPackage DEF Cancellable
    <2>3. counted \subseteq Of(p)
      BY <1>5
    <2>4. CASE counted = Of(p)
      BY <2>2, <2>4, <1>6, <1>9 DEF DueRows, LeftIn, Done
    <2>5. CASE counted # Of(p)
      <3>1. \E b \in Of(p) : booking'[b].status = "CANCELLED"
        BY <2>2, <2>3, <2>5, <1>7
      <3>2. \E b \in Of(p) : booking'[b].status # "CANCELLED"
        BY <2>2, <2>3, <2>5
      <3> QED BY <3>1, <3>2, <2>5, <1>6, <1>9 DEF DueRows, LeftIn, Done
    <2> QED BY <2>4, <2>5
  <1> QED BY <1>1, <1>2, <1>3, <1>7, <1>9, <1>10, <1>11, <1>12, <1>13, CommitStep

LEMMA CommitPutStep ==
  ASSUME Inv, NEW w \in Worker, CommitPut(w)
  PROVE  Inv'
  <1>1. PICK me : me = worker[w]
    OBVIOUS
  <1>2. /\ me # Idle /\ Sound(me) /\ me.kind = "put"
        /\ me.target \in Package /\ me.status \in PackageStatus
    BY <1>1 DEF CommitPut, Inv, Sound
  <1>3. PICK status : status = IF me.status # me.package THEN me.status
                               ELSE package[me.target]
    OBVIOUS
  <1>4. /\ package' = [package EXCEPT ![me.target] = status]
        /\ Touch(me.target, w, {"put"}) /\ Finish(w)
        /\ UNCHANGED <<booking, undated>>
    BY <1>1, <1>3 DEF CommitPut
  <1>5. /\ booking' \in [Booking -> [status : BookingStatus, cancelledAt : BOOLEAN]]
        /\ package' \in [Package -> PackageStatus]
        /\ undated' \subseteq Booking
        /\ CancelledAreDated'
        /\ ElsewhereSame(me.target)
    BY <1>2, <1>3, <1>4 DEF Inv, Types, CancelledAreDated, ElsewhereSame
  <1> QED BY <1>1, <1>2, <1>4, <1>5, CommitStep

-----------------------------------------------------------------------------

LEMMA BeginUpdateStep ==
  ASSUME Inv, NEW w \in Worker, NEW b \in Booking, NEW s \in AskedStatus,
         BeginUpdate(w, b, s)
  PROVE  Inv'
  <1>1. PICK seen : seen = Sees(b)
    OBVIOUS
  <1>2. /\ seen \in [Booking -> BookingStatus \cup {Unread}]
        /\ seen[b] = booking[b].status /\ seen[b] \in BookingStatus
        /\ \A x \in Booking : x # b => seen[x] = Unread
    BY <1>1 DEF Sees, Inv, Types
  <1>3. PICK me : me = [kind |-> "update", step |-> "package", booking |-> b,
                        target |-> PackageOf[b], status |-> s, partial |-> FALSE,
                        package |-> Unread, seen |-> seen]
    OBVIOUS
  <1>4. PackageOf[b] \in Package /\ s \in BookingStatus
    BY BookingAssumption DEF BeginUpdate
  <1>5. me \in Session
    BY <1>2, <1>3, <1>4 DEF Session, Kind
  <1>6. Sound(me)
    BY <1>2, <1>3, <1>4, <1>5 DEF Sound, PackageKind
  <1>7. SeesWhole(me) /\ SeesNow(me)
    BY <1>2, <1>3, OfPackage DEF SeesWhole, SeesNow, PackageKind
  <1>8. /\ worker' = [worker EXCEPT ![w] = me]
        /\ requests' \in 0..MaxRequests
        /\ UNCHANGED <<booking, package, touched, undated>>
    BY <1>1, <1>3, BookingAssumption DEF BeginUpdate, Begin, Inv, Types
  <1> QED BY <1>6, <1>7, <1>8, SessionStep

LEMMA ReadPackageStep ==
  ASSUME Inv, NEW w \in Worker, ReadPackage(w)
  PROVE  Inv'
  <1>1. PICK old : old = worker[w]
    OBVIOUS
  <1>2. /\ old # Idle /\ Sound(old) /\ old.kind = "update"
        /\ old \in Session /\ old.target \in Package
        /\ Alone(old.target) => SeesNow(old)
    BY <1>1 DEF ReadPackage, Inv, Sound
  <1>3. PICK loaded : loaded = package[old.target]
    OBVIOUS
  <1>4. loaded \in PackageStatus
    BY <1>2, <1>3 DEF Inv, Types
  <1>5. PICK me : me = [old EXCEPT !.step = "bookings", !.package = loaded]
    OBVIOUS
  <1>6. /\ me \in Session /\ me.kind = old.kind /\ me.step = "bookings"
        /\ me.target = old.target /\ me.package = loaded /\ me.seen = old.seen
        /\ me.booking = old.booking /\ me.status = old.status
    BY <1>2, <1>4, <1>5 DEF Session
  <1>7. Sound(me)
    BY <1>2, <1>4, <1>6 DEF Sound, PackageKind
  <1>8. SeesWhole(me) /\ (Alone(me.target) => SeesNow(me))
    BY <1>2, <1>3, <1>6 DEF SeesWhole, SeesNow, PackageKind
  <1>9. /\ worker' = [worker EXCEPT ![w] = me]
        /\ UNCHANGED <<booking, package, requests, touched, undated>>
    BY <1>1, <1>3, <1>5 DEF ReadPackage
  <1>10. requests' \in 0..MaxRequests
    BY <1>9 DEF Inv, Types
  <1> QED BY <1>7, <1>8, <1>9, <1>10, SessionStep

(* What the update loads of the other bookings is what is stored.          *)
LEMMA ReadSiblingsStep ==
  ASSUME Inv, NEW w \in Worker, ReadSiblings(w)
  PROVE  Inv'
  <1>1. PICK old : old = worker[w]
    OBVIOUS
  <1>2. /\ old # Idle /\ Sound(old) /\ old.kind = "update"
        /\ old.step = "bookings" /\ old \in Session /\ old.target \in Package
        /\ old.booking \in Booking /\ old.package \in PackageStatus
        /\ old.seen[old.booking] \in BookingStatus
        /\ Alone(old.target) => SeesNow(old)
    BY <1>1 DEF ReadSiblings, Inv, Sound
  <1>3. PICK seen : seen = [x \in Booking |->
                               IF x \in Of(old.target) \ {old.booking}
                               THEN booking[x].status ELSE old.seen[x]]
    OBVIOUS
  <1>4. /\ seen \in [Booking -> BookingStatus \cup {Unread}]
        /\ seen[old.booking] = old.seen[old.booking]
        /\ \A b \in Of(old.target) \ {old.booking} :
              seen[b] = booking[b].status /\ seen[b] \in BookingStatus
    BY <1>2, <1>3, OfPackage DEF Inv, Types, Session
  <1>5. PICK me : me = [old EXCEPT !.step = "commit", !.seen = seen]
    OBVIOUS
  <1>6. /\ me \in Session /\ me.kind = old.kind /\ me.step = "commit"
        /\ me.target = old.target /\ me.package = old.package /\ me.seen = seen
        /\ me.booking = old.booking /\ me.status = old.status
    BY <1>2, <1>4, <1>5 DEF Session
  <1>7. Sound(me)
    BY <1>2, <1>4, <1>6 DEF Sound, PackageKind
  <1>8. SeesWhole(me) /\ (Alone(me.target) => SeesNow(me))
    BY <1>2, <1>4, <1>6 DEF SeesWhole, SeesNow, PackageKind
  <1>9. /\ worker' = [worker EXCEPT ![w] = me]
        /\ UNCHANGED <<booking, package, requests, touched, undated>>
    BY <1>1, <1>3, <1>5 DEF ReadSiblings
  <1>10. requests' \in 0..MaxRequests
    BY <1>9 DEF Inv, Types
  <1> QED BY <1>7, <1>8, <1>9, <1>10, SessionStep

(* The calculated status is a status, and the one that bookings in the     *)
(* statuses st are left with.                                              *)
LEMMA CalculatedType ==
  ASSUME NEW p, NEW current \in PackageStatus, NEW st
  PROVE  Calculated(p, current, st) \in PackageStatus
  BY DEF Calculated, PackageStatus

LEMMA CalculatedIsLeft ==
  ASSUME NEW p, NEW current, NEW st, Of(p) # {},
         \A b \in Of(p) : booking'[b].status = st[b]
  PROVE  LeftIn(p, Calculated(p, current, st))'
  BY DEF LeftIn, Calculated, Done

(* With nothing overlapping, the update calculates from what it stores.    *)
LEMMA CommitUpdateStep ==
  ASSUME Inv, NEW w \in Worker, CommitUpdate(w)
  PROVE  Inv'
  <1>1. PICK me : me = worker[w]
    OBVIOUS
  <1>2. PICK b : b = me.booking
    OBVIOUS
  <1>3. PICK p : p = me.target
    OBVIOUS
  <1>4. /\ me # Idle /\ Sound(me) /\ me.kind = "update" /\ me.step = "commit"
        /\ me \in Session /\ p \in Package /\ b \in Booking /\ p = PackageOf[b]
        /\ me.status \in BookingStatus /\ me.package \in PackageStatus
        /\ Alone(p) => SeesNow(me)
    BY <1>1, <1>2, <1>3 DEF CommitUpdate, Inv, Sound
  <1>5. PICK st : st = [me.seen EXCEPT ![b] = me.status]
    OBVIOUS
  <1>6. PICK new : new = Calculated(p, me.package, st)
    OBVIOUS
  <1>7. new \in PackageStatus
    BY <1>4, <1>6, CalculatedType
  <1>8. PICK row : row = [booking[b] EXCEPT !.status =
                             IF me.status # me.seen[b] THEN me.status ELSE @]
    OBVIOUS
  <1>9. PICK status : status = IF new # me.package THEN new ELSE package[p]
    OBVIOUS
  <1>10. /\ booking' = [booking EXCEPT ![b] = row]
         /\ package' = [package EXCEPT ![p] = status]
         /\ undated' = undated \cup IF me.status = "CANCELLED" THEN {b} ELSE {}
         /\ Touch(p, w, {"update"}) /\ Finish(w)
    BY <1>1, <1>2, <1>3, <1>5, <1>6, <1>8, <1>9 DEF CommitUpdate
  <1>11. booking[b] \in [status : BookingStatus, cancelledAt : BOOLEAN]
    BY <1>4 DEF Inv, Types
  <1>12. /\ row \in [status : BookingStatus, cancelledAt : BOOLEAN]
         /\ row.status = IF me.status # me.seen[b] THEN me.status
                         ELSE booking[b].status
         /\ row.cancelledAt = booking[b].cancelledAt
    BY <1>4, <1>8, <1>11
  <1>13. /\ booking' \in [Booking -> [status : BookingStatus, cancelledAt : BOOLEAN]]
         /\ \A x \in Booking : x # b => booking'[x] = booking[x]
         /\ booking'[b] = row
    BY <1>4, <1>10, <1>12 DEF Inv, Types
  <1>14. /\ package' \in [Package -> PackageStatus]
         /\ undated' \subseteq Booking
         /\ package'[p] = status
    BY <1>4, <1>7, <1>9, <1>10 DEF Inv, Types
  <1>15. CancelledAreDated'
    BY <1>4, <1>10, <1>12, <1>13 DEF Inv, CancelledAreDated
  <1>16. ElsewhereSame(p)
    BY <1>4, <1>10, <1>13 DEF ElsewhereSame, Inv, Types
  <1>17. ASSUME Alone(p)
         PROVE  DueRows(p)'
    <2>1. /\ package[p] = me.package
          /\ \A x \in Of(p) : me.seen[x] = booking[x].status
      BY <1>3, <1>4, <1>17, OfPackage DEF SeesNow, PackageKind, Sound, Unread,
         BookingStatus, PackageStatus
    <2>2. b \in Of(p) /\ Of(p) # {}
      BY <1>4, OfPackage
    <2>3. \A x \in Of(p) : booking'[x].status = st[x]
      <3>1. \A x \in Booking : st[x] = IF x = b THEN me.status ELSE me.seen[x]
        BY <1>4, <1>5 DEF Session
      <3> QED BY <3>1, <2>1, <2>2, <1>12, <1>13, OfPackage
    <2>4. package'[p] = new
      BY <2>1, <1>9, <1>14
    <2>5. LeftIn(p, Calculated(p, me.package, st))'
      BY <2>2, <2>3, CalculatedIsLeft
    <2> QED BY <2>4, <2>5, <1>6 DEF DueRows, LeftIn, Calculated
  <1> QED BY <1>1, <1>3, <1>4, <1>10, <1>13, <1>14, <1>15, <1>16, <1>17, CommitStep

LEMMA FailStep ==
  ASSUME Inv, NEW w \in Worker, Fail(w)
  PROVE  Inv'
  <1>1. /\ worker' = [worker EXCEPT ![w] = Idle]
        /\ requests' \in 0..MaxRequests
        /\ UNCHANGED <<booking, package, touched, undated>>
    BY DEF Fail, Finish, Inv, Types
  <1> QED BY <1>1, SessionStep

-----------------------------------------------------------------------------

LEMMA InvInit ==
  ASSUME Init
  PROVE  Inv
  <1>1. Types
    BY BookingAssumption DEF Init, Types, BookingStatus, PackageStatus
  <1>2. \A w \in Worker : worker[w] = Idle
    BY DEF Init
  <1>3. CancelledAreDated
    BY DEF Init, CancelledAreDated
  <1>4. \A p \in Package : WholeRows(p)
    BY OfPackage DEF Init, WholeRows, Whole
  <1>5. \A p \in Package : DueRows(p)
    BY OfPackage DEF Init, DueRows, LeftIn, Done
  <1> QED BY <1>1, <1>2, <1>3, <1>4, <1>5 DEF Inv

LEMMA InvNext ==
  ASSUME Inv, [Next]_vars
  PROVE  Inv'
  <1>1. CASE UNCHANGED vars
    BY <1>1 DEF vars, Inv, Types, CancelledAreDated, Quiet, Alone, WholeRows,
       DueRows, LeftIn, SeesNow
  <1>2. CASE Next
    <2>1. PICK w \in Worker : \/ BookingRequest(w) \/ PackageRequest(w)
                              \/ UpdateRequest(w) \/ Fail(w)
      BY <1>2 DEF Next
    <2>2. CASE BookingRequest(w)
      BY <2>2, BeginPatchStep, BeginDeleteStep, CommitStatusStep DEF BookingRequest
    <2>3. CASE PackageRequest(w)
      BY <2>3, BeginPackageStep, ReadBookingsStep, CommitConfirmStep,
         CommitCancelStep, CommitPutStep DEF PackageRequest
    <2>4. CASE UpdateRequest(w)
      BY <2>4, BeginUpdateStep, ReadPackageStep, ReadSiblingsStep, CommitUpdateStep
         DEF UpdateRequest
    <2>5. CASE Fail(w)
      BY <2>5, FailStep
    <2> QED BY <2>1, <2>2, <2>3, <2>4, <2>5
  <1> QED BY <1>1, <1>2

LEMMA Invariance == Spec => []Inv
  BY InvInit, InvNext, PTL DEF Spec

(* Rows and sessions keep their types, and no request commits a package of *)
(* which it has not loaded a booking.                                      *)
THEOREM TypesHold == Spec => []TypeOK
  <1>1. Inv => TypeOK
    BY DEF Inv, Types, TypeOK, Sound, PackageKind, Unread, BookingStatus,
       PackageStatus
  <1> QED BY <1>1, Invariance, PTL

(* A cancelled booking has the time of its cancellation, whatever requests *)
(* wrote to it in between, unless an individual update cancelled it.       *)
THEOREM CancellationsAreDated == Spec => []CancelledAreDated
  <1>1. Inv => CancelledAreDated
    BY DEF Inv
  <1> QED BY <1>1, Invariance, PTL

(* Confirmations and cancellations alone, racing in any number, leave the  *)
(* bookings of a package in one status.                                    *)
THEOREM PackagesStayWhole == Spec => []PackagesNeverSplit
  <1>1. Inv => PackagesNeverSplit
    BY DEF Inv, PackagesNeverSplit, Quiet, WholeRows, Whole
  <1> QED BY <1>1, Invariance, PTL

(* Package requests that do not overlap leave a package in a status that   *)
(* agrees with its bookings, whatever their number and order.              *)
THEOREM PackagesFollowBookings == Spec => []PackageMatchesBookings
  <1>1. ASSUME NEW p \in Package, Of(p) # {}, LeftIn(p, package[p])
        PROVE  Due(p, package[p])
    BY <1>1 DEF LeftIn, Due, Done
  <1>2. Inv => PackageMatchesBookings
    BY <1>1 DEF Inv, PackageMatchesBookings, Alone, DueRows
  <1> QED BY <1>2, Invariance, PTL

(* An accepted cancellation of a client, or DELETE, is stored: the status  *)
(* the request found was not CANCELLED, so its UPDATE names the column.    *)
THEOREM AcceptedCancelsAreStored == Spec => AcceptedCancelIsStored
  <1>1. ASSUME Inv, NEW w \in Worker, worker[w] # Idle,
               worker[w].kind \in {"client", "delete"}, CommitStatus(w)
        PROVE  booking'[worker[w].booking].status = "CANCELLED"
    <2>1. PICK me : me = worker[w]
      OBVIOUS
    <2>2. /\ me.booking \in Booking /\ me.status = "CANCELLED"
          /\ me.seen[me.booking] # "CANCELLED"
      BY <2>1, <1>1 DEF Inv, Sound, Cancellable
    <2>3. booking'[me.booking].status = me.status
      BY <2>1, <2>2, <1>1 DEF CommitStatus, Inv, Types
    <2> QED BY <2>1, <2>2, <2>3
  <1>2. Inv /\ [Next]_vars =>
           [\A w \in Worker :
               /\ worker[w] # Idle
               /\ worker[w].kind \in {"client", "delete"}
               /\ CommitStatus(w)
               => booking'[worker[w].booking].status = "CANCELLED"]_vars
    BY <1>1
  <1> QED BY <1>2, Invariance, PTL DEF Spec, AcceptedCancelIsStored

(* A finished booking is cancelled by the salon, by an individual update,  *)
(* or by a request that had found it PENDING or CONFIRMED.                 *)
THEOREM FinishedCancelsWereOpened == Spec => FinishedCancelsWereOpen
  <1> DEFINE Asked(b) ==
        \E w \in Worker :
            /\ worker[w] # Idle /\ worker'[w] = Idle
            /\ \/ worker[w].kind \in {"staff", "delete", "update"}
               \/ worker[w].seen[b] \in Cancellable
  <1>1. ASSUME Inv, NEW b \in Booking, booking[b].status \in Done,
               booking'[b].status = "CANCELLED", [Next]_vars
        PROVE  Asked(b)
    <2>1. booking' # booking
      BY <1>1 DEF Done
    <2>2. PICK w \in Worker : \/ CommitStatus(w) \/ CommitConfirm(w)
                              \/ CommitCancel(w) \/ CommitUpdate(w)
      BY <2>1, <1>1
      DEF Next, vars, BookingRequest, PackageRequest, UpdateRequest, Fail, Begin,
          BeginPatch, BeginDelete, BeginConfirm, BeginCancel, BeginPut,
          ReadBookings, CommitPut, BeginUpdate, ReadPackage, ReadSiblings
    <2>3. worker[w] # Idle /\ worker'[w] = Idle
      BY <2>2, <1>1
      DEF CommitStatus, CommitConfirm, CommitCancel, CommitUpdate, Finish, Inv, Types
    <2>4. CASE CommitStatus(w)
      <3>1. booking'[b] # booking[b]
        BY <1>1 DEF Done
      <3>2. b = worker[w].booking
        BY <2>4, <3>1, <1>1 DEF CommitStatus, Inv, Types
      <3>3. worker[w].kind # "staff" => worker[w].seen[b] \in Cancellable
        BY <2>3, <2>4, <3>2, <1>1 DEF CommitStatus, Inv, Sound
      <3> QED BY <2>3, <3>3
    <2>5. CASE CommitConfirm(w)
      BY <2>5, <1>1 DEF CommitConfirm, Done, Inv, Types
    <2>6. CASE CommitCancel(w)
      <3>1. worker[w].seen[b] \in Cancellable
        BY <2>6, <1>1 DEF CommitCancel, Done
      <3> QED BY <2>3, <3>1
    <2>7. CASE CommitUpdate(w)
      BY <2>3, <2>7 DEF CommitUpdate
    <2> QED BY <2>2, <2>4, <2>5, <2>6, <2>7
  <1>2. Inv /\ [Next]_vars =>
           [\A b \in Booking :
               booking[b].status \in Done /\ booking'[b].status = "CANCELLED"
               => Asked(b)]_vars
    BY <1>1
  <1> QED BY <1>2, Invariance, PTL DEF Spec, FinishedCancelsWereOpen
=============================================================================

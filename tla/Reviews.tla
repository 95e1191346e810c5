------------------------------ MODULE Reviews ------------------------------
(***************************************************************************)
(* Customer reviews: votes on how helpful a review is, reports of abuse,   *)
(* the author's edits, an administrator's moderation and the responses of  *)
(* the salon, from the routes of endpoints/review.py down to their rows.   *)
(*                                                                         *)
(* A worker is one request in flight: its database session reads rows,     *)
(* decides on what it has read, and writes the columns that it changed, as *)
(* absolute values, when get_db commits (READ COMMITTED, one atomic step). *)
(* A request that raises is rolled back and leaves no trace.               *)
(*                                                                         *)
(* A review stands for the booking it is about: uq_review_booking allows   *)
(* one row for each.  The service's create_review reads booking.salon_id,  *)
(* a column bookings do not have, so it always fails; rows come from the   *)
(* repository's create_review, as in its tests.  Resolving a report always *)
(* fails too (the service passes notes=, the repository has no such        *)
(* parameter), so no report is ever resolved.                              *)
(***************************************************************************)
EXTENDS Integers, FiniteSets, Sequences

CONSTANTS
    Reviews,        \* the bookings that can be reviewed
    Users,          \* the users of the API
    Author,         \* the client of each booking
    Admins,         \* the users with the role ADMIN
    Responders,     \* the users who may respond: salon owners, the professional
    Nobody,         \* the NULL of a column that refers to a user
    Ratings,        \* the numbers of stars
    Texts, NoText,  \* the responses, and the NULL of that column
    Lists,          \* the lists of reviews an administrator moderates at once
    Workers,        \* the requests that can be in flight together
    Mixes,          \* the sets of kinds of requests that clients send
    Day,            \* the edit window, in ticks of the clock
    MaxClock,       \* bound: the last tick
    MaxCount,       \* bound: no vote begins once a counter has reached it
    AutoFlagAfter   \* the reports after which a review should be flagged

Ops == {"vote", "report", "edit", "moderate", "respond"}

ASSUME ReviewsAssumption ==
    /\ Reviews # {} /\ Users # {} /\ Ratings # {}
    /\ Author \in [Reviews -> Users]
    /\ Admins \subseteq Users /\ Nobody \notin Users
    /\ Responders \in [Reviews -> SUBSET Users] /\ NoText \notin Texts
    /\ Lists \subseteq Seq(Reviews) /\ Mixes \subseteq SUBSET Ops
    /\ IsFiniteSet(Workers) /\ IsFiniteSet(Users)
    /\ Day \in Nat /\ AutoFlagAfter \in Nat \ {0}
    /\ MaxClock \in Nat /\ MaxCount \in Nat

VARIABLES
    review,     \* the rows of the table reviews
    born,       \* when each row was really stored (the program does not know)
    vote,       \* the rows of review_helpfulness, by review and user
    reports,    \* the users with a row in review_flags, by review
    clock,      \* the time
    booted,     \* when the process imported its models
    contended,  \* whether two votes on a review were ever in flight together
    mix,        \* the kinds of requests clients send in this behaviour
    worker      \* the requests

vars == <<review, born, vote, reports, clock, booted, contended, mix, worker>>

Statuses == {"pending", "approved", "rejected", "hidden"}
Votes == {"none", "yes", "no"}      \* "none": no row

Review == [stored : BOOLEAN, created : Nat, status : Statuses,
           by : Users \cup {Nobody}, rating : Ratings,
           response : Texts \cup {NoText}, respondent : Users \cup {Nobody},
           helpful : Nat, notHelpful : Nat]

(* A row that is not there yet, and one as the repository's create_review  *)
(* stores it: the default of created_at is evaluated only once, when the   *)
(* module is imported.                                                     *)
NoReview ==
    [stored |-> FALSE, created |-> 0, status |-> "pending", by |-> Nobody,
     rating |-> CHOOSE rating \in Ratings : TRUE, response |-> NoText,
     respondent |-> Nobody, helpful |-> 0, notHelpful |-> 0]

NewReview(rating) ==
    [NoReview EXCEPT !.stored = TRUE, !.created = booted, !.rating = rating]

(* A request: what was asked, and what its session has read.  "old" is the *)
(* user's own vote, "known" the reviews the session holds, as it has seen  *)
(* them; a moderation changes those in "read" and those still in "todo".   *)
Request == [at : {"idle", "loaded", "read", "write"}, op : Ops, user : Users,
            review : Reviews, choice : Votes \cup Statuses \cup Ratings \cup Texts,
            time : Nat, old : Votes,
            known : SUBSET Reviews, seen : [Reviews -> Review],
            todo : Seq(Reviews), read : SUBSET Reviews]

Idle == [at |-> "idle", op |-> "vote", user |-> CHOOSE u \in Users : TRUE,
         review |-> CHOOSE r \in Reviews : TRUE, choice |-> "none",
         time |-> 0, old |-> "none",
         known |-> {}, seen |-> [r \in Reviews |-> NoReview],
         todo |-> <<>>, read |-> {}]

Init == /\ review = [r \in Reviews |-> NoReview]
        /\ born = [r \in Reviews |-> 0]
        /\ vote = [r \in Reviews |-> [u \in Users |-> "none"]]
        /\ reports = [r \in Reviews |-> {}]
        /\ clock = 0 /\ booted = 0
        /\ contended = [r \in Reviews |-> FALSE]
        /\ mix \in Mixes
        /\ worker = [w \in Workers |-> Idle]

Is(w, at, op) == worker[w].at = at /\ worker[w].op = op

(* A request begins, has its next part done, or is answered.               *)
Starts(w, request) ==
    /\ worker[w].at = "idle" /\ request.op \in mix
    /\ worker' = [worker EXCEPT ![w] = request]
Goes(w, request) == worker' = [worker EXCEPT ![w] = request]
Answered(w) == Goes(w, Idle)

(* A session loads reviews, and keeps those it holds as they were.  Eager  *)
(* relationships of users load others along with the one asked for: those  *)
(* that the user, the author or the professional wrote or received.        *)
Stored == {r \in Reviews : review[r].stored}

Loads(me, loaded) ==
    [me EXCEPT !.known = @ \cup loaded,
               !.seen = [r \in Reviews |->
                           IF r \in loaded \ me.known THEN review[r] ELSE me.seen[r]]]

(* The repository stores a review; the unique constraint allows no second. *)
(* The insert is taken to succeed.  As committed, uuid defaults to a UUID  *)
(* object for a String(36) column (models/review.py:42), which asyncpg     *)
(* refuses: rows need a driver that takes it, or a default made a string.  *)
Store(r) ==
    /\ ~review[r].stored
    /\ \E rating \in Ratings : review' = [review EXCEPT ![r] = NewReview(rating)]
    /\ born' = [born EXCEPT ![r] = clock]
    /\ UNCHANGED <<vote, reports, clock, booted, contended, mix, worker>>

---------------------------------------------------------------------------
(* Votes.  Authenticating the user loads the votes he has cast, and a      *)
(* later query returns those loaded rows as they were.                     *)

Voting(r) == {w \in Workers :
                worker[w].at # "idle" /\ worker[w].op = "vote" /\ worker[w].review = r}

BeginVote(w, r, u, choice) ==
    /\ review[r].helpful < MaxCount /\ review[r].notHelpful < MaxCount
    /\ \E loaded \in SUBSET Stored :
         Starts(w, Loads([Idle EXCEPT !.at = "loaded", !.op = "vote", !.review = r,
                                      !.user = u, !.choice = choice,
                                      !.old = vote[r][u]], loaded))
    /\ contended' = [contended EXCEPT ![r] = @ \/ Voting(r) # {}]
    /\ UNCHANGED <<review, born, vote, reports, clock, booted, mix>>

(* A vote that the session holds is not read again.                        *)
OwnVote(me) == IF me.old = "none" THEN vote[me.review][me.user] ELSE me.old

(* The service reads the review, with its votes; nobody votes on his own.  *)
ReadForVote(w) ==
    /\ Is(w, "loaded", "vote")
    /\ LET me == worker[w] IN
         \/ /\ review[me.review].stored /\ Author[me.review] # me.user
            /\ \E loaded \in SUBSET Stored :
                 /\ me.review \in loaded
                 /\ Goes(w, Loads([me EXCEPT !.at = "read", !.old = OwnVote(me)], loaded))
         \/ /\ ~review[me.review].stored \/ Author[me.review] = me.user
            /\ Answered(w)
    /\ UNCHANGED <<review, born, vote, reports, clock, booted, contended, mix>>

(* The repository looks for an existing vote.                              *)
SelectVote(w) ==
    /\ Is(w, "read", "vote")
    /\ Goes(w, [worker[w] EXCEPT !.at = "write", !.old = OwnVote(worker[w])])
    /\ UNCHANGED <<review, born, vote, reports, clock, booted, contended, mix>>

(* Mutant of Counted: a change of mind takes nothing off the other counter.*)
CountedTwice(row, me) ==
    LET seen == me.seen[me.review] IN
    CASE me.old = me.choice -> row
      [] me.old # me.choice /\ me.choice = "yes" ->
           [row EXCEPT !.helpful = seen.helpful + 1]
      [] me.old # me.choice /\ me.choice # "yes" ->
           [row EXCEPT !.notHelpful = seen.notHelpful + 1]

(* The counters as the session leaves them: counted from those it has read.*)
(* Only the columns that it has changed are written.                       *)
Counted(row, me) ==
    LET seen == me.seen[me.review] IN
    CASE me.old = me.choice -> row
      [] me.old = "none" /\ me.choice = "yes" ->
           [row EXCEPT !.helpful = seen.helpful + 1]
      [] me.old = "none" /\ me.choice = "no" ->
           [row EXCEPT !.notHelpful = seen.notHelpful + 1]
      [] me.old = "no" /\ me.choice = "yes" ->
           [row EXCEPT !.helpful = seen.helpful + 1, !.notHelpful = seen.notHelpful - 1]
      [] me.old = "yes" /\ me.choice = "no" ->
           [row EXCEPT !.helpful = seen.helpful - 1, !.notHelpful = seen.notHelpful + 1]

(* Mutant of Accepted: tables without the check constraints.               *)
AcceptedUnchecked(row, me) ==
    me.old = "none" => vote[me.review][me.user] = "none"

(* The constraints of the two tables: one vote for each user, no counter   *)
(* below zero.                                                             *)
Accepted(row, me) ==
    /\ me.old = "none" => vote[me.review][me.user] = "none"
    /\ Counted(row, me).helpful >= 0 /\ Counted(row, me).notHelpful >= 0

CommitVote(w) ==
    /\ Is(w, "write", "vote")
    /\ LET me == worker[w] IN
         \/ /\ Accepted(review[me.review], me)
            /\ review' = [review EXCEPT ![me.review] = Counted(@, me)]
            /\ vote' = IF me.old = me.choice THEN vote
                       ELSE [vote EXCEPT ![me.review][me.user] = me.choice]
         \/ /\ ~Accepted(review[me.review], me)
            /\ UNCHANGED <<review, vote>>
    /\ Answered(w)
    /\ UNCHANGED <<born, reports, clock, booted, contended, mix>>

---------------------------------------------------------------------------
(* Reports.                                                                *)

(* The service reads the review; nobody reports his own.  The repository   *)
(* returns the report this user has made before, if there is one.          *)
BeginReport(w, r, u) ==
    /\ review[r].stored /\ Author[r] # u /\ u \notin reports[r]
    /\ Starts(w, [Idle EXCEPT !.at = "read", !.op = "report", !.review = r, !.user = u])
    /\ UNCHANGED <<review, born, vote, reports, clock, booted, contended, mix>>

(* The reports in the table are counted; the new one is not yet flushed.   *)
(* Once there are enough, the repository compares the status with          *)
(* ReviewStatus.FLAGGED, which the enumeration does not define: the        *)
(* request fails with an AttributeError where its comment says that the    *)
(* review is flagged.  No property relies on that failure.                 *)
CountReports(w) ==
    /\ Is(w, "read", "report")
    /\ \/ /\ Cardinality(reports[worker[w].review]) < AutoFlagAfter
          /\ Goes(w, [worker[w] EXCEPT !.at = "write"])
       \/ /\ Cardinality(reports[worker[w].review]) >= AutoFlagAfter
          /\ Answered(w)
    /\ UNCHANGED <<review, born, vote, reports, clock, booted, contended, mix>>

(* A second row for the same user violates uq_review_flag_reporter: the    *)
(* request fails and the table is as it was.                               *)
CommitReport(w) ==
    /\ Is(w, "write", "report")
    /\ reports' = [reports EXCEPT ![worker[w].review] = @ \cup {worker[w].user}]
    /\ Answered(w)
    /\ UNCHANGED <<review, born, vote, clock, booted, contended, mix>>

---------------------------------------------------------------------------
(* Edits by the author.                                                    *)

(* Mutant of CanBeEdited: the last moment of the window is inside it.      *)
CanBeEditedLonger(r) == clock - review[r].created <= Day

(* The property can_be_edited: less than a day since created_at.           *)
CanBeEdited(r) == clock - review[r].created < Day

BeginEdit(w, r, u, rating) ==
    /\ review[r].stored /\ Author[r] = u /\ CanBeEdited(r)
    /\ Starts(w, Loads([Idle EXCEPT !.at = "write", !.op = "edit", !.review = r,
                                    !.user = u, !.choice = rating,
                                    !.time = clock], {r}))
    /\ UNCHANGED <<review, born, vote, reports, clock, booted, contended, mix>>

CommitEdit(w) ==
    /\ Is(w, "write", "edit")
    /\ LET me == worker[w] IN
       review' = [review EXCEPT ![me.review].rating =
                    IF me.choice = me.seen[me.review].rating THEN @ ELSE me.choice]
    /\ Answered(w)
    /\ UNCHANGED <<born, vote, reports, clock, booted, contended, mix>>

---------------------------------------------------------------------------
(* Moderation, of one review or of a list.                                 *)

BeginModeration(w, u, list, status) ==
    /\ u \in Admins
    /\ \E loaded \in SUBSET Stored :
         Starts(w, Loads([Idle EXCEPT !.at = "read", !.op = "moderate", !.user = u,
                                      !.todo = list, !.choice = status], loaded))
    /\ UNCHANGED <<review, born, vote, reports, clock, booted, contended, mix>>

(* The next review of the list is read, or skipped if there is none.       *)
ReadForModeration(w) ==
    /\ Is(w, "read", "moderate") /\ worker[w].todo # <<>>
    /\ LET me == worker[w]
           r == Head(me.todo) IN
         \/ /\ review[r].stored
            /\ \E loaded \in SUBSET Stored :
                 /\ r \in loaded
                 /\ Goes(w, Loads([me EXCEPT !.todo = Tail(@), !.read = @ \cup {r}], loaded))
         \/ /\ ~review[r].stored
            /\ Goes(w, [me EXCEPT !.todo = Tail(@)])
    /\ UNCHANGED <<review, born, vote, reports, clock, booted, contended, mix>>

(* Mutant of Moderated: only the first moderation is signed.               *)
ModeratedOnce(row, seen, me) ==
    [row EXCEPT !.status = IF me.choice = seen.status THEN @ ELSE me.choice,
                !.by = IF seen.by = Nobody THEN me.user ELSE @]

(* A status or an administrator that is the one it has read is no change.  *)
Moderated(row, seen, me) ==
    [row EXCEPT !.status = IF me.choice = seen.status THEN @ ELSE me.choice,
                !.by = IF me.user = seen.by THEN @ ELSE me.user]

CommitModeration(w) ==
    /\ Is(w, "read", "moderate") /\ worker[w].todo = <<>>
    /\ LET me == worker[w] IN
       review' = [r \in Reviews |->
                    IF r \in me.read THEN Moderated(review[r], me.seen[r], me)
                                     ELSE review[r]]
    /\ Answered(w)
    /\ UNCHANGED <<born, vote, reports, clock, booted, contended, mix>>

---------------------------------------------------------------------------
(* Responses of the salon, each of which replaces the one before.          *)

(* Only salon owners may respond, of whatever salon, and the user whose id *)
(* is the review's professional_id.                                        *)
BeginResponse(w, r, u, text) ==
    /\ review[r].stored /\ u \in Responders[r]
    /\ Starts(w, Loads([Idle EXCEPT !.at = "write", !.op = "respond", !.review = r,
                                    !.user = u, !.choice = text], {r}))
    /\ UNCHANGED <<review, born, vote, reports, clock, booted, contended, mix>>

(* A text or a respondent that is the one it has read is no change.        *)
Responded(row, seen, me) ==
    [row EXCEPT !.response = IF me.choice = seen.response THEN @ ELSE me.choice,
                !.respondent = IF me.user = seen.respondent THEN @ ELSE me.user]

CommitResponse(w) ==
    /\ Is(w, "write", "respond")
    /\ LET me == worker[w] IN
       review' = [review EXCEPT ![me.review] = Responded(@, me.seen[me.review], me)]
    /\ Answered(w)
    /\ UNCHANGED <<born, vote, reports, clock, booted, contended, mix>>

---------------------------------------------------------------------------
(* The environment.                                                        *)

(* A request is lost to its client, its connection or a deadlock of rows.  *)
Fail(w) ==
    /\ worker[w].at # "idle"
    /\ Answered(w)
    /\ UNCHANGED <<review, born, vote, reports, clock, booted, contended, mix>>

(* Time passes, where it matters: only edits look at the clock.            *)
Tick ==
    /\ clock < MaxClock /\ "edit" \in mix
    /\ clock' = clock + 1
    /\ UNCHANGED <<review, born, vote, reports, booted, contended, mix, worker>>

(* The process restarts: what is in flight is lost, models are imported.   *)
Restart ==
    /\ booted' = clock
    /\ worker' = [w \in Workers |-> Idle]
    /\ UNCHANGED <<review, born, vote, reports, clock, contended, mix>>

Step(w) ==
    \/ \E r \in Reviews, u \in Users :
         \/ \E choice \in {"yes", "no"} : BeginVote(w, r, u, choice)
         \/ BeginReport(w, r, u)
         \/ \E rating \in Ratings : BeginEdit(w, r, u, rating)
         \/ \E text \in Texts : BeginResponse(w, r, u, text)
    \/ \E u \in Users, list \in Lists, status \in Statuses :
         BeginModeration(w, u, list, status)
    \/ ReadForVote(w) \/ SelectVote(w) \/ CommitVote(w)
    \/ CountReports(w) \/ CommitReport(w)
    \/ CommitEdit(w) \/ CommitResponse(w)
    \/ ReadForModeration(w) \/ CommitModeration(w)
    \/ Fail(w)

Next == \/ \E r \in Reviews : Store(r)
        \/ \E w \in Workers : Step(w)
        \/ Tick \/ Restart

Spec == Init /\ [][Next]_vars

---------------------------------------------------------------------------
(* Properties.                                                             *)

(* The type invariant.  That the counters are natural numbers is owed to   *)
(* the check constraints: a session that counts from a stale row can take  *)
(* one below zero.                                                         *)
TypeOK ==
    /\ review \in [Reviews -> Review] /\ born \in [Reviews -> Nat]
    /\ vote \in [Reviews -> [Users -> Votes]]
    /\ reports \in [Reviews -> SUBSET Users]
    /\ clock \in Nat /\ booted \in Nat
    /\ contended \in [Reviews -> BOOLEAN] /\ mix \in Mixes
    /\ worker \in [Workers -> Request]

Cast(r, choice) == {u \in Users : vote[r][u] = choice}

(* vote_helpfulness keeps the counters of a review in step with its votes, *)
(* through first votes, changes of mind, failures and restarts, as long as *)
(* no two votes on it were in flight together.                             *)
CountersMatchVotes ==
    \A r \in Reviews : ~contended[r] =>
        /\ review[r].helpful = Cardinality(Cast(r, "yes"))
        /\ review[r].notHelpful = Cardinality(Cast(r, "no"))

(* update_review: a new rating comes from the author, in a request that    *)
(* began less than a day after the review was stored, whatever restarts    *)
(* have done to created_at.                                                *)
EditsAreTimely ==
    [][\A r \in Reviews :
         review[r].stored /\ review'[r].rating # review[r].rating =>
           \E w \in Workers :
             /\ Is(w, "write", "edit") /\ worker'[w].at = "idle"
             /\ worker[w].review = r /\ worker[w].user = Author[r]
             /\ worker[w].time - born[r] < Day]_vars

(* moderate_review and add_professional_response: a new status is signed   *)
(* by the administrator who chose it, a new response by the one who wrote  *)
(* it, or that user had signed the version that the request read (then the *)
(* column is not written, and may by now name somebody else).              *)
ChangeIsSigned ==
    \A r \in Reviews : review[r].stored =>
       /\ review'[r].status # review[r].status =>
            \E w \in Workers :
              /\ worker[w].op = "moderate" /\ worker'[w].at = "idle"
              /\ worker[w].choice = review'[r].status
              /\ worker[w].user \in {review'[r].by, worker[w].seen[r].by}
       /\ review'[r].response # review[r].response =>
            \E w \in Workers :
              /\ Is(w, "write", "respond") /\ worker'[w].at = "idle"
              /\ worker[w].choice = review'[r].response
              /\ worker[w].user \in Responders[r]
              /\ worker[w].user \in {review'[r].respondent,
                                     worker[w].seen[r].respondent}

ChangesAreSigned == [][ChangeIsSigned]_vars
=============================================================================

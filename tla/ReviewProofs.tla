---------------------------- MODULE ReviewProofs ----------------------------
(***************************************************************************)
(* Theorems about Reviews, for every number of reviews, users and requests *)
(* in flight and for every mix of them.                                    *)
(***************************************************************************)
EXTENDS Reviews, FiniteSetTheorems, TLAPS

(* Rows and requests that are not there yet are well formed.               *)
LEMMA InitialTypes ==
    /\ NoReview \in Review
    /\ Idle \in Request /\ Idle.at = "idle" /\ Idle.known = {}
  <1>1. \A rating \in Ratings : (CHOOSE x \in Ratings : TRUE) \in Ratings
    OBVIOUS
  <1>2. NoReview \in Review
    BY <1>1, ReviewsAssumption DEF NoReview, Review, Statuses
  <1>3. /\ (CHOOSE u \in Users : TRUE) \in Users
        /\ (CHOOSE r \in Reviews : TRUE) \in Reviews
    BY ReviewsAssumption
  <1>4. <<>> \in Seq(Reviews)
    OBVIOUS
  <1> QED BY <1>2, <1>3, <1>4 DEF Idle, Request, Ops, Votes

(* A request with one part changed is still a request.                     *)
LEMMA RequestType ==
  ASSUME NEW me \in Request
  PROVE  /\ me.at \in {"idle", "loaded", "read", "write"} /\ me.op \in Ops
         /\ me.user \in Users /\ me.review \in Reviews /\ me.time \in Nat
         /\ me.choice \in Votes \cup Statuses \cup Ratings \cup Texts
         /\ me.old \in Votes
         /\ me.seen \in [Reviews -> Review]
         /\ me.todo \in Seq(Reviews) /\ me.read \subseteq Reviews
         /\ me.known \subseteq Reviews
  BY DEF Request

(* What a request that has loaded reviews keeps of what it was.            *)
Loaded(me, loaded, next) ==
    /\ next \in Request
    /\ next.at = me.at /\ next.op = me.op /\ next.user = me.user
    /\ next.review = me.review /\ next.choice = me.choice /\ next.time = me.time
    /\ next.old = me.old /\ next.known = me.known \cup loaded
    /\ \A x \in Reviews :
         next.seen[x] = IF x \in loaded \ me.known THEN review[x] ELSE me.seen[x]

(* The session sees the reviews that it loads as they are, and the others  *)
(* as it has seen them.                                                    *)
LEMMA LoadsType ==
  ASSUME review \in [Reviews -> Review], NEW me \in Request,
         NEW loaded \in SUBSET Reviews
  PROVE  Loaded(me, loaded, Loads(me, loaded))
  <1>1. PICK seen : seen = [r \in Reviews |-> IF r \in loaded \ me.known
                                              THEN review[r] ELSE me.seen[r]]
    OBVIOUS
  <1>2. seen \in [Reviews -> Review]
    BY <1>1, RequestType
  <1>3. PICK known : known = me.known \cup loaded
    OBVIOUS
  <1>4. known \in SUBSET Reviews
    BY <1>3, RequestType
  <1>5. PICK next : next = [me EXCEPT !.known = known, !.seen = seen]
    OBVIOUS
  <1>6. next = Loads(me, loaded)
    BY <1>1, <1>3, <1>5 DEF Loads
  <1>7. next \in Request
    BY <1>2, <1>4, <1>5 DEF Request
  <1>8. /\ next.at = me.at /\ next.op = me.op /\ next.user = me.user
        /\ next.review = me.review /\ next.choice = me.choice
        /\ next.time = me.time /\ next.old = me.old
        /\ next.known = known /\ next.seen = seen
    BY <1>5 DEF Request
  <1>9. Loaded(me, loaded, next)
    BY <1>1, <1>3, <1>7, <1>8 DEF Loaded
  <1> QED BY <1>6, <1>9

(* What a row with new counters keeps of the old one.                      *)
Kept(row, next) ==
    /\ next \in Review
    /\ next.stored = row.stored /\ next.created = row.created
    /\ next.rating = row.rating /\ next.status = row.status /\ next.by = row.by
    /\ next.response = row.response /\ next.respondent = row.respondent

(* Counters that are natural numbers make a row of the table.              *)
LEMMA CountersSet ==
  ASSUME NEW row \in Review, NEW h \in Nat, NEW n \in Nat
  PROVE  Kept(row, [row EXCEPT !.helpful = h, !.notHelpful = n])
  <1> DEFINE next == [row EXCEPT !.helpful = h, !.notHelpful = n]
  <1>1. DOMAIN row = {"stored", "created", "status", "by", "rating",
                      "response", "respondent", "helpful", "notHelpful"}
    BY DEF Review
  <1>2. next = [x \in DOMAIN row |-> IF x = "notHelpful" THEN n
                                     ELSE IF x = "helpful" THEN h ELSE row[x]]
    BY <1>1
  <1>3. next = [stored |-> row.stored, created |-> row.created,
                status |-> row.status, by |-> row.by, rating |-> row.rating,
                response |-> row.response, respondent |-> row.respondent,
                helpful |-> h, notHelpful |-> n]
    BY <1>1, <1>2
  <1> HIDE DEF next
  <1>4. next \in Review
    BY <1>3 DEF Review
  <1>5. Kept(row, next)
    BY <1>3, <1>4 DEF Kept
  <1> QED BY <1>5 DEF next

(* The session leaves counters that the constraints accept as natural      *)
(* numbers, and every other column as it was.                              *)
LEMMA CountedType ==
  ASSUME NEW row \in Review, NEW me \in Request, Accepted(row, me),
         me.choice \in {"yes", "no"}
  PROVE  Kept(row, Counted(row, me))
  <1> DEFINE seen == me.seen[me.review]
             set(h, n) == [row EXCEPT !.helpful = h, !.notHelpful = n]
  <1>1. seen \in Review /\ me.old \in Votes
    BY RequestType
  <1>2. /\ seen.helpful \in Nat /\ seen.notHelpful \in Nat
        /\ seen.helpful + 1 \in Nat /\ seen.notHelpful + 1 \in Nat
    BY <1>1 DEF Review
  <1>3. CASE me.old = me.choice
    BY <1>3 DEF Counted, Kept
  <1>4. CASE me.old = "none" /\ me.choice = "yes"
    <2>1. Counted(row, me) = [row EXCEPT !.helpful = seen.helpful + 1]
      BY <1>4 DEF Counted
    <2> QED BY <1>2, <2>1 DEF Review, Kept
  <1>5. CASE me.old = "none" /\ me.choice = "no"
    <2>1. Counted(row, me) = [row EXCEPT !.notHelpful = seen.notHelpful + 1]
      BY <1>5 DEF Counted
    <2> QED BY <1>2, <2>1 DEF Review, Kept
  <1>6. CASE me.old = "no" /\ me.choice = "yes"
    <2>1. Counted(row, me) = set(seen.helpful + 1, seen.notHelpful - 1)
      BY <1>6 DEF Counted
    <2>2. seen.notHelpful - 1 \in Nat
      BY <1>2, <2>1 DEF Accepted, Review
    <2>3. Kept(row, set(seen.helpful + 1, seen.notHelpful - 1))
      BY <1>2, <2>2, CountersSet
    <2> QED BY ONLY <2>1, <2>3
  <1>7. CASE me.old = "yes" /\ me.choice = "no"
    <2>1. Counted(row, me) = set(seen.helpful - 1, seen.notHelpful + 1)
      BY <1>7 DEF Counted
    <2>2. seen.helpful - 1 \in Nat
      BY <1>2, <2>1 DEF Accepted, Review
    <2>3. Kept(row, set(seen.helpful - 1, seen.notHelpful + 1))
      BY <1>2, <2>2, CountersSet
    <2> QED BY ONLY <2>1, <2>3
  <1> QED BY <1>1, <1>3, <1>4, <1>5, <1>6, <1>7 DEF Votes

(***************************************************************************)
(* Types.                                                                  *)
(***************************************************************************)

(* A vote asks for "yes" or "no", an edit for a rating, a moderation for a *)
(* status and a response for a text.                                       *)
Asked(w) ==
    LET me == worker[w] IN
    me.at # "idle" =>
        /\ me.op = "vote" => me.choice \in {"yes", "no"}
        /\ me.op = "edit" => me.choice \in Ratings
        /\ me.op = "moderate" => me.choice \in Statuses
        /\ me.op = "respond" => me.choice \in Texts

WellFormed == TypeOK /\ \A w \in Workers : Asked(w)

(* A request replaced by another leaves the workers well formed.           *)
LEMMA WorkerSet ==
  ASSUME WellFormed, NEW w \in Workers, NEW me \in Request, Goes(w, me),
         me.at # "idle" =>
            /\ me.op = "vote" => me.choice \in {"yes", "no"}
            /\ me.op = "edit" => me.choice \in Ratings
            /\ me.op = "moderate" => me.choice \in Statuses
            /\ me.op = "respond" => me.choice \in Texts
  PROVE  /\ worker' \in [Workers -> Request] /\ worker'[w] = me
         /\ \A v \in Workers : v # w => worker'[v] = worker[v]
         /\ \A v \in Workers : Asked(v)'
  <1>1. /\ worker' \in [Workers -> Request] /\ worker'[w] = me
        /\ \A v \in Workers : v # w => worker'[v] = worker[v]
    BY DEF Goes, WellFormed, TypeOK
  <1>2. ASSUME NEW v \in Workers PROVE Asked(v)'
    <2>1. CASE v = w
      BY <1>1, <2>1 DEF Asked
    <2>2. CASE v # w
      BY <1>1, <2>2 DEF Asked, WellFormed
    <2> QED BY <2>1, <2>2
  <1> QED BY <1>1, <1>2

(* So does one that is answered.                                           *)
LEMMA WorkerIdle ==
  ASSUME WellFormed, NEW w \in Workers, Answered(w)
  PROVE  /\ worker' \in [Workers -> Request] /\ worker'[w] = Idle
         /\ \A v \in Workers : v # w => worker'[v] = worker[v]
         /\ \A v \in Workers : Asked(v)'
  <1>1. Goes(w, Idle)
    BY DEF Answered
  <1>2. Idle \in Request /\ Idle.at = "idle"
    BY InitialTypes
  <1> QED BY <1>1, <1>2, WorkerSet

(***************************************************************************)
(* The invariant.                                                          *)
(***************************************************************************)

(* What a request has read is still so when it matters: the reviews that   *)
(* its session holds stay stored, an edit was in time, a response allowed,  *)
(* and, unless votes have met on the review, its counters and the user's   *)
(* own vote are those in the rows.                                         *)
Sound(me) ==
    LET r == me.review IN
    me.at # "idle" =>
      /\ \A x \in me.known : review[x].stored
      /\ me.op = "edit" => /\ r \in me.known /\ me.user = Author[r]
                           /\ me.time - born[r] < Day
      /\ me.op = "respond" => r \in me.known /\ me.user \in Responders[r]
      /\ me.op = "vote" =>
           /\ me.at # "loaded" => r \in me.known
           /\ ~contended[r] => me.old = vote[r][me.user]
           /\ ~contended[r] /\ r \in me.known =>
                /\ me.seen[r].helpful = review[r].helpful
                /\ me.seen[r].notHelpful = review[r].notHelpful

RequestsAreSound == \A w \in Workers : Sound(worker[w])

(* Nobody has voted on a review that is not stored, and created_at is not  *)
(* later than the moment it was stored.                                    *)
RowsAreSound ==
    /\ booted <= clock
    /\ \A r \in Reviews :
         /\ ~review[r].stored =>
              /\ review[r].helpful = 0 /\ review[r].notHelpful = 0
              /\ \A u \in Users : vote[r][u] = "none"
         /\ review[r].stored => review[r].created <= born[r]

VotesAreAlone ==
    \A r \in Reviews : ~contended[r] => \A v, w \in Voting(r) : v = w

Inv == /\ WellFormed
       /\ RequestsAreSound
       /\ RowsAreSound
       /\ VotesAreAlone
       /\ CountersMatchVotes

(* The sets that are counted are finite.                                   *)
LEMMA Finite ==
  /\ IsFiniteSet(Workers)
  /\ \A r, choice : IsFiniteSet(Cast(r, choice)) /\ Cardinality(Cast(r, choice)) \in Nat
  <1>1. IsFiniteSet(Workers) /\ IsFiniteSet(Users)
    BY ReviewsAssumption
  <1>2. \A r, choice : Cast(r, choice) \subseteq Users
    BY DEF Cast
  <1> QED BY <1>1, <1>2, FS_Subset, FS_CardinalityType

(* The columns that votes and the edit window depend on are as they were.  *)
Same(r) ==
    /\ review'[r].stored = review[r].stored
    /\ review'[r].created = review[r].created
    /\ review'[r].helpful = review[r].helpful
    /\ review'[r].notHelpful = review[r].notHelpful

(* A step of one request that touches neither votes nor reports keeps the  *)
(* invariant, if the request goes on soundly: it does not become a vote.   *)
LEMMA RequestStep ==
  ASSUME Inv, NEW w \in Workers, NEW me \in Request, Goes(w, me),
         me.at # "idle" =>
            /\ me.op = "vote" => me.choice \in {"yes", "no"}
            /\ me.op = "edit" => me.choice \in Ratings
            /\ me.op = "moderate" => me.choice \in Statuses
            /\ me.op = "respond" => me.choice \in Texts,
         review' \in [Reviews -> Review], \A r \in Reviews : Same(r),
         UNCHANGED <<born, vote, reports, clock, booted, contended, mix>>,
         me.at # "idle" => Sound(me),
         me.at # "idle" /\ me.op = "vote" => w \in Voting(me.review)
  PROVE  Inv'
  <1>0. TypeOK /\ WellFormed
    BY DEF Inv, WellFormed
  <1>1. /\ worker' \in [Workers -> Request] /\ worker'[w] = me
        /\ \A v \in Workers : v # w => worker'[v] = worker[v]
        /\ \A v \in Workers : Asked(v)'
    BY <1>0, WorkerSet
  <1>2. WellFormed'
    BY <1>0, <1>1 DEF WellFormed, TypeOK
  <1>3. RequestsAreSound'
    <2>1. ASSUME NEW v \in Workers PROVE Sound(worker[v])'
      <3>1. worker'[v] \in Request /\ worker'[v].review \in Reviews
        BY <1>1, RequestType
      <3>2. Same(worker'[v].review) /\ \A x \in worker'[v].known : Same(x)
        BY <3>1, RequestType
      <3>3. CASE v # w
        BY <1>1, <3>2, <3>3 DEF Sound, Inv, RequestsAreSound, Same
      <3>4. CASE v = w /\ me.at = "idle"
        BY <1>1, <3>4 DEF Sound
      <3>5. CASE v = w /\ me.at # "idle"
        BY <1>1, <3>2, <3>5 DEF Sound, Same
      <3> QED BY <3>3, <3>4, <3>5
    <2> QED BY <2>1 DEF RequestsAreSound
  <1>4. RowsAreSound'
    BY DEF Inv, RowsAreSound, Same
  <1>5. VotesAreAlone'
    <2>1. ASSUME NEW r \in Reviews PROVE Voting(r)' \subseteq Voting(r)
      BY <1>1 DEF Voting
    <2> QED BY <2>1 DEF Inv, VotesAreAlone
  <1>6. CountersMatchVotes'
    BY DEF Inv, CountersMatchVotes, Cast, Same
  <1> QED BY <1>2, <1>3, <1>4, <1>5, <1>6 DEF Inv

(* A request answered without a vote or a report keeps the invariant.      *)
LEMMA AnswerStep ==
  ASSUME Inv, NEW w \in Workers, Answered(w),
         review' \in [Reviews -> Review], \A r \in Reviews : Same(r),
         UNCHANGED <<born, vote, reports, clock, booted, contended, mix>>
  PROVE  Inv'
  <1>1. Idle \in Request /\ Idle.at = "idle" /\ Goes(w, Idle)
    BY InitialTypes DEF Answered
  <1> QED BY <1>1, RequestStep

(* What is known of a request at work.                                     *)
LEMMA AtWork ==
  ASSUME Inv, NEW w \in Workers
  PROVE  /\ TypeOK /\ WellFormed /\ worker[w] \in Request
         /\ Asked(w) /\ Sound(worker[w])
  BY DEF Inv, WellFormed, TypeOK, RequestsAreSound

(* The rows as they were are the same.                                     *)
LEMMA UnchangedRows ==
  ASSUME TypeOK, UNCHANGED review
  PROVE  review' \in [Reviews -> Review] /\ \A r \in Reviews : Same(r)
  BY DEF TypeOK, Same

(* The review that a vote reads is the row as it is.                       *)
LEMMA ReadForVoteStep ==
  ASSUME Inv, NEW w \in Workers, ReadForVote(w)
  PROVE  Inv'
  <1>1. PICK me \in Request : me = worker[w]
    BY AtWork
  <1>2. /\ TypeOK /\ Sound(me) /\ me.at = "loaded" /\ me.op = "vote"
        /\ me.choice \in {"yes", "no"}
    BY <1>1, AtWork DEF Asked, ReadForVote, Is
  <1>3. /\ review' \in [Reviews -> Review] /\ \A r \in Reviews : Same(r)
        /\ UNCHANGED <<born, vote, reports, clock, booted, contended, mix>>
    BY <1>2, UnchangedRows DEF ReadForVote
  <1>4. PICK old \in Votes : old = OwnVote(me)
    BY <1>2, RequestType DEF OwnVote, TypeOK
  <1>5. ASSUME NEW loaded \in SUBSET Stored, me.review \in loaded,
               Goes(w, Loads([me EXCEPT !.at = "read", !.old = old], loaded))
        PROVE  Inv'
    <2>1. PICK here : here = [me EXCEPT !.at = "read", !.old = old]
      OBVIOUS
    <2>2. /\ here \in Request /\ here.at = "read" /\ here.op = "vote"
          /\ here.choice = me.choice /\ here.review = me.review
          /\ here.user = me.user /\ here.old = old
          /\ here.known = me.known /\ here.seen = me.seen
      BY <1>2, <2>1 DEF Request
    <2>3. PICK next : next = Loads(here, loaded)
      OBVIOUS
    <2>4. Loaded(here, loaded, next)
      <3>1. loaded \in SUBSET Reviews /\ review \in [Reviews -> Review]
        BY <1>2 DEF Stored, TypeOK
      <3> QED BY <2>2, <2>3, <3>1, LoadsType
    <2>5. /\ next \in Request /\ next.at = "read" /\ next.op = "vote"
          /\ next.choice = me.choice /\ next.review = me.review
          /\ next.user = me.user /\ next.old = old
          /\ next.known = me.known \cup loaded
      BY <2>2, <2>4 DEF Loaded
    <2>6. next.seen[me.review] = IF me.review \in loaded \ me.known
                                 THEN review[me.review] ELSE me.seen[me.review]
      BY <2>2, <2>4, RequestType DEF Loaded
    <2>7. Sound(next)
      <3>1. \A x \in next.known : review[x].stored
        BY <1>2, <2>5 DEF Sound, Stored
      <3>2. me.review \in next.known
        BY <1>5, <2>5
      <3>3. ~contended[me.review] => next.old = vote[me.review][me.user]
        BY <1>2, <1>4, <2>5 DEF Sound, OwnVote
      <3>4. ~contended[me.review] =>
              /\ next.seen[me.review].helpful = review[me.review].helpful
              /\ next.seen[me.review].notHelpful = review[me.review].notHelpful
        BY <1>2, <1>5, <2>6 DEF Sound
      <3> QED BY <2>5, <3>1, <3>2, <3>3, <3>4 DEF Sound
    <2>8. w \in Voting(next.review)
      BY <1>1, <1>2, <2>5 DEF Voting
    <2>9. Goes(w, next)
      BY <1>5, <2>1, <2>3
    <2> QED BY <1>2, <1>3, <2>5, <2>7, <2>8, <2>9, RequestStep
  <1>6. CASE Answered(w)
    BY <1>3, <1>6, AnswerStep
  <1> QED BY <1>1, <1>4, <1>5, <1>6 DEF ReadForVote

(* The vote that is looked up is the one in the table.                     *)
LEMMA SelectVoteStep ==
  ASSUME Inv, NEW w \in Workers, SelectVote(w)
  PROVE  Inv'
  <1>1. PICK me \in Request : me = worker[w]
    BY AtWork
  <1>2. /\ TypeOK /\ Sound(me) /\ me.at = "read" /\ me.op = "vote"
        /\ me.choice \in {"yes", "no"}
    BY <1>1, AtWork DEF Asked, SelectVote, Is
  <1>3. /\ review' \in [Reviews -> Review] /\ \A r \in Reviews : Same(r)
        /\ UNCHANGED <<born, vote, reports, clock, booted, contended, mix>>
    BY <1>2, UnchangedRows DEF SelectVote
  <1>4. PICK old : old = OwnVote(me)
    OBVIOUS
  <1>5. me.review \in Reviews /\ me.user \in Users /\ old \in Votes
    BY <1>2, <1>4, RequestType DEF OwnVote, TypeOK
  <1>6. PICK next : next = [me EXCEPT !.at = "write", !.old = old]
    OBVIOUS
  <1>7. Goes(w, next)
    BY <1>1, <1>4, <1>6 DEF SelectVote
  <1>8. next \in Request /\ next.at = "write" /\ next.op = "vote"
        /\ next.choice = me.choice /\ next.review = me.review
        /\ next.user = me.user /\ next.old = old /\ next.seen = me.seen
        /\ next.known = me.known
    BY <1>2, <1>5, <1>6 DEF Request
  <1>9. Sound(next)
    BY <1>2, <1>4, <1>8 DEF Sound, OwnVote
  <1>10. w \in Voting(next.review)
    BY <1>1, <1>2, <1>8 DEF Voting
  <1> QED BY <1>2, <1>3, <1>7, <1>8, <1>9, <1>10, RequestStep

(* A report that begins is not counted yet.                                *)
LEMMA BeginReportStep ==
  ASSUME Inv, NEW w \in Workers, NEW r \in Reviews, NEW u \in Users,
         BeginReport(w, r, u)
  PROVE  Inv'
  <1>1. PICK me : me = [Idle EXCEPT !.at = "read", !.op = "report", !.review = r,
                                    !.user = u]
    OBVIOUS
  <1>2. /\ me \in Request /\ me.at = "read" /\ me.op = "report" /\ me.known = {}
    BY <1>1, InitialTypes DEF Request, Ops
  <1>3. Goes(w, me)
    BY <1>1 DEF BeginReport, Starts, Goes
  <1>4. /\ review' \in [Reviews -> Review] /\ \A x \in Reviews : Same(x)
        /\ UNCHANGED <<born, vote, reports, clock, booted, contended, mix>>
    BY AtWork, UnchangedRows DEF BeginReport
  <1>5. Sound(me)
    BY <1>2 DEF Sound
  <1> QED BY <1>2, <1>4, <1>5, <1>3, RequestStep

(* A report goes on to be written, or the request fails.                   *)
LEMMA CountReportsStep ==
  ASSUME Inv, NEW w \in Workers, CountReports(w)
  PROVE  Inv'
  <1>1. PICK me \in Request : me = worker[w]
    BY AtWork
  <1>2. /\ TypeOK /\ Sound(me) /\ me.at = "read" /\ me.op = "report"
    BY <1>1, AtWork DEF CountReports, Is
  <1>3. /\ review' \in [Reviews -> Review] /\ \A r \in Reviews : Same(r)
        /\ UNCHANGED <<born, vote, reports, clock, booted, contended, mix>>
    BY <1>2, UnchangedRows DEF CountReports
  <1>4. CASE Goes(w, [me EXCEPT !.at = "write"])
    <2>1. PICK next : next = [me EXCEPT !.at = "write"]
      OBVIOUS
    <2>2. next \in Request /\ next.at = "write" /\ next.op = "report"
          /\ next.review = me.review /\ next.known = me.known
      BY <1>2, <2>1 DEF Request
    <2>3. Sound(next)
      BY <1>2, <2>2 DEF Sound
    <2> QED BY <1>3, <1>4, <2>1, <2>2, <2>3, RequestStep
  <1>5. CASE Answered(w)
    BY <1>3, <1>5, AnswerStep
  <1> QED BY <1>1, <1>4, <1>5 DEF CountReports

(* An edit that begins in time for created_at is in time for the moment    *)
(* the review was stored, which is not earlier.                            *)
LEMMA BeginEditStep ==
  ASSUME Inv, NEW w \in Workers, NEW r \in Reviews, NEW u \in Users,
         NEW rating \in Ratings, BeginEdit(w, r, u, rating)
  PROVE  Inv'
  <1>1. PICK asked : asked = [Idle EXCEPT !.at = "write", !.op = "edit", !.review = r,
                                          !.user = u, !.choice = rating, !.time = clock]
    OBVIOUS
  <1>2. TypeOK
    BY AtWork
  <1>3. PICK me : me = Loads(asked, {r})
    OBVIOUS
  <1>4. /\ me \in Request /\ me.at = "write" /\ me.op = "edit" /\ me.known = {r}
        /\ me.review = r /\ me.user = u /\ me.choice = rating /\ me.time = clock
    <2>1. Idle \in Request /\ Idle.known = {} /\ clock \in Nat
      BY <1>2, InitialTypes DEF TypeOK
    <2>2. /\ asked \in Request /\ asked.at = "write" /\ asked.op = "edit"
          /\ asked.known = {} /\ asked.review = r /\ asked.user = u
          /\ asked.choice = rating /\ asked.time = clock
      BY <1>1, <2>1 DEF Request, Ops
    <2>3. Loaded(asked, {r}, me)
      BY <1>2, <1>3, <2>2, LoadsType DEF TypeOK
    <2> QED BY <2>2, <2>3 DEF Loaded
  <1>5. Goes(w, me)
    BY <1>1, <1>3 DEF BeginEdit, Starts, Goes
  <1>6. /\ review' \in [Reviews -> Review] /\ \A x \in Reviews : Same(x)
        /\ UNCHANGED <<born, vote, reports, clock, booted, contended, mix>>
    BY <1>2, UnchangedRows DEF BeginEdit
  <1>7. Author[r] = u /\ clock - review[r].created < Day /\ review[r].stored
    BY DEF BeginEdit, CanBeEdited
  <1>8. review[r].created <= born[r]
    BY <1>7 DEF Inv, RowsAreSound
  <1>9. review[r].created \in Nat /\ born[r] \in Nat /\ clock \in Nat /\ Day \in Nat
    BY <1>2, ReviewsAssumption DEF TypeOK, Review
  <1>10. clock - born[r] < Day
    BY <1>7, <1>8, <1>9
  <1>11. Sound(me)
    BY <1>7, <1>10, <1>4 DEF Sound
  <1> QED BY <1>5, <1>6, <1>11, <1>4, RequestStep

(* A moderation relies only on the reviews it holds being stored.          *)
LEMMA BeginModerationStep ==
  ASSUME Inv, NEW w \in Workers, NEW u \in Users, NEW list \in Lists,
         NEW status \in Statuses, BeginModeration(w, u, list, status)
  PROVE  Inv'
  <1>1. PICK asked : asked = [Idle EXCEPT !.at = "read", !.op = "moderate", !.user = u,
                                          !.todo = list, !.choice = status]
    OBVIOUS
  <1>2. /\ asked \in Request /\ asked.at = "read" /\ asked.op = "moderate"
        /\ asked.choice = status /\ asked.known = {}
    <2>1. list \in Seq(Reviews)
      BY ReviewsAssumption
    <2> QED BY <1>1, <2>1, InitialTypes DEF Request, Ops
  <1>3. PICK loaded \in SUBSET Stored : Starts(w, Loads(asked, loaded))
    BY <1>1 DEF BeginModeration
  <1>4. PICK me : me = Loads(asked, loaded)
    OBVIOUS
  <1>5. Loaded(asked, loaded, me)
    <2>1. loaded \in SUBSET Reviews /\ review \in [Reviews -> Review]
      BY AtWork DEF Stored, TypeOK
    <2> QED BY <1>2, <1>4, <2>1, LoadsType
  <1>6. /\ me \in Request /\ me.at = "read" /\ me.op = "moderate"
        /\ me.choice = status /\ me.known = loaded
    BY <1>2, <1>5 DEF Loaded
  <1>7. Goes(w, me)
    BY <1>3, <1>4 DEF Starts, Goes
  <1>8. /\ review' \in [Reviews -> Review] /\ \A x \in Reviews : Same(x)
        /\ UNCHANGED <<born, vote, reports, clock, booted, contended, mix>>
    BY AtWork, UnchangedRows DEF BeginModeration
  <1>9. Sound(me)
    BY <1>6 DEF Sound, Stored
  <1> QED BY <1>8, <1>9, <1>6, <1>7, RequestStep

(* What a moderation reads binds nobody.                                   *)
LEMMA ReadForModerationStep ==
  ASSUME Inv, NEW w \in Workers, ReadForModeration(w)
  PROVE  Inv'
  <1>1. PICK me \in Request : me = worker[w]
    BY AtWork
  <1>2. /\ TypeOK /\ Sound(me) /\ me.at = "read" /\ me.op = "moderate"
        /\ me.choice \in Statuses
    BY <1>1, AtWork DEF Asked, ReadForModeration, Is
  <1>3. /\ review' \in [Reviews -> Review] /\ \A r \in Reviews : Same(r)
        /\ UNCHANGED <<born, vote, reports, clock, booted, contended, mix>>
    BY <1>2, UnchangedRows DEF ReadForModeration
  <1>4. me.todo \in Seq(Reviews) /\ me.todo # <<>>
    BY <1>1, RequestType DEF ReadForModeration
  <1>5. PICK r \in Reviews : r = Head(me.todo)
    BY <1>4
  <1>6. PICK todo \in Seq(Reviews) : todo = Tail(me.todo)
    <2>1. Tail(me.todo) \in Seq(Reviews)
      BY <1>4
    <2> QED BY <2>1
  <1>7. ASSUME NEW next \in Request, Goes(w, next), next.at = "read",
               next.op = "moderate", next.choice = me.choice,
               \A x \in next.known : review[x].stored
        PROVE  Inv'
    <2>1. Sound(next)
      BY <1>7 DEF Sound
    <2> QED BY <1>2, <1>3, <1>7, <2>1, RequestStep
  <1>8. \A x \in me.known : review[x].stored
    BY <1>2 DEF Sound
  <1>9. ASSUME NEW loaded \in SUBSET Stored,
               Goes(w, Loads([me EXCEPT !.todo = todo, !.read = me.read \cup {r}], loaded))
        PROVE  Inv'
    <2>1. PICK here : here = [me EXCEPT !.todo = todo, !.read = me.read \cup {r}]
      OBVIOUS
    <2>2. me.read \cup {r} \in SUBSET Reviews
      BY RequestType
    <2>3. /\ here \in Request /\ here.at = "read" /\ here.op = "moderate"
          /\ here.choice = me.choice /\ here.known = me.known
      BY <1>2, <2>1, <2>2 DEF Request
    <2>4. PICK next : next = Loads(here, loaded)
      OBVIOUS
    <2>5. Loaded(here, loaded, next)
      <3>1. loaded \in SUBSET Reviews /\ review \in [Reviews -> Review]
        BY <1>2 DEF Stored, TypeOK
      <3> QED BY <2>3, <2>4, <3>1, LoadsType
    <2>6. /\ next \in Request /\ next.at = "read" /\ next.op = "moderate"
          /\ next.choice = me.choice /\ next.known = me.known \cup loaded
      BY <2>3, <2>5 DEF Loaded
    <2>7. \A x \in next.known : review[x].stored
      BY <1>8, <2>6 DEF Stored
    <2>8. Goes(w, next)
      BY <1>9, <2>1, <2>4
    <2> QED BY <1>7, <2>6, <2>7, <2>8
  <1>10. CASE Goes(w, [me EXCEPT !.todo = todo])
    <2>1. PICK next : next = [me EXCEPT !.todo = todo]
      OBVIOUS
    <2>2. /\ next \in Request /\ next.at = "read" /\ next.op = "moderate"
          /\ next.choice = me.choice /\ next.known = me.known
      BY <1>2, <2>1 DEF Request
    <2> QED BY <1>7, <1>8, <1>10, <2>1, <2>2
  <1>11. \/ \E loaded \in SUBSET Stored :
              Goes(w, Loads([me EXCEPT !.todo = Tail(me.todo),
                                       !.read = me.read \cup {Head(me.todo)}], loaded))
         \/ Goes(w, [me EXCEPT !.todo = Tail(me.todo)])
    BY <1>1 DEF ReadForModeration
  <1> QED BY <1>5, <1>6, <1>9, <1>10, <1>11

(* What moderation makes of a row: columns that votes do not depend on are *)
(* as they were, and a status is signed by whoever has chosen it.          *)
Signed(row, next, seen, me) ==
    /\ next \in Review
    /\ next.stored = row.stored /\ next.created = row.created
    /\ next.rating = row.rating /\ next.response = row.response
    /\ next.helpful = row.helpful /\ next.notHelpful = row.notHelpful
    /\ next.status \in {row.status, me.choice}
    /\ me.user \in {next.by, seen.by}

(* Moderated makes such a row, also from a version that is out of date.    *)
LEMMA ModeratedType ==
  ASSUME NEW row \in Review, NEW seen \in Review, NEW me \in Request,
         me.choice \in Statuses
  PROVE  Signed(row, Moderated(row, seen, me), seen, me)
  <1>1. PICK status \in Statuses :
          status = IF me.choice = seen.status THEN row.status ELSE me.choice
    BY DEF Review
  <1>2. PICK by \in Users \cup {Nobody} :
          by = IF me.user = seen.by THEN row.by ELSE me.user
    BY RequestType DEF Review
  <1>3. Moderated(row, seen, me) = [row EXCEPT !.status = status, !.by = by]
    BY <1>1, <1>2 DEF Moderated
  <1>4. PICK next : next = [row EXCEPT !.status = status, !.by = by]
    OBVIOUS
  <1>5. /\ next \in Review /\ next.stored = row.stored /\ next.created = row.created
        /\ next.rating = row.rating /\ next.response = row.response
        /\ next.helpful = row.helpful /\ next.notHelpful = row.notHelpful
        /\ next.status = status /\ next.by = by
    BY <1>4 DEF Review
  <1>6. Signed(row, next, seen, me)
    BY <1>1, <1>2, <1>5 DEF Signed
  <1> QED BY <1>3, <1>4, <1>6

(* A moderation writes none of the columns that votes or edits rely on.    *)
LEMMA CommitModerationStep ==
  ASSUME Inv, NEW w \in Workers, CommitModeration(w)
  PROVE  Inv'
  <1>1. PICK me \in Request : me = worker[w]
    BY AtWork
  <1>2. TypeOK /\ me.at = "read" /\ me.choice \in Statuses
    BY <1>1, AtWork DEF Asked, CommitModeration, Is
  <1>3. me.seen \in [Reviews -> Review]
    BY RequestType
  <1>4. ASSUME NEW r \in Reviews PROVE review'[r] \in Review /\ Same(r)
    <2>1. review[r] \in Review /\ me.seen[r] \in Review
      BY <1>2, <1>3 DEF TypeOK
    <2>2. CASE r \in me.read
      <3>1. review'[r] = Moderated(review[r], me.seen[r], me)
        BY <1>1, <2>2 DEF CommitModeration
      <3>2. Signed(review[r], Moderated(review[r], me.seen[r], me), me.seen[r], me)
        BY <1>2, <2>1, ModeratedType
      <3> QED BY <3>1, <3>2 DEF Signed, Same
    <2>3. CASE r \notin me.read
      <3>1. review'[r] = review[r]
        BY <1>1, <2>3 DEF CommitModeration
      <3> QED BY <2>1, <3>1 DEF Same
    <2> QED BY <2>2, <2>3
  <1>5. review' = [r \in Reviews |-> review'[r]]
    BY DEF CommitModeration
  <1>6. review' \in [Reviews -> Review]
    BY <1>4, <1>5
  <1> QED BY <1>4, <1>6, AnswerStep DEF CommitModeration

(* An edit writes the rating alone.                                        *)
LEMMA CommitEditStep ==
  ASSUME Inv, NEW w \in Workers, CommitEdit(w)
  PROVE  Inv'
  <1>1. PICK me \in Request : me = worker[w]
    BY AtWork
  <1>2. TypeOK /\ me.at = "write" /\ me.choice \in Ratings /\ me.review \in Reviews
    BY <1>1, AtWork, RequestType DEF Asked, CommitEdit, Is
  <1>3. PICK rating : rating = IF me.choice = me.seen[me.review].rating
                               THEN review[me.review].rating ELSE me.choice
    OBVIOUS
  <1>4. rating \in Ratings
    BY <1>2, <1>3 DEF TypeOK, Review
  <1>5. review' = [review EXCEPT ![me.review].rating = rating]
    BY <1>1, <1>3 DEF CommitEdit
  <1>6. PICK row \in Review : row = review[me.review]
    BY <1>2 DEF TypeOK
  <1>7. PICK next : next = [row EXCEPT !.rating = rating]
    OBVIOUS
  <1>8. /\ next \in Review /\ next.stored = row.stored /\ next.created = row.created
        /\ next.helpful = row.helpful /\ next.notHelpful = row.notHelpful
    BY <1>4, <1>7 DEF Review
  <1>9. review' = [review EXCEPT ![me.review] = next]
    BY <1>5, <1>6, <1>7
  <1>10. review' \in [Reviews -> Review]
    BY <1>2, <1>8, <1>9 DEF TypeOK
  <1>11. ASSUME NEW r \in Reviews PROVE Same(r)
    <2>1. CASE r = me.review
      BY <1>2, <1>6, <1>8, <1>9, <2>1 DEF TypeOK, Same
    <2>2. CASE r # me.review
      BY <1>2, <1>9, <2>2 DEF TypeOK, Same
    <2> QED BY <2>1, <2>2
  <1> QED BY <1>10, <1>11, AnswerStep DEF CommitEdit

(* A response relies on the review it has read and on who may respond.     *)
LEMMA BeginResponseStep ==
  ASSUME Inv, NEW w \in Workers, NEW r \in Reviews, NEW u \in Users,
         NEW text \in Texts, BeginResponse(w, r, u, text)
  PROVE  Inv'
  <1>1. PICK asked : asked = [Idle EXCEPT !.at = "write", !.op = "respond",
                                          !.review = r, !.user = u, !.choice = text]
    OBVIOUS
  <1>2. TypeOK
    BY AtWork
  <1>3. PICK me : me = Loads(asked, {r})
    OBVIOUS
  <1>4. /\ me \in Request /\ me.at = "write" /\ me.op = "respond" /\ me.known = {r}
        /\ me.review = r /\ me.user = u /\ me.choice = text
    <2>1. Idle \in Request /\ Idle.known = {}
      BY InitialTypes
    <2>2. /\ asked \in Request /\ asked.at = "write" /\ asked.op = "respond"
          /\ asked.known = {} /\ asked.review = r /\ asked.user = u
          /\ asked.choice = text
      BY <1>1, <2>1 DEF Request, Ops
    <2>3. Loaded(asked, {r}, me)
      BY <1>2, <1>3, <2>2, LoadsType DEF TypeOK
    <2> QED BY <2>2, <2>3 DEF Loaded
  <1>5. Goes(w, me)
    BY <1>1, <1>3 DEF BeginResponse, Starts, Goes
  <1>6. /\ review' \in [Reviews -> Review] /\ \A x \in Reviews : Same(x)
        /\ UNCHANGED <<born, vote, reports, clock, booted, contended, mix>>
    BY <1>2, UnchangedRows DEF BeginResponse
  <1>7. Sound(me)
    BY <1>4 DEF Sound, BeginResponse
  <1> QED BY <1>4, <1>5, <1>6, <1>7, RequestStep

(* What a response makes of a row: its own two columns alone change, and a *)
(* text is signed by whoever wrote it.                                     *)
SignedResponse(row, next, seen, me) ==
    /\ next \in Review
    /\ next.stored = row.stored /\ next.created = row.created
    /\ next.rating = row.rating /\ next.status = row.status
    /\ next.helpful = row.helpful /\ next.notHelpful = row.notHelpful
    /\ next.response \in {row.response, me.choice}
    /\ me.user \in {next.respondent, seen.respondent}

(* Responded makes such a row, also from a version that is out of date.    *)
LEMMA RespondedType ==
  ASSUME NEW row \in Review, NEW seen \in Review, NEW me \in Request,
         me.choice \in Texts
  PROVE  SignedResponse(row, Responded(row, seen, me), seen, me)
  <1>1. PICK text \in Texts \cup {NoText} :
          text = IF me.choice = seen.response THEN row.response ELSE me.choice
    BY DEF Review
  <1>2. PICK by \in Users \cup {Nobody} :
          by = IF me.user = seen.respondent THEN row.respondent ELSE me.user
    BY RequestType DEF Review
  <1>3. Responded(row, seen, me) = [row EXCEPT !.response = text, !.respondent = by]
    BY <1>1, <1>2 DEF Responded
  <1>4. PICK next : next = [row EXCEPT !.response = text, !.respondent = by]
    OBVIOUS
  <1>5. /\ next \in Review /\ next.stored = row.stored /\ next.created = row.created
        /\ next.rating = row.rating /\ next.status = row.status
        /\ next.helpful = row.helpful /\ next.notHelpful = row.notHelpful
        /\ next.response = text /\ next.respondent = by
    BY <1>4 DEF Review
  <1>6. SignedResponse(row, next, seen, me)
    BY <1>1, <1>2, <1>5 DEF SignedResponse
  <1> QED BY <1>3, <1>4, <1>6

(* The commit of a response writes its review's row alone.                 *)
LEMMA CommitResponseRows ==
  ASSUME Inv, NEW w \in Workers, CommitResponse(w)
  PROVE  LET me == worker[w]
             r == me.review
         IN  /\ review' \in [Reviews -> Review]
             /\ SignedResponse(review[r], review'[r], me.seen[r], me)
             /\ \A x \in Reviews : x # r => review'[x] = review[x]
  <1>1. PICK me \in Request : me = worker[w]
    BY AtWork
  <1>2. TypeOK /\ me.choice \in Texts /\ me.review \in Reviews
    BY <1>1, AtWork, RequestType DEF Asked, CommitResponse, Is
  <1>3. PICK r \in Reviews : r = me.review
    BY <1>2
  <1>4. review[r] \in Review /\ me.seen[r] \in Review
    BY <1>2, RequestType DEF TypeOK
  <1>5. PICK next : next = Responded(review[r], me.seen[r], me)
    OBVIOUS
  <1>6. SignedResponse(review[r], next, me.seen[r], me)
    BY <1>2, <1>4, <1>5, RespondedType
  <1>7. review' = [review EXCEPT ![r] = next]
    BY <1>1, <1>3, <1>5 DEF CommitResponse
  <1>8. next \in Review
    BY <1>6 DEF SignedResponse
  <1>9. /\ review' \in [Reviews -> Review] /\ review'[r] = next
        /\ \A x \in Reviews : x # r => review'[x] = review[x]
    BY <1>2, <1>7, <1>8 DEF TypeOK
  <1> QED BY <1>1, <1>3, <1>6, <1>9

(* A response writes none of the columns that votes or edits rely on.      *)
LEMMA CommitResponseStep ==
  ASSUME Inv, NEW w \in Workers, CommitResponse(w)
  PROVE  Inv'
  <1>1. review' \in [Reviews -> Review]
    BY CommitResponseRows
  <1>2. \A r \in Reviews : Same(r)
    BY CommitResponseRows DEF SignedResponse, Same
  <1> QED BY <1>1, <1>2, AnswerStep DEF CommitResponse

(* A request that fails leaves no trace.                                   *)
LEMMA FailStep ==
  ASSUME Inv, NEW w \in Workers, Fail(w)
  PROVE  Inv'
  BY AtWork, UnchangedRows, AnswerStep DEF Fail

(* A report that is committed touches neither votes nor reviews.           *)
LEMMA CommitReportStep ==
  ASSUME Inv, NEW w \in Workers, CommitReport(w)
  PROVE  Inv'
  <1>1. PICK me \in Request : me = worker[w]
    BY AtWork
  <1>2. /\ TypeOK /\ WellFormed /\ me.at = "write" /\ me.op = "report"
        /\ me.review \in Reviews /\ me.user \in Users
    BY <1>1, AtWork, RequestType DEF CommitReport, Is
  <1>3. /\ worker' \in [Workers -> Request] /\ worker'[w] = Idle
        /\ \A v \in Workers : v # w => worker'[v] = worker[v]
        /\ \A v \in Workers : Asked(v)'
    BY <1>2, WorkerIdle DEF CommitReport
  <1>4. reports' = [reports EXCEPT ![me.review] = @ \cup {me.user}]
        /\ UNCHANGED <<review, born, vote, clock, booted, contended, mix>>
    BY <1>1 DEF CommitReport
  <1>5. Idle.at = "idle"
    BY InitialTypes
  <1>6. WellFormed'
    BY <1>2, <1>3, <1>4 DEF WellFormed, TypeOK
  <1>7. RequestsAreSound'
    <2>1. ASSUME NEW v \in Workers PROVE Sound(worker[v])'
      <3>1. CASE v = w
        BY <1>3, <1>5, <3>1 DEF Sound
      <3>2. CASE v # w
        BY <1>3, <1>4, <3>2 DEF Sound, Inv, RequestsAreSound
      <3> QED BY <3>1, <3>2
    <2> QED BY <2>1 DEF RequestsAreSound
  <1>8. RowsAreSound' /\ CountersMatchVotes'
    BY <1>4 DEF Inv, RowsAreSound, CountersMatchVotes, Cast
  <1>9. VotesAreAlone'
    <2>1. ASSUME NEW r \in Reviews PROVE Voting(r)' \subseteq Voting(r)
      BY <1>3, <1>5 DEF Voting
    <2> QED BY <1>4, <2>1 DEF Inv, VotesAreAlone
  <1> QED BY <1>6, <1>7, <1>8, <1>9 DEF Inv

(* A vote that begins while another is in flight marks the review.         *)
LEMMA BeginVoteStep ==
  ASSUME Inv, NEW w \in Workers, NEW r \in Reviews, NEW u \in Users,
         NEW choice \in {"yes", "no"}, BeginVote(w, r, u, choice)
  PROVE  Inv'
  <1>1. PICK asked : asked = [Idle EXCEPT !.at = "loaded", !.op = "vote", !.review = r,
                                          !.user = u, !.choice = choice,
                                          !.old = vote[r][u]]
    OBVIOUS
  <1>2. TypeOK /\ WellFormed
    BY AtWork
  <1>3. PICK loaded \in SUBSET Stored : Starts(w, Loads(asked, loaded))
    BY <1>1 DEF BeginVote
  <1>4. PICK me : me = Loads(asked, loaded)
    OBVIOUS
  <1>5. /\ asked \in Request /\ asked.at = "loaded" /\ asked.op = "vote"
        /\ asked.review = r /\ asked.user = u /\ asked.choice = choice
        /\ asked.old = vote[r][u] /\ asked.known = {}
    <2>1. Idle \in Request /\ Idle.known = {} /\ vote[r][u] \in Votes
      BY <1>2, InitialTypes DEF TypeOK
    <2> QED BY <1>1, <2>1 DEF Request, Ops, Votes
  <1>6. Loaded(asked, loaded, me)
    <2>1. loaded \in SUBSET Reviews /\ review \in [Reviews -> Review]
      BY <1>2 DEF Stored, TypeOK
    <2> QED BY <1>4, <1>5, <2>1, LoadsType
  <1>7. /\ me \in Request /\ me.at = "loaded" /\ me.op = "vote"
        /\ me.review = r /\ me.user = u /\ me.choice = choice /\ me.old = vote[r][u]
        /\ me.known = loaded /\ \A x \in loaded : review[x].stored
        /\ r \in loaded => me.seen[r] = review[r]
    BY <1>5, <1>6 DEF Loaded, Stored
  <1>8. Goes(w, me) /\ worker[w].at = "idle"
    BY <1>3, <1>4 DEF Starts, Goes
  <1>9. /\ worker' \in [Workers -> Request] /\ worker'[w] = me
        /\ \A v \in Workers : v # w => worker'[v] = worker[v]
        /\ \A v \in Workers : Asked(v)'
    BY <1>2, <1>7, <1>8, WorkerSet
  <1>10. /\ UNCHANGED <<review, born, vote, reports, clock, booted, mix>>
         /\ contended' = [contended EXCEPT ![r] = @ \/ Voting(r) # {}]
    BY DEF BeginVote
  <1>11. \A x \in Reviews : /\ contended'[x] \in BOOLEAN
                            /\ ~contended'[x] => ~contended[x]
                            /\ ~contended'[r] => Voting(r) = {}
    BY <1>2, <1>10 DEF TypeOK
  <1>12. contended' \in [Reviews -> BOOLEAN]
    BY <1>2, <1>10, <1>11 DEF TypeOK
  <1>13. WellFormed'
    BY <1>2, <1>9, <1>10, <1>12 DEF WellFormed, TypeOK
  <1>14. RequestsAreSound'
    <2>1. ASSUME NEW v \in Workers PROVE Sound(worker[v])'
      <3>1. CASE v = w
        BY <1>7, <1>9, <1>10, <3>1 DEF Sound
      <3>2. CASE v # w
        <4>1. worker[v].review \in Reviews
          BY <1>2, RequestType DEF TypeOK
        <4> QED BY <1>9, <1>10, <1>11, <3>2, <4>1 DEF Sound, Inv, RequestsAreSound
      <3> QED BY <3>1, <3>2
    <2> QED BY <2>1 DEF RequestsAreSound
  <1>15. RowsAreSound'
    BY <1>10 DEF Inv, RowsAreSound
  <1>16. VotesAreAlone'
    <2>1. ASSUME NEW x \in Reviews, ~contended'[x], x # r
          PROVE Voting(x)' \subseteq Voting(x)
      BY <1>7, <1>9, <2>1 DEF Voting
    <2>2. ~contended'[r] => Voting(r)' \subseteq {w}
      BY <1>9, <1>11 DEF Voting
    <2> QED BY <1>11, <2>1, <2>2 DEF Inv, VotesAreAlone
  <1>17. CountersMatchVotes'
    BY <1>10, <1>11 DEF Inv, CountersMatchVotes, Cast
  <1> QED BY <1>13, <1>14, <1>15, <1>16, <1>17 DEF Inv

(* A vote that is written moves its user into the set of its choice and    *)
(* out of the other.                                                       *)
LEMMA CastMoves ==
  ASSUME TypeOK, NEW r \in Reviews, NEW u \in Users, NEW choice \in {"yes", "no"},
         vote' = [vote EXCEPT ![r][u] = choice], NEW x \in {"yes", "no"}
  PROVE  Cardinality(Cast(r, x)') =
           IF x = choice
           THEN Cardinality(Cast(r, x)) + (IF vote[r][u] = x THEN 0 ELSE 1)
           ELSE Cardinality(Cast(r, x)) - (IF vote[r][u] = x THEN 1 ELSE 0)
  <1>1. IsFiniteSet(Cast(r, x)) /\ Cardinality(Cast(r, x)) \in Nat
    BY Finite
  <1>2. vote'[r][u] = choice /\ \A v \in Users : v # u => vote'[r][v] = vote[r][v]
    BY DEF TypeOK
  <1>3. u \in Cast(r, x) <=> vote[r][u] = x
    BY DEF Cast
  <1>4. CASE x = choice
    <2>1. Cast(r, x)' = Cast(r, x) \cup {u}
      BY <1>2, <1>4 DEF Cast
    <2>2. CASE vote[r][u] = x
      <3>1. Cast(r, x)' = Cast(r, x)
        BY <1>3, <2>1, <2>2
      <3> QED BY <1>1, <1>4, <2>2, <3>1
    <2>3. CASE vote[r][u] # x
      <3>1. Cardinality(Cast(r, x)') = Cardinality(Cast(r, x)) + 1
        BY <1>1, <1>3, <2>1, <2>3, FS_AddElement
      <3> QED BY <1>4, <2>3, <3>1
    <2> QED BY <2>2, <2>3
  <1>5. CASE x # choice
    <2>1. Cast(r, x)' = Cast(r, x) \ {u}
      BY <1>2, <1>5 DEF Cast
    <2>2. CASE vote[r][u] = x
      <3>1. Cardinality(Cast(r, x)') = Cardinality(Cast(r, x)) - 1
        BY <1>1, <1>3, <2>1, <2>2, FS_RemoveElement
      <3> QED BY <1>5, <2>2, <3>1
    <2>3. CASE vote[r][u] # x
      <3>1. Cast(r, x)' = Cast(r, x)
        BY <1>3, <2>1, <2>3
      <3> QED BY <1>1, <1>5, <2>3, <3>1
    <2> QED BY <2>2, <2>3
  <1> QED BY <1>4, <1>5

(* A vote on counters that match, from a user whose vote is the one the    *)
(* session has read, leaves counters that match.                           *)
LEMMA CountedMatches ==
  ASSUME TypeOK, NEW me \in Request, me.choice \in {"yes", "no"},
         me.old = vote[me.review][me.user],
         me.seen[me.review].helpful = review[me.review].helpful,
         me.seen[me.review].notHelpful = review[me.review].notHelpful,
         review[me.review].helpful = Cardinality(Cast(me.review, "yes")),
         review[me.review].notHelpful = Cardinality(Cast(me.review, "no")),
         vote' = IF me.old = me.choice THEN vote
                 ELSE [vote EXCEPT ![me.review][me.user] = me.choice],
         review'[me.review] = Counted(review[me.review], me)
  PROVE  /\ review'[me.review].helpful = Cardinality(Cast(me.review, "yes")')
         /\ review'[me.review].notHelpful = Cardinality(Cast(me.review, "no")')
  <1>1. PICK r \in Reviews, u \in Users : r = me.review /\ u = me.user
    BY RequestType
  <1>2. PICK h, n : /\ h = Cardinality(Cast(r, "yes")) /\ h \in Nat
                    /\ n = Cardinality(Cast(r, "no")) /\ n \in Nat
    BY Finite
  <1>3. /\ me.seen[r].helpful = h /\ me.seen[r].notHelpful = n
        /\ review[r].helpful = h /\ review[r].notHelpful = n
        /\ review[r] \in Review /\ me.old \in Votes
    BY <1>1, <1>2, RequestType DEF TypeOK
  <1>4. CASE me.old = me.choice
    <2>1. vote' = vote /\ review'[r] = review[r]
      BY <1>1, <1>4 DEF Counted
    <2> QED BY <1>1, <1>2, <1>3, <2>1 DEF Cast
  <1>5. CASE me.old # me.choice
    <2>1. vote' = [vote EXCEPT ![r][u] = me.choice]
      BY <1>1, <1>5
    <2>2. Cardinality(Cast(r, "yes")') =
             IF me.choice = "yes" THEN h + (IF me.old = "yes" THEN 0 ELSE 1)
             ELSE h - (IF me.old = "yes" THEN 1 ELSE 0)
      <3>1. Cardinality(Cast(r, "yes")') =
              IF "yes" = me.choice
              THEN Cardinality(Cast(r, "yes")) + (IF vote[r][u] = "yes" THEN 0 ELSE 1)
              ELSE Cardinality(Cast(r, "yes")) - (IF vote[r][u] = "yes" THEN 1 ELSE 0)
        BY <2>1, CastMoves, ZenonT(60)
      <3>2. vote[r][u] = me.old
        BY <1>1
      <3> QED BY <1>1, <1>2, <3>1, <3>2
    <2>3. Cardinality(Cast(r, "no")') =
             IF me.choice = "no" THEN n + (IF me.old = "no" THEN 0 ELSE 1)
             ELSE n - (IF me.old = "no" THEN 1 ELSE 0)
      <3>1. Cardinality(Cast(r, "no")') =
              IF "no" = me.choice
              THEN Cardinality(Cast(r, "no")) + (IF vote[r][u] = "no" THEN 0 ELSE 1)
              ELSE Cardinality(Cast(r, "no")) - (IF vote[r][u] = "no" THEN 1 ELSE 0)
        BY <2>1, CastMoves, ZenonT(60)
      <3>2. vote[r][u] = me.old
        BY <1>1
      <3> QED BY <1>1, <1>2, <3>1, <3>2
    <2>4. CASE me.old = "none" /\ me.choice = "yes"
      <3>1. review'[r] = [review[r] EXCEPT !.helpful = h + 1]
        BY <1>1, <1>3, <2>4 DEF Counted
      <3> QED BY <1>1, <1>2, <1>3, <2>2, <2>3, <2>4, <3>1 DEF Review
    <2>5. CASE me.old = "none" /\ me.choice = "no"
      <3>1. review'[r] = [review[r] EXCEPT !.notHelpful = n + 1]
        BY <1>1, <1>3, <2>5 DEF Counted
      <3> QED BY <1>1, <1>2, <1>3, <2>2, <2>3, <2>5, <3>1 DEF Review
    <2>6. CASE me.old = "no" /\ me.choice = "yes"
      <3>1. review'[r] = [review[r] EXCEPT !.helpful = h + 1, !.notHelpful = n - 1]
        BY <1>1, <1>3, <2>6 DEF Counted
      <3> QED BY <1>1, <1>2, <1>3, <2>2, <2>3, <2>6, <3>1 DEF Review
    <2>7. CASE me.old = "yes" /\ me.choice = "no"
      <3>1. review'[r] = [review[r] EXCEPT !.helpful = h - 1, !.notHelpful = n + 1]
        BY <1>1, <1>3, <2>7 DEF Counted
      <3> QED BY <1>1, <1>2, <1>3, <2>2, <2>3, <2>7, <3>1 DEF Review
    <2> QED BY <1>3, <1>5, <2>4, <2>5, <2>6, <2>7 DEF Votes
  <1> QED BY <1>4, <1>5

(* Where votes have not met, the one that commits is alone: nobody else    *)
(* relies on the counters and the vote that it writes.                     *)
LEMMA CommitVoteStep ==
  ASSUME Inv, NEW w \in Workers, CommitVote(w)
  PROVE  Inv'
  <1>1. PICK me \in Request : me = worker[w]
    BY AtWork
  <1>2. /\ TypeOK /\ WellFormed /\ Sound(me) /\ me.at = "write" /\ me.op = "vote"
        /\ me.choice \in {"yes", "no"}
    BY <1>1, AtWork DEF Asked, CommitVote, Is
  <1>3. PICK r \in Reviews, u \in Users : r = me.review /\ u = me.user
    BY RequestType
  <1>4. UNCHANGED <<born, reports, clock, booted, contended, mix>> /\ Answered(w)
    BY DEF CommitVote
  <1>5. CASE UNCHANGED <<review, vote>>
    BY <1>2, <1>4, <1>5, UnchangedRows, AnswerStep
  <1>6. CASE /\ Accepted(review[r], me)
             /\ review' = [review EXCEPT ![r] = Counted(@, me)]
             /\ vote' = IF me.old = me.choice THEN vote
                        ELSE [vote EXCEPT ![r][u] = me.choice]
    <2>1. /\ worker' \in [Workers -> Request] /\ worker'[w] = Idle
          /\ \A v \in Workers : v # w => worker'[v] = worker[v]
          /\ \A v \in Workers : Asked(v)'
      BY <1>2, <1>4, WorkerIdle
    <2>2. Idle.at = "idle"
      BY InitialTypes
    <2>3. PICK next : next = Counted(review[r], me)
      OBVIOUS
    <2>4. Kept(review[r], next)
      <3>1. review[r] \in Review
        BY <1>2 DEF TypeOK
      <3> QED BY <1>2, <1>6, <2>3, <3>1, CountedType
    <2>5. review' = [review EXCEPT ![r] = next]
      BY <1>6, <2>3
    <2>6. /\ review' \in [Reviews -> Review] /\ review'[r] = next
          /\ \A x \in Reviews : x # r => review'[x] = review[x]
      BY <1>2, <2>4, <2>5 DEF Kept, TypeOK
    <2>7. \A x \in Reviews : /\ review'[x].stored = review[x].stored
                             /\ review'[x].created = review[x].created
      BY <2>4, <2>6 DEF Kept
    <2>8. /\ vote' \in [Reviews -> [Users -> Votes]]
          /\ \A x \in Reviews : x # r => vote'[x] = vote[x]
      <3>1. CASE me.old = me.choice
        BY <1>2, <1>6, <3>1 DEF TypeOK
      <3>2. CASE me.old # me.choice
        BY <1>2, <1>6, <3>2 DEF TypeOK, Votes
      <3> QED BY <3>1, <3>2
    <2>9. review[r].stored
      BY <1>2, <1>3 DEF Sound
    <2>10. w \in Voting(r)
      BY <1>1, <1>2, <1>3 DEF Voting
    <2>11. WellFormed'
      BY <1>2, <1>4, <2>1, <2>6, <2>8 DEF WellFormed, TypeOK
    <2>12. RequestsAreSound'
      <3>1. ASSUME NEW v \in Workers PROVE Sound(worker[v])'
        <4>1. CASE v = w
          BY <2>1, <2>2, <4>1 DEF Sound
        <4>2. CASE v # w
          <5>1. PICK other \in Request : other = worker[v]
            BY <1>2 DEF TypeOK
          <5>2. /\ worker'[v] = other /\ Sound(other) /\ other.review \in Reviews
                /\ other.known \subseteq Reviews
            BY <2>1, <4>2, <5>1, RequestType DEF Inv, RequestsAreSound
          <5>3. other.at # "idle" /\ other.op = "vote" /\ other.review = r => contended[r]
            <6>1. SUFFICES ASSUME other.at # "idle", other.op = "vote", other.review = r
                           PROVE  contended[r]
              OBVIOUS
            <6>2. v \in Voting(r)
              BY <5>1, <6>1 DEF Voting
            <6> QED BY <2>10, <4>2, <6>2 DEF Inv, VotesAreAlone
          <5>4. CASE other.review = r
            BY <1>4, <2>7, <5>2, <5>3, <5>4 DEF Sound
          <5>5. CASE other.review # r
            BY <1>4, <2>6, <2>7, <2>8, <5>2, <5>5 DEF Sound
          <5> QED BY <5>4, <5>5
        <4> QED BY <4>1, <4>2
      <3> QED BY <3>1 DEF RequestsAreSound
    <2>13. RowsAreSound'
      BY <1>4, <2>6, <2>7, <2>8, <2>9 DEF Inv, RowsAreSound
    <2>14. VotesAreAlone'
      <3>1. ASSUME NEW x \in Reviews PROVE Voting(x)' \subseteq Voting(x)
        BY <2>1, <2>2 DEF Voting
      <3> QED BY <1>4, <3>1 DEF Inv, VotesAreAlone
    <2>15. CountersMatchVotes'
      <3>1. ASSUME NEW x \in Reviews, x # r, ~contended[x]
            PROVE  /\ review'[x].helpful = Cardinality(Cast(x, "yes")')
                   /\ review'[x].notHelpful = Cardinality(Cast(x, "no")')
        <4>1. Cast(x, "yes")' = Cast(x, "yes") /\ Cast(x, "no")' = Cast(x, "no")
          BY <2>8, <3>1 DEF Cast
        <4>2. /\ review[x].helpful = Cardinality(Cast(x, "yes"))
              /\ review[x].notHelpful = Cardinality(Cast(x, "no"))
          BY <3>1 DEF Inv, CountersMatchVotes
        <4> QED BY <2>6, <3>1, <4>1, <4>2
      <3>2. ASSUME ~contended[r]
            PROVE  /\ review'[r].helpful = Cardinality(Cast(r, "yes")')
                   /\ review'[r].notHelpful = Cardinality(Cast(r, "no")')
        <4>1. /\ me.old = vote[r][u]
              /\ me.seen[r].helpful = review[r].helpful
              /\ me.seen[r].notHelpful = review[r].notHelpful
          BY <1>2, <1>3, <3>2 DEF Sound
        <4>2. /\ review[r].helpful = Cardinality(Cast(r, "yes"))
              /\ review[r].notHelpful = Cardinality(Cast(r, "no"))
          BY <3>2 DEF Inv, CountersMatchVotes
        <4>3. review'[r] = Counted(review[r], me)
          BY <2>3, <2>6
        <4> QED BY <1>2, <1>3, <1>6, <4>1, <4>2, <4>3, CountedMatches
      <3> QED BY <1>4, <3>1, <3>2 DEF CountersMatchVotes
    <2> QED BY <2>11, <2>12, <2>13, <2>14, <2>15 DEF Inv
  <1> QED BY <1>1, <1>3, <1>5, <1>6 DEF CommitVote

(* A review that is stored has no votes yet, and nothing relies on it.     *)
LEMMA StoreStep ==
  ASSUME Inv, NEW r \in Reviews, Store(r)
  PROVE  Inv'
  <1>1. TypeOK /\ WellFormed
    BY DEF Inv, WellFormed
  <1>2. PICK rating \in Ratings : review' = [review EXCEPT ![r] = NewReview(rating)]
    BY DEF Store
  <1>3. PICK next : next = NewReview(rating)
    OBVIOUS
  <1>4. /\ next \in Review /\ next.stored /\ next.created = booted
        /\ next.helpful = 0 /\ next.notHelpful = 0
    BY <1>1, <1>3, InitialTypes DEF NewReview, NoReview, Review, TypeOK
  <1>5. /\ review' \in [Reviews -> Review] /\ review'[r] = next
        /\ \A x \in Reviews : x # r => review'[x] = review[x]
    BY <1>1, <1>2, <1>3, <1>4 DEF TypeOK
  <1>6. /\ born' \in [Reviews -> Nat] /\ born'[r] = clock /\ ~review[r].stored
        /\ \A x \in Reviews : x # r => born'[x] = born[x]
        /\ UNCHANGED <<vote, reports, clock, booted, contended, mix, worker>>
    BY <1>1 DEF Store, TypeOK
  <1>7. WellFormed'
    BY <1>1, <1>5, <1>6 DEF WellFormed, TypeOK, Asked
  <1>8. RequestsAreSound'
    <2>1. ASSUME NEW v \in Workers PROVE Sound(worker[v])'
      <3>1. PICK me \in Request : me = worker[v] /\ me = worker'[v]
        BY <1>1, <1>6 DEF TypeOK
      <3>2. Sound(me) /\ me.review \in Reviews /\ me.known \subseteq Reviews
        BY <3>1, RequestType DEF Inv, RequestsAreSound
      <3>3. me.at # "idle" => r \notin me.known
        BY <1>6, <3>2 DEF Sound
      <3> QED BY <1>5, <1>6, <3>1, <3>2, <3>3 DEF Sound
    <2> QED BY <2>1 DEF RequestsAreSound
  <1>9. RowsAreSound'
    BY <1>4, <1>5, <1>6 DEF Inv, RowsAreSound
  <1>10. VotesAreAlone'
    BY <1>6 DEF Inv, VotesAreAlone, Voting
  <1>11. CountersMatchVotes'
    <2>1. review[r].helpful = 0 /\ review[r].notHelpful = 0
      BY <1>6 DEF Inv, RowsAreSound
    <2>2. \A x \in Reviews : /\ review'[x].helpful = review[x].helpful
                             /\ review'[x].notHelpful = review[x].notHelpful
      BY <1>4, <1>5, <2>1
    <2> QED BY <1>6, <2>2 DEF Inv, CountersMatchVotes, Cast
  <1> QED BY <1>7, <1>8, <1>9, <1>10, <1>11 DEF Inv

(* Time passes for everybody.                                              *)
LEMMA TickStep ==
  ASSUME Inv, Tick
  PROVE  Inv'
  <1>1. TypeOK /\ clock' = clock + 1 /\ booted <= clock
        /\ UNCHANGED <<review, born, vote, reports, booted, contended, mix, worker>>
    BY DEF Inv, WellFormed, Tick, RowsAreSound
  <1>2. clock' \in Nat /\ booted' <= clock'
    BY <1>1 DEF TypeOK
  <1>3. WellFormed'
    BY <1>1, <1>2 DEF Inv, WellFormed, TypeOK, Asked
  <1>4. RequestsAreSound' /\ VotesAreAlone' /\ CountersMatchVotes'
    BY <1>1 DEF Inv, RequestsAreSound, Sound, VotesAreAlone, Voting,
                CountersMatchVotes, Cast
  <1>5. RowsAreSound'
    BY <1>1, <1>2 DEF Inv, RowsAreSound
  <1> QED BY <1>3, <1>4, <1>5 DEF Inv

(* A restart forgets all requests; created_at is never later than now.     *)
LEMMA RestartStep ==
  ASSUME Inv, Restart
  PROVE  Inv'
  <1>1. TypeOK /\ booted' = clock /\ worker' = [w \in Workers |-> Idle]
        /\ UNCHANGED <<review, born, vote, reports, clock, contended, mix>>
    BY DEF Inv, WellFormed, Restart
  <1>2. Idle \in Request /\ Idle.at = "idle"
    BY InitialTypes
  <1>3. WellFormed'
    BY <1>1, <1>2 DEF WellFormed, TypeOK, Asked
  <1>4. RequestsAreSound'
    BY <1>1, <1>2 DEF RequestsAreSound, Sound
  <1>5. RowsAreSound'
    BY <1>1 DEF Inv, RowsAreSound, TypeOK
  <1>6. VotesAreAlone'
    BY <1>1, <1>2 DEF VotesAreAlone, Voting
  <1>7. CountersMatchVotes'
    BY <1>1 DEF Inv, CountersMatchVotes, Cast
  <1> QED BY <1>3, <1>4, <1>5, <1>6, <1>7 DEF Inv

(***************************************************************************)
(* The theorems.                                                           *)
(***************************************************************************)

(* The invariant holds of the empty tables.                                *)
LEMMA InvInit == Init => Inv
  <1> SUFFICES ASSUME Init PROVE Inv
    OBVIOUS
  <1>1. /\ NoReview \in Review /\ ~NoReview.stored
        /\ NoReview.helpful = 0 /\ NoReview.notHelpful = 0
        /\ Idle \in Request /\ Idle.at = "idle"
    BY InitialTypes DEF NoReview
  <1>2. WellFormed
    BY <1>1, ReviewsAssumption DEF Init, WellFormed, TypeOK, Asked, Votes
  <1>3. RequestsAreSound
    BY <1>1 DEF Init, RequestsAreSound, Sound
  <1>4. RowsAreSound
    BY <1>1 DEF Init, RowsAreSound
  <1>5. VotesAreAlone
    BY <1>1 DEF Init, VotesAreAlone, Voting
  <1>6. Cardinality({}) = 0
    BY FS_EmptySet
  <1>7. CountersMatchVotes
    <2>1. \A r \in Reviews : Cast(r, "yes") = {} /\ Cast(r, "no") = {}
      BY DEF Init, Cast
    <2> QED BY <1>1, <1>6, <2>1 DEF Init, CountersMatchVotes
  <1> QED BY <1>2, <1>3, <1>4, <1>5, <1>7 DEF Inv

(* Every step keeps it.                                                    *)
LEMMA InvNext == Inv /\ [Next]_vars => Inv'
  <1> SUFFICES ASSUME Inv, [Next]_vars PROVE Inv'
    OBVIOUS
  <1>1. CASE \E r \in Reviews : Store(r)
    BY <1>1, StoreStep
  <1>2. ASSUME NEW w \in Workers, Step(w) PROVE Inv'
    <2>1. CASE \E r \in Reviews, u \in Users, choice \in {"yes", "no"} :
                 BeginVote(w, r, u, choice)
      BY <2>1, BeginVoteStep
    <2>2. CASE \E r \in Reviews, u \in Users : BeginReport(w, r, u)
      BY <2>2, BeginReportStep
    <2>3. CASE \E r \in Reviews, u \in Users, rating \in Ratings :
                 BeginEdit(w, r, u, rating)
      BY <2>3, BeginEditStep
    <2>4. CASE \E u \in Users, list \in Lists, status \in Statuses :
                 BeginModeration(w, u, list, status)
      BY <2>4, BeginModerationStep
    <2>5. CASE ReadForVote(w) \/ SelectVote(w) \/ CommitVote(w)
      BY <2>5, ReadForVoteStep, SelectVoteStep, CommitVoteStep
    <2>6. CASE CountReports(w) \/ CommitReport(w)
      BY <2>6, CountReportsStep, CommitReportStep
    <2>9. CASE \E r \in Reviews, u \in Users, text \in Texts :
                 BeginResponse(w, r, u, text)
      BY <2>9, BeginResponseStep
    <2>10. CASE CommitResponse(w)
      BY <2>10, CommitResponseStep
    <2>7. CASE CommitEdit(w) \/ ReadForModeration(w) \/ CommitModeration(w)
      BY <2>7, CommitEditStep, ReadForModerationStep, CommitModerationStep
    <2>8. CASE Fail(w)
      BY <2>8, FailStep
    <2> QED BY <1>2, <2>1, <2>2, <2>3, <2>4, <2>5, <2>6, <2>7, <2>8,
                  <2>9, <2>10 DEF Step
  <1>3. CASE Tick \/ Restart
    BY <1>3, TickStep, RestartStep
  <1>4. CASE UNCHANGED vars
    <2>1. UNCHANGED <<review, born, vote, reports, clock, booted, contended, mix, worker>>
      BY <1>4 DEF vars
    <2>2. WellFormed'
      BY <2>1 DEF Inv, WellFormed, TypeOK, Asked
    <2>3. RequestsAreSound' /\ RowsAreSound'
      BY <2>1 DEF Inv, RequestsAreSound, Sound, RowsAreSound
    <2>4. VotesAreAlone' /\ CountersMatchVotes'
      BY <2>1 DEF Inv, VotesAreAlone, Voting, CountersMatchVotes, Cast
    <2> QED BY <2>2, <2>3, <2>4 DEF Inv
  <1> QED BY <1>1, <1>2, <1>3, <1>4 DEF Next

(* What sessions have read stays true as long as they rely on it, through  *)
(* races, failures and restarts.                                           *)
THEOREM ReviewInvariant == Spec => []Inv
  BY InvInit, InvNext, PTL DEF Spec

(* The check constraints keep the counters natural numbers.                *)
THEOREM ReviewTypeCorrect == Spec => []TypeOK
  <1>1. Inv => TypeOK
    BY DEF Inv, WellFormed
  <1> QED BY <1>1, ReviewInvariant, PTL

(* vote_helpfulness keeps the counters equal to the votes where votes on a *)
(* review never met, however many there are.                               *)
THEOREM CountersCorrect == Spec => []CountersMatchVotes
  <1>1. Inv => CountersMatchVotes
    BY DEF Inv
  <1> QED BY <1>1, ReviewInvariant, PTL

(***************************************************************************)
(* Who changes a rating, a status or a response.                           *)
(***************************************************************************)

(* A vote leaves ratings, statuses and responses alone.                    *)
LEMMA CommitVoteKeeps ==
  ASSUME Inv, NEW w \in Workers, CommitVote(w), NEW r \in Reviews
  PROVE  /\ review'[r].rating = review[r].rating /\ review'[r].status = review[r].status
         /\ review'[r].response = review[r].response
  <1>1. PICK me \in Request : me = worker[w]
    BY AtWork
  <1>2. TypeOK /\ me.choice \in {"yes", "no"}
    BY <1>1, AtWork DEF Asked, CommitVote, Is
  <1>3. CASE UNCHANGED review
    BY <1>3
  <1>4. CASE /\ Accepted(review[me.review], me)
             /\ review' = [review EXCEPT ![me.review] = Counted(@, me)]
    <2>1. me.review \in Reviews /\ review[me.review] \in Review
      BY <1>2, RequestType DEF TypeOK
    <2>2. PICK next : next = Counted(review[me.review], me)
      OBVIOUS
    <2>3. Kept(review[me.review], next)
      BY <1>2, <1>4, <2>1, <2>2, CountedType
    <2>4. review' = [review EXCEPT ![me.review] = next]
      BY <1>4, <2>2
    <2> QED BY <1>2, <2>1, <2>3, <2>4 DEF Kept, TypeOK
  <1> QED BY <1>1, <1>3, <1>4 DEF CommitVote

(* An edit changes the rating of its review alone.                         *)
LEMMA CommitEditKeeps ==
  ASSUME Inv, NEW w \in Workers, CommitEdit(w), NEW r \in Reviews
  PROVE  /\ review'[r].status = review[r].status
         /\ review'[r].response = review[r].response
         /\ review'[r].rating # review[r].rating => r = worker[w].review
  <1>1. PICK me \in Request : me = worker[w]
    BY AtWork
  <1>2. TypeOK /\ me.review \in Reviews
    BY AtWork, RequestType
  <1>3. PICK rating : review' = [review EXCEPT ![me.review].rating = rating]
    BY <1>1 DEF CommitEdit
  <1>4. CASE r = me.review
    BY <1>1, <1>2, <1>3, <1>4 DEF TypeOK, Review
  <1>5. CASE r # me.review
    BY <1>2, <1>3, <1>5 DEF TypeOK
  <1> QED BY <1>4, <1>5

(* A moderation changes statuses alone, and signs those it changes.        *)
LEMMA CommitModerationKeeps ==
  ASSUME Inv, NEW w \in Workers, CommitModeration(w), NEW r \in Reviews
  PROVE  /\ review'[r].rating = review[r].rating
         /\ review'[r].response = review[r].response
         /\ review'[r].status # review[r].status =>
              /\ review'[r].status = worker[w].choice
              /\ worker[w].user \in {review'[r].by, worker[w].seen[r].by}
  <1>1. PICK me \in Request : me = worker[w]
    BY AtWork
  <1>2. /\ TypeOK /\ me.choice \in Statuses
        /\ me.seen[r] \in Review /\ review[r] \in Review
    BY <1>1, AtWork, RequestType DEF Asked, CommitModeration, Is, TypeOK
  <1>3. CASE r \in me.read
    <2>1. review'[r] = Moderated(review[r], me.seen[r], me)
      BY <1>1, <1>3 DEF CommitModeration
    <2>2. Signed(review[r], Moderated(review[r], me.seen[r], me), me.seen[r], me)
      BY <1>2, ModeratedType
    <2> QED BY <1>1, <2>1, <2>2 DEF Signed
  <1>4. CASE r \notin me.read
    BY <1>1, <1>4 DEF CommitModeration
  <1> QED BY <1>3, <1>4

(* A response changes the response of its review alone, and signs it.      *)
LEMMA CommitResponseKeeps ==
  ASSUME Inv, NEW w \in Workers, CommitResponse(w), NEW r \in Reviews
  PROVE  /\ review'[r].rating = review[r].rating /\ review'[r].status = review[r].status
         /\ review'[r].response # review[r].response =>
              /\ r = worker[w].review
              /\ review'[r].response = worker[w].choice
              /\ worker[w].user \in {review'[r].respondent,
                                     worker[w].seen[r].respondent}
  <1>1. CASE r = worker[w].review
    BY <1>1, CommitResponseRows DEF SignedResponse
  <1>2. CASE r # worker[w].review
    BY <1>2, CommitResponseRows
  <1> QED BY <1>1, <1>2

(* Every change of a stored rating, status or response is one of these     *)
(* commits.                                                                *)
LEMMA WhoChanges ==
  ASSUME Inv, [Next]_vars, NEW r \in Reviews, review[r].stored,
         \/ review'[r].rating # review[r].rating
         \/ review'[r].status # review[r].status
         \/ review'[r].response # review[r].response
  PROVE  \E w \in Workers :
           CommitEdit(w) \/ CommitModeration(w) \/ CommitResponse(w)
  <1> SUFFICES ASSUME \A w \in Workers : ~ \/ CommitEdit(w)
                                           \/ CommitModeration(w)
                                           \/ CommitResponse(w)
               PROVE  /\ review'[r].rating = review[r].rating
                      /\ review'[r].status = review[r].status
                      /\ review'[r].response = review[r].response
    OBVIOUS
  <1>1. ASSUME NEW x \in Reviews, Store(x) PROVE review'[r] = review[r]
    BY <1>1 DEF Store, Inv, WellFormed, TypeOK
  <1>2. ASSUME NEW w \in Workers, Step(w), ~CommitVote(w) PROVE review' = review
    BY <1>2 DEF Step, BeginVote, BeginReport, BeginEdit, BeginModeration, BeginResponse,
                ReadForVote, SelectVote, CountReports, CommitReport,
                ReadForModeration, Fail
  <1>3. CASE Tick \/ Restart \/ UNCHANGED vars
    BY <1>3 DEF Tick, Restart, vars
  <1> QED BY <1>1, <1>2, <1>3, CommitVoteKeeps DEF Next

(* A commit answers its request.                                           *)
LEMMA AnsweredIdle ==
  ASSUME Inv, NEW w \in Workers, Answered(w)
  PROVE  worker'[w].at = "idle"
  BY AtWork, WorkerIdle, InitialTypes

(* A rating changes only through a request of the author that began less   *)
(* than a day after the review was stored.                                 *)
THEOREM EditsCorrect == Spec => EditsAreTimely
  <1>1. ASSUME Inv, [Next]_vars, NEW r \in Reviews, review[r].stored,
               review'[r].rating # review[r].rating
        PROVE  \E w \in Workers :
                 /\ Is(w, "write", "edit") /\ worker'[w].at = "idle"
                 /\ worker[w].review = r /\ worker[w].user = Author[r]
                 /\ worker[w].time - born[r] < Day
    <2>1. PICK w \in Workers : CommitEdit(w)
      BY <1>1, WhoChanges, CommitModerationKeeps, CommitResponseKeeps
    <2>2. worker[w].review = r
      BY <1>1, <2>1, CommitEditKeeps
    <2>3. Is(w, "write", "edit") /\ worker'[w].at = "idle"
      BY <1>1, <2>1, AnsweredIdle DEF CommitEdit
    <2>4. worker[w].user = Author[r] /\ worker[w].time - born[r] < Day
      BY <1>1, <2>2, <2>3, AtWork DEF Sound, Is
    <2> QED BY <2>2, <2>3, <2>4
  <1>2. Inv /\ [Next]_vars =>
          [\A r \in Reviews :
             review[r].stored /\ review'[r].rating # review[r].rating =>
               \E w \in Workers :
                 /\ Is(w, "write", "edit") /\ worker'[w].at = "idle"
                 /\ worker[w].review = r /\ worker[w].user = Author[r]
                 /\ worker[w].time - born[r] < Day]_vars
    BY <1>1
  <1> QED BY <1>2, ReviewInvariant, PTL DEF Spec, EditsAreTimely

(* A status changes only by the choice of an administrator whose name is   *)
(* on the row, or was when the request read it, and a response only by the *)
(* text of one who may respond and whose name is or was there.             *)
THEOREM ChangesCorrect == Spec => ChangesAreSigned
  <1>1. ASSUME Inv, [Next]_vars, NEW r \in Reviews, review[r].stored,
               review'[r].status # review[r].status
        PROVE  \E w \in Workers :
                 /\ worker[w].op = "moderate" /\ worker'[w].at = "idle"
                 /\ worker[w].choice = review'[r].status
                 /\ worker[w].user \in {review'[r].by, worker[w].seen[r].by}
    <2>1. PICK w \in Workers : CommitModeration(w)
      BY <1>1, WhoChanges, CommitEditKeeps, CommitResponseKeeps
    <2>2. /\ worker[w].choice = review'[r].status
          /\ worker[w].user \in {review'[r].by, worker[w].seen[r].by}
      BY <1>1, <2>1, CommitModerationKeeps
    <2>3. worker[w].op = "moderate" /\ worker'[w].at = "idle"
      BY <1>1, <2>1, AnsweredIdle DEF CommitModeration, Is
    <2> QED BY <2>2, <2>3
  <1>2. ASSUME Inv, [Next]_vars, NEW r \in Reviews, review[r].stored,
               review'[r].response # review[r].response
        PROVE  \E w \in Workers :
                 /\ Is(w, "write", "respond") /\ worker'[w].at = "idle"
                 /\ worker[w].choice = review'[r].response
                 /\ worker[w].user \in Responders[r]
                 /\ worker[w].user \in {review'[r].respondent,
                                        worker[w].seen[r].respondent}
    <2>1. PICK w \in Workers : CommitResponse(w)
      BY <1>2, WhoChanges, CommitEditKeeps, CommitModerationKeeps
    <2>2. /\ r = worker[w].review
          /\ worker[w].choice = review'[r].response
          /\ worker[w].user \in {review'[r].respondent, worker[w].seen[r].respondent}
      BY <1>2, <2>1, CommitResponseKeeps
    <2>3. Is(w, "write", "respond") /\ worker'[w].at = "idle"
      BY <1>2, <2>1, AnsweredIdle DEF CommitResponse
    <2>4. worker[w].user \in Responders[r]
      BY <1>2, <2>2, <2>3, AtWork DEF Sound, Is
    <2> QED BY <2>2, <2>3, <2>4
  <1>3. Inv /\ [Next]_vars => ChangeIsSigned
    BY <1>1, <1>2 DEF ChangeIsSigned
  <1> QED BY <1>3, ReviewInvariant, PTL DEF Spec, ChangesAreSigned
=============================================================================

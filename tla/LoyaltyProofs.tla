---------------------------- MODULE LoyaltyProofs ----------------------------
(***************************************************************************)
(* Proofs about Loyalty, for every set of users and rewards, every finite  *)
(* set of workers, and any points, costs and limits.                       *)
(***************************************************************************)
EXTENDS Loyalty, FiniteSetTheorems, WellFoundedInduction, TLAPS

(***************************************************************************)
(* Types.                                                                  *)
(***************************************************************************)

(* What the table holds for a user without an account.                     *)
LEMMA NoAccountType == NoAccount \in Account
  BY LoyaltyAssumption DEF NoAccount, Account

(* ... and for one without transactions.                                   *)
LEMMA NoTransactionsType == NoTransactions \in Transactions
  BY DEF NoTransactions, Transactions

(* A worker between requests.                                              *)
LEMMA IdleType == Idle \in Worker
  BY NoAccountType DEF Idle, Worker

(* The totals of a user's transactions are numbers.                        *)
LEMMA CreditsType ==
  ASSUME posted \in [Users -> Transactions], NEW u \in Users
  PROVE  /\ Credits(u) \in Nat
         /\ posted[u].earned \in Nat /\ posted[u].adjusted \in Nat
         /\ posted[u].redeemed \in Nat /\ posted[u].expired \in Nat
         /\ posted[u].signups \in Nat /\ posted[u].referrals \in Nat
         /\ posted[u].uses \in [Rewards -> Nat]
         /\ posted[u].ends \in SUBSET Nat /\ posted[u].flagged \in Nat
  BY DEF Credits, Transactions

(* The fields of a worker.                                                 *)
LEMMA WorkerType ==
  ASSUME worker \in [Workers -> Worker], NEW w \in Workers
  PROVE  /\ worker[w].at \in {"idle", "create", "reward", "limit", "select",
                              "flag", "post", "write", "count", "refer", "answer"}
         /\ worker[w].kind \in Awards
                \cup {"none", "open", "discount", "claim", "expire"}
         /\ worker[w].user \in Users \cup {NoUser}
         /\ worker[w].reward \in Rewards \cup {NoReward}
         /\ worker[w].points \in Nat /\ worker[w].bonus \in BOOLEAN
         /\ worker[w].seen \in Account /\ worker[w].upto \in Nat
  BY DEF Worker

(* What a worker posts is a number of points.                              *)
LEMMA AmountType ==
  ASSUME worker \in [Workers -> Worker], NEW w \in Workers
  PROVE  /\ Amount(w) \in Nat /\ Change(w) \in Int
         /\ Change(w) \in {Amount(w), -Amount(w)}
         /\ Redeems(w) => Change(w) = -Amount(w)
  BY WorkerType, LoyaltyAssumption DEF Amount, Change

(* The balance changes by the change, the lifetime points never fall.      *)
LEMMA UpdatedType ==
  ASSUME NEW row \in Account, NEW change \in Int
  PROVE  /\ Updated(row, change) \in Account
         /\ Updated(row, change).points = row.points + change
         /\ Updated(row, change).lifetime =
              IF change > 0 THEN row.lifetime + change ELSE row.lifetime
         /\ Updated(row, change).exists = row.exists
         /\ Updated(row, change).tier = row.tier
         /\ Updated(row, change).suspended = row.suspended
         /\ Updated(row, change).referrals = row.referrals
  <1>1. row.points + change \in Int /\ row.lifetime \in Nat
    BY DEF Account
  <1>2. CASE change > 0
    <2>1. Updated(row, change) = [row EXCEPT !.points = @ + change,
                                             !.lifetime = @ + change]
      BY <1>2 DEF Updated
    <2>2. row.lifetime + change \in Nat
      BY <1>1, <1>2
    <2> QED BY <1>1, <1>2, <2>1, <2>2 DEF Account
  <1>3. CASE ~(change > 0)
    <2>1. Updated(row, change) = [row EXCEPT !.points = @ + change,
                                             !.lifetime = @]
      BY <1>3 DEF Updated
    <2> QED BY <1>1, <1>3, <2>1 DEF Account
  <1> QED BY <1>2, <1>3

(* A redemption that is posted, and one of a reward.                       *)
PostsRedemption(w) == ~worker[w].bonus /\ worker[w].kind \in {"discount", "claim"}

PostsClaim(w) == ~worker[w].bonus /\ worker[w].kind = "claim"

(* ... and a referral.                                                     *)
PostsReferral(w) == ~worker[w].bonus /\ worker[w].kind = "referral"

(* What a transaction adds to the totals.                                  *)
Adds(w, past, next, n) ==
    /\ next \in Transactions
    /\ next.expired = past.expired /\ next.flagged = past.flagged
    /\ PostsRedemption(w) => /\ next.earned = past.earned
                             /\ next.adjusted = past.adjusted
    /\ ~PostsRedemption(w) =>
         next.earned + next.adjusted = past.earned + past.adjusted + n
    /\ next.redeemed = past.redeemed + (IF PostsRedemption(w) THEN n ELSE 0)
    /\ next.referrals = past.referrals + (IF PostsReferral(w) THEN 1 ELSE 0)
    /\ next.signups = IF worker[w].bonus THEN past.signups + 1 ELSE past.signups
    /\ next.uses = IF PostsClaim(w)
                   THEN [past.uses EXCEPT ![worker[w].reward] = @ + 1]
                   ELSE past.uses

(* create_point_transaction adds to the totals of its own type only.       *)
LEMMA PostingType ==
  ASSUME RowsOK, NEW w \in Workers, worker[w].at = "post"
  PROVE  Adds(w, posted[worker[w].user], Posting(w), Amount(w))
  <1> DEFINE past == posted[worker[w].user]
             n == Amount(w)
             earned == Earned(past, n)
  <1>1. worker[w].user \in Users /\ past \in Transactions /\ n \in Nat
    BY AmountType DEF RowsOK
  <1>2. /\ past.earned \in Nat /\ past.adjusted \in Nat
        /\ past.redeemed \in Nat /\ past.signups \in Nat
        /\ past.referrals \in Nat /\ past.uses \in [Rewards -> Nat]
        /\ past.earned + n \in Nat /\ past.adjusted + n \in Nat
        /\ past.redeemed + n \in Nat
    BY <1>1 DEF Transactions
  <1>3. /\ earned \in Transactions /\ earned.earned = past.earned + n
        /\ earned.adjusted = past.adjusted /\ earned.expired = past.expired
        /\ earned.flagged = past.flagged /\ earned.signups = past.signups
        /\ earned.uses = past.uses /\ earned.referrals = past.referrals
        /\ earned.redeemed = past.redeemed
    BY <1>1, <1>2 DEF Earned, Transactions
  <1>4. CASE worker[w].bonus
    <2> DEFINE next == [earned EXCEPT !.signups = @ + 1]
    <2>1. Posting(w) = next
      BY <1>4 DEF Posting
    <2>2. /\ next \in Transactions /\ next.earned = earned.earned
          /\ next.adjusted = earned.adjusted /\ next.expired = earned.expired
          /\ next.flagged = earned.flagged /\ next.uses = earned.uses
          /\ next.signups = earned.signups + 1
          /\ next.redeemed = earned.redeemed /\ next.referrals = earned.referrals
      BY <1>2, <1>3 DEF Transactions
    <2> QED BY <1>1, <1>2, <1>3, <1>4, <2>1, <2>2
            DEF Adds, PostsRedemption, PostsClaim, PostsReferral
  <1>5. CASE ~worker[w].bonus /\ worker[w].kind = "custom"
    <2> DEFINE next == [past EXCEPT !.adjusted = @ + n]
    <2>1. Posting(w) = next
      BY <1>5 DEF Posting
    <2>2. /\ next \in Transactions /\ next.earned = past.earned
          /\ next.adjusted = past.adjusted + n /\ next.expired = past.expired
          /\ next.flagged = past.flagged /\ next.uses = past.uses
          /\ next.signups = past.signups
          /\ next.redeemed = past.redeemed /\ next.referrals = past.referrals
      BY <1>1, <1>2 DEF Transactions
    <2> QED BY <1>1, <1>2, <1>5, <2>1, <2>2
            DEF Adds, PostsRedemption, PostsClaim, PostsReferral
  <1>6. CASE ~worker[w].bonus /\ worker[w].kind = "referral"
    <2> DEFINE next == [earned EXCEPT !.referrals = @ + 1]
    <2>1. Posting(w) = next
      BY <1>6 DEF Posting
    <2>2. /\ next \in Transactions /\ next.earned = earned.earned
          /\ next.adjusted = earned.adjusted /\ next.expired = earned.expired
          /\ next.flagged = earned.flagged /\ next.uses = earned.uses
          /\ next.signups = earned.signups
          /\ next.redeemed = earned.redeemed
          /\ next.referrals = earned.referrals + 1
      BY <1>2, <1>3 DEF Transactions
    <2> QED BY <1>1, <1>2, <1>3, <1>6, <2>1, <2>2
            DEF Adds, PostsRedemption, PostsClaim, PostsReferral
  <1>7. CASE ~worker[w].bonus /\ worker[w].kind = "discount"
    <2> DEFINE next == [past EXCEPT !.redeemed = @ + n]
    <2>1. Posting(w) = next
      BY <1>7 DEF Posting
    <2>2. /\ next \in Transactions /\ next.earned = past.earned
          /\ next.adjusted = past.adjusted /\ next.expired = past.expired
          /\ next.flagged = past.flagged /\ next.uses = past.uses
          /\ next.signups = past.signups
          /\ next.redeemed = past.redeemed + n
          /\ next.referrals = past.referrals
      BY <1>1, <1>2 DEF Transactions
    <2> QED BY <1>1, <1>2, <1>7, <2>1, <2>2
            DEF Adds, PostsRedemption, PostsClaim, PostsReferral
  <1>8. CASE ~worker[w].bonus /\ worker[w].kind = "claim"
    <2> DEFINE uses == [past.uses EXCEPT ![worker[w].reward] = @ + 1]
               next == [past EXCEPT !.redeemed = @ + n,
                                    !.uses[worker[w].reward] = @ + 1]
    <2>1. Posting(w) = next
      BY <1>8 DEF Posting
    <2>2. uses \in [Rewards -> Nat]
      <3>1. worker[w].reward \in Rewards
        BY <1>8 DEF RowsOK
      <3>2. past.uses[worker[w].reward] + 1 \in Nat
        BY <1>2, <3>1
      <3> QED BY <1>2, <3>1, <3>2
    <2> DEFINE paid == [past EXCEPT !.redeemed = @ + n]
    <2>3. /\ paid \in Transactions /\ paid.uses = past.uses
          /\ next = [paid EXCEPT !.uses = uses]
      BY <1>1, <1>2 DEF Transactions
    <2>4. /\ next \in Transactions /\ next.earned = past.earned
          /\ next.adjusted = past.adjusted /\ next.expired = past.expired
          /\ next.flagged = past.flagged /\ next.uses = uses
          /\ next.signups = past.signups
          /\ next.redeemed = past.redeemed + n
          /\ next.referrals = past.referrals
      BY <1>1, <1>2, <2>2, <2>3 DEF Transactions
    <2> QED BY <1>1, <1>2, <1>8, <2>1, <2>4
            DEF Adds, PostsRedemption, PostsClaim, PostsReferral
  <1>9. CASE /\ ~worker[w].bonus
             /\ worker[w].kind \notin {"custom", "referral", "discount", "claim"}
    <2>1. Posting(w) = earned
      BY <1>9 DEF Posting
    <2> QED BY <1>1, <1>2, <1>3, <1>9, <2>1
            DEF Adds, PostsRedemption, PostsClaim, PostsReferral
  <1> QED BY <1>4, <1>5, <1>6, <1>7, <1>8, <1>9

(***************************************************************************)
(* The step of one worker.                                                 *)
(***************************************************************************)
Others(w) == \A v \in Workers \ {w} : worker'[v] = worker[v]

(* A step that sets the worker w leaves the others alone.                  *)
LEMMA Move ==
  ASSUME worker \in [Workers -> Worker], NEW w \in Workers, NEW me \in Worker,
         worker' = [worker EXCEPT ![w] = me]
  PROVE  worker' \in [Workers -> Worker] /\ worker'[w] = me /\ Others(w)
  BY DEF Others

(* How a set of workers may change when only one of them takes a step.     *)
OneMoves(S, T, w) ==
    /\ Cardinality(S) \in Nat /\ Cardinality(T) \in Nat
    /\ Cardinality(T) <= Cardinality(Workers)
    /\ w \notin T => Cardinality(T) <= Cardinality(S)
    /\ w \in S /\ w \notin T => Cardinality(T) = Cardinality(S) - 1
    /\ (w \in S) = (w \in T) => T = S

(* Two sets of workers that differ in w at most.                           *)
LEMMA OneMovesLemma ==
  ASSUME NEW w \in Workers, NEW S \in SUBSET Workers, NEW T \in SUBSET Workers,
         S \ {w} = T \ {w}
  PROVE  OneMoves(S, T, w)
  <1>1. IsFiniteSet(Workers)
    BY LoyaltyAssumption
  <1>2. /\ IsFiniteSet(S) /\ Cardinality(S) \in Nat
        /\ IsFiniteSet(T) /\ Cardinality(T) \in Nat
        /\ Cardinality(T) <= Cardinality(Workers)
    BY <1>1, FS_Subset, FS_CardinalityType
  <1>3. (w \in S) = (w \in T) => T = S
    OBVIOUS
  <1>4. w \in S /\ w \notin T => Cardinality(T) = Cardinality(S) - 1
    <2>1. SUFFICES ASSUME w \in S, w \notin T
                   PROVE  Cardinality(T) = Cardinality(S) - 1
      OBVIOUS
    <2>2. T = S \ {w}
      BY <2>1
    <2> QED BY <1>2, <2>1, <2>2, FS_RemoveElement
  <1>5. w \notin T => Cardinality(T) <= Cardinality(S)
    BY <1>2, <1>3, <1>4
  <1> QED BY <1>2, <1>3, <1>4, <1>5 DEF OneMoves

(* The claims that are past the check of total_available.                  *)
LEMMA AdmittedMove ==
  ASSUME NEW w \in Workers, Others(w), NEW r \in Rewards
  PROVE  OneMoves(Admitted(r), Admitted(r)', w)
  <1>1. Admitted(r) \ {w} = Admitted(r)' \ {w}
    BY DEF Others, Admitted
  <1>2. Admitted(r) \in SUBSET Workers /\ Admitted(r)' \in SUBSET Workers
    BY DEF Admitted
  <1> QED BY <1>1, <1>2, OneMovesLemma

(* The claims that are past the check of max_redemptions_per_user.         *)
LEMMA ClaimingMoves ==
  ASSUME NEW w \in Workers, Others(w), NEW u \in Users, NEW r \in Rewards
  PROVE  OneMoves(Claiming(u, r), Claiming(u, r)', w)
  <1>1. Claiming(u, r) \ {w} = Claiming(u, r)' \ {w}
    BY DEF Others, Claiming
  <1>2. Claiming(u, r) \in SUBSET Workers /\ Claiming(u, r)' \in SUBSET Workers
    BY DEF Claiming
  <1> QED BY <1>1, <1>2, OneMovesLemma

(* The requests that are about to post a signup bonus.                     *)
LEMMA BonusesMove ==
  ASSUME NEW w \in Workers, Others(w), NEW u \in Users
  PROVE  OneMoves(WillPostBonus(u), WillPostBonus(u)', w)
  <1>1. WillPostBonus(u) \ {w} = WillPostBonus(u)' \ {w}
    BY DEF Others, WillPostBonus
  <1>2. WillPostBonus(u) \in SUBSET Workers /\ WillPostBonus(u)' \in SUBSET Workers
    BY DEF WillPostBonus
  <1> QED BY <1>1, <1>2, OneMovesLemma

(* The tables only grow: what sessions know of them stays true.            *)
Grows ==
    \A u \in Users : /\ account[u].exists => account'[u].exists
                     /\ Credits(u) <= Credits(u)'
                     /\ posted[u].expired <= posted'[u].expired

(* ... so that the other sessions stay right while w takes a step.         *)
LEMMA OthersAreRight ==
  ASSUME RowsOK, RowsOK', WorkersAreRight, NEW w \in Workers, Others(w), Grows
  PROVE  \A v \in Workers \ {w} :
           worker'[v].at # "idle" => InOrder(v)' /\ SeenIsBacked(v)'
  <1>1. SUFFICES ASSUME NEW v \in Workers \ {w}, worker'[v].at # "idle"
                 PROVE  InOrder(v)' /\ SeenIsBacked(v)'
    OBVIOUS
  <1>2. worker'[v] = worker[v] /\ worker[v].user \in Users
    BY <1>1 DEF Others, RowsOK
  <1>3. InOrder(v) /\ SeenIsBacked(v)
    BY <1>1, <1>2 DEF WorkersAreRight
  <1>4. InOrder(v)'
    BY <1>2, <1>3 DEF InOrder, Grows
  <1>5. ASSUME NEW row \in Account, Backed(row, worker[v].user)
        PROVE  Backed(row, worker[v].user)'
    <2> DEFINE u == worker[v].user
    <2>1. PICK i \in Users : i = worker[v].user
      BY <1>2
    <2>2. /\ Credits(i) \in Nat /\ Credits(i)' \in Nat
          /\ posted[i].expired \in Nat /\ posted'[i].expired \in Nat
      BY CreditsType DEF RowsOK, Credits, Transactions
    <2>3. row.points \in Int /\ row.lifetime \in Nat
      BY DEF Account
    <2>4. /\ row.points <= Credits(i) /\ row.lifetime <= Credits(i)
          /\ row.points + posted[i].expired >= 0
      BY <1>5, <2>1 DEF Backed
    <2>5. Credits(i) <= Credits(i)' /\ posted[i].expired <= posted'[i].expired
      BY DEF Grows
    <2>6. Backed(row, i)'
      BY <2>2, <2>3, <2>4, <2>5 DEF Backed
    <2>7. worker'[v].user = i
      BY <1>2, <2>1
    <2> QED BY <1>2, <2>1, <2>6, <2>7 DEF Backed
  <1>6. /\ worker[v].seen \in Account
        /\ Updated(worker[v].seen, Change(v)) \in Account
        /\ Change(v)' = Change(v) /\ Redeems(v)' = Redeems(v)
    BY <1>2, WorkerType, AmountType, UpdatedType
    DEF RowsOK, Change, Redeems, Amount
  <1>7. SeenIsBacked(v)'
    BY <1>2, <1>3, <1>5, <1>6 DEF SeenIsBacked
  <1> QED BY <1>4, <1>7

(***************************************************************************)
(* What keeps each part of the invariant.                                  *)
(***************************************************************************)

(* The signup bonus: the step posts none and sets out to post none.        *)
LEMMA BonusKept ==
  ASSUME RowsOK, RowsOK', SignupBonusOnce, NEW w \in Workers, Others(w),
         \A u \in Users : posted'[u].signups = posted[u].signups,
         \A u \in Users :
           ~account'[u].exists => ~account[u].exists /\ posted'[u] = posted[u],
         worker'[w].at = "post" /\ worker'[w].bonus =>
           /\ worker[w].at = "post" /\ worker[w].bonus
           /\ worker'[w].user = worker[w].user
  PROVE  SignupBonusOnce'
  <1>1. SUFFICES ASSUME NEW u \in Users
                 PROVE  /\ posted'[u].signups + Cardinality(WillPostBonus(u)') <= 1
                        /\ ~account'[u].exists => posted'[u] = NoTransactions
    BY DEF SignupBonusOnce
  <1>2. OneMoves(WillPostBonus(u), WillPostBonus(u)', w)
    BY BonusesMove
  <1>3. w \in WillPostBonus(u)' => w \in WillPostBonus(u)
    BY DEF WillPostBonus
  <1>4. Cardinality(WillPostBonus(u)') <= Cardinality(WillPostBonus(u))
    BY <1>2, <1>3 DEF OneMoves
  <1>5. /\ posted[u].signups \in Nat
        /\ Cardinality(WillPostBonus(u)) \in Nat
        /\ Cardinality(WillPostBonus(u)') \in Nat
    BY <1>2, CreditsType DEF RowsOK, OneMoves
  <1>6. posted[u].signups + Cardinality(WillPostBonus(u)) <= 1
    BY DEF SignupBonusOnce
  <1>7. posted'[u].signups + Cardinality(WillPostBonus(u)') <= 1
    BY <1>4, <1>5, <1>6
  <1>8. ~account'[u].exists => posted'[u] = NoTransactions
    BY DEF SignupBonusOnce
  <1> QED BY <1>7, <1>8

(* The limits: the step counts nothing, and is admitted only within them.  *)
LEMMA LimitsKept ==
  ASSUME RowsOK, CounterIsLimited, NEW w \in Workers, Others(w),
         totalRedeemed' = totalRedeemed,
         \A u \in Users : posted'[u].uses = posted[u].uses,
         \A r \in Rewards :
           w \in Admitted(r)' => \/ w \in Admitted(r)
                                 \/ TotalAvailable[r] = 0
                                 \/ totalRedeemed[r] < TotalAvailable[r],
         \A u \in Users, r \in Rewards :
           w \in Claiming(u, r)' => \/ w \in Claiming(u, r)
                                    \/ MaxPerUser[r] = 0
                                    \/ posted[u].uses[r] < MaxPerUser[r]
  PROVE  CounterIsLimited'
  <1> DEFINE others == Cardinality(Workers) - 1
  <1>1. Cardinality(Workers) \in Nat
    BY LoyaltyAssumption, FS_CardinalityType
  <1>2. ASSUME NEW r \in Rewards, TotalAvailable[r] > 0
        PROVE  totalRedeemed'[r] + Cardinality(Admitted(r)')
                 <= TotalAvailable[r] + others
    <2>1. OneMoves(Admitted(r), Admitted(r)', w)
      BY AdmittedMove
    <2>2. totalRedeemed[r] \in Nat /\ TotalAvailable[r] \in Nat
      BY LoyaltyAssumption DEF RowsOK
    <2>3. totalRedeemed[r] + Cardinality(Admitted(r)) <= TotalAvailable[r] + others
      BY <1>2 DEF CounterIsLimited
    <2>4. CASE w \in Admitted(r)' /\ w \notin Admitted(r)
      BY <1>1, <1>2, <2>1, <2>2, <2>4 DEF OneMoves
    <2>5. CASE ~(w \in Admitted(r)' /\ w \notin Admitted(r))
      BY <1>1, <2>1, <2>2, <2>3, <2>5 DEF OneMoves
    <2> QED BY <2>4, <2>5
  <1>3. ASSUME NEW r \in Rewards, MaxPerUser[r] > 0, NEW u \in Users
        PROVE  posted'[u].uses[r] + Cardinality(Claiming(u, r)')
                 <= MaxPerUser[r] + others
    <2>1. OneMoves(Claiming(u, r), Claiming(u, r)', w)
      BY ClaimingMoves
    <2>2. posted[u].uses[r] \in Nat /\ MaxPerUser[r] \in Nat
      BY CreditsType, LoyaltyAssumption DEF RowsOK
    <2>3. posted[u].uses[r] + Cardinality(Claiming(u, r)) <= MaxPerUser[r] + others
      BY <1>3 DEF CounterIsLimited
    <2>4. CASE w \in Claiming(u, r)' /\ w \notin Claiming(u, r)
      BY <1>1, <1>3, <2>1, <2>2, <2>4 DEF OneMoves
    <2>5. CASE ~(w \in Claiming(u, r)' /\ w \notin Claiming(u, r))
      BY <1>1, <2>1, <2>2, <2>3, <2>5 DEF OneMoves
    <2> QED BY <2>4, <2>5
  <1> QED BY <1>2, <1>3 DEF CounterIsLimited

(* The tables stay as they are, and so does what the others know of them.  *)
LEMMA TablesAlike ==
  ASSUME UNCHANGED <<account, posted, totalRedeemed>>
  PROVE  /\ \A u \in Users : Credits(u)' = Credits(u)
         /\ PointsArePosted => PointsArePosted'
         /\ OnlyExpiryOverdraws => OnlyExpiryOverdraws'
  BY DEF Credits, PointsArePosted, OnlyExpiryOverdraws

(* A step that changes only what the worker w is doing.                    *)
LEMMA QuietStep ==
  ASSUME Inv, NEW w \in Workers, NEW me \in Worker,
         worker' = [worker EXCEPT ![w] = me],
         UNCHANGED <<account, posted, totalRedeemed>>,
         me.at # "idle" => me.user \in Users,
         me.kind = "claim" => me.reward \in Rewards,
         me.bonus => me.kind \in Awards \cup {"open"},
         me.at = "post" /\ me.bonus => worker[w].at = "post" /\ worker[w].bonus
                                       /\ worker[w].user = me.user,
         \A r \in Rewards :
           w \in Admitted(r)' => \/ w \in Admitted(r)
                                 \/ TotalAvailable[r] = 0
                                 \/ totalRedeemed[r] < TotalAvailable[r],
         \A u \in Users, r \in Rewards :
           w \in Claiming(u, r)' => \/ w \in Claiming(u, r)
                                    \/ MaxPerUser[r] = 0
                                    \/ posted[u].uses[r] < MaxPerUser[r],
         me.at # "idle" => InOrder(w)' /\ SeenIsBacked(w)'
  PROVE  Inv'
  <1> USE DEF Inv
  <1>1. worker' \in [Workers -> Worker] /\ worker'[w] = me /\ Others(w)
    BY Move DEF RowsOK
  <1>2. RowsOK'
    BY <1>1 DEF RowsOK, Others
  <1>3. SignupBonusOnce'
    BY <1>1, <1>2, BonusKept
  <1>4. PointsArePosted' /\ OnlyExpiryOverdraws'
    BY TablesAlike
  <1>5. CounterIsLimited'
    BY <1>1, LimitsKept
  <1>6. Grows
    BY CreditsType, TablesAlike DEF Grows, RowsOK
  <1>7. WorkersAreRight'
    BY <1>1, <1>2, <1>6, OthersAreRight DEF WorkersAreRight
  <1> QED BY <1>2, <1>3, <1>4, <1>5, <1>7

(***************************************************************************)
(* The actions that change no table.                                       *)
(***************************************************************************)

(* A request ends, or stops wherever it is.                                *)
LEMMA ReleaseStep ==
  ASSUME Inv, NEW w \in Workers, Release(w),
         UNCHANGED <<account, posted, totalRedeemed>>
  PROVE  Inv'
  <1>1. worker' = [worker EXCEPT ![w] = Idle] /\ Idle \in Worker
    BY IdleType DEF Release
  <1>2. worker'[w] = Idle
    BY <1>1, Move DEF Inv, RowsOK
  <1>3. /\ \A r \in Rewards : w \notin Admitted(r)'
        /\ \A u \in Users, r \in Rewards : w \notin Claiming(u, r)'
    BY <1>2 DEF Admitted, Claiming, Idle
  <1> QED BY <1>1, <1>3, QuietStep DEF Idle

(* An account that is read is backed by what is posted.                    *)
LEMMA AccountIsBacked ==
  ASSUME PointsArePosted, OnlyExpiryOverdraws, NEW u \in Users
  PROVE  Backed(account[u], u)
  BY DEF PointsArePosted, OnlyExpiryOverdraws, Backed

(* A request begins: its session holds the account as it has read it.      *)
LEMMA RequestStep ==
  ASSUME Inv, NEW w \in Workers, NEW u \in Users,
         NEW at \in {"create", "reward", "select", "post"},
         NEW kind \in Awards \cup {"open", "discount", "claim", "expire"},
         NEW r \in Rewards \cup {NoReward}, NEW n \in Nat,
         Request(w, at, kind, u, r, n),
         at = "create" => kind \in Awards \cup {"open"},
         at # "create" => account[u].exists,
         (at = "reward") = (kind = "claim"),
         (at = "select") = (kind = "expire"),
         kind = "claim" => r \in Rewards /\ n = Cost[r],
         kind = "discount" => n <= account[u].points
  PROVE  Inv'
  <1>1. /\ account[u] \in Account
        /\ UNCHANGED <<account, posted, totalRedeemed>>
    BY DEF Inv, RowsOK, Request
  <1>2. PICK row \in Account : row = account[u]
    BY <1>1
  <1>3. PICK me \in Worker :
          /\ worker' = [worker EXCEPT ![w] = me]
          /\ me.at = at /\ me.kind = kind /\ me.user = u /\ me.reward = r
          /\ me.points = n /\ me.seen = row /\ me.bonus = FALSE
    <2> DEFINE me == [Idle EXCEPT !.at = at, !.kind = kind, !.user = u,
                                  !.reward = r, !.points = n, !.seen = row]
    <2>1. worker' = [worker EXCEPT ![w] = me]
      BY <1>2 DEF Request
    <2>2. /\ me.at = at /\ me.kind = kind /\ me.user = u /\ me.reward = r
          /\ me.points = n /\ me.seen = row /\ me.bonus = FALSE
      BY DEF Idle
    <2>3. me \in Worker
      BY IdleType DEF Worker, Idle
    <2> HIDE DEF me
    <2> QED BY <2>1, <2>2, <2>3
  <1>4. worker'[w] = me
    BY <1>3, Move DEF Inv, RowsOK
  <1>5. InOrder(w)'
    BY <1>1, <1>3, <1>4 DEF InOrder, Awards
  <1>6. SeenIsBacked(w)'
    <2>1. Backed(row, u)'
      BY <1>1, <1>2, AccountIsBacked DEF Inv, Backed, Credits
    <2> QED BY <1>1, <1>2, <1>3, <1>4, <2>1 DEF SeenIsBacked, Redeems, Backed, Credits
  <1>7. /\ \A q \in Rewards : w \notin Admitted(q)'
        /\ \A i \in Users, q \in Rewards : w \notin Claiming(i, q)'
    BY <1>3, <1>4 DEF Admitted, Claiming
  <1> QED BY <1>1, <1>3, <1>5, <1>6, <1>7, QuietStep

(* Each operation of the service begins such a request.                    *)
LEMMA BeginStep ==
  ASSUME Inv, NEW w \in Workers, Begin(w)
  PROVE  Inv'
  <1>1. PICK u \in Users :
          \/ Open(w, u)
          \/ \E kind \in Awarded : Award(w, u, kind)
          \/ Discount(w, u)
          \/ \E r \in Rewards : Claim(w, u, r)
          \/ Expire(w, u)
    BY DEF Begin
  <1>2. account[u] \in Account /\ account[u].tier \in Tiers /\ account[u].points \in Int
    BY DEF Inv, RowsOK, Account
  <1>3. CASE Open(w, u)
    BY <1>3, RequestStep DEF Open
  <1>4. ASSUME NEW kind \in Awarded, Award(w, u, kind)
        PROVE  Inv'
    <2>1. kind \in Awards /\ AwardPoints[kind][account[u].tier] \in Nat
      BY <1>2, LoyaltyAssumption
    <2>2. CASE account[u].exists
      <3>1. Request(w, "post", kind, u, NoReward, AwardPoints[kind][account[u].tier])
        BY <1>4, <2>2 DEF Award
      <3> QED BY <2>1, <2>2, <3>1, RequestStep DEF Awards
    <2>3. CASE ~account[u].exists
      <3>1. Request(w, "create", kind, u, NoReward, AwardPoints[kind][account[u].tier])
        BY <1>4, <2>3 DEF Award
      <3> QED BY <2>1, <2>3, <3>1, RequestStep DEF Awards
    <2> QED BY <2>2, <2>3
  <1>5. CASE Discount(w, u)
    <2>1. PICK n \in Discounts :
            /\ account[u].exists /\ CanRedeem(account[u], n)
            /\ Request(w, "post", "discount", u, NoReward, n)
      BY <1>5 DEF Discount
    <2>2. n \in Nat /\ n <= account[u].points
      BY <1>2, <2>1, LoyaltyAssumption DEF CanRedeem
    <2> QED BY <2>1, <2>2, RequestStep
  <1>6. ASSUME NEW r \in Rewards, Claim(w, u, r)
        PROVE  Inv'
    <2>1. Cost[r] \in Nat
      BY LoyaltyAssumption
    <2> QED BY <1>6, <2>1, RequestStep DEF Claim, Awards
  <1>7. CASE Expire(w, u)
    BY <1>7, RequestStep DEF Expire, Awards
  <1> QED BY <1>1, <1>3, <1>4, <1>5, <1>6, <1>7

(* A worker that has a request: what is known of it.                       *)
LEMMA BusyWorker ==
  ASSUME Inv, NEW w \in Workers, worker[w].at # "idle"
  PROVE  /\ worker[w] \in Worker /\ worker[w].user \in Users
         /\ worker[w].kind = "claim" => worker[w].reward \in Rewards
         /\ worker[w].bonus => worker[w].kind \in Awards \cup {"open"}
         /\ InOrder(w) /\ SeenIsBacked(w)
  BY DEF Inv, RowsOK, WorkersAreRight

(* A claim passes the check of total_available, of the tier and of the     *)
(* balance.                                                                *)
LEMMA ReadRewardStep ==
  ASSUME Inv, NEW w \in Workers, ReadReward(w)
  PROVE  Inv'
  <1>1. worker[w].at = "reward" /\ UNCHANGED <<account, posted, totalRedeemed>>
    BY DEF ReadReward
  <1>2. PICK old \in Worker : old = worker[w]
    BY <1>1, BusyWorker
  <1>3. PICK me \in Worker : /\ worker' = [worker EXCEPT ![w] = me]
                             /\ me = [old EXCEPT !.at = "limit"]
    BY <1>2 DEF ReadReward, Worker
  <1>4. /\ me.at = "limit" /\ me.kind = old.kind /\ me.user = old.user
        /\ me.reward = old.reward /\ me.points = old.points
        /\ me.bonus = old.bonus /\ me.seen = old.seen
    BY <1>3 DEF Worker
  <1>5. worker'[w] = me
    BY <1>3, Move DEF Inv, RowsOK
  <1>6. /\ InOrder(w) /\ SeenIsBacked(w) /\ me.kind = "claim" /\ ~me.bonus
        /\ me.user \in Users /\ me.reward \in Rewards
    BY <1>1, <1>2, <1>4, BusyWorker DEF InOrder
  <1>7. /\ TotalAvailable[me.reward] = 0
             \/ totalRedeemed[me.reward] < TotalAvailable[me.reward]
        /\ me.points <= me.seen.points
    BY <1>1, <1>2, <1>4, <1>6 DEF ReadReward, CanRedeem, InOrder
  <1>8. InOrder(w)'
    BY <1>1, <1>2, <1>4, <1>5, <1>6 DEF InOrder
  <1>9. SeenIsBacked(w)'
    BY <1>1, <1>2, <1>4, <1>5, <1>6, <1>7 DEF SeenIsBacked, Backed, Credits
  <1>10. /\ \A r \in Rewards : w \in Admitted(r)' => r = me.reward
         /\ \A u \in Users, r \in Rewards : w \notin Claiming(u, r)'
    BY <1>4, <1>5 DEF Admitted, Claiming
  <1> QED BY <1>1, <1>3, <1>4, <1>6, <1>7, <1>8, <1>9, <1>10, QuietStep

(* A claim passes the check of max_redemptions_per_user.                   *)
LEMMA CheckLimitStep ==
  ASSUME Inv, NEW w \in Workers, CheckLimit(w)
  PROVE  Inv'
  <1>1. worker[w].at = "limit" /\ UNCHANGED <<account, posted, totalRedeemed>>
    BY DEF CheckLimit
  <1>2. PICK old \in Worker : old = worker[w]
    BY <1>1, BusyWorker
  <1>3. PICK me \in Worker : /\ worker' = [worker EXCEPT ![w] = me]
                             /\ me = [old EXCEPT !.at = "post"]
    BY <1>2 DEF CheckLimit, Worker
  <1>4. /\ me.at = "post" /\ me.kind = old.kind /\ me.user = old.user
        /\ me.reward = old.reward /\ me.points = old.points
        /\ me.bonus = old.bonus /\ me.seen = old.seen
    BY <1>3 DEF Worker
  <1>5. worker'[w] = me
    BY <1>3, Move DEF Inv, RowsOK
  <1>6. /\ InOrder(w) /\ SeenIsBacked(w) /\ me.kind = "claim" /\ ~me.bonus
        /\ me.user \in Users /\ me.reward \in Rewards
    BY <1>1, <1>2, <1>4, BusyWorker DEF InOrder
  <1>7. /\ \/ MaxPerUser[me.reward] = 0
           \/ posted[me.user].uses[me.reward] < MaxPerUser[me.reward]
        /\ me.points <= me.seen.points
    BY <1>1, <1>2, <1>4, <1>6 DEF CheckLimit, SeenIsBacked, Redeems
  <1>8. InOrder(w)'
    BY <1>1, <1>2, <1>4, <1>5, <1>6 DEF InOrder
  <1>9. SeenIsBacked(w)'
    BY <1>1, <1>2, <1>4, <1>5, <1>6, <1>7 DEF SeenIsBacked, Backed, Credits
  <1>10. /\ \A r \in Rewards : w \in Admitted(r)' => w \in Admitted(r)
         /\ \A u \in Users, r \in Rewards :
              w \in Claiming(u, r)' => u = me.user /\ r = me.reward
    BY <1>1, <1>2, <1>4, <1>5, <1>6 DEF Admitted, Claiming
  <1> QED BY <1>1, <1>3, <1>4, <1>6, <1>7, <1>8, <1>9, <1>10, QuietStep

(* The transactions to expire are selected.                                *)
LEMMA SelectExpiredStep ==
  ASSUME Inv, NEW w \in Workers, SelectExpired(w)
  PROVE  Inv'
  <1>1. worker[w].at = "select" /\ UNCHANGED <<account, posted, totalRedeemed>>
    BY DEF SelectExpired
  <1>2. PICK old \in Worker : old = worker[w]
    BY <1>1, BusyWorker
  <1>3. PICK end \in posted[old.user].ends :
          /\ end > posted[old.user].flagged
          /\ worker' = [worker EXCEPT ![w].at = "flag", ![w].upto = end,
                                      ![w].points = end - posted[old.user].flagged]
    BY <1>2 DEF SelectExpired
  <1>4. end \in Nat /\ end - posted[old.user].flagged \in Nat
    BY <1>1, <1>2, <1>3, BusyWorker, CreditsType DEF Inv, RowsOK
  <1>5. PICK n \in Nat : n = end - posted[old.user].flagged
    BY <1>4
  <1>6. PICK me \in Worker :
          /\ worker' = [worker EXCEPT ![w] = me]
          /\ me = [old EXCEPT !.at = "flag", !.upto = end, !.points = n]
    BY <1>1, <1>2, <1>3, <1>4, <1>5 DEF Worker, Inv, RowsOK
  <1>7. /\ me.at = "flag" /\ me.kind = old.kind /\ me.user = old.user
        /\ me.bonus = old.bonus /\ me.seen = old.seen
    BY <1>6 DEF Worker
  <1>8. worker'[w] = me
    BY <1>6, Move DEF Inv, RowsOK
  <1>9. /\ InOrder(w) /\ SeenIsBacked(w) /\ me.kind = "expire" /\ ~me.bonus
        /\ me.user \in Users
    BY <1>1, <1>2, <1>7, BusyWorker DEF InOrder
  <1>10. InOrder(w)'
    BY <1>1, <1>2, <1>7, <1>8, <1>9 DEF InOrder, Awards
  <1>11. SeenIsBacked(w)'
    BY <1>1, <1>2, <1>7, <1>8, <1>9 DEF SeenIsBacked, Backed, Credits
  <1>12. /\ \A r \in Rewards : w \notin Admitted(r)'
         /\ \A u \in Users, r \in Rewards : w \notin Claiming(u, r)'
    BY <1>7, <1>8, <1>9 DEF Admitted, Claiming
  <1> QED BY <1>1, <1>6, <1>7, <1>9, <1>10, <1>11, <1>12, QuietStep

(***************************************************************************)
(* The actions that change one.                                            *)
(***************************************************************************)

(* An account is inserted: the only request that may post its bonus.       *)
LEMMA InsertStep ==
  ASSUME Inv, NEW w \in Workers, Insert(w)
  PROVE  Inv'
  <1> USE DEF Inv
  <1> DEFINE new == [NoAccount EXCEPT !.exists = TRUE]
  <1>1. /\ worker[w].at = "create" /\ UNCHANGED <<posted, totalRedeemed>>
        /\ ~account[worker[w].user].exists
        /\ account' = [account EXCEPT ![worker[w].user] = new]
    BY DEF Insert
  <1>2. PICK old \in Worker : old = worker[w]
    BY <1>1, BusyWorker
  <1>3. old.user \in Users /\ InOrder(w)
    BY <1>1, <1>2, BusyWorker
  <1>4. /\ new \in Account /\ new.exists /\ new.points = 0 /\ new.lifetime = 0
    BY NoAccountType, LoyaltyAssumption DEF NoAccount, Account
  <1> HIDE DEF new
  <1>5. /\ account' \in [Users -> Account] /\ account'[old.user] = new
        /\ \A u \in Users \ {old.user} : account'[u] = account[u]
    BY <1>1, <1>2, <1>3, <1>4 DEF RowsOK
  <1>6. PICK me \in Worker :
          /\ worker' = [worker EXCEPT ![w] = me]
          /\ me = [old EXCEPT !.at = "post", !.bonus = TRUE, !.seen = new]
    <2>1. worker' = [worker EXCEPT ![w].at = "post", ![w].bonus = TRUE,
                                   ![w].seen = new]
      BY <1>2, <1>5 DEF Insert
    <2> QED BY <1>2, <1>4, <2>1 DEF Worker, RowsOK
  <1>7. /\ me.at = "post" /\ me.bonus /\ me.seen = new /\ me.kind = old.kind
        /\ me.user = old.user /\ me.reward = old.reward /\ me.points = old.points
    BY <1>6 DEF Worker
  <1>8. worker' \in [Workers -> Worker] /\ worker'[w] = me /\ Others(w)
    BY <1>6, Move DEF RowsOK
  <1>9. old.kind \in Awards \cup {"open"}
    BY <1>1, <1>2, <1>3 DEF InOrder
  <1>10. RowsOK'
    BY <1>1, <1>3, <1>5, <1>7, <1>8, <1>9 DEF RowsOK, Others, Awards
  <1>11. SignupBonusOnce'
    <2>1. SUFFICES ASSUME NEW u \in Users
                   PROVE  /\ posted'[u].signups + Cardinality(WillPostBonus(u)') <= 1
                          /\ ~account'[u].exists => posted'[u] = NoTransactions
      BY DEF SignupBonusOnce
    <2>2. OneMoves(WillPostBonus(u), WillPostBonus(u)', w)
      BY <1>8, BonusesMove
    <2>3. posted[u].signups + Cardinality(WillPostBonus(u)) <= 1
      BY DEF SignupBonusOnce
    <2>4. CASE u # old.user
      <3>1. w \notin WillPostBonus(u)'
        BY <1>7, <1>8, <2>4 DEF WillPostBonus
      <3>2. posted[u].signups \in Nat
        BY CreditsType DEF RowsOK
      <3>3. posted'[u].signups + Cardinality(WillPostBonus(u)') <= 1
        BY <1>1, <2>2, <2>3, <3>1, <3>2 DEF OneMoves
      <3> QED BY <1>1, <1>5, <2>4, <3>3 DEF SignupBonusOnce
    <2>5. CASE u = old.user
      <3>1. posted[u].signups = 0
        BY <1>1, <1>2, <2>5 DEF SignupBonusOnce, NoTransactions
      <3>2. WillPostBonus(u) = {}
        BY <1>1, <1>2, <2>5, BusyWorker DEF WillPostBonus, InOrder
      <3>3. WillPostBonus(u)' = {w}
        BY <1>7, <1>8, <2>5, <3>2 DEF WillPostBonus, Others
      <3>4. Cardinality(WillPostBonus(u)') = 1
        BY <3>3, FS_Singleton
      <3> QED BY <1>1, <1>4, <1>5, <2>5, <3>1, <3>4
    <2> QED BY <2>4, <2>5
  <1>12. \A u \in Users : Credits(u)' = Credits(u) /\ Credits(u) \in Nat
                          /\ posted'[u].expired = posted[u].expired
                          /\ posted[u].expired \in Nat
    BY <1>1, CreditsType DEF Credits, RowsOK
  <1>13. PointsArePosted'
    BY <1>4, <1>5, <1>12 DEF PointsArePosted
  <1>14. OnlyExpiryOverdraws'
    BY <1>4, <1>5, <1>12 DEF OnlyExpiryOverdraws
  <1>15. CounterIsLimited'
    <2>1. \A r \in Rewards : w \notin Admitted(r)'
      BY <1>7, <1>8, <1>9 DEF Admitted, Awards
    <2>2. \A u \in Users, r \in Rewards : w \notin Claiming(u, r)'
      BY <1>7, <1>8, <1>9 DEF Claiming, Awards
    <2> QED BY <1>1, <1>8, <2>1, <2>2, LimitsKept
  <1>16. WorkersAreRight'
    <2>1. Grows
      BY <1>4, <1>5, <1>12 DEF Grows
    <2>2. InOrder(w)'
      BY <1>4, <1>5, <1>7, <1>8, <1>9 DEF InOrder, Awards
    <2>3. Backed(new, old.user)'
      BY <1>3, <1>4, <1>12 DEF Backed
    <2>4. SeenIsBacked(w)'
      <3>1. Backed(me.seen, me.user)'
        BY <1>7, <2>3 DEF Backed, Credits
      <3> QED BY <1>7, <1>8, <1>9, <3>1 DEF SeenIsBacked, Redeems, Awards, Backed, Credits
    <2> QED BY <1>8, <1>10, <2>1, <2>2, <2>4, OthersAreRight DEF WorkersAreRight
  <1> QED BY <1>10, <1>11, <1>13, <1>14, <1>15, <1>16

(* The redemption of a reward is counted.                                  *)
LEMMA CountStep ==
  ASSUME Inv, NEW w \in Workers, Count(w)
  PROVE  Inv'
  <1> USE DEF Inv
  <1>1. /\ worker[w].at = "count" /\ UNCHANGED <<account, posted>>
        /\ totalRedeemed' = [totalRedeemed EXCEPT ![worker[w].reward] = @ + 1]
    BY DEF Count
  <1>2. PICK old \in Worker : old = worker[w]
    BY <1>1, BusyWorker
  <1>3. PICK me \in Worker : /\ worker' = [worker EXCEPT ![w] = me]
                             /\ me = [old EXCEPT !.at = "answer"]
    BY <1>2 DEF Count, Worker
  <1>4. /\ me.at = "answer" /\ me.kind = old.kind /\ me.user = old.user
        /\ me.reward = old.reward /\ me.points = old.points
        /\ me.bonus = old.bonus /\ me.seen = old.seen
    BY <1>3 DEF Worker
  <1>5. worker' \in [Workers -> Worker] /\ worker'[w] = me /\ Others(w)
    BY <1>3, Move DEF RowsOK
  <1>6. /\ InOrder(w) /\ SeenIsBacked(w) /\ me.kind = "claim" /\ ~me.bonus
        /\ me.user \in Users /\ me.reward \in Rewards
    BY <1>1, <1>2, <1>4, BusyWorker DEF InOrder
  <1>7. /\ totalRedeemed' \in [Rewards -> Nat]
        /\ totalRedeemed'[me.reward] = totalRedeemed[me.reward] + 1
        /\ \A r \in Rewards \ {me.reward} : totalRedeemed'[r] = totalRedeemed[r]
    BY <1>1, <1>2, <1>4, <1>6 DEF RowsOK
  <1>8. RowsOK'
    BY <1>1, <1>4, <1>5, <1>6, <1>7 DEF RowsOK, Others
  <1>9. SignupBonusOnce'
    BY <1>1, <1>4, <1>5, <1>8, BonusKept
  <1>10. /\ PointsArePosted' /\ OnlyExpiryOverdraws'
         /\ \A u \in Users : Credits(u)' = Credits(u)
    BY <1>1 DEF PointsArePosted, OnlyExpiryOverdraws, Credits
  <1>11. CounterIsLimited'
    <2> DEFINE others == Cardinality(Workers) - 1
    <2>1. ASSUME NEW r \in Rewards, TotalAvailable[r] > 0
          PROVE  totalRedeemed'[r] + Cardinality(Admitted(r)')
                   <= TotalAvailable[r] + others
      <3>1. OneMoves(Admitted(r), Admitted(r)', w)
        BY <1>5, AdmittedMove
      <3>2. /\ totalRedeemed[r] \in Nat /\ TotalAvailable[r] \in Nat
            /\ Cardinality(Workers) \in Nat
        BY LoyaltyAssumption, FS_CardinalityType DEF RowsOK
      <3>3. totalRedeemed[r] + Cardinality(Admitted(r)) <= TotalAvailable[r] + others
        BY <2>1 DEF CounterIsLimited
      <3>4. w \notin Admitted(r)'
        BY <1>4, <1>5 DEF Admitted
      <3>5. CASE r = me.reward
        <4>1. w \in Admitted(r)
          BY <1>1, <1>2, <1>4, <1>6, <3>5 DEF Admitted
        <4> QED BY <1>7, <3>1, <3>2, <3>3, <3>4, <3>5, <4>1 DEF OneMoves
      <3>6. CASE r # me.reward
        BY <1>7, <3>1, <3>2, <3>3, <3>4, <3>6 DEF OneMoves
      <3> QED BY <3>5, <3>6
    <2>2. ASSUME NEW r \in Rewards, MaxPerUser[r] > 0, NEW u \in Users
          PROVE  posted'[u].uses[r] + Cardinality(Claiming(u, r)')
                   <= MaxPerUser[r] + others
      <3>1. OneMoves(Claiming(u, r), Claiming(u, r)', w)
        BY <1>5, ClaimingMoves
      <3>2. w \notin Claiming(u, r) /\ w \notin Claiming(u, r)'
        BY <1>1, <1>4, <1>5 DEF Claiming
      <3> QED BY <1>1, <2>2, <3>1, <3>2 DEF OneMoves, CounterIsLimited
    <2> QED BY <2>1, <2>2 DEF CounterIsLimited
  <1>12. WorkersAreRight'
    <2>1. Grows
      BY <1>1, <1>10, CreditsType DEF Grows, RowsOK
    <2>2. InOrder(w)'
      BY <1>1, <1>2, <1>4, <1>5, <1>6 DEF InOrder
    <2>3. SeenIsBacked(w)'
      BY <1>1, <1>2, <1>4, <1>5, <1>6 DEF SeenIsBacked, Backed, Credits
    <2> QED BY <1>5, <1>8, <2>1, <2>2, <2>3, OthersAreRight DEF WorkersAreRight
  <1> QED BY <1>8, <1>9, <1>10, <1>11, <1>12

(* The expiry is posted: the balance may fall by as much.                  *)
LEMMA FlagExpiredStep ==
  ASSUME Inv, NEW w \in Workers, FlagExpired(w)
  PROVE  Inv'
  <1> USE DEF Inv
  <1>1. worker[w].at = "flag" /\ UNCHANGED <<account, totalRedeemed>>
    BY DEF FlagExpired
  <1>2. PICK old \in Worker : old = worker[w]
    BY <1>1, BusyWorker
  <1>3. PICK me \in Worker : /\ worker' = [worker EXCEPT ![w] = me]
                             /\ me = [old EXCEPT !.at = "write"]
    BY <1>2 DEF FlagExpired, Worker
  <1>4. /\ me.at = "write" /\ me.kind = old.kind /\ me.user = old.user
        /\ me.reward = old.reward /\ me.points = old.points
        /\ me.bonus = old.bonus /\ me.seen = old.seen /\ me.upto = old.upto
    BY <1>3 DEF Worker
  <1>5. worker' \in [Workers -> Worker] /\ worker'[w] = me /\ Others(w)
    BY <1>3, Move DEF RowsOK
  <1>6. /\ InOrder(w) /\ SeenIsBacked(w) /\ me.kind = "expire" /\ ~me.bonus
        /\ me.user \in Users /\ account[me.user].exists
        /\ me.points \in Nat /\ me.upto \in Nat /\ me.seen \in Account
    BY <1>1, <1>2, <1>4, BusyWorker DEF InOrder, Worker
  <1> DEFINE past == posted[old.user]
             next == [past EXCEPT
                        !.expired = @ + old.points,
                        !.flagged = IF old.upto > @ THEN old.upto ELSE @]
  <1>7. posted' = [posted EXCEPT ![old.user] = next]
    BY <1>2 DEF FlagExpired
  <1>8. /\ past \in Transactions /\ past.expired \in Nat /\ past.flagged \in Nat
        /\ past.expired + old.points \in Nat
    BY <1>4, <1>6, CreditsType DEF RowsOK
  <1>9. /\ next \in Transactions /\ next.expired = past.expired + old.points
        /\ next.earned = past.earned /\ next.adjusted = past.adjusted
        /\ next.signups = past.signups /\ next.uses = past.uses
    <2>1. old.upto \in Nat
      BY <1>4, <1>6
    <2>2. CASE old.upto > past.flagged
      <3>1. next = [past EXCEPT !.expired = @ + old.points, !.flagged = old.upto]
        BY <2>2
      <3> QED BY <1>8, <2>1, <3>1 DEF Transactions
    <2>3. CASE ~(old.upto > past.flagged)
      <3>1. next = [past EXCEPT !.expired = @ + old.points, !.flagged = @]
        BY <2>3
      <3> QED BY <1>8, <3>1 DEF Transactions
    <2> QED BY <2>2, <2>3
  <1> HIDE DEF next
  <1>10. /\ posted' \in [Users -> Transactions]
         /\ posted'[old.user] = next
         /\ \A u \in Users \ {old.user} : posted'[u] = posted[u]
    BY <1>4, <1>6, <1>7, <1>9 DEF RowsOK
  <1>11. RowsOK'
    BY <1>1, <1>4, <1>5, <1>6, <1>10 DEF RowsOK, Others
  <1>12. \A u \in Users : /\ Credits(u)' = Credits(u) /\ Credits(u) \in Nat
                          /\ posted'[u].signups = posted[u].signups
                          /\ posted'[u].uses = posted[u].uses
                          /\ posted[u].expired \in Nat /\ posted'[u].expired \in Nat
                          /\ posted[u].expired <= posted'[u].expired
    <2>1. TAKE u \in Users
    <2>2. CASE u = old.user
      BY <1>4, <1>6, <1>8, <1>9, <1>10, <2>2, CreditsType DEF Credits, RowsOK
    <2>3. CASE u # old.user
      BY <1>10, <2>3, CreditsType DEF Credits, RowsOK
    <2> QED BY <2>2, <2>3
  <1>13. SignupBonusOnce'
    BY <1>1, <1>4, <1>5, <1>6, <1>10, <1>11, <1>12, BonusKept
  <1>14. PointsArePosted'
    BY <1>1, <1>12 DEF PointsArePosted
  <1>15. OnlyExpiryOverdraws'
    <2>1. \A u \in Users : account[u].points \in Int
      BY DEF RowsOK, Account
    <2> QED BY <1>1, <1>12, <2>1 DEF OnlyExpiryOverdraws
  <1>16. CounterIsLimited'
    <2>1. /\ \A r \in Rewards : w \notin Admitted(r)'
          /\ \A u \in Users, r \in Rewards : w \notin Claiming(u, r)'
      BY <1>4, <1>5, <1>6 DEF Admitted, Claiming
    <2> QED BY <1>1, <1>5, <1>12, <2>1, LimitsKept
  <1>17. WorkersAreRight'
    <2>1. Grows
      BY <1>1, <1>12 DEF Grows
    <2>2. InOrder(w)'
      BY <1>1, <1>4, <1>5, <1>6 DEF InOrder, Awards
    <2>3. SeenIsBacked(w)'
      <3> DEFINE row == Updated(me.seen, -me.points)
      <3>1. /\ row.points = me.seen.points - me.points
            /\ row.lifetime = me.seen.lifetime
            /\ me.seen.points \in Int /\ me.seen.lifetime \in Nat
        <4>1. /\ me.seen \in Account /\ -me.points \in Int /\ ~(-me.points > 0)
              /\ me.seen.points \in Int /\ me.seen.lifetime \in Nat
          BY <1>6 DEF Account
        <4>2. /\ row.points = me.seen.points + -me.points
              /\ row.lifetime = me.seen.lifetime
          BY <4>1, UpdatedType
        <4>3. me.points \in Int
          BY <1>6
        <4> HIDE DEF row
        <4> QED BY <4>1, <4>2, <4>3
      <3>2. Backed(me.seen, me.user)
        BY <1>2, <1>4, <1>6 DEF SeenIsBacked
      <3>3. /\ me.seen.points <= Credits(me.user) /\ me.seen.lifetime <= Credits(me.user)
            /\ me.seen.points + posted[me.user].expired >= 0
            /\ posted'[me.user].expired = posted[me.user].expired + me.points
        BY <1>4, <1>9, <1>10, <3>2 DEF Backed
      <3>4. Backed(me.seen, me.user)' /\ Backed(row, me.user)'
        <4> HIDE DEF row
        <4> QED BY <1>6, <1>12, <3>1, <3>3 DEF Backed
      <3>5. Change(w)' = -me.points /\ ~Redeems(w)'
        BY <1>5, <1>6 DEF Change, Amount, Redeems
      <3> QED BY <1>4, <1>5, <3>4, <3>5 DEF SeenIsBacked, Backed, Credits
    <2> QED BY <1>5, <1>11, <2>1, <2>2, <2>3, OthersAreRight DEF WorkersAreRight
  <1> QED BY <1>11, <1>13, <1>14, <1>15, <1>16, <1>17

(* An action that changes one account, and leaves it backed.               *)
LEMMA AccountStep ==
  ASSUME RowsOK, SignupBonusOnce, PointsArePosted, OnlyExpiryOverdraws,
         NEW i \in Users, NEW row \in Account, Backed(row, i),
         account[i].exists, row.exists,
         account' = [account EXCEPT ![i] = row], posted' = posted
  PROVE  /\ account' \in [Users -> Account]
         /\ PointsArePosted' /\ OnlyExpiryOverdraws' /\ Grows
         /\ \A u \in Users : ~account'[u].exists => ~account[u].exists
         /\ \A u \in Users : Credits(u)' = Credits(u)
  <1>1. /\ account' \in [Users -> Account] /\ account'[i] = row
        /\ \A u \in Users \ {i} : account'[u] = account[u]
    BY DEF RowsOK
  <1>2. \A u \in Users : /\ Credits(u)' = Credits(u) /\ Credits(u) \in Nat
                         /\ posted'[u] = posted[u] /\ posted[u].expired \in Nat
    BY CreditsType DEF Credits, RowsOK
  <1>3. PointsArePosted'
    BY <1>1, <1>2 DEF PointsArePosted, Backed
  <1>4. OnlyExpiryOverdraws'
    BY <1>1, <1>2 DEF OnlyExpiryOverdraws, Backed
  <1>5. Grows
    BY <1>1, <1>2 DEF Grows
  <1> QED BY <1>1, <1>2, <1>3, <1>4, <1>5

(* The balance is written, whatever the row holds by then: what is written *)
(* is backed by what is posted.                                            *)
LEMMA WriteStep ==
  ASSUME Inv, NEW w \in Workers, Write(w)
  PROVE  Inv'
  <1> USE DEF Inv
  <1>1. worker[w].at = "write" /\ UNCHANGED <<posted, totalRedeemed>>
    BY DEF Write
  <1>2. PICK old \in Worker : old = worker[w]
    BY <1>1, BusyWorker
  <1>3. /\ InOrder(w) /\ SeenIsBacked(w) /\ old.user \in Users
        /\ old.kind = "claim" => old.reward \in Rewards
        /\ old.bonus => old.kind \in Awards \cup {"open"}
    BY <1>1, <1>2, BusyWorker
  <1>4. PICK row \in Account : row = Updated(old.seen, Change(w))
    BY <1>2, AmountType, UpdatedType DEF RowsOK, Worker
  <1>5. Backed(row, old.user)
    BY <1>1, <1>2, <1>3, <1>4 DEF SeenIsBacked
  <1>6. PICK next \in Account :
          /\ account' = [account EXCEPT ![old.user] = next]
          /\ next = [account[old.user] EXCEPT !.points = row.points,
                                              !.lifetime = row.lifetime]
    <2>1. account' = [account EXCEPT ![old.user].points = row.points,
                                     ![old.user].lifetime = row.lifetime]
      BY <1>2, <1>4 DEF Write
    <2>2. account[old.user] \in Account
      BY <1>3 DEF RowsOK
    <2>3. [account[old.user] EXCEPT !.points = row.points,
                                    !.lifetime = row.lifetime] \in Account
      BY <2>2 DEF Account
    <2> QED BY <1>3, <2>1, <2>3 DEF RowsOK
  <1>7. /\ next.points = row.points /\ next.lifetime = row.lifetime
        /\ next.exists = account[old.user].exists
    BY <1>3, <1>6 DEF Account, RowsOK
  <1>8. account[old.user].exists /\ next.exists /\ Backed(next, old.user)
    BY <1>1, <1>2, <1>3, <1>5, <1>7 DEF InOrder, Backed
  <1>9. /\ account' \in [Users -> Account]
        /\ PointsArePosted' /\ OnlyExpiryOverdraws' /\ Grows
        /\ \A u \in Users : ~account'[u].exists => ~account[u].exists
        /\ \A u \in Users : Credits(u)' = Credits(u)
    BY <1>1, <1>3, <1>6, <1>8, AccountStep
  <1>10. PICK me \in Worker :
           /\ worker' = [worker EXCEPT ![w] = me]
           /\ me = [old EXCEPT !.at = AfterWrite(w), !.bonus = FALSE, !.seen = row]
    <2>1. worker' = [worker EXCEPT ![w].at = AfterWrite(w), ![w].bonus = FALSE,
                                   ![w].seen = row]
      BY <1>2, <1>4 DEF Write
    <2>2. AfterWrite(w) \in {"post", "refer", "count", "answer"}
      BY DEF AfterWrite
    <2>3. [old EXCEPT !.at = AfterWrite(w), !.bonus = FALSE, !.seen = row] \in Worker
      BY <1>2, <2>2, ZenonT(60) DEF Worker
    <2>4. worker' = [worker EXCEPT ![w] = [old EXCEPT !.at = AfterWrite(w),
                                             !.bonus = FALSE, !.seen = row]]
      BY <1>2, <2>1 DEF RowsOK
    <2> QED BY <2>3, <2>4
  <1>11. /\ me.at = AfterWrite(w) /\ me.kind = old.kind /\ me.user = old.user
         /\ me.reward = old.reward /\ me.points = old.points
         /\ me.bonus = FALSE /\ me.seen = row
    BY <1>10 DEF Worker
  <1>12. /\ me.at \in {"post", "refer", "count", "answer"}
         /\ me.at = "post" => me.kind \in Awards
         /\ me.at = "count" => me.kind = "claim"
    BY <1>2, <1>3, <1>11 DEF AfterWrite, Awards
  <1>13. worker' \in [Workers -> Worker] /\ worker'[w] = me /\ Others(w)
    BY <1>10, Move DEF RowsOK
  <1>14. RowsOK'
    BY <1>1, <1>3, <1>9, <1>11, <1>13 DEF RowsOK, Others
  <1>15. SignupBonusOnce'
    BY <1>1, <1>9, <1>11, <1>13, <1>14, BonusKept
  <1>16. CounterIsLimited'
    <2>1. \A r \in Rewards : w \in Admitted(r)' => w \in Admitted(r)
      BY <1>1, <1>2, <1>11, <1>12, <1>13 DEF Admitted
    <2>2. \A u \in Users, r \in Rewards : w \notin Claiming(u, r)'
      BY <1>12, <1>13 DEF Claiming, Awards
    <2> QED BY <1>1, <1>13, <2>1, <2>2, LimitsKept
  <1>17. WorkersAreRight'
    <2>1. account'[me.user].exists
      BY <1>3, <1>8, <1>9, <1>11 DEF Grows
    <2>2. InOrder(w)'
      BY <1>2, <1>3, <1>11, <1>12, <1>13, <2>1 DEF InOrder, Awards
    <2>3. SeenIsBacked(w)'
      <3>1. Backed(row, old.user)'
        BY <1>1, <1>3, <1>5, <1>9 DEF Backed
      <3> QED BY <1>11, <1>12, <1>13, <3>1 DEF SeenIsBacked, Redeems, Awards,
                                               Backed, Credits
    <2> QED BY <1>9, <1>13, <1>14, <2>2, <2>3, OthersAreRight DEF WorkersAreRight
  <1> QED BY <1>9, <1>14, <1>15, <1>16, <1>17

(* The last write of a referral changes no points.                         *)
LEMMA CountReferralStep ==
  ASSUME Inv, NEW w \in Workers, CountReferral(w)
  PROVE  Inv'
  <1> USE DEF Inv
  <1>1. worker[w].at = "refer" /\ UNCHANGED <<posted, totalRedeemed>>
    BY DEF CountReferral
  <1>2. PICK old \in Worker : old = worker[w]
    BY <1>1, BusyWorker
  <1>3. /\ InOrder(w) /\ SeenIsBacked(w) /\ old.user \in Users
        /\ old.kind = "claim" => old.reward \in Rewards
        /\ old.bonus => old.kind \in Awards \cup {"open"}
    BY <1>1, <1>2, BusyWorker
  <1>4. PICK next \in Account :
          /\ account' = [account EXCEPT ![old.user] = next]
          /\ next = [account[old.user] EXCEPT !.referrals = old.seen.referrals + 1]
    <2>1. account[old.user] \in Account /\ old.seen.referrals + 1 \in Nat
      BY <1>3 DEF RowsOK, Worker, Account
    <2>2. [account[old.user] EXCEPT !.referrals = old.seen.referrals + 1] \in Account
      BY <2>1 DEF Account
    <2> QED BY <1>2, <1>3, <2>2 DEF RowsOK, CountReferral
  <1>5. /\ next.points = account[old.user].points
        /\ next.lifetime = account[old.user].lifetime
        /\ next.exists = account[old.user].exists
    BY <1>3, <1>4 DEF Account, RowsOK
  <1>6. account[old.user].exists /\ next.exists /\ Backed(next, old.user)
    BY <1>1, <1>2, <1>3, <1>5, AccountIsBacked DEF InOrder, Backed
  <1>7. /\ account' \in [Users -> Account]
        /\ PointsArePosted' /\ OnlyExpiryOverdraws' /\ Grows
        /\ \A u \in Users : ~account'[u].exists => ~account[u].exists
        /\ \A u \in Users : Credits(u)' = Credits(u)
    BY <1>1, <1>3, <1>4, <1>6, AccountStep
  <1>8. PICK me \in Worker : /\ worker' = [worker EXCEPT ![w] = me]
                             /\ me = [old EXCEPT !.at = "answer"]
    BY <1>2 DEF CountReferral, Worker
  <1>9. /\ me.at = "answer" /\ me.kind = old.kind /\ me.user = old.user
        /\ me.reward = old.reward /\ me.points = old.points
        /\ me.bonus = old.bonus /\ me.seen = old.seen
    BY <1>8 DEF Worker
  <1>10. worker' \in [Workers -> Worker] /\ worker'[w] = me /\ Others(w)
    BY <1>8, Move DEF RowsOK
  <1>11. RowsOK'
    BY <1>1, <1>3, <1>7, <1>9, <1>10 DEF RowsOK, Others
  <1>12. SignupBonusOnce'
    BY <1>1, <1>7, <1>9, <1>10, <1>11, BonusKept
  <1>13. CounterIsLimited'
    <2>1. /\ \A r \in Rewards : w \notin Admitted(r)'
          /\ \A u \in Users, r \in Rewards : w \notin Claiming(u, r)'
      BY <1>9, <1>10 DEF Admitted, Claiming
    <2> QED BY <1>1, <1>10, <2>1, LimitsKept
  <1>14. WorkersAreRight'
    <2>1. account'[me.user].exists
      BY <1>3, <1>6, <1>7, <1>9 DEF Grows
    <2>2. InOrder(w)'
      BY <1>1, <1>2, <1>3, <1>9, <1>10, <2>1 DEF InOrder
    <2>3. Backed(old.seen, old.user)'
      BY <1>1, <1>2, <1>3, <1>7 DEF SeenIsBacked, Backed
    <2>4. SeenIsBacked(w)'
      BY <1>9, <1>10, <2>3 DEF SeenIsBacked, Backed, Credits
    <2> QED BY <1>7, <1>10, <1>11, <2>2, <2>4, OthersAreRight DEF WorkersAreRight
  <1> QED BY <1>7, <1>11, <1>12, <1>13, <1>14

(* The administrator changes neither the points nor that there is an       *)
(* account.                                                                *)
LEMMA AdministerStep ==
  ASSUME Inv, Administer
  PROVE  Inv'
  <1> USE DEF Inv
  <1>1. UNCHANGED <<posted, totalRedeemed, worker>>
    BY DEF Administer, Suspend, Reactivate, UpgradeTier, SetAccount
  <1>2. PICK u \in Users, row \in Account :
          /\ account[u].exists /\ row.exists
          /\ account' = [account EXCEPT ![u] = row]
          /\ row.points = account[u].points /\ row.lifetime = account[u].lifetime
    <2>1. PICK u \in Users : Suspend(u) \/ Reactivate(u) \/ UpgradeTier(u)
      BY DEF Administer
    <2>2. account[u] \in Account
      BY DEF RowsOK
    <2>3. ASSUME NEW row, SetAccount(u, row),
                 \/ row = [account[u] EXCEPT !.suspended = TRUE]
                 \/ row = [account[u] EXCEPT !.suspended = FALSE]
                 \/ \E t \in Tiers : row = [account[u] EXCEPT !.tier = t]
          PROVE  /\ account[u].exists /\ row.exists /\ row \in Account
                 /\ account' = [account EXCEPT ![u] = row]
                 /\ row.points = account[u].points
                 /\ row.lifetime = account[u].lifetime
      <3>1. account[u].exists /\ account' = [account EXCEPT ![u] = row]
        BY <2>3 DEF SetAccount
      <3> QED BY <2>2, <2>3, <3>1 DEF Account
    <2> QED BY <2>1, <2>3 DEF Suspend, Reactivate, UpgradeTier
  <1>3. Backed(row, u)
    BY <1>2, AccountIsBacked DEF Backed
  <1>4. /\ account' \in [Users -> Account]
        /\ PointsArePosted' /\ OnlyExpiryOverdraws' /\ Grows
        /\ \A i \in Users : ~account'[i].exists => ~account[i].exists
    BY <1>1, <1>2, <1>3, AccountStep
  <1>5. RowsOK'
    BY <1>1, <1>4 DEF RowsOK
  <1>6. PICK w \in Workers : TRUE
    BY LoyaltyAssumption
  <1>7. Others(w) /\ worker' = worker
    BY <1>1 DEF Others
  <1>8. SignupBonusOnce'
    BY <1>1, <1>4, <1>5, <1>7, BonusKept
  <1>9. CounterIsLimited'
    BY <1>1 DEF CounterIsLimited, Admitted, Claiming
  <1>10. WorkersAreRight'
    <2>1. SUFFICES ASSUME NEW v \in Workers, worker'[v].at # "idle"
                   PROVE  InOrder(v)' /\ SeenIsBacked(v)'
      BY DEF WorkersAreRight
    <2>2. InOrder(v) /\ SeenIsBacked(v) /\ worker[v].user \in Users
      BY <1>1, <2>1, BusyWorker
    <2>3. InOrder(v)'
      BY <1>1, <1>4, <2>2 DEF InOrder, Grows
    <2>4. SeenIsBacked(v)'
      BY <1>1, <2>2 DEF SeenIsBacked, Backed, Credits, Change, Amount, Redeems
    <2> QED BY <2>3, <2>4
  <1> QED BY <1>4, <1>5, <1>8, <1>9, <1>10

(* Posting a transaction: the credit is there before the balance shows it, *)
(* and a redemption subtracts no more than the session has seen.           *)
LEMMA PostStep ==
  ASSUME Inv, NEW w \in Workers, Post(w)
  PROVE  Inv'
  <1> USE DEF Inv
  <1>1. worker[w].at = "post" /\ UNCHANGED <<account, totalRedeemed>>
    BY DEF Post
  <1>2. PICK old \in Worker : old = worker[w]
    BY <1>1, BusyWorker
  <1>3. /\ InOrder(w) /\ SeenIsBacked(w) /\ old.user \in Users
        /\ old.kind = "claim" => old.reward \in Rewards
        /\ old.bonus => old.kind \in Awards \cup {"open"}
        /\ old.kind # "expire" /\ account[old.user].exists
    BY <1>1, <1>2, BusyWorker DEF InOrder
  <1>4. PICK n \in Nat : n = Amount(w)
    BY AmountType DEF RowsOK
  <1> DEFINE past == posted[old.user]
  <1>5. PICK next \in Transactions :
          /\ posted' = [posted EXCEPT ![old.user] = next]
          /\ Adds(w, past, next, n)
    <2>1. Adds(w, past, Posting(w), n)
      BY <1>1, <1>2, <1>4, PostingType
    <2> QED BY <1>2, <2>1 DEF Post, Adds
  <1>6. PICK me \in Worker : /\ worker' = [worker EXCEPT ![w] = me]
                             /\ me = [old EXCEPT !.at = "write"]
    BY <1>2 DEF Post, Worker
  <1>7. /\ me.at = "write" /\ me.kind = old.kind /\ me.user = old.user
        /\ me.reward = old.reward /\ me.points = old.points
        /\ me.bonus = old.bonus /\ me.seen = old.seen
    BY <1>6 DEF Worker
  <1>8. worker' \in [Workers -> Worker] /\ worker'[w] = me /\ Others(w)
    BY <1>6, Move DEF RowsOK
  <1>9. /\ posted' \in [Users -> Transactions] /\ posted'[old.user] = next
        /\ \A u \in Users \ {old.user} : posted'[u] = posted[u]
    BY <1>3, <1>5 DEF RowsOK
  <1>10. RowsOK'
    BY <1>1, <1>3, <1>7, <1>8, <1>9 DEF RowsOK, Others
  <1>11. /\ past.expired \in Nat /\ past.signups \in Nat
         /\ past.earned \in Nat /\ past.adjusted \in Nat
         /\ past.uses \in [Rewards -> Nat]
         /\ next.earned \in Nat /\ next.adjusted \in Nat
         /\ next.expired = past.expired
    BY <1>3, <1>5, CreditsType DEF RowsOK, Adds, Transactions
  <1>12. /\ Credits(old.user) = past.earned + past.adjusted
         /\ Credits(old.user)' = next.earned + next.adjusted
    BY <1>9 DEF Credits
  <1>13. /\ PostsRedemption(w) => Credits(old.user)' = Credits(old.user)
         /\ ~PostsRedemption(w) => Credits(old.user)' = Credits(old.user) + n
    BY <1>5, <1>11, <1>12 DEF Adds
  <1>14. \A u \in Users : /\ Credits(u) \in Nat /\ Credits(u)' \in Nat
                          /\ Credits(u) <= Credits(u)'
                          /\ posted[u].expired \in Nat
                          /\ posted'[u].expired = posted[u].expired
    <2>1. TAKE u \in Users
    <2>2. CASE u = old.user
      BY <1>9, <1>11, <1>12, <1>13, <2>2
    <2>3. CASE u # old.user
      BY <1>9, <2>3, CreditsType DEF Credits, RowsOK
    <2> QED BY <2>2, <2>3
  <1>15. SignupBonusOnce'
    <2>1. SUFFICES ASSUME NEW u \in Users
                   PROVE  /\ posted'[u].signups + Cardinality(WillPostBonus(u)') <= 1
                          /\ ~account'[u].exists => posted'[u] = NoTransactions
      BY DEF SignupBonusOnce
    <2>2. OneMoves(WillPostBonus(u), WillPostBonus(u)', w)
      BY <1>8, BonusesMove
    <2>3. /\ posted[u].signups + Cardinality(WillPostBonus(u)) <= 1
          /\ ~account[u].exists => posted[u] = NoTransactions
      BY DEF SignupBonusOnce
    <2>4. w \notin WillPostBonus(u)'
      BY <1>7, <1>8 DEF WillPostBonus
    <2>5. ~account'[u].exists => posted'[u] = NoTransactions
      BY <1>1, <1>3, <1>9, <2>3
    <2>6. CASE u = old.user /\ old.bonus
      <3>1. w \in WillPostBonus(u)
        BY <1>1, <1>2, <2>6 DEF WillPostBonus
      <3>2. posted'[u].signups = posted[u].signups + 1
        BY <1>2, <1>5, <1>9, <2>6 DEF Adds
      <3> QED BY <1>11, <2>2, <2>3, <2>4, <2>5, <2>6, <3>1, <3>2 DEF OneMoves
    <2>7. CASE ~(u = old.user /\ old.bonus)
      <3>1. posted'[u].signups = posted[u].signups /\ posted[u].signups \in Nat
        BY <1>2, <1>5, <1>9, <2>7, CreditsType DEF Adds, RowsOK
      <3> QED BY <2>2, <2>3, <2>4, <2>5, <3>1 DEF OneMoves
    <2> QED BY <2>6, <2>7
  <1>16. PointsArePosted'
    <2>1. \A u \in Users : account[u].points \in Int /\ account[u].lifetime \in Nat
      BY DEF RowsOK, Account
    <2> QED BY <1>1, <1>14, <2>1 DEF PointsArePosted
  <1>17. OnlyExpiryOverdraws'
    BY <1>1, <1>14 DEF OnlyExpiryOverdraws
  <1>18. CounterIsLimited'
    <2> DEFINE others == Cardinality(Workers) - 1
    <2>1. ASSUME NEW r \in Rewards, TotalAvailable[r] > 0
          PROVE  totalRedeemed'[r] + Cardinality(Admitted(r)')
                   <= TotalAvailable[r] + others
      <3>1. OneMoves(Admitted(r), Admitted(r)', w)
        BY <1>8, AdmittedMove
      <3>2. (w \in Admitted(r)) = (w \in Admitted(r)')
        BY <1>1, <1>2, <1>7, <1>8 DEF Admitted
      <3>3. Admitted(r)' = Admitted(r)
        BY <3>1, <3>2 DEF OneMoves
      <3> QED BY <1>1, <2>1, <3>3 DEF CounterIsLimited
    <2>2. ASSUME NEW r \in Rewards, MaxPerUser[r] > 0, NEW u \in Users
          PROVE  posted'[u].uses[r] + Cardinality(Claiming(u, r)')
                   <= MaxPerUser[r] + others
      <3>1. OneMoves(Claiming(u, r), Claiming(u, r)', w)
        BY <1>8, ClaimingMoves
      <3>2. /\ posted[u].uses[r] \in Nat /\ MaxPerUser[r] \in Nat
            /\ Cardinality(Workers) \in Nat
        BY CreditsType, LoyaltyAssumption, FS_CardinalityType DEF RowsOK
      <3>3. posted[u].uses[r] + Cardinality(Claiming(u, r)) <= MaxPerUser[r] + others
        BY <2>2 DEF CounterIsLimited
      <3>4. w \notin Claiming(u, r)'
        BY <1>7, <1>8 DEF Claiming
      <3>5. CASE u = old.user /\ old.kind = "claim" /\ r = old.reward
        <4>1. w \in Claiming(u, r)
          BY <1>1, <1>2, <3>5 DEF Claiming
        <4>2. PostsClaim(w)
          BY <1>2, <1>3, <3>5 DEF PostsClaim, Awards
        <4>3. posted'[u].uses[r] = posted[u].uses[r] + 1
          BY <1>2, <1>5, <1>9, <1>11, <3>5, <4>2 DEF Adds
        <4> QED BY <3>1, <3>2, <3>3, <3>4, <4>1, <4>3 DEF OneMoves
      <3>6. CASE ~(u = old.user /\ old.kind = "claim" /\ r = old.reward)
        <4>1. posted'[u].uses[r] = posted[u].uses[r]
          <5>1. CASE u # old.user
            BY <1>9, <5>1
          <5>2. CASE u = old.user /\ old.kind # "claim"
            BY <1>2, <1>5, <1>9, <5>2 DEF Adds, PostsClaim
          <5>3. CASE u = old.user /\ old.kind = "claim" /\ r # old.reward
            BY <1>2, <1>5, <1>9, <1>11, <5>3 DEF Adds
          <5> QED BY <3>6, <5>1, <5>2, <5>3
        <4> QED BY <3>1, <3>2, <3>3, <3>4, <4>1 DEF OneMoves
      <3> QED BY <3>5, <3>6
    <2> QED BY <2>1, <2>2 DEF CounterIsLimited
  <1>19. WorkersAreRight'
    <2>1. Grows
      BY <1>1, <1>14 DEF Grows
    <2>2. InOrder(w)'
      BY <1>1, <1>2, <1>3, <1>7, <1>8 DEF InOrder
    <2>3. SeenIsBacked(w)'
      <3>1. /\ old.seen.points \in Int /\ old.seen.lifetime \in Nat
            /\ old.seen \in Account /\ old.points \in Nat
        BY DEF Worker, Account
      <3>2. PICK change \in Int : change = Change(w) /\ change \in {n, -n}
        BY <1>4, AmountType DEF RowsOK
      <3>3. Change(w)' = change /\ Redeems(w)' = Redeems(w)
        BY <1>2, <1>7, <1>8, <3>2 DEF Change, Amount, Redeems
      <3>4. PICK row \in Account :
              /\ row = Updated(old.seen, change)
              /\ row.points = old.seen.points + change
              /\ row.lifetime = IF change > 0 THEN old.seen.lifetime + change
                                ELSE old.seen.lifetime
        BY <3>1, <3>2, UpdatedType
      <3>5. /\ old.seen.points <= Credits(old.user)
            /\ old.seen.lifetime <= Credits(old.user)
            /\ old.seen.points + posted[old.user].expired >= 0
        BY <1>2, <1>3 DEF SeenIsBacked, Backed
      <3>6. Backed(old.seen, old.user)'
        BY <1>3, <1>14, <3>1, <3>5 DEF Backed
      <3>7. /\ row.points <= Credits(old.user)'
            /\ row.lifetime <= Credits(old.user)'
            /\ row.points + posted'[old.user].expired >= 0
        <4>1. CASE PostsRedemption(w)
          <5>1. Redeems(w) /\ change = -n /\ n = old.points
            BY <1>2, <1>4, <3>2, <4>1 DEF PostsRedemption, Redeems, Change, Amount
          <5>2. n <= old.seen.points
            BY <1>1, <1>2, <1>3, <5>1 DEF SeenIsBacked
          <5> QED BY <1>3, <1>14, <3>1, <3>4, <3>5, <5>1, <5>2
        <4>2. CASE ~PostsRedemption(w)
          <5>1. ~Redeems(w)
            BY <1>2, <1>3, <4>2 DEF PostsRedemption, Redeems, Awards
          <5>2. change = n
            BY <1>2, <1>3, <1>4, <3>2, <5>1 DEF Change
          <5> QED BY <1>3, <1>13, <1>14, <3>1, <3>4, <3>5, <4>2, <5>2
        <4> QED BY <4>1, <4>2
      <3>8. Backed(row, old.user)'
        BY <3>7 DEF Backed
      <3> QED BY <1>7, <1>8, <3>3, <3>4, <3>6, <3>8 DEF SeenIsBacked, Backed, Credits
    <2> QED BY <1>8, <1>10, <2>1, <2>2, <2>3, OthersAreRight DEF WorkersAreRight
  <1> QED BY <1>10, <1>15, <1>16, <1>17, <1>18, <1>19

(***************************************************************************)
(* The theorems.                                                           *)
(***************************************************************************)

(* In the initial states nobody works and the tables are empty.            *)
LEMMA InitIsRight ==
  ASSUME Init
  PROVE  Inv
  <1> USE DEF Init
  <1>1. /\ \A u \in Users : account[u] = NoAccount /\ posted[u] = NoTransactions
        /\ \A r \in Rewards : totalRedeemed[r] = 0
        /\ \A w \in Workers : worker[w] = Idle
    OBVIOUS
  <1>2. RowsOK
    <2>1. /\ account \in [Users -> Account]
          /\ posted \in [Users -> Transactions]
          /\ worker \in [Workers -> Worker]
          /\ totalRedeemed \in [Rewards -> Nat]
      BY NoAccountType, NoTransactionsType, IdleType
    <2> QED BY <1>1, <2>1 DEF RowsOK, Idle
  <1>3. /\ \A u \in Users : WillPostBonus(u) = {}
        /\ \A r \in Rewards : Admitted(r) = {}
        /\ \A u \in Users, r \in Rewards : Claiming(u, r) = {}
    BY <1>1 DEF WillPostBonus, Admitted, Claiming, Idle
  <1>4. Cardinality(Workers) \in Nat /\ Cardinality(Workers) # 0
    BY LoyaltyAssumption, FS_CardinalityType, FS_EmptySet
  <1>5. SignupBonusOnce
    <2>1. Cardinality({}) = 0
      BY FS_EmptySet
    <2>2. \A u \in Users : /\ posted[u] = NoTransactions /\ posted[u].signups = 0
                           /\ Cardinality(WillPostBonus(u)) = 0
      BY <1>1, <1>3, <2>1 DEF NoTransactions
    <2> QED BY <2>2 DEF SignupBonusOnce
  <1>6. \A u \in Users : /\ Credits(u) = 0 /\ posted[u].expired = 0
                         /\ account[u].points = 0 /\ account[u].lifetime = 0
    BY <1>1 DEF Credits, NoTransactions, NoAccount
  <1>7. PointsArePosted /\ OnlyExpiryOverdraws
    BY <1>6 DEF PointsArePosted, OnlyExpiryOverdraws
  <1>8. CounterIsLimited
    <2>1. \A r \in Rewards :
            /\ TotalAvailable[r] \in Nat /\ MaxPerUser[r] \in Nat
            /\ Cardinality(Admitted(r)) = 0
            /\ \A u \in Users : /\ Cardinality(Claiming(u, r)) = 0
                                /\ posted[u].uses[r] = 0
      BY <1>1, <1>3, FS_EmptySet, LoyaltyAssumption DEF NoTransactions
    <2> QED BY <1>1, <1>4, <2>1 DEF CounterIsLimited
  <1>9. WorkersAreRight
    BY <1>1 DEF WorkersAreRight, Idle
  <1> QED BY <1>2, <1>5, <1>7, <1>8, <1>9 DEF Inv

(* Every step of the program keeps the invariant.                          *)
LEMMA NextIsRight ==
  ASSUME Inv, [Next]_vars
  PROVE  Inv'
  <1>1. ASSUME NEW w \in Workers, Begin(w) PROVE Inv'
    BY <1>1, BeginStep
  <1>2. ASSUME NEW w \in Workers, Continue(w) PROVE Inv'
    <2>1. CASE Insert(w)
      BY <2>1, InsertStep
    <2>2. CASE ReadReward(w)
      BY <2>2, ReadRewardStep
    <2>3. CASE CheckLimit(w)
      BY <2>3, CheckLimitStep
    <2>4. CASE SelectExpired(w)
      BY <2>4, SelectExpiredStep
    <2>5. CASE FlagExpired(w)
      BY <2>5, FlagExpiredStep
    <2>6. CASE Post(w)
      BY <2>6, PostStep
    <2>7. CASE Write(w)
      BY <2>7, WriteStep
    <2>8. CASE Count(w)
      BY <2>8, CountStep
    <2>9. CASE CountReferral(w)
      BY <2>9, CountReferralStep
    <2>10. CASE Answer(w)
      BY <2>10, ReleaseStep DEF Answer
    <2> QED BY <1>2, <2>1, <2>2, <2>3, <2>4, <2>5, <2>6, <2>7, <2>8, <2>9, <2>10
            DEF Continue
  <1>3. ASSUME NEW w \in Workers, Stop(w) PROVE Inv'
    BY <1>3, ReleaseStep DEF Stop
  <1>4. CASE Administer
    BY <1>4, AdministerStep
  <1>5. CASE UNCHANGED vars
    <2>1. /\ account' = account /\ posted' = posted
          /\ totalRedeemed' = totalRedeemed /\ worker' = worker
      BY <1>5 DEF vars
    <2>2. RowsOK' /\ SignupBonusOnce' /\ PointsArePosted' /\ OnlyExpiryOverdraws'
      BY <2>1 DEF Inv, RowsOK, SignupBonusOnce, WillPostBonus, PointsArePosted,
                  OnlyExpiryOverdraws, Credits
    <2>3. CounterIsLimited'
      BY <2>1 DEF Inv, CounterIsLimited, Admitted, Claiming
    <2>4. WorkersAreRight'
      BY <2>1 DEF Inv, WorkersAreRight, InOrder, SeenIsBacked, Backed, Credits,
                  Change, Amount, Redeems
    <2> QED BY <2>2, <2>3, <2>4 DEF Inv
  <1> QED BY <1>1, <1>2, <1>3, <1>4, <1>5 DEF Next

(* The inductive invariant: what the tables say of each other, and what    *)
(* the sessions at work know of the tables.                                *)
THEOREM LoyaltyInvariant == Spec => []Inv
  <1>1. Init => Inv
    BY InitIsRight
  <1>2. Inv /\ [Next]_vars => Inv'
    BY NextIsRight
  <1> QED BY <1>1, <1>2, PTL DEF Spec

(* However many requests create an account at the same time, it is given   *)
(* one signup bonus: a unique user_id and the order of the writes suffice. *)
THEOREM SignupBonusCorrect == Spec => []SignupBonusOnce
  <1>1. Inv => SignupBonusOnce
    BY DEF Inv
  <1> QED BY <1>1, LoyaltyInvariant, PTL

(* No interleaving of requests, and none that stops halfway, makes an      *)
(* account worth more than the points posted for it.                       *)
THEOREM PointsCorrect == Spec => []PointsArePosted
  <1>1. Inv => PointsArePosted
    BY DEF Inv
  <1> QED BY <1>1, LoyaltyInvariant, PTL

(* Redemptions at the same time lose each other's update, but never drive  *)
(* the balance below zero: only the expiry of points does.                 *)
THEOREM OverdraftCorrect == Spec => []OnlyExpiryOverdraws
  <1>1. Inv => OnlyExpiryOverdraws
    BY DEF Inv
  <1> QED BY <1>1, LoyaltyInvariant, PTL

(***************************************************************************)
(* Sums.  A fold over a set is a function chosen because it satisfies the  *)
(* equation of a sum: that there is one, and that it adds up, is shown by  *)
(* looking at the smallest set for which it is not so.                     *)
(***************************************************************************)

(* Every set of numbers that is not empty has a least one.                 *)
Less == {ss \in Nat \X Nat : ss[1] < ss[2]}

LEMMA LeastNumber ==
  ASSUME NEW S, S \subseteq Nat, S # {}
  PROVE  \E i \in S : \A j \in S : i <= j
  <1>1. IsWellFoundedOn(Less, Nat)
    BY NatLessThanWellFounded, Zenon DEF OpToRel, Less
  <1>2. PICK i \in S : \A j \in S : ~ (<<j, i>> \in Less)
    BY <1>1, WFMin, Zenon
  <1>3. \A j \in S : ~ j < i
    BY <1>2 DEF Less
  <1> QED BY <1>3

(* The element that a sum over the set s takes first.                      *)
Pick(s) == CHOOSE x \in s : TRUE

(* g sums up f over each of the sets in D.                                 *)
Sums(g, f, D) ==
    g = [s \in D |-> IF s = {} THEN 0 ELSE f[Pick(s)] + g[s \ {Pick(s)}]]

(* The sums that a fold chooses.                                           *)
Totals(f, S) == CHOOSE g : Sums(g, f, SUBSET S)

(* The sum of f over its domain.                                           *)
Sum(f) == Totals(f, DOMAIN f)[DOMAIN f]

(* Without it, the rest of a set is one smaller.                           *)
LEMMA PickedLeaves ==
  ASSUME NEW S, IsFiniteSet(S), NEW s \in SUBSET S, s # {}
  PROVE  /\ Pick(s) \in s /\ s \ {Pick(s)} \in SUBSET S
         /\ Cardinality(s) \in Nat /\ Cardinality(s \ {Pick(s)}) \in Nat
         /\ Cardinality(s) = Cardinality(s \ {Pick(s)}) + 1
  <1>1. Pick(s) \in s
    BY DEF Pick
  <1>2. IsFiniteSet(s)
    BY FS_Subset
  <1>3. /\ IsFiniteSet(s \ {Pick(s)})
        /\ Cardinality(s \ {Pick(s)}) = Cardinality(s) - 1
    BY <1>1, <1>2, FS_RemoveElement
  <1>4. Cardinality(s) \in Nat /\ Cardinality(s \ {Pick(s)}) \in Nat
    BY <1>2, <1>3, FS_CardinalityType
  <1> QED BY <1>1, <1>3, <1>4

(* What holds of a set whenever it holds of all smaller ones, holds of     *)
(* each: here with the sets of which it holds given as H.                  *)
LEMMA BySize ==
  ASSUME NEW S, IsFiniteSet(S), NEW H,
         \A s \in SUBSET S : (s # {} => s \ {Pick(s)} \in H) => s \in H
  PROVE  SUBSET S \subseteq H
  <1> DEFINE sizes == {n \in Nat : \E s \in SUBSET S : s \notin H /\ Cardinality(s) = n}
  <1>1. SUFFICES ASSUME sizes # {} PROVE FALSE
    <2>1. \A s \in SUBSET S : Cardinality(s) \in Nat
      BY FS_Subset, FS_CardinalityType
    <2> QED BY <2>1
  <1>2. PICK n \in sizes : \A m \in sizes : n <= m
    BY <1>1, LeastNumber
  <1>3. PICK s \in SUBSET S : s \notin H /\ Cardinality(s) = n
    BY <1>2
  <1>4. s # {} /\ s \ {Pick(s)} \notin H
    BY <1>3
  <1>5. Cardinality(s \ {Pick(s)}) \in sizes
    BY <1>4, PickedLeaves
  <1> QED BY <1>2, <1>3, <1>4, <1>5, PickedLeaves

(* There are sums over the sets of at most n elements.                     *)
Small(S, n) == {s \in SUBSET S : Cardinality(s) <= n}

LEMMA SumsExist ==
  ASSUME NEW S, IsFiniteSet(S), NEW f
  PROVE  \E g : Sums(g, f, SUBSET S)
  <1> DEFINE Has(n) == \E g : Sums(g, f, Small(S, n))
             lacking == {n \in Nat : ~Has(n)}
  <1>1. \A s \in SUBSET S : IsFiniteSet(s) /\ Cardinality(s) \in Nat
                            /\ (Cardinality(s) = 0 <=> s = {})
    BY FS_Subset, FS_CardinalityType, FS_EmptySet
  <1>2. Has(0)
    <2> DEFINE g == [s \in Small(S, 0) |-> 0]
    <2>1. \A s \in Small(S, 0) : s = {}
      BY <1>1 DEF Small
    <2>2. g = [s \in Small(S, 0) |->
                  IF s = {} THEN 0 ELSE f[Pick(s)] + g[s \ {Pick(s)}]]
      BY <2>1
    <2>3. Sums(g, f, Small(S, 0))
      BY <2>2 DEF Sums
    <2> QED BY <2>3
  <1>3. ASSUME NEW n \in Nat, Has(n) PROVE Has(n + 1)
    <2>1. PICK g : Sums(g, f, Small(S, n))
      BY <1>3
    <2> DEFINE h == [s \in Small(S, n + 1) |->
                        IF s = {} THEN 0 ELSE f[Pick(s)] + g[s \ {Pick(s)}]]
    <2>2. \A s \in Small(S, n + 1) : s # {} => s \ {Pick(s)} \in Small(S, n)
      <3> SUFFICES ASSUME NEW s \in SUBSET S, Cardinality(s) <= n + 1, s # {}
                   PROVE  s \ {Pick(s)} \in Small(S, n)
        BY DEF Small
      <3> QED BY PickedLeaves DEF Small
    <2>3. \A s \in Small(S, n) : s \in Small(S, n + 1)
      BY <1>1 DEF Small
    <2>4. \A s \in Small(S, n) : h[s] = g[s]
      BY <2>1, <2>3, Zenon DEF Sums
    <2>5. \A s \in Small(S, n + 1) :
             h[s] = IF s = {} THEN 0 ELSE f[Pick(s)] + h[s \ {Pick(s)}]
      BY <2>2, <2>4
    <2>6. h = [s \in Small(S, n + 1) |->
                  IF s = {} THEN 0 ELSE f[Pick(s)] + h[s \ {Pick(s)}]]
      BY <2>5
    <2>7. Sums(h, f, Small(S, n + 1))
      BY <2>6 DEF Sums
    <2> HIDE DEF h
    <2> QED BY <2>7
  <1> HIDE DEF Has
  <1>4. lacking = {}
    <2>1. SUFFICES ASSUME lacking # {} PROVE FALSE
      OBVIOUS
    <2>2. PICK n \in lacking : \A m \in lacking : n <= m
      BY <2>1, LeastNumber
    <2>3. n \in Nat /\ ~Has(n) /\ n # 0
      BY <2>2, <1>2
    <2>4. n - 1 \in Nat /\ n - 1 \notin lacking
      BY <2>2, <2>3
    <2>5. Has((n - 1) + 1)
      BY <2>4, <1>3
    <2> QED BY <2>3, <2>5
  <1>5. \A s \in SUBSET S : Cardinality(s) <= Cardinality(S)
    BY FS_Subset
  <1>6. Small(S, Cardinality(S)) = SUBSET S
    BY <1>5 DEF Small
  <1>7. Has(Cardinality(S))
    BY <1>4, FS_CardinalityType
  <1> QED BY <1>6, <1>7 DEF Has

(* Hence the sums that a fold chooses are sums indeed.                     *)
LEMMA TotalsAdd ==
  ASSUME NEW S, IsFiniteSet(S), NEW f
  PROVE  /\ Totals(f, S)[{}] = 0
         /\ \A s \in SUBSET S : s # {} =>
              Totals(f, S)[s] = f[Pick(s)] + Totals(f, S)[s \ {Pick(s)}]
  <1> DEFINE g == Totals(f, S)
  <1>1. Sums(g, f, SUBSET S)
    BY SumsExist DEF Totals
  <1> HIDE DEF g
  <1>2. \A s \in SUBSET S :
           g[s] = IF s = {} THEN 0 ELSE f[Pick(s)] + g[s \ {Pick(s)}]
    BY <1>1, Zenon DEF Sums
  <1>3. {} \in SUBSET S
    OBVIOUS
  <1> QED BY <1>2, <1>3 DEF g

(* The sum of a function that is zero everywhere.                          *)
LEMMA SumOfZeros ==
  ASSUME NEW S, IsFiniteSet(S)
  PROVE  Sum([x \in S |-> 0]) = 0
  <1> DEFINE f == [x \in S |-> 0]
             g == Totals(f, S)
             H == {s \in SUBSET S : g[s] = 0}
  <1>1. /\ g[{}] = 0
        /\ \A s \in SUBSET S : s # {} => g[s] = f[Pick(s)] + g[s \ {Pick(s)}]
    BY TotalsAdd
  <1>2. Sum(f) = g[S]
    <2>1. DOMAIN f = S
      OBVIOUS
    <2> QED BY <2>1 DEF Sum
  <1> HIDE DEF g
  <1>3. \A s \in SUBSET S : (s # {} => s \ {Pick(s)} \in H) => s \in H
    <2> TAKE s \in SUBSET S
    <2>1. CASE s = {}
      BY <1>1, <2>1
    <2>2. CASE s # {}
      <3>1. Pick(s) \in S /\ f[Pick(s)] = 0
        BY <2>2, PickedLeaves
      <3>2. g[s] = f[Pick(s)] + g[s \ {Pick(s)}]
        BY <1>1, <2>2
      <3> HIDE DEF f
      <3> QED BY <2>2, <3>1, <3>2
    <2> QED BY <2>1, <2>2
  <1> HIDE DEF H
  <1>4. SUBSET S \subseteq H
    BY <1>3, BySize
  <1> QED BY <1>2, <1>4 DEF H

(* The sum of numbers is a number, and one more when one of them is.       *)
LEMMA SumOfOneMore ==
  ASSUME NEW S, IsFiniteSet(S), NEW f \in [S -> Nat], NEW x \in S
  PROVE  /\ Sum(f) \in Nat
         /\ Sum([f EXCEPT ![x] = @ + 1]) = Sum(f) + 1
  <1> DEFINE more == [f EXCEPT ![x] = @ + 1]
             g == Totals(f, S)
             h == Totals(more, S)
             H == {s \in SUBSET S : g[s] \in Nat /\
                                    h[s] = g[s] + (IF x \in s THEN 1 ELSE 0)}
  <1>1. /\ g[{}] = 0
        /\ \A s \in SUBSET S : s # {} => g[s] = f[Pick(s)] + g[s \ {Pick(s)}]
    BY TotalsAdd
  <1>2. /\ h[{}] = 0
        /\ \A s \in SUBSET S : s # {} => h[s] = more[Pick(s)] + h[s \ {Pick(s)}]
    BY TotalsAdd
  <1>3. Sum(f) = g[S]
    <2>1. DOMAIN f = S
      OBVIOUS
    <2> QED BY <2>1 DEF Sum
  <1>4. Sum(more) = h[S]
    <2>1. DOMAIN more = S
      OBVIOUS
    <2> QED BY <2>1 DEF Sum
  <1> HIDE DEF g, h
  <1>5. \A s \in SUBSET S : (s # {} => s \ {Pick(s)} \in H) => s \in H
    <2> TAKE s \in SUBSET S
    <2>1. CASE s = {}
      BY <1>1, <1>2, <2>1
    <2>2. CASE s # {}
      <3>1. HAVE s # {} => s \ {Pick(s)} \in H
      <3> DEFINE y == Pick(s)
                 rest == s \ {y}
      <3>2. /\ y \in s /\ y \in S /\ g[rest] \in Nat
            /\ h[rest] = g[rest] + (IF x \in rest THEN 1 ELSE 0)
        BY <2>2, <3>1, PickedLeaves
      <3>3. more[y] = f[y] + (IF x = y THEN 1 ELSE 0) /\ f[y] \in Nat
        BY <3>2
      <3>4. g[s] = f[y] + g[rest] /\ h[s] = more[y] + h[rest]
        BY <1>1, <1>2, <2>2
      <3>5. (x \in s) <=> (x \in rest \/ x = y)
        BY <3>2
      <3>6. x = y => x \notin rest
        OBVIOUS
      <3> HIDE DEF y, rest, more
      <3> QED BY <3>2, <3>3, <3>4, <3>5, <3>6
    <2> QED BY <2>1, <2>2
  <1> HIDE DEF H
  <1>6. SUBSET S \subseteq H
    BY <1>5, BySize
  <1> QED BY <1>3, <1>4, <1>6 DEF H
(* The redemptions of a reward are such a sum.                             *)
Uses(r) == [u \in Users |-> posted[u].uses[r]]

LEMMA UsesAreSum ==
  ASSUME NEW r
  PROVE  UsesOf(r) = Sum(Uses(r)) /\ UsesOf(r)' = Sum(Uses(r)')
  BY DEF UsesOf, Uses, FoldFunction, FoldFunctionOnSet, MapThenFoldSet,
         Sum, Totals, Sums, Pick

(* The only thing that changes about a worker is the point it has reached. *)
LEMMA Reaches ==
  ASSUME RowsOK, NEW w \in Workers, NEW at,
         worker' = [worker EXCEPT ![w].at = at]
  PROVE  /\ Others(w) /\ worker'[w].at = at
         /\ worker'[w].kind = worker[w].kind /\ worker'[w].user = worker[w].user
         /\ worker'[w].reward = worker[w].reward
         /\ worker'[w].points = worker[w].points
         /\ worker'[w].bonus = worker[w].bonus /\ worker'[w].seen = worker[w].seen
  <1>1. worker'[w] = [worker[w] EXCEPT !.at = at] /\ Others(w)
    BY DEF RowsOK, Others
  <1>2. worker[w] \in Worker
    BY DEF RowsOK
  <1> QED BY <1>1, <1>2 DEF Worker

(***************************************************************************)
(* Redemptions and their counter.                                          *)
(***************************************************************************)

(* The requests that have still to count a redemption, before and after a  *)
(* step of w.                                                              *)
LEMMA OwingMoves ==
  ASSUME NEW w \in Workers, Others(w), NEW r \in Rewards
  PROVE  /\ Cardinality(Owing(r)) \in Nat /\ Cardinality(Owing(r)') \in Nat
         /\ (OwesCount(w, r)' <=> OwesCount(w, r)) => Owing(r)' = Owing(r)
         /\ OwesCount(w, r) /\ ~OwesCount(w, r)' =>
              Cardinality(Owing(r)') = Cardinality(Owing(r)) - 1
         /\ ~OwesCount(w, r) /\ OwesCount(w, r)' =>
              Cardinality(Owing(r)') = Cardinality(Owing(r)) + 1
  <1>1. Owing(r) \ {w} = Owing(r)' \ {w}
    BY DEF Others, Owing, OwesCount
  <1>2. Owing(r) \in SUBSET Workers /\ Owing(r)' \in SUBSET Workers
    BY DEF Owing
  <1>3. /\ w \in Owing(r) <=> OwesCount(w, r)
        /\ w \in Owing(r)' <=> OwesCount(w, r)'
    BY DEF Owing
  <1>4. OneMoves(Owing(r), Owing(r)', w) /\ OneMoves(Owing(r)', Owing(r), w)
    BY <1>1, <1>2, OneMovesLemma
  <1> QED BY <1>3, <1>4 DEF OneMoves

KnownUses == uncounted \in [Rewards -> Nat] /\ EveryUseIsKnown

(* A step that posts no redemption, counts none and loses none.            *)
LEMMA KnownStay ==
  ASSUME KnownUses, NEW w \in Workers, Others(w),
         totalRedeemed' = totalRedeemed, uncounted' = uncounted,
         \A u \in Users : posted'[u].uses = posted[u].uses,
         \A r \in Rewards : OwesCount(w, r)' <=> OwesCount(w, r)
  PROVE  KnownUses'
  <1>1. SUFFICES ASSUME NEW r \in Rewards
                 PROVE  UsesOf(r)' = totalRedeemed'[r]
                          + Cardinality(Owing(r)') + uncounted'[r]
    BY DEF KnownUses, EveryUseIsKnown
  <1>2. Uses(r)' = Uses(r)
    BY DEF Uses
  <1>3. UsesOf(r)' = UsesOf(r)
    BY <1>2, UsesAreSum
  <1>4. Owing(r)' = Owing(r)
    BY OwingMoves
  <1>5. UsesOf(r) = totalRedeemed[r] + Cardinality(Owing(r)) + uncounted[r]
    BY DEF KnownUses, EveryUseIsKnown
  <1> QED BY <1>3, <1>4, <1>5

(* A step of a worker that owes no count before and after it.              *)
LEMMA NothingOwed ==
  ASSUME KnownUses, NEW w \in Workers, Others(w),
         totalRedeemed' = totalRedeemed, uncounted' = uncounted,
         \A u \in Users : posted'[u].uses = posted[u].uses,
         worker[w].kind # "claim" \/ worker[w].at \notin {"write", "count"},
         worker'[w].kind # "claim" \/ worker'[w].at \notin {"write", "count"}
  PROVE  KnownUses'
  <1>1. \A r \in Rewards : OwesCount(w, r)' <=> OwesCount(w, r)
    BY DEF OwesCount
  <1> QED BY <1>1, KnownStay

(* The steps that read, and the answer.                                    *)
LEMMA KnownBegin ==
  ASSUME Inv, KnownUses, NEW w \in Workers, Begin(w)
  PROVE  KnownUses'
  <1>1. \E at \in {"create", "reward", "select", "post"} :
          \E u, kind, r, n : Request(w, at, kind, u, r, n)
    BY DEF Begin, Open, Award, Discount, Claim, Expire
  <1>2. PICK at \in {"create", "reward", "select", "post"} :
          \E u, kind, r, n : Request(w, at, kind, u, r, n)
    BY <1>1
  <1>3. PICK u, kind, r, n : Request(w, at, kind, u, r, n)
    BY <1>2
  <1>4. /\ worker[w].at = "idle" /\ Others(w) /\ worker'[w].at = at
        /\ UNCHANGED <<account, posted, totalRedeemed, uncounted>>
    BY <1>3 DEF Request, Others, Idle, Inv, RowsOK
  <1> QED BY <1>4, NothingOwed

LEMMA KnownRead ==
  ASSUME Inv, KnownUses, NEW w \in Workers,
         Insert(w) \/ ReadReward(w) \/ CheckLimit(w) \/ SelectExpired(w)
  PROVE  KnownUses'
  <1>1. /\ worker[w].at \in {"create", "reward", "limit", "select"}
        /\ UNCHANGED <<posted, totalRedeemed, uncounted>>
    BY DEF Insert, ReadReward, CheckLimit, SelectExpired
  <1>2. /\ worker[w] \in Worker /\ DOMAIN worker = Workers
    BY DEF Inv, RowsOK
  <1>3. Others(w) /\ worker'[w].at \in {"post", "limit", "flag"}
    <2>1. CASE Insert(w)
      BY <1>2, <2>1 DEF Insert, Others, Worker, Inv, RowsOK
    <2>2. CASE ReadReward(w)
      BY <2>2, Reaches DEF ReadReward, Inv
    <2>3. CASE CheckLimit(w)
      BY <2>3, Reaches DEF CheckLimit, Inv
    <2>4. CASE SelectExpired(w)
      <3>1. PICK end : worker' = [worker EXCEPT
              ![w].at = "flag", ![w].upto = end,
              ![w].points = end - posted[worker[w].user].flagged]
        BY <2>4 DEF SelectExpired
      <3>2. worker'[w] = [worker[w] EXCEPT
              !.at = "flag", !.upto = end,
              !.points = end - posted[worker[w].user].flagged]
        BY <1>2, <3>1
      <3>3. Others(w)
        BY <1>2, <3>1 DEF Others
      <3> QED BY <1>2, <3>2, <3>3 DEF Worker
    <2> QED BY <2>1, <2>2, <2>3, <2>4
  <1>4. UNCHANGED <<totalRedeemed, uncounted>>
    BY <1>1
  <1> QED BY <1>1, <1>3, <1>4, NothingOwed

LEMMA KnownReferral ==
  ASSUME Inv, KnownUses, NEW w \in Workers, CountReferral(w) \/ Answer(w)
  PROVE  KnownUses'
  <1>1. /\ worker[w].at \in {"refer", "answer"}
        /\ UNCHANGED <<posted, totalRedeemed, uncounted>>
    BY DEF CountReferral, Answer
  <1>2. Others(w) /\ worker'[w].at \in {"answer", "idle"}
    <2>1. CASE CountReferral(w)
      BY <2>1, Reaches DEF CountReferral, Inv
    <2>2. CASE Answer(w)
      BY <2>2 DEF Answer, Release, Idle, Others, Inv, RowsOK
    <2> QED BY <2>1, <2>2
  <1>3. UNCHANGED <<totalRedeemed, uncounted>>
    BY <1>1
  <1> QED BY <1>1, <1>2, <1>3, NothingOwed

(* Points expire: no redemption is posted.                                 *)
LEMMA KnownFlag ==
  ASSUME Inv, KnownUses, NEW w \in Workers, FlagExpired(w)
  PROVE  KnownUses'
  <1>1. /\ worker[w].at = "flag" /\ UNCHANGED <<totalRedeemed, uncounted>>
        /\ worker' = [worker EXCEPT ![w].at = "write"]
    BY DEF FlagExpired
  <1>2. worker[w].kind = "expire" /\ worker[w].user \in Users
    BY <1>1, BusyWorker DEF InOrder
  <1>3. Others(w) /\ worker'[w].kind = "expire"
    BY <1>1, <1>2, Reaches DEF Inv
  <1>4. PICK n, flagged :
          posted' = [posted EXCEPT ![worker[w].user].expired = n,
                                   ![worker[w].user].flagged = flagged]
    BY DEF FlagExpired
  <1>5. \A u \in Users : posted'[u].uses = posted[u].uses
    BY <1>2, <1>4 DEF Inv, RowsOK, Transactions
  <1> QED BY <1>1, <1>2, <1>3, <1>5, NothingOwed

(* The balance is written: a claim has still to be counted.                *)
LEMMA KnownWrite ==
  ASSUME Inv, KnownUses, NEW w \in Workers, Write(w)
  PROVE  KnownUses'
  <1>1. worker[w].at = "write" /\ UNCHANGED <<posted, totalRedeemed, uncounted>>
    BY DEF Write
  <1>2. worker[w].kind = "claim" => ~worker[w].bonus
    BY <1>1, BusyWorker DEF Awards
  <1>3. /\ Others(w) /\ worker'[w].at = AfterWrite(w)
        /\ worker'[w].kind = worker[w].kind
        /\ worker'[w].reward = worker[w].reward
    BY DEF Write, Others, Inv, RowsOK, Worker
  <1>4. worker[w].kind = "claim" => AfterWrite(w) = "count"
    BY <1>2 DEF AfterWrite
  <1>5. \A r \in Rewards : OwesCount(w, r)' <=> OwesCount(w, r)
    BY <1>1, <1>3, <1>4 DEF OwesCount
  <1> QED BY <1>1, <1>3, <1>5, KnownStay

(* A redemption is posted, and has to be counted.                          *)
LEMMA KnownPost ==
  ASSUME Inv, KnownUses, NEW w \in Workers, Post(w)
  PROVE  KnownUses'
  <1>1. /\ worker[w].at = "post" /\ UNCHANGED <<totalRedeemed, uncounted>>
        /\ worker' = [worker EXCEPT ![w].at = "write"]
    BY DEF Post
  <1>2. PICK u \in Users : u = worker[w].user
    BY <1>1, BusyWorker
  <1>3. /\ Others(w) /\ worker'[w].at = "write"
        /\ worker'[w].kind = worker[w].kind
        /\ worker'[w].reward = worker[w].reward
    BY <1>1, Reaches DEF Inv
  <1>4. PICK next \in Transactions :
          /\ posted' = [posted EXCEPT ![u] = next]
          /\ next.uses = IF PostsClaim(w)
                         THEN [posted[u].uses EXCEPT ![worker[w].reward] = @ + 1]
                         ELSE posted[u].uses
    <2>1. Adds(w, posted[u], Posting(w), Amount(w))
      BY <1>1, <1>2, PostingType DEF Inv
    <2> QED BY <1>2, <2>1 DEF Post, Adds
  <1>5. posted'[u] = next /\ \A i \in Users \ {u} : posted'[i] = posted[i]
    BY <1>4 DEF Inv, RowsOK
  <1>6. PostsClaim(w) <=> worker[w].kind = "claim"
    BY <1>1, BusyWorker DEF PostsClaim, Awards
  <1>7. CASE worker[w].kind # "claim"
    <2>1. \A i \in Users : posted'[i].uses = posted[i].uses
      BY <1>4, <1>5, <1>6, <1>7
    <2> QED BY <1>1, <1>3, <1>7, <2>1, NothingOwed
  <1>8. CASE worker[w].kind = "claim"
    <2>1. PICK reward \in Rewards : reward = worker[w].reward
      BY <1>8 DEF Inv, RowsOK
    <2>2. SUFFICES ASSUME NEW r \in Rewards
                   PROVE  UsesOf(r)' = totalRedeemed'[r]
                            + Cardinality(Owing(r)') + uncounted'[r]
      BY <1>1 DEF KnownUses, EveryUseIsKnown
    <2>3. ~OwesCount(w, r) /\ (OwesCount(w, r)' <=> r = reward)
      BY <1>1, <1>3, <1>8, <2>1 DEF OwesCount
    <2>4. /\ UsesOf(r) = totalRedeemed[r] + Cardinality(Owing(r)) + uncounted[r]
          /\ totalRedeemed[r] \in Nat /\ uncounted[r] \in Nat
      BY DEF KnownUses, EveryUseIsKnown, Inv, RowsOK
    <2>5. /\ posted[u].uses \in [Rewards -> Nat]
          /\ posted'[u].uses = [posted[u].uses EXCEPT ![reward] = @ + 1]
          /\ \A i \in Users : posted[i].uses[r] \in Nat
      BY <1>4, <1>5, <1>6, <1>8, <2>1, CreditsType DEF Inv, RowsOK
    <2>6. Uses(r) \in [Users -> Nat]
      BY <2>5 DEF Uses
    <2>7. Cardinality(Owing(r)) \in Nat /\ Cardinality(Owing(r)') \in Nat
      BY <1>3, OwingMoves
    <2>8. CASE r = reward
      <3>1. posted'[u].uses[r] = posted[u].uses[r] + 1
        BY <2>5, <2>8
      <3>2. Uses(r)' = [Uses(r) EXCEPT ![u] = @ + 1]
        BY <1>5, <3>1 DEF Uses
      <3>3. UsesOf(r)' = UsesOf(r) + 1
        BY <2>6, <3>2, SumOfOneMore, UsesAreSum, FiniteUsers
      <3>4. Cardinality(Owing(r)') = Cardinality(Owing(r)) + 1
        BY <1>3, <2>3, <2>8, OwingMoves
      <3> QED BY <1>1, <2>4, <2>7, <3>3, <3>4
    <2>9. CASE r # reward
      <3>1. posted'[u].uses[r] = posted[u].uses[r]
        BY <2>5, <2>9
      <3>2. Uses(r)' = Uses(r)
        BY <1>5, <3>1 DEF Uses
      <3>3. UsesOf(r)' = UsesOf(r)
        BY <3>2, UsesAreSum
      <3>4. Owing(r)' = Owing(r)
        BY <1>3, <2>3, <2>9, OwingMoves
      <3> QED BY <1>1, <2>4, <3>3, <3>4
    <2> QED BY <2>8, <2>9
  <1> QED BY <1>7, <1>8

(* A redemption is counted.                                                *)
LEMMA KnownCount ==
  ASSUME Inv, KnownUses, NEW w \in Workers, Count(w)
  PROVE  KnownUses'
  <1>1. /\ worker[w].at = "count" /\ UNCHANGED <<account, posted, uncounted>>
        /\ totalRedeemed' = [totalRedeemed EXCEPT ![worker[w].reward] = @ + 1]
        /\ worker' = [worker EXCEPT ![w].at = "answer"]
    BY DEF Count
  <1>2. worker[w].kind = "claim" /\ worker[w].reward \in Rewards
    BY <1>1, BusyWorker DEF InOrder
  <1>3. Others(w) /\ worker'[w].at = "answer"
    BY <1>1, Reaches DEF Inv
  <1>4. SUFFICES ASSUME NEW r \in Rewards
                 PROVE  UsesOf(r)' = totalRedeemed'[r]
                          + Cardinality(Owing(r)') + uncounted'[r]
    BY <1>1 DEF KnownUses, EveryUseIsKnown
  <1>5. Uses(r)' = Uses(r)
    BY <1>1 DEF Uses
  <1>6. UsesOf(r)' = UsesOf(r)
    BY <1>5, UsesAreSum
  <1>7. ~OwesCount(w, r)' /\ (OwesCount(w, r) <=> r = worker[w].reward)
    BY <1>1, <1>2, <1>3 DEF OwesCount
  <1>8. /\ UsesOf(r) = totalRedeemed[r] + Cardinality(Owing(r)) + uncounted[r]
        /\ totalRedeemed[r] \in Nat /\ uncounted[r] \in Nat
    BY DEF KnownUses, EveryUseIsKnown, Inv, RowsOK
  <1>9. totalRedeemed'[r] = IF r = worker[w].reward THEN totalRedeemed[r] + 1
                            ELSE totalRedeemed[r]
    BY <1>1, <1>2 DEF Inv, RowsOK
  <1>10. /\ Cardinality(Owing(r)) \in Nat /\ Cardinality(Owing(r)') \in Nat
         /\ r = worker[w].reward =>
              Cardinality(Owing(r)') = Cardinality(Owing(r)) - 1
         /\ r # worker[w].reward => Owing(r)' = Owing(r)
    BY <1>3, <1>7, OwingMoves
  <1>11. CASE r = worker[w].reward
    BY <1>1, <1>6, <1>8, <1>9, <1>10, <1>11
  <1>12. CASE r # worker[w].reward
    BY <1>1, <1>6, <1>8, <1>9, <1>10, <1>12
  <1> QED BY <1>11, <1>12

(* A request stops: what it has posted and not counted never will be.      *)
LEMMA KnownStop ==
  ASSUME Inv, KnownUses, NEW w \in Workers, Stop(w)
  PROVE  KnownUses'
  <1>1. /\ Release(w) /\ UNCHANGED <<account, posted, totalRedeemed>>
        /\ uncounted' = [r \in Rewards |->
                           IF OwesCount(w, r) THEN uncounted[r] + 1 ELSE uncounted[r]]
    BY DEF Stop
  <1>2. Others(w) /\ worker'[w].at = "idle"
    BY <1>1 DEF Release, Idle, Others, Inv, RowsOK
  <1>3. uncounted' \in [Rewards -> Nat]
    BY <1>1 DEF KnownUses
  <1>4. SUFFICES ASSUME NEW r \in Rewards
                 PROVE  UsesOf(r)' = totalRedeemed'[r]
                          + Cardinality(Owing(r)') + uncounted'[r]
    BY <1>3 DEF KnownUses, EveryUseIsKnown
  <1>5. Uses(r)' = Uses(r)
    BY <1>1 DEF Uses
  <1>6. UsesOf(r)' = UsesOf(r)
    BY <1>5, UsesAreSum
  <1>7. ~OwesCount(w, r)'
    BY <1>2 DEF OwesCount
  <1>8. /\ UsesOf(r) = totalRedeemed[r] + Cardinality(Owing(r)) + uncounted[r]
        /\ totalRedeemed[r] \in Nat /\ uncounted[r] \in Nat
    BY DEF KnownUses, EveryUseIsKnown, Inv, RowsOK
  <1>9. /\ Cardinality(Owing(r)) \in Nat /\ Cardinality(Owing(r)') \in Nat
        /\ OwesCount(w, r) => Cardinality(Owing(r)') = Cardinality(Owing(r)) - 1
        /\ ~OwesCount(w, r) => Owing(r)' = Owing(r)
    BY <1>2, <1>7, OwingMoves
  <1>10. CASE OwesCount(w, r)
    <2>1. uncounted'[r] = uncounted[r] + 1
      BY <1>1, <1>10
    <2> QED BY <1>1, <1>6, <1>8, <1>9, <1>10, <2>1
  <1>11. CASE ~OwesCount(w, r)
    <2>1. uncounted'[r] = uncounted[r]
      BY <1>1, <1>11
    <2> QED BY <1>1, <1>6, <1>8, <1>9, <1>11, <2>1
  <1> QED BY <1>10, <1>11

(* A step of no worker, or of none at all.                                 *)
LEMMA KnownAlike ==
  ASSUME KnownUses, UNCHANGED <<posted, totalRedeemed, worker, uncounted>>
  PROVE  KnownUses'
  <1>1. SUFFICES ASSUME NEW r \in Rewards
                 PROVE  UsesOf(r)' = totalRedeemed'[r]
                          + Cardinality(Owing(r)') + uncounted'[r]
    BY DEF KnownUses, EveryUseIsKnown
  <1>2. Uses(r)' = Uses(r) /\ Owing(r)' = Owing(r)
    BY DEF Uses, Owing, OwesCount
  <1>3. UsesOf(r)' = UsesOf(r)
    BY <1>2, UsesAreSum
  <1>4. UsesOf(r) = totalRedeemed[r] + Cardinality(Owing(r)) + uncounted[r]
    BY DEF KnownUses, EveryUseIsKnown
  <1> QED BY <1>2, <1>3, <1>4

LEMMA KnownInit ==
  ASSUME Init
  PROVE  KnownUses
  <1>1. SUFFICES ASSUME NEW r \in Rewards
                 PROVE  UsesOf(r) = totalRedeemed[r]
                          + Cardinality(Owing(r)) + uncounted[r]
    BY DEF Init, KnownUses, EveryUseIsKnown
  <1>2. /\ totalRedeemed[r] = 0 /\ uncounted[r] = 0
        /\ \A u \in Users : posted[u].uses[r] = 0
    BY DEF Init, NoTransactions
  <1>3. UsesOf(r) = 0
    <2>1. Uses(r) = [u \in Users |-> 0]
      BY <1>2 DEF Uses
    <2>2. Sum([u \in Users |-> 0]) = 0
      BY SumOfZeros, FiniteUsers
    <2> QED BY <2>1, <2>2, UsesAreSum
  <1>4. Owing(r) = {}
    BY DEF Init, Owing, OwesCount, Idle
  <1> QED BY <1>2, <1>3, <1>4, FS_EmptySet

LEMMA KnownNext ==
  ASSUME Inv, KnownUses, [Next]_vars
  PROVE  KnownUses'
  <1>1. ASSUME NEW w \in Workers, Begin(w) PROVE KnownUses'
    BY <1>1, KnownBegin
  <1>2. ASSUME NEW w \in Workers, Continue(w) PROVE KnownUses'
    BY <1>2, KnownRead, KnownFlag, KnownPost, KnownWrite, KnownCount,
       KnownReferral DEF Continue
  <1>3. ASSUME NEW w \in Workers, Stop(w) PROVE KnownUses'
    BY <1>3, KnownStop
  <1>4. CASE Administer
    <2>1. UNCHANGED <<posted, totalRedeemed, worker, uncounted>>
      BY <1>4 DEF Administer, Suspend, Reactivate, UpgradeTier, SetAccount
    <2> QED BY <2>1, KnownAlike
  <1>5. CASE UNCHANGED vars
    BY <1>5, KnownAlike DEF vars
  <1> QED BY <1>1, <1>2, <1>3, <1>4, <1>5 DEF Next

(* Each redemption is counted, about to be counted by a request at work,   *)
(* or one whose request stopped before.                                    *)
THEOREM UsesCorrect == Spec => []KnownUses
  <1>1. Init => KnownUses
    BY KnownInit
  <1>2. Inv /\ KnownUses /\ [Next]_vars => KnownUses'
    BY KnownNext
  <1> QED BY <1>1, <1>2, LoyaltyInvariant, PTL DEF Spec

(* Every variable keeps its type.                                          *)
THEOREM LoyaltyTypeCorrect == Spec => []TypeOK
  <1>1. Inv /\ KnownUses => TypeOK
    BY DEF Inv, KnownUses, TypeOK
  <1> QED BY <1>1, LoyaltyInvariant, UsesCorrect, PTL

(* The redemptions of a reward exceed its limits by at most the number of  *)
(* the other requests that can run at the same time, and total_available   *)
(* besides by the redemptions that were posted and never counted.          *)
THEOREM LimitsCorrect == Spec => []LimitsHoldUpToWorkers
  <1>1. ASSUME Inv, KnownUses PROVE LimitsHoldUpToWorkers
    <2> DEFINE others == Cardinality(Workers) - 1
    <2>1. Cardinality(Workers) \in Nat
      BY LoyaltyAssumption, FS_CardinalityType
    <2>2. ASSUME NEW r \in Rewards, TotalAvailable[r] > 0
          PROVE  UsesOf(r) <= TotalAvailable[r] + others + uncounted[r]
      <3>1. IsFiniteSet(Workers) /\ Owing(r) \subseteq Admitted(r)
            /\ Admitted(r) \subseteq Workers
        BY LoyaltyAssumption DEF Owing, OwesCount, Admitted
      <3>2. /\ Cardinality(Owing(r)) \in Nat /\ Cardinality(Admitted(r)) \in Nat
            /\ Cardinality(Owing(r)) <= Cardinality(Admitted(r))
        BY <3>1, FS_Subset, FS_CardinalityType
      <3>3. totalRedeemed[r] + Cardinality(Admitted(r)) <= TotalAvailable[r] + others
        BY <1>1, <2>2 DEF Inv, CounterIsLimited
      <3>4. /\ totalRedeemed[r] \in Nat /\ uncounted[r] \in Nat
            /\ TotalAvailable[r] \in Nat
        BY <1>1, LoyaltyAssumption DEF Inv, RowsOK, KnownUses
      <3>5. UsesOf(r) = totalRedeemed[r] + Cardinality(Owing(r)) + uncounted[r]
        BY <1>1 DEF KnownUses, EveryUseIsKnown
      <3> QED BY <2>1, <3>2, <3>3, <3>4, <3>5
    <2>3. ASSUME NEW r \in Rewards, MaxPerUser[r] > 0, NEW u \in Users
          PROVE  posted[u].uses[r] <= MaxPerUser[r] + others
      <3>1. posted[u].uses[r] + Cardinality(Claiming(u, r)) <= MaxPerUser[r] + others
        BY <1>1, <2>3 DEF Inv, CounterIsLimited
      <3>2. Claiming(u, r) \subseteq Workers
        BY DEF Claiming
      <3>3. Cardinality(Claiming(u, r)) \in Nat
        BY <3>2, LoyaltyAssumption, FS_Subset, FS_CardinalityType
      <3>4. posted[u].uses[r] \in Nat /\ MaxPerUser[r] \in Nat
        BY <1>1, CreditsType, LoyaltyAssumption DEF Inv, RowsOK
      <3> QED BY <2>1, <3>1, <3>3, <3>4
    <2> QED BY <2>2, <2>3 DEF LimitsHoldUpToWorkers
  <1>2. Inv /\ KnownUses => LimitsHoldUpToWorkers
    BY <1>1
  <1> QED BY <1>2, LoyaltyInvariant, UsesCorrect, PTL

(***************************************************************************)
(* The books of requests that run one at a time.                           *)
(***************************************************************************)
Alone(w) == \A v \in Workers \ {w} : worker[v].at = "idle"

(* A worker that has a request is the only one.                            *)
LEMMA BusyAlone ==
  ASSUME OneAtWork, NEW w \in Workers, worker[w].at # "idle"
  PROVE  Alone(w)
  BY DEF OneAtWork, Alone

(* Which claims are still to be counted is up to the only worker.          *)
LEMMA OwingAlone ==
  ASSUME NEW w \in Workers, Alone(w), Others(w), NEW r \in Rewards
  PROVE  /\ (\E v \in Workers : OwesCount(v, r)) <=> OwesCount(w, r)
         /\ (\E v \in Workers : OwesCount(v, r)') <=> OwesCount(w, r)'
  BY DEF Alone, Others, OwesCount

(* No redemption is posted, and none is counted.                           *)
LEMMA UsesStay ==
  ASSUME UsesAreCounted, NEW w \in Workers, Alone(w), Others(w),
         totalRedeemed' = totalRedeemed,
         \A u \in Users : posted'[u].uses = posted[u].uses,
         \A r \in Rewards : OwesCount(w, r)' <=> OwesCount(w, r)
  PROVE  UsesAreCounted'
  <1>1. SUFFICES ASSUME NEW r \in Rewards
                 PROVE  UsesOf(r)' = totalRedeemed'[r]
                          + (IF \E v \in Workers : OwesCount(v, r)' THEN 1 ELSE 0)
    BY DEF UsesAreCounted
  <1>2. Uses(r)' = Uses(r)
    BY DEF Uses
  <1>3. UsesOf(r)' = UsesOf(r)
    BY <1>2, UsesAreSum
  <1>4. (\E v \in Workers : OwesCount(v, r)) <=> (\E v \in Workers : OwesCount(v, r)')
    BY OwingAlone
  <1>5. UsesOf(r) = totalRedeemed[r]
                      + (IF \E v \in Workers : OwesCount(v, r) THEN 1 ELSE 0)
    BY DEF UsesAreCounted
  <1> QED BY <1>3, <1>4, <1>5

(* One worker takes a step for one user.                                   *)
LEMMA SerialStep ==
  ASSUME SerialInv, NEW w \in Workers, Alone(w), Others(w), NEW u \in Users,
         worker[w].at # "idle" => worker[w].user = u,
         worker'[w].at # "idle" => worker'[w].user = u /\ InBooks(w)',
         worker'[w].at = "idle" => Settled(u)',
         ~account'[u].exists => account'[u] = NoAccount,
         \A i \in Users \ {u} : account'[i] = account[i] /\ posted'[i] = posted[i],
         UsesAreCounted'
  PROVE  SerialInv'
  <1> USE DEF SerialInv
  <1>1. \A v \in Workers \ {w} : worker[v].at = "idle" /\ worker'[v].at = "idle"
    BY DEF Alone, Others
  <1>2. OneAtWork'
    BY <1>1 DEF OneAtWork
  <1>3. NoneYet'
    BY DEF NoneYet
  <1>4. ASSUME NEW i \in Users,
               \A v \in Workers : worker'[v].at = "idle" \/ worker'[v].user # i
        PROVE  Settled(i)'
    <2>1. CASE i = u
      BY <1>4, <2>1
    <2>2. CASE i # u
      <3>1. \A v \in Workers : worker[v].at = "idle" \/ worker[v].user # i
        BY <1>1, <2>2
      <3>2. Settled(i) /\ account'[i] = account[i] /\ posted'[i] = posted[i]
        BY <2>2, <3>1
      <3> QED BY <3>2 DEF Settled, HasBooks, Balance, Credits
    <2> QED BY <2>1, <2>2
  <1>5. \A v \in Workers : worker'[v].at # "idle" => InBooks(v)'
    BY <1>1
  <1> QED BY <1>2, <1>3, <1>4, <1>5

(* An account that is settled is what a new session has read.              *)
LEMMA SerialRequest ==
  ASSUME Inv, SerialInv, AllIdle, NEW w \in Workers, NEW u \in Users,
         NEW at \in {"create", "reward", "select", "post"}, NEW kind,
         NEW r, NEW n, Request(w, at, kind, u, r, n)
  PROVE  SerialInv'
  <1>1. /\ \A v \in Workers : worker[v].at = "idle"
        /\ UNCHANGED <<account, posted, totalRedeemed>>
    BY DEF AllIdle, Idle, Request
  <1>2. /\ Others(w) /\ worker'[w].at = at /\ worker'[w].user = u
        /\ worker'[w].seen = account[u]
    <2>1. worker'[w] = [Idle EXCEPT !.at = at, !.kind = kind, !.user = u,
                          !.reward = r, !.points = n, !.seen = account[u]]
      BY DEF Request, Inv, RowsOK
    <2>2. Others(w)
      BY DEF Request, Others, Inv, RowsOK
    <2> QED BY <2>1, <2>2 DEF Idle
  <1>3. Settled(u)
    BY <1>1 DEF SerialInv
  <1>4. account[u].referrals \in Nat
    BY DEF Inv, RowsOK, Account
  <1>5. InBooks(w)'
    <2>1. ~OwesReferral(w)'
      BY <1>2 DEF OwesReferral
    <2> QED BY <1>1, <1>2, <1>3, <1>4, <2>1
            DEF InBooks, Settled, HasBooks, Balance, Credits
  <1>6. Alone(w)
    BY <1>1 DEF Alone
  <1>7. \A q \in Rewards : ~OwesCount(w, q) /\ ~OwesCount(w, q)'
    BY <1>1, <1>2 DEF OwesCount
  <1>8. UsesAreCounted'
    BY <1>1, <1>2, <1>6, <1>7, UsesStay DEF SerialInv
  <1>9. ~account'[u].exists => account'[u] = NoAccount
    BY <1>1 DEF SerialInv, NoneYet
  <1> QED BY <1>1, <1>2, <1>5, <1>6, <1>8, <1>9, SerialStep

(* Each operation begins such a request.                                   *)
LEMMA SerialBegin ==
  ASSUME Inv, SerialInv, AllIdle, NEW w \in Workers, Begin(w)
  PROVE  SerialInv'
  <1>1. PICK u \in Users :
          \/ Open(w, u)
          \/ \E kind \in Awarded : Award(w, u, kind)
          \/ Discount(w, u)
          \/ \E r \in Rewards : Claim(w, u, r)
          \/ Expire(w, u)
    BY DEF Begin
  <1>2. PICK at, kind, r, n : /\ at \in {"create", "reward", "select", "post"}
                              /\ Request(w, at, kind, u, r, n)
    <2>1. CASE Open(w, u)
      BY <2>1 DEF Open
    <2>2. ASSUME NEW kind \in Awarded, Award(w, u, kind)
          PROVE  \E at \in {"create", "post"} :
                   Request(w, at, kind, u, NoReward,
                           AwardPoints[kind][account[u].tier])
      BY <2>2 DEF Award
    <2>3. CASE Discount(w, u)
      BY <2>3 DEF Discount
    <2>4. CASE \E r \in Rewards : Claim(w, u, r)
      BY <2>4 DEF Claim
    <2>5. CASE Expire(w, u)
      BY <2>5 DEF Expire
    <2> QED BY <1>1, <2>1, <2>2, <2>3, <2>4, <2>5
  <1> QED BY <1>2, SerialRequest

(* A request ends with its books settled: it has answered, or was refused  *)
(* before it posted anything.                                              *)
LEMMA SerialRelease ==
  ASSUME Inv, SerialInv, NEW w \in Workers, Release(w),
         worker[w].at \in {"reward", "limit", "select", "answer"},
         UNCHANGED <<account, posted, totalRedeemed>>
  PROVE  SerialInv'
  <1>1. worker[w].user \in Users /\ InBooks(w) /\ Alone(w)
    BY BusyWorker, BusyAlone DEF SerialInv
  <1>2. PICK u \in Users : u = worker[w].user
    BY <1>1
  <1>3. Others(w) /\ worker'[w].at = "idle"
    BY DEF Release, Others, Idle, Inv, RowsOK
  <1>4. account[u].referrals \in Nat
    BY DEF Inv, RowsOK, Account
  <1>5. Settled(u)'
    BY <1>1, <1>2, <1>4
    DEF InBooks, OwesReferral, Settled, HasBooks, Balance, Credits
  <1>6. \A r \in Rewards : ~OwesCount(w, r) /\ ~OwesCount(w, r)'
    BY <1>3 DEF OwesCount
  <1>7. UsesAreCounted'
    BY <1>1, <1>3, <1>6, UsesStay DEF SerialInv
  <1>8. ~account'[u].exists => account'[u] = NoAccount
    BY DEF SerialInv, NoneYet
  <1> QED BY <1>1, <1>2, <1>3, <1>5, <1>7, <1>8, SerialStep

(* A check of the request, which changes no table.                         *)
LEMMA SerialCheck ==
  ASSUME Inv, SerialInv, NEW w \in Workers,
         worker[w].at \in {"reward", "limit", "select"},
         Others(w), worker'[w].at \in {"limit", "post", "flag"},
         worker'[w].user = worker[w].user, worker'[w].seen = worker[w].seen,
         UNCHANGED <<account, posted, totalRedeemed>>
  PROVE  SerialInv'
  <1>1. worker[w].user \in Users /\ InBooks(w) /\ Alone(w)
    BY BusyWorker, BusyAlone DEF SerialInv
  <1>2. InBooks(w)'
    BY <1>1 DEF InBooks, OwesReferral, HasBooks, Balance, Credits
  <1>3. \A r \in Rewards : ~OwesCount(w, r) /\ ~OwesCount(w, r)'
    BY DEF OwesCount
  <1>4. UsesAreCounted'
    BY <1>1, <1>3, UsesStay DEF SerialInv
  <1>5. ~account'[worker[w].user].exists => account'[worker[w].user] = NoAccount
    BY <1>1 DEF SerialInv, NoneYet
  <1> QED BY <1>1, <1>2, <1>4, <1>5, SerialStep

(* The account that is inserted has the books of a user without one.       *)
LEMMA SerialInsert ==
  ASSUME Inv, SerialInv, NEW w \in Workers, Insert(w)
  PROVE  SerialInv'
  <1> DEFINE new == [NoAccount EXCEPT !.exists = TRUE]
  <1>1. /\ worker[w].at = "create" /\ UNCHANGED <<posted, totalRedeemed>>
        /\ ~account[worker[w].user].exists
        /\ account' = [account EXCEPT ![worker[w].user] = new]
    BY DEF Insert
  <1>2. worker[w].user \in Users /\ InBooks(w) /\ Alone(w)
    BY <1>1, BusyWorker, BusyAlone DEF SerialInv
  <1>3. PICK u \in Users : u = worker[w].user
    BY <1>2
  <1>4. account[u] = NoAccount
    BY <1>1, <1>3 DEF SerialInv, NoneYet
  <1>5. /\ new.points = account[u].points /\ new.lifetime = account[u].lifetime
        /\ new.referrals = account[u].referrals /\ new.exists
    BY <1>4 DEF NoAccount
  <1> HIDE DEF new
  <1>6. account'[u] = new /\ \A i \in Users \ {u} : account'[i] = account[i]
    BY <1>1, <1>3 DEF Inv, RowsOK
  <1>7. /\ Others(w) /\ worker'[w].at = "post" /\ worker'[w].user = u
        /\ worker'[w].seen = new
    <2>1. worker' = [worker EXCEPT ![w].at = "post", ![w].bonus = TRUE,
                                   ![w].seen = new]
      BY <1>3, <1>6 DEF Insert
    <2>2. /\ worker'[w] = [worker[w] EXCEPT !.at = "post", !.bonus = TRUE,
                                            !.seen = new]
          /\ Others(w) /\ worker[w] \in Worker
      BY <2>1 DEF Others, Inv, RowsOK
    <2> QED BY <1>3, <2>2 DEF Worker
  <1>8. InBooks(w)'
    <2>1. ~OwesReferral(w) /\ ~OwesReferral(w)'
      BY <1>1, <1>7 DEF OwesReferral
    <2>2. HasBooks(account[u], u) /\ posted[u].referrals = account[u].referrals + 0
      BY <1>1, <1>2, <1>3, <2>1 DEF InBooks
    <2>3. HasBooks(new, u)'
      BY <1>1, <1>5, <2>2 DEF HasBooks, Balance, Credits
    <2> QED BY <1>1, <1>5, <1>6, <1>7, <2>1, <2>2, <2>3
            DEF InBooks, HasBooks, Balance, Credits
  <1>9. \A r \in Rewards : ~OwesCount(w, r) /\ ~OwesCount(w, r)'
    BY <1>1, <1>7 DEF OwesCount
  <1>10. UsesAreCounted'
    BY <1>1, <1>2, <1>7, <1>9, UsesStay DEF SerialInv
  <1> QED BY <1>1, <1>2, <1>3, <1>5, <1>6, <1>7, <1>8, <1>10, SerialStep

(* A change of the balance that is to be written.                          *)
LEMMA ChangedBooks ==
  ASSUME RowsOK, NEW u \in Users, NEW change \in Int,
         HasBooks(account[u], u),
         Balance(u)' = Balance(u) + change,
         Credits(u)' = Credits(u) + (IF change > 0 THEN change ELSE 0),
         account' = account
  PROVE  HasBooks(Updated(account[u], change), u)'
  <1>1. account[u] \in Account
    BY DEF RowsOK
  <1>2. /\ Updated(account[u], change).points = account[u].points + change
        /\ Updated(account[u], change).lifetime =
             IF change > 0 THEN account[u].lifetime + change
             ELSE account[u].lifetime
    BY <1>1, UpdatedType
  <1>3. account[u].lifetime \in Nat
    BY <1>1 DEF Account
  <1> QED BY <1>2, <1>3 DEF HasBooks

(* Points expire: the transactions are ahead of the balance by as much.    *)
LEMMA SerialFlagExpired ==
  ASSUME Inv, SerialInv, NEW w \in Workers, FlagExpired(w)
  PROVE  SerialInv'
  <1>1. /\ worker[w].at = "flag" /\ UNCHANGED <<account, totalRedeemed>>
        /\ worker' = [worker EXCEPT ![w].at = "write"]
    BY DEF FlagExpired
  <1>2. /\ worker[w].user \in Users /\ InBooks(w) /\ Alone(w) /\ InOrder(w)
        /\ worker[w].points \in Nat
    BY <1>1, BusyWorker, BusyAlone, WorkerType DEF SerialInv, Inv, RowsOK
  <1>3. PICK u \in Users : u = worker[w].user
    BY <1>2
  <1>4. PICK n \in Nat : n = worker[w].points
    BY <1>2
  <1>5. worker[w].kind = "expire" /\ ~worker[w].bonus
    BY <1>1, <1>2 DEF InOrder
  <1>6. /\ Others(w) /\ worker'[w].at = "write" /\ worker'[w].kind = "expire"
        /\ worker'[w].user = u /\ worker'[w].points = n
        /\ ~worker'[w].bonus /\ worker'[w].seen = worker[w].seen
    BY <1>1, <1>3, <1>4, <1>5, Reaches DEF Inv
  <1>7. /\ posted'[u].expired = posted[u].expired + n
        /\ posted'[u].earned = posted[u].earned
        /\ posted'[u].adjusted = posted[u].adjusted
        /\ posted'[u].redeemed = posted[u].redeemed
        /\ posted'[u].referrals = posted[u].referrals
        /\ posted'[u].uses = posted[u].uses
        /\ \A i \in Users \ {u} : posted'[i] = posted[i]
    <2>1. PICK flagged :
            posted' = [posted EXCEPT ![u].expired = @ + n, ![u].flagged = flagged]
      BY <1>3, <1>4 DEF FlagExpired
    <2>2. /\ posted'[u] = [posted[u] EXCEPT !.expired = @ + n, !.flagged = flagged]
          /\ \A i \in Users \ {u} : posted'[i] = posted[i]
          /\ posted[u] \in Transactions
      BY <2>1 DEF Inv, RowsOK
    <2> QED BY <2>2 DEF Transactions
  <1>8. Change(w)' = -n
    BY <1>6 DEF Change, Amount, Redeems
  <1>9. HasBooks(account[u], u)
    BY <1>1, <1>2, <1>3 DEF InBooks
  <1>10. /\ Credits(u) \in Nat /\ Credits(u)' = Credits(u)
         /\ posted[u].redeemed \in Nat /\ posted[u].expired \in Nat
         /\ posted[u].referrals \in Nat
    BY <1>7, CreditsType DEF Credits, Inv, RowsOK
  <1>11. Balance(u)' = Balance(u) + -n
    BY <1>7, <1>10 DEF Balance
  <1>12. HasBooks(Updated(account[u], -n), u)'
    <2>1. Credits(u)' = Credits(u) + (IF -n > 0 THEN -n ELSE 0)
      BY <1>10
    <2> QED BY <1>1, <1>9, <1>11, <2>1, ChangedBooks DEF Inv
  <1>13. InBooks(w)'
    <2>1. ~OwesReferral(w) /\ ~OwesReferral(w)'
      BY <1>1, <1>6 DEF OwesReferral
    <2> QED BY <1>1, <1>2, <1>3, <1>6, <1>7, <1>8, <1>12, <2>1
            DEF InBooks, HasBooks, Balance, Credits
  <1>14. \A r \in Rewards : ~OwesCount(w, r) /\ ~OwesCount(w, r)'
    BY <1>5, <1>6 DEF OwesCount
  <1>15. \A i \in Users : posted'[i].uses = posted[i].uses
    BY <1>7
  <1>16. UsesAreCounted'
    BY <1>1, <1>2, <1>6, <1>14, <1>15, UsesStay DEF SerialInv
  <1>17. ~account'[u].exists => account'[u] = NoAccount
    BY <1>1 DEF SerialInv, NoneYet
  <1> QED BY <1>1, <1>2, <1>3, <1>6, <1>7, <1>13, <1>16, <1>17, SerialStep

(* A redemption of a reward is posted: one more is owed to its count.      *)
LEMMA SerialPostUses ==
  ASSUME Inv, SerialInv, NEW w \in Workers, Alone(w), Others(w),
         worker[w].at = "post", worker'[w].at = "write",
         worker'[w].kind = worker[w].kind, worker'[w].reward = worker[w].reward,
         NEW u \in Users, totalRedeemed' = totalRedeemed,
         posted'[u].uses = IF worker[w].kind = "claim"
                           THEN [posted[u].uses EXCEPT ![worker[w].reward] = @ + 1]
                           ELSE posted[u].uses,
         \A i \in Users \ {u} : posted'[i] = posted[i]
  PROVE  UsesAreCounted'
  <1>1. CASE worker[w].kind # "claim"
    <2>1. \A r \in Rewards : ~OwesCount(w, r) /\ ~OwesCount(w, r)'
      BY <1>1 DEF OwesCount
    <2>2. \A i \in Users : posted'[i].uses = posted[i].uses
      BY <1>1
    <2> QED BY <2>1, <2>2, UsesStay DEF SerialInv
  <1>2. CASE worker[w].kind = "claim"
    <2>1. PICK reward \in Rewards : reward = worker[w].reward
      BY <1>2 DEF Inv, RowsOK
    <2>2. SUFFICES ASSUME NEW r \in Rewards
                   PROVE  UsesOf(r)' = totalRedeemed'[r]
                            + (IF \E v \in Workers : OwesCount(v, r)' THEN 1 ELSE 0)
      BY DEF UsesAreCounted
    <2>3. /\ (\E v \in Workers : OwesCount(v, r)) <=> FALSE
          /\ (\E v \in Workers : OwesCount(v, r)') <=> r = reward
      BY <1>2, <2>1, OwingAlone DEF OwesCount
    <2>4. UsesOf(r) = totalRedeemed[r] /\ totalRedeemed[r] \in Nat
      BY <2>3 DEF SerialInv, UsesAreCounted, Inv, RowsOK
    <2>5. /\ posted[u].uses \in [Rewards -> Nat]
          /\ posted'[u].uses = [posted[u].uses EXCEPT ![reward] = @ + 1]
          /\ \A i \in Users : posted[i].uses[r] \in Nat
      BY <1>2, <2>1, CreditsType DEF Inv, RowsOK
    <2>6. Uses(r) \in [Users -> Nat]
      BY <2>5 DEF Uses
    <2>7. CASE r = reward
      <3>1. posted'[u].uses[r] = posted[u].uses[r] + 1
        BY <2>5, <2>7
      <3>2. Uses(r)' = [Uses(r) EXCEPT ![u] = @ + 1]
        BY <3>1 DEF Uses
      <3>3. UsesOf(r)' = UsesOf(r) + 1
        BY <2>6, <3>2, SumOfOneMore, UsesAreSum, FiniteUsers
      <3> QED BY <2>3, <2>4, <2>7, <3>3
    <2>8. CASE r # reward
      <3>1. posted'[u].uses[r] = posted[u].uses[r]
        BY <2>5, <2>8
      <3>2. Uses(r)' = Uses(r)
        BY <3>1 DEF Uses
      <3>3. UsesOf(r)' = UsesOf(r)
        BY <3>2, UsesAreSum
      <3> QED BY <2>3, <2>4, <2>8, <3>3
    <2> QED BY <2>7, <2>8
  <1> QED BY <1>1, <1>2

(* A transaction is posted: the balance is behind by the change to write.  *)
LEMMA SerialPost ==
  ASSUME Inv, SerialInv, NEW w \in Workers, Post(w)
  PROVE  SerialInv'
  <1>1. /\ worker[w].at = "post" /\ UNCHANGED <<account, totalRedeemed>>
        /\ worker' = [worker EXCEPT ![w].at = "write"]
    BY DEF Post
  <1>2. /\ worker[w].user \in Users /\ InBooks(w) /\ Alone(w) /\ InOrder(w)
        /\ worker[w].bonus => worker[w].kind \in Awards \cup {"open"}
        /\ worker[w].kind # "expire"
    BY <1>1, BusyWorker, BusyAlone DEF SerialInv, InOrder
  <1>3. PICK u \in Users : u = worker[w].user
    BY <1>2
  <1>4. /\ Others(w) /\ worker'[w].at = "write" /\ worker'[w].user = u
        /\ worker'[w].kind = worker[w].kind
        /\ worker'[w].reward = worker[w].reward
        /\ worker'[w].points = worker[w].points
        /\ worker'[w].bonus = worker[w].bonus
        /\ worker'[w].seen = worker[w].seen
    BY <1>1, <1>3, Reaches DEF Inv
  <1>5. PICK n \in Nat, change \in Int :
          /\ n = Amount(w) /\ change = Change(w) /\ change \in {n, -n}
          /\ Redeems(w) => change = -n
    BY AmountType DEF Inv, RowsOK
  <1>6. Redeems(w) \/ change = n
    BY <1>2, <1>5 DEF Change
  <1>7. PICK next \in Transactions :
          /\ posted' = [posted EXCEPT ![u] = next]
          /\ Adds(w, posted[u], next, n)
    <2>1. Adds(w, posted[u], Posting(w), n)
      BY <1>1, <1>3, <1>5, PostingType DEF Inv
    <2> QED BY <1>3, <2>1 DEF Post, Adds
  <1>8. posted'[u] = next /\ \A i \in Users \ {u} : posted'[i] = posted[i]
    BY <1>7 DEF Inv, RowsOK
  <1>9. PostsRedemption(w) <=> Redeems(w)
    BY <1>2 DEF PostsRedemption, Redeems, Awards
  <1>10. PostsClaim(w) <=> worker[w].kind = "claim"
    BY <1>2 DEF PostsClaim, Awards
  <1>11. /\ posted[u].earned \in Nat /\ posted[u].adjusted \in Nat
         /\ posted[u].redeemed \in Nat /\ posted[u].expired \in Nat
         /\ posted[u].referrals \in Nat
         /\ next.earned \in Nat /\ next.adjusted \in Nat
         /\ next.redeemed \in Nat /\ next.expired \in Nat
    BY CreditsType DEF Inv, RowsOK, Transactions
  <1>12. /\ Balance(u)' = Balance(u) + change
         /\ Credits(u)' = Credits(u) + (IF change > 0 THEN change ELSE 0)
    <2>1. /\ Credits(u) = posted[u].earned + posted[u].adjusted
          /\ Credits(u)' = next.earned + next.adjusted
          /\ Balance(u) = Credits(u) - posted[u].redeemed - posted[u].expired
          /\ Balance(u)' = Credits(u)' - next.redeemed - next.expired
      BY <1>8 DEF Credits, Balance
    <2>2. CASE Redeems(w)
      BY <1>5, <1>7, <1>9, <1>11, <2>1, <2>2 DEF Adds
    <2>3. CASE ~Redeems(w)
      BY <1>5, <1>6, <1>7, <1>9, <1>11, <2>1, <2>3 DEF Adds
    <2> QED BY <2>2, <2>3
  <1>13. HasBooks(Updated(account[u], change), u)'
    <2>1. HasBooks(account[u], u)
      BY <1>1, <1>2, <1>3 DEF InBooks
    <2> QED BY <1>1, <1>12, <2>1, ChangedBooks DEF Inv
  <1>14. Change(w)' = change
    BY <1>4, <1>5 DEF Change, Amount, Redeems
  <1>15. posted'[u].referrals =
           account[u].referrals + (IF OwesReferral(w)' THEN 1 ELSE 0)
    <2>1. OwesReferral(w)' <=> PostsReferral(w)
      BY <1>4 DEF OwesReferral, PostsReferral
    <2>2. ~OwesReferral(w) /\ account[u].referrals \in Nat
      BY <1>1 DEF OwesReferral, Inv, RowsOK, Account
    <2>3. posted[u].referrals = account[u].referrals
      BY <1>2, <1>3, <2>2 DEF InBooks
    <2> QED BY <1>7, <1>8, <2>1, <2>3 DEF Adds
  <1>16. InBooks(w)'
    BY <1>1, <1>2, <1>3, <1>4, <1>13, <1>14, <1>15
    DEF InBooks, HasBooks, Balance, Credits
  <1>17. UsesAreCounted'
    <2>1. posted'[u].uses = IF worker[w].kind = "claim"
                            THEN [posted[u].uses EXCEPT ![worker[w].reward] = @ + 1]
                            ELSE posted[u].uses
      BY <1>7, <1>8, <1>10 DEF Adds
    <2> QED BY <1>1, <1>2, <1>4, <1>8, <2>1, SerialPostUses
  <1>18. ~account'[u].exists => account'[u] = NoAccount
    BY <1>1 DEF SerialInv, NoneYet
  <1> QED BY <1>1, <1>2, <1>3, <1>4, <1>8, <1>16, <1>17, <1>18, SerialStep

(* The change is written to the row the session has read: they agree.      *)
LEMMA SerialWrite ==
  ASSUME Inv, SerialInv, NEW w \in Workers, Write(w)
  PROVE  SerialInv'
  <1>1. worker[w].at = "write" /\ UNCHANGED <<posted, totalRedeemed>>
    BY DEF Write
  <1>2. /\ worker[w].user \in Users /\ InBooks(w) /\ Alone(w) /\ InOrder(w)
        /\ worker[w].bonus => worker[w].kind \in Awards \cup {"open"}
        /\ worker[w].seen \in Account
    BY <1>1, BusyWorker, BusyAlone, WorkerType DEF SerialInv, Inv, RowsOK
  <1>3. PICK u \in Users : u = worker[w].user
    BY <1>2
  <1>4. PICK seen \in Account : seen = worker[w].seen
    BY <1>2
  <1>5. PICK change \in Int : change = Change(w)
    BY AmountType DEF Inv, RowsOK
  <1>6. PICK row \in Account :
          /\ row = Updated(seen, change)
          /\ row.points = seen.points + change
          /\ row.lifetime = IF change > 0 THEN seen.lifetime + change
                            ELSE seen.lifetime
          /\ row.referrals = seen.referrals
    BY UpdatedType
  <1>7. /\ account[u] \in Account /\ account[u].exists
        /\ account[u].points = seen.points /\ account[u].lifetime = seen.lifetime
        /\ account[u].referrals = seen.referrals
        /\ HasBooks(Updated(account[u], change), u)
    BY <1>1, <1>2, <1>3, <1>4, <1>5 DEF InBooks, InOrder, Inv, RowsOK
  <1>8. row.points = Balance(u) /\ row.lifetime = Credits(u)
    BY <1>6, <1>7, UpdatedType DEF HasBooks
  <1>9. /\ account'[u].points = row.points /\ account'[u].lifetime = row.lifetime
        /\ account'[u].referrals = account[u].referrals /\ account'[u].exists
        /\ \A i \in Users \ {u} : account'[i] = account[i]
    <2>1. account' = [account EXCEPT ![u].points = row.points,
                                     ![u].lifetime = row.lifetime]
      BY <1>3, <1>4, <1>5, <1>6 DEF Write
    <2>2. /\ account'[u] = [account[u] EXCEPT !.points = row.points,
                                              !.lifetime = row.lifetime]
          /\ \A i \in Users \ {u} : account'[i] = account[i]
      BY <2>1 DEF Inv, RowsOK
    <2> QED BY <1>7, <2>2 DEF Account
  <1>10. /\ Others(w) /\ worker'[w].at = AfterWrite(w) /\ worker'[w].user = u
         /\ worker'[w].kind = worker[w].kind
         /\ worker'[w].reward = worker[w].reward
         /\ ~worker'[w].bonus /\ worker'[w].seen = row
    <2>1. worker' = [worker EXCEPT ![w].at = AfterWrite(w), ![w].bonus = FALSE,
                                   ![w].seen = row]
      BY <1>3, <1>4, <1>5, <1>6 DEF Write
    <2>2. /\ worker'[w] = [worker[w] EXCEPT !.at = AfterWrite(w), !.bonus = FALSE,
                                            !.seen = row]
          /\ Others(w) /\ worker[w] \in Worker
      BY <2>1 DEF Others, Inv, RowsOK
    <2> QED BY <1>3, <2>2 DEF Worker
  <1>11. /\ worker'[w].at \in {"post", "refer", "count", "answer"}
         /\ worker'[w].at = "refer"
              <=> ~worker[w].bonus /\ worker[w].kind = "referral"
         /\ worker[w].kind = "claim" => worker'[w].at = "count"
    BY <1>2, <1>10 DEF AfterWrite, Awards
  <1>12. InBooks(w)'
    <2>1. OwesReferral(w)' <=> OwesReferral(w)
      BY <1>1, <1>10, <1>11 DEF OwesReferral
    <2>2. posted[u].referrals =
            account[u].referrals + (IF OwesReferral(w) THEN 1 ELSE 0)
      BY <1>2, <1>3 DEF InBooks
    <2>3. HasBooks(account[u], u)'
      BY <1>1, <1>8, <1>9 DEF HasBooks, Balance, Credits
    <2> QED BY <1>1, <1>6, <1>7, <1>9, <1>10, <1>11, <2>1, <2>2, <2>3
            DEF InBooks, HasBooks, Balance, Credits
  <1>13. \A r \in Rewards : OwesCount(w, r)' <=> OwesCount(w, r)
    BY <1>1, <1>10, <1>11 DEF OwesCount
  <1>14. UsesAreCounted'
    BY <1>1, <1>2, <1>10, <1>13, UsesStay DEF SerialInv
  <1> QED BY <1>1, <1>2, <1>3, <1>9, <1>10, <1>11, <1>12, <1>14, SerialStep

(* The redemption that was posted is counted.                              *)
LEMMA SerialCount ==
  ASSUME Inv, SerialInv, NEW w \in Workers, Count(w)
  PROVE  SerialInv'
  <1>1. /\ worker[w].at = "count" /\ UNCHANGED <<account, posted>>
        /\ totalRedeemed' = [totalRedeemed EXCEPT ![worker[w].reward] = @ + 1]
        /\ worker' = [worker EXCEPT ![w].at = "answer"]
    BY DEF Count
  <1>2. /\ worker[w].user \in Users /\ InBooks(w) /\ Alone(w)
        /\ worker[w].kind = "claim" /\ worker[w].reward \in Rewards
    BY <1>1, BusyWorker, BusyAlone DEF SerialInv, InOrder
  <1>3. /\ Others(w) /\ worker'[w].at = "answer"
        /\ worker'[w].user = worker[w].user
    BY <1>1, Reaches DEF Inv
  <1>4. InBooks(w)'
    BY <1>1, <1>2, <1>3 DEF InBooks, OwesReferral, HasBooks, Balance, Credits
  <1>5. UsesAreCounted'
    <2>1. SUFFICES ASSUME NEW r \in Rewards
                   PROVE  UsesOf(r)' = totalRedeemed'[r]
                            + (IF \E v \in Workers : OwesCount(v, r)' THEN 1 ELSE 0)
      BY DEF UsesAreCounted
    <2>2. /\ (\E v \in Workers : OwesCount(v, r)) <=> r = worker[w].reward
          /\ (\E v \in Workers : OwesCount(v, r)') <=> FALSE
      BY <1>1, <1>2, <1>3, OwingAlone DEF OwesCount
    <2>3. UsesOf(r) = totalRedeemed[r] + (IF r = worker[w].reward THEN 1 ELSE 0)
      BY <2>2 DEF SerialInv, UsesAreCounted
    <2>4. Uses(r)' = Uses(r)
      BY <1>1 DEF Uses
    <2>5. UsesOf(r)' = UsesOf(r)
      BY <2>4, UsesAreSum
    <2>6. /\ totalRedeemed[r] \in Nat
          /\ totalRedeemed'[r] = IF r = worker[w].reward THEN totalRedeemed[r] + 1
                                 ELSE totalRedeemed[r]
      BY <1>1, <1>2 DEF Inv, RowsOK
    <2> QED BY <2>2, <2>3, <2>5, <2>6
  <1>6. ~account'[worker[w].user].exists => account'[worker[w].user] = NoAccount
    BY <1>1, <1>2 DEF SerialInv, NoneYet
  <1> QED BY <1>1, <1>2, <1>3, <1>4, <1>5, <1>6, SerialStep

(* The referral that was posted is counted.                                *)
LEMMA SerialCountReferral ==
  ASSUME Inv, SerialInv, NEW w \in Workers, CountReferral(w)
  PROVE  SerialInv'
  <1>1. /\ worker[w].at = "refer" /\ UNCHANGED <<posted, totalRedeemed>>
        /\ worker' = [worker EXCEPT ![w].at = "answer"]
    BY DEF CountReferral
  <1>2. /\ worker[w].user \in Users /\ InBooks(w) /\ Alone(w)
        /\ account[worker[w].user].exists
    BY <1>1, BusyWorker, BusyAlone DEF SerialInv, InOrder
  <1>3. PICK u \in Users : u = worker[w].user
    BY <1>2
  <1>4. Others(w) /\ worker'[w].at = "answer" /\ worker'[w].user = u
    BY <1>1, <1>3, Reaches DEF Inv
  <1>5. /\ account'[u].referrals = worker[w].seen.referrals + 1
        /\ account'[u].points = account[u].points
        /\ account'[u].lifetime = account[u].lifetime /\ account'[u].exists
        /\ \A i \in Users \ {u} : account'[i] = account[i]
    <2>1. account' =
            [account EXCEPT ![u].referrals = worker[w].seen.referrals + 1]
      BY <1>3 DEF CountReferral
    <2>2. /\ account'[u] = [account[u] EXCEPT
                              !.referrals = worker[w].seen.referrals + 1]
          /\ \A i \in Users \ {u} : account'[i] = account[i]
          /\ account[u] \in Account
      BY <2>1 DEF Inv, RowsOK
    <2> QED BY <1>2, <1>3, <2>2 DEF Account
  <1>6. InBooks(w)'
    <2>1. OwesReferral(w) /\ ~OwesReferral(w)'
      BY <1>1, <1>4 DEF OwesReferral
    <2>2. /\ worker[w].seen.referrals = account[u].referrals
          /\ posted[u].referrals = account[u].referrals + 1
          /\ HasBooks(account[u], u) /\ posted[u].referrals \in Nat
      BY <1>1, <1>2, <1>3, <2>1, CreditsType DEF InBooks, Inv, RowsOK
    <2> QED BY <1>1, <1>4, <1>5, <2>1, <2>2
            DEF InBooks, HasBooks, Balance, Credits
  <1>7. \A r \in Rewards : ~OwesCount(w, r) /\ ~OwesCount(w, r)'
    BY <1>1, <1>4 DEF OwesCount
  <1>8. UsesAreCounted'
    BY <1>1, <1>2, <1>4, <1>7, UsesStay DEF SerialInv
  <1> QED BY <1>1, <1>2, <1>3, <1>4, <1>5, <1>6, <1>8, SerialStep

(* An administrator's change leaves the totals of the account alone.       *)
LEMMA SerialAdminister ==
  ASSUME Inv, SerialInv, Administer
  PROVE  SerialInv'
  <1> USE DEF SerialInv
  <1>1. UNCHANGED <<posted, totalRedeemed, worker>>
    BY DEF Administer, Suspend, Reactivate, UpgradeTier, SetAccount
  <1>2. \A i \in Users : /\ account'[i].points = account[i].points
                         /\ account'[i].lifetime = account[i].lifetime
                         /\ account'[i].referrals = account[i].referrals
                         /\ ~account'[i].exists => account'[i] = account[i]
    <2>1. PICK u \in Users : Suspend(u) \/ Reactivate(u) \/ UpgradeTier(u)
      BY DEF Administer
    <2>2. PICK row :
            /\ account' = [account EXCEPT ![u] = row] /\ account[u].exists
            /\ \/ row = [account[u] EXCEPT !.suspended = TRUE]
               \/ row = [account[u] EXCEPT !.suspended = FALSE]
               \/ \E t \in Tiers : row = [account[u] EXCEPT !.tier = t]
      BY <2>1 DEF Suspend, Reactivate, UpgradeTier, SetAccount
    <2>3. account[u] \in Account /\ account \in [Users -> Account]
      BY DEF Inv, RowsOK
    <2>4. /\ row.points = account[u].points /\ row.lifetime = account[u].lifetime
          /\ row.referrals = account[u].referrals
          /\ row.exists = account[u].exists
      BY <2>2, <2>3 DEF Account
    <2> QED BY <2>2, <2>3, <2>4
  <1>3. \A i \in Users : Balance(i)' = Balance(i) /\ Credits(i)' = Credits(i)
    BY <1>1 DEF Balance, Credits
  <1>4. OneAtWork'
    BY <1>1 DEF OneAtWork
  <1>5. NoneYet'
    BY <1>2 DEF NoneYet
  <1>6. UsesAreCounted'
    <2>1. \A r \in Rewards : Uses(r)' = Uses(r)
      BY <1>1 DEF Uses
    <2>2. \A r \in Rewards : UsesOf(r)' = UsesOf(r)
      BY <2>1, UsesAreSum
    <2> QED BY <1>1, <2>2 DEF UsesAreCounted, OwesCount
  <1>7. ASSUME NEW u \in Users,
               \A w \in Workers : worker'[w].at = "idle" \/ worker'[w].user # u
        PROVE  Settled(u)'
    BY <1>1, <1>2, <1>3, <1>7 DEF Settled, HasBooks
  <1>8. ASSUME NEW w \in Workers, worker'[w].at # "idle"
        PROVE  InBooks(w)'
    <2>1. InBooks(w) /\ worker[w].user \in Users
      BY <1>1, <1>8, BusyWorker
    <2>2. PICK u \in Users : u = worker[w].user
      BY <2>1
    <2>3. Change(w)' = Change(w) /\ Change(w) \in Int
      BY <1>1, AmountType DEF Change, Amount, Redeems, Inv, RowsOK
    <2>4. PICK change \in Int : change = Change(w)
      BY <2>3
    <2>5. account[u] \in Account /\ account'[u] \in Account
      BY AdministerStep DEF Inv, RowsOK
    <2>6. /\ Updated(account'[u], change).points = Updated(account[u], change).points
          /\ Updated(account'[u], change).lifetime =
               Updated(account[u], change).lifetime
      BY <1>2, <2>5, UpdatedType
    <2>7. OwesReferral(w)' <=> OwesReferral(w)
      BY <1>1 DEF OwesReferral
    <2> QED BY <1>1, <1>2, <1>3, <2>1, <2>2, <2>3, <2>4, <2>6, <2>7
            DEF InBooks, HasBooks
  <1> QED BY <1>4, <1>5, <1>6, <1>7, <1>8

(* In the initial states there are no books.                               *)
LEMMA SerialInit ==
  ASSUME Init
  PROVE  SerialInv
  <1>1. /\ \A u \in Users : account[u] = NoAccount /\ posted[u] = NoTransactions
        /\ \A r \in Rewards : totalRedeemed[r] = 0
        /\ \A w \in Workers : worker[w].at = "idle"
    BY DEF Init, Idle
  <1>2. \A u \in Users : Settled(u)
    BY <1>1 DEF Settled, HasBooks, Balance, Credits, NoAccount, NoTransactions
  <1>3. UsesAreCounted
    <2>1. \A r \in Rewards : Uses(r) = [u \in Users |-> 0]
      BY <1>1 DEF Uses, NoTransactions
    <2>2. \A r \in Rewards : UsesOf(r) = 0
      BY <2>1, UsesAreSum, SumOfZeros, FiniteUsers
    <2> QED BY <1>1, <2>2 DEF UsesAreCounted, OwesCount
  <1>4. OneAtWork /\ NoneYet
    BY <1>1 DEF OneAtWork, NoneYet
  <1> QED BY <1>1, <1>2, <1>3, <1>4 DEF SerialInv

(* Every step of requests that run one at a time keeps the books.          *)
LEMMA SerialNextIsRight ==
  ASSUME Inv, SerialInv, [SerialNext]_vars
  PROVE  SerialInv'
  <1>1. ASSUME NEW w \in Workers, AllIdle, Begin(w) PROVE SerialInv'
    BY <1>1, SerialBegin
  <1>2. ASSUME NEW w \in Workers, Continue(w) PROVE SerialInv'
    <2>1. CASE Insert(w)
      BY <2>1, SerialInsert
    <2>2. CASE ReadReward(w)
      <3>1. /\ worker' = [worker EXCEPT ![w].at = "limit"]
            /\ worker[w].at = "reward"
            /\ UNCHANGED <<account, posted, totalRedeemed>>
        BY <2>2 DEF ReadReward
      <3> QED BY <3>1, Reaches, SerialCheck DEF Inv
    <2>3. CASE CheckLimit(w)
      <3>1. /\ worker' = [worker EXCEPT ![w].at = "post"]
            /\ worker[w].at = "limit"
            /\ UNCHANGED <<account, posted, totalRedeemed>>
        BY <2>3 DEF CheckLimit
      <3> QED BY <3>1, Reaches, SerialCheck DEF Inv
    <2>4. CASE SelectExpired(w)
      <3>1. PICK end, n : worker' = [worker EXCEPT ![w].at = "flag",
                                       ![w].upto = end, ![w].points = n]
        BY <2>4 DEF SelectExpired
      <3>2. /\ worker'[w] = [worker[w] EXCEPT !.at = "flag", !.upto = end,
                                              !.points = n]
            /\ Others(w) /\ worker[w] \in Worker
        BY <3>1 DEF Others, Inv, RowsOK
      <3>3. /\ worker'[w].at = "flag" /\ worker'[w].user = worker[w].user
            /\ worker'[w].seen = worker[w].seen
        BY <3>2 DEF Worker
      <3> QED BY <2>4, <3>2, <3>3, SerialCheck DEF SelectExpired
    <2>5. CASE FlagExpired(w)
      BY <2>5, SerialFlagExpired
    <2>6. CASE Post(w)
      BY <2>6, SerialPost
    <2>7. CASE Write(w)
      BY <2>7, SerialWrite
    <2>8. CASE Count(w)
      BY <2>8, SerialCount
    <2>9. CASE CountReferral(w)
      BY <2>9, SerialCountReferral
    <2>10. CASE Answer(w)
      BY <2>10, SerialRelease DEF Answer
    <2> QED BY <1>2, <2>1, <2>2, <2>3, <2>4, <2>5, <2>6, <2>7, <2>8, <2>9, <2>10
            DEF Continue
  <1>3. ASSUME NEW w \in Workers, Refuse(w) PROVE SerialInv'
    BY <1>3, SerialRelease DEF Refuse, Stop
  <1>4. CASE Administer
    BY <1>4, SerialAdminister
  <1>5. CASE UNCHANGED vars
    <2>1. /\ account' = account /\ posted' = posted
          /\ totalRedeemed' = totalRedeemed /\ worker' = worker
      BY <1>5 DEF vars
    <2>2. \A r \in Rewards : UsesOf(r)' = UsesOf(r)
      <3>1. \A r \in Rewards : Uses(r)' = Uses(r)
        BY <2>1 DEF Uses
      <3> QED BY <3>1, UsesAreSum
    <2>3. OneAtWork' /\ NoneYet' /\ UsesAreCounted'
      BY <2>1, <2>2 DEF SerialInv, OneAtWork, NoneYet, UsesAreCounted, OwesCount
    <2>4. \A u \in Users : Settled(u) => Settled(u)'
      BY <2>1 DEF Settled, HasBooks, Balance, Credits
    <2>5. \A w \in Workers : InBooks(w) => InBooks(w)'
      BY <2>1 DEF InBooks, OwesReferral, HasBooks, Balance, Credits,
                  Change, Amount, Redeems
    <2> QED BY <2>1, <2>3, <2>4, <2>5 DEF SerialInv
  <1> QED BY <1>1, <1>2, <1>3, <1>4, <1>5 DEF SerialNext

(* The steps of requests that run one at a time are steps of the program:  *)
(* whatever is proved of the interleavings holds of them.                  *)
THEOREM SerialImplements == SerialSpec => Spec
  <1>1. [SerialNext]_vars => [Next]_vars
    BY DEF SerialNext, Next, Refuse
  <1> QED BY <1>1, PTL DEF SerialSpec, Spec

(* When requests run one at a time, each refused before it has committed   *)
(* or run to its end, then between requests every balance is what the      *)
(* transactions add up to, and every count that of the transactions.       *)
THEOREM BooksCorrect == SerialSpec => []BooksBalance
  <1>1. Init => SerialInv
    BY SerialInit
  <1>2. Inv /\ SerialInv /\ [SerialNext]_vars => SerialInv'
    BY SerialNextIsRight
  <1>3. Inv /\ SerialInv => BooksBalance
    <2>1. SUFFICES ASSUME Inv, SerialInv, AllIdle
                   PROVE  /\ \A u \in Users : Settled(u)
                          /\ \A r \in Rewards : totalRedeemed[r] = UsesOf(r)
      BY DEF BooksBalance, Settled, HasBooks
    <2>2. \A w \in Workers : worker[w].at = "idle"
      BY <2>1 DEF AllIdle, Idle
    <2>3. \A u \in Users : Settled(u)
      BY <2>1, <2>2 DEF SerialInv
    <2>4. ASSUME NEW r \in Rewards PROVE totalRedeemed[r] = UsesOf(r)
      <3>1. UsesOf(r) = totalRedeemed[r] + 0
        BY <2>1, <2>2 DEF SerialInv, UsesAreCounted, OwesCount
      <3>2. totalRedeemed[r] \in Nat
        BY <2>1 DEF Inv, RowsOK
      <3> QED BY <3>1, <3>2
    <2> QED BY <2>3, <2>4
  <1> QED BY <1>1, <1>2, <1>3, SerialImplements, LoyaltyInvariant, PTL
          DEF SerialSpec

(***************************************************************************)
(* The limits of rewards, one request at a time.                           *)
(***************************************************************************)

(* Of one worker alone, only its own claim is under way.                   *)
LEMMA ClaimAlone ==
  ASSUME NEW w \in Workers, Alone(w), Others(w), NEW u \in Users, NEW r \in Rewards
  PROVE  /\ OneOf(Admitted(r)) = IF w \in Admitted(r) THEN 1 ELSE 0
         /\ OneOf(Admitted(r))' = IF w \in Admitted(r)' THEN 1 ELSE 0
         /\ OneOf(Claiming(u, r)) = IF w \in Claiming(u, r) THEN 1 ELSE 0
         /\ OneOf(Claiming(u, r))' = IF w \in Claiming(u, r)' THEN 1 ELSE 0
  BY DEF Alone, Others, Admitted, Claiming, OneOf

(* A step of one worker alone that admits a claim only within the limits.  *)
LEMMA InTurnKept ==
  ASSUME RowsOK, SerialLimits, NEW w \in Workers, Alone(w), Others(w),
         totalRedeemed' = totalRedeemed,
         \A u \in Users : posted'[u].uses = posted[u].uses,
         \A r \in Rewards :
           w \in Admitted(r)' => \/ w \in Admitted(r)
                                 \/ TotalAvailable[r] = 0
                                 \/ totalRedeemed[r] < TotalAvailable[r],
         \A u \in Users, r \in Rewards :
           w \in Claiming(u, r)' => \/ w \in Claiming(u, r)
                                    \/ MaxPerUser[r] = 0
                                    \/ posted[u].uses[r] < MaxPerUser[r]
  PROVE  SerialLimits'
  <1>1. ASSUME NEW r \in Rewards, TotalAvailable[r] > 0
        PROVE  totalRedeemed'[r] + OneOf(Admitted(r))' <= TotalAvailable[r]
    <2>1. totalRedeemed[r] \in Nat /\ TotalAvailable[r] \in Nat
      BY LoyaltyAssumption DEF RowsOK
    <2>2. /\ OneOf(Admitted(r)) = IF w \in Admitted(r) THEN 1 ELSE 0
          /\ OneOf(Admitted(r))' = IF w \in Admitted(r)' THEN 1 ELSE 0
      BY DEF Alone, Others, Admitted, OneOf
    <2>3. totalRedeemed[r] + OneOf(Admitted(r)) <= TotalAvailable[r]
      BY <1>1 DEF SerialLimits
    <2> QED BY <1>1, <2>1, <2>2, <2>3
  <1>2. ASSUME NEW r \in Rewards, MaxPerUser[r] > 0, NEW u \in Users
        PROVE  posted'[u].uses[r] + OneOf(Claiming(u, r))' <= MaxPerUser[r]
    <2>1. posted[u].uses[r] \in Nat /\ MaxPerUser[r] \in Nat
      BY CreditsType, LoyaltyAssumption DEF RowsOK
    <2>2. posted[u].uses[r] + OneOf(Claiming(u, r)) <= MaxPerUser[r]
      BY <1>2 DEF SerialLimits
    <2> QED BY <1>2, <2>1, <2>2, ClaimAlone
  <1> QED BY <1>1, <1>2 DEF SerialLimits

(* A step after which the worker claims nothing.                           *)
LEMMA ClaimsNothing ==
  ASSUME RowsOK, SerialLimits, NEW w \in Workers, Alone(w), Others(w),
         totalRedeemed' = totalRedeemed,
         \A u \in Users : posted'[u].uses = posted[u].uses,
         \/ worker'[w].kind # "claim"
         \/ worker'[w].at \notin {"limit", "post", "write", "count"}
  PROVE  SerialLimits'
  <1>1. /\ \A r \in Rewards : w \notin Admitted(r)'
        /\ \A u \in Users, r \in Rewards : w \notin Claiming(u, r)'
    BY DEF Admitted, Claiming
  <1> QED BY <1>1, InTurnKept

(* The redemption that is posted was the last one the check allowed.       *)
LEMMA PostInTurn ==
  ASSUME Inv, SerialLimits, NEW w \in Workers, Alone(w), Post(w)
  PROVE  SerialLimits'
  <1>1. /\ worker[w].at = "post" /\ totalRedeemed' = totalRedeemed
        /\ worker' = [worker EXCEPT ![w].at = "write"]
    BY DEF Post
  <1>2. /\ worker[w].user \in Users
        /\ worker[w].kind = "claim" => worker[w].reward \in Rewards
        /\ worker[w].bonus => worker[w].kind \in Awards \cup {"open"}
    BY <1>1, BusyWorker
  <1>3. PICK i \in Users : i = worker[w].user
    BY <1>2
  <1>4. /\ Others(w) /\ worker'[w].at = "write"
        /\ worker'[w].kind = worker[w].kind
        /\ worker'[w].reward = worker[w].reward
    BY <1>1, Reaches DEF Inv
  <1>5. PostsClaim(w) <=> worker[w].kind = "claim"
    BY <1>2 DEF PostsClaim, Awards
  <1>6. /\ posted'[i].uses = IF worker[w].kind = "claim"
                             THEN [posted[i].uses EXCEPT ![worker[w].reward] = @ + 1]
                             ELSE posted[i].uses
        /\ \A u \in Users \ {i} : posted'[u] = posted[u]
    <2>1. Adds(w, posted[i], Posting(w), Amount(w))
      BY <1>1, <1>3, PostingType DEF Inv
    <2>2. /\ posted'[i] = Posting(w)
          /\ \A u \in Users \ {i} : posted'[u] = posted[u]
      BY <1>3 DEF Post, Inv, RowsOK
    <2> QED BY <1>5, <2>1, <2>2 DEF Adds
  <1>7. CASE worker[w].kind # "claim"
    <2>1. \A u \in Users : posted'[u].uses = posted[u].uses
      BY <1>6, <1>7
    <2> QED BY <1>1, <1>4, <1>7, <2>1, ClaimsNothing DEF Inv
  <1>8. CASE worker[w].kind = "claim"
    <2>1. ASSUME NEW r \in Rewards, TotalAvailable[r] > 0
          PROVE  totalRedeemed'[r] + OneOf(Admitted(r))' <= TotalAvailable[r]
      <3>1. w \in Admitted(r) <=> w \in Admitted(r)'
        BY <1>1, <1>4 DEF Admitted
      <3>2. OneOf(Admitted(r))' = OneOf(Admitted(r))
        BY <1>3, <1>4, <3>1, ClaimAlone
      <3> QED BY <1>1, <2>1, <3>2 DEF SerialLimits
    <2>2. ASSUME NEW r \in Rewards, MaxPerUser[r] > 0, NEW u \in Users
          PROVE  posted'[u].uses[r] + OneOf(Claiming(u, r))' <= MaxPerUser[r]
      <3>1. /\ posted[u].uses \in [Rewards -> Nat] /\ posted[u].uses[r] \in Nat
            /\ MaxPerUser[r] \in Nat
        BY CreditsType, LoyaltyAssumption DEF Inv, RowsOK
      <3>2. posted[u].uses[r] + OneOf(Claiming(u, r)) <= MaxPerUser[r]
        BY <2>2 DEF SerialLimits
      <3>3. OneOf(Claiming(u, r))' = 0
        <4>1. w \notin Claiming(u, r)'
          BY <1>4 DEF Claiming
        <4> QED BY <1>4, <4>1, ClaimAlone
      <3>4. OneOf(Claiming(u, r)) = IF u = i /\ r = worker[w].reward THEN 1 ELSE 0
        <4>1. w \in Claiming(u, r) <=> u = i /\ r = worker[w].reward
          BY <1>1, <1>3, <1>8 DEF Claiming
        <4> QED BY <1>4, <4>1, ClaimAlone
      <3>5. posted'[u].uses[r] =
              posted[u].uses[r] + (IF u = i /\ r = worker[w].reward THEN 1 ELSE 0)
        <4>1. CASE u = i
          BY <1>6, <1>8, <3>1, <4>1
        <4>2. CASE u # i
          BY <1>6, <3>1, <4>2
        <4> QED BY <4>1, <4>2
      <3> QED BY <3>1, <3>2, <3>3, <3>4, <3>5
    <2> QED BY <2>1, <2>2 DEF SerialLimits
  <1> QED BY <1>7, <1>8

(* The redemption that is counted was admitted.                            *)
LEMMA CountInTurn ==
  ASSUME Inv, SerialLimits, NEW w \in Workers, Alone(w), Count(w)
  PROVE  SerialLimits'
  <1>1. /\ worker[w].at = "count" /\ UNCHANGED <<account, posted>>
        /\ totalRedeemed' = [totalRedeemed EXCEPT ![worker[w].reward] = @ + 1]
        /\ worker' = [worker EXCEPT ![w].at = "answer"]
    BY DEF Count
  <1>2. /\ worker[w].kind = "claim" /\ worker[w].reward \in Rewards
        /\ worker[w].user \in Users
    BY <1>1, BusyWorker DEF InOrder
  <1>3. Others(w) /\ worker'[w].at = "answer"
    BY <1>1, Reaches DEF Inv
  <1>4. ASSUME NEW r \in Rewards, TotalAvailable[r] > 0
        PROVE  totalRedeemed'[r] + OneOf(Admitted(r))' <= TotalAvailable[r]
    <2>1. /\ totalRedeemed[r] \in Nat /\ TotalAvailable[r] \in Nat
          /\ totalRedeemed'[r] = IF r = worker[w].reward THEN totalRedeemed[r] + 1
                                 ELSE totalRedeemed[r]
      <3>1. /\ totalRedeemed \in [Rewards -> Nat]
            /\ TotalAvailable \in [Rewards -> Nat]
        BY LoyaltyAssumption DEF Inv, RowsOK
      <3> QED BY <1>1, <1>2, <3>1
    <2>2. /\ w \in Admitted(r) <=> r = worker[w].reward
          /\ w \notin Admitted(r)'
      BY <1>1, <1>2, <1>3 DEF Admitted
    <2>3. totalRedeemed[r] + OneOf(Admitted(r)) <= TotalAvailable[r]
      BY <1>4 DEF SerialLimits
    <2> QED BY <1>2, <1>3, <2>1, <2>2, <2>3, ClaimAlone
  <1>5. ASSUME NEW r \in Rewards, MaxPerUser[r] > 0, NEW u \in Users
        PROVE  posted'[u].uses[r] + OneOf(Claiming(u, r))' <= MaxPerUser[r]
    <2>1. w \notin Claiming(u, r) /\ w \notin Claiming(u, r)'
      BY <1>1, <1>3 DEF Claiming
    <2>2. OneOf(Claiming(u, r))' = OneOf(Claiming(u, r))
      BY <1>3, <2>1, ClaimAlone
    <2> QED BY <1>1, <1>5, <2>2 DEF SerialLimits
  <1> QED BY <1>4, <1>5 DEF SerialLimits

(* Every step of requests that run one at a time keeps to the limits.      *)
LEMMA InTurnStep ==
  ASSUME Inv, OneAtWork, SerialLimits, [SerialNext]_vars
  PROVE  SerialLimits'
  <1>1. ASSUME NEW w \in Workers, AllIdle, Begin(w) PROVE SerialLimits'
    <2>1. Alone(w)
      BY <1>1 DEF AllIdle, Alone, Idle
    <2>2. PICK u \in Users :
            \/ Open(w, u)
            \/ \E kind \in Awarded : Award(w, u, kind)
            \/ Discount(w, u)
            \/ \E r \in Rewards : Claim(w, u, r)
            \/ Expire(w, u)
      BY <1>1 DEF Begin
    <2>3. PICK at, kind, r, n : /\ Request(w, at, kind, u, r, n)
                                /\ kind # "claim" \/ at = "reward"
      <3>1. CASE Open(w, u)
        BY <3>1 DEF Open
      <3>2. ASSUME NEW kind \in Awarded, Award(w, u, kind)
            PROVE  /\ \E at : Request(w, at, kind, u, NoReward,
                                      AwardPoints[kind][account[u].tier])
                   /\ kind # "claim"
        BY <3>2, LoyaltyAssumption DEF Award, Awards
      <3>3. CASE Discount(w, u)
        BY <3>3 DEF Discount
      <3>4. CASE \E r \in Rewards : Claim(w, u, r)
        BY <3>4 DEF Claim
      <3>5. CASE Expire(w, u)
        BY <3>5 DEF Expire
      <3> QED BY <2>2, <3>1, <3>2, <3>3, <3>4, <3>5
    <2>4. /\ Others(w) /\ worker'[w].at = at /\ worker'[w].kind = kind
          /\ UNCHANGED <<posted, totalRedeemed>>
      <3>1. worker'[w] = [Idle EXCEPT !.at = at, !.kind = kind, !.user = u,
                            !.reward = r, !.points = n, !.seen = account[u]]
        BY <2>3 DEF Request, Inv, RowsOK
      <3>2. Others(w) /\ UNCHANGED <<posted, totalRedeemed>>
        BY <2>3 DEF Request, Others, Inv, RowsOK
      <3> QED BY <3>1, <3>2 DEF Idle
    <2> QED BY <2>1, <2>3, <2>4, ClaimsNothing DEF Inv
  <1>2. ASSUME NEW w \in Workers, Continue(w) PROVE SerialLimits'
    <2>1. Alone(w) /\ worker[w] \in Worker /\ InOrder(w)
      BY <1>2, BusyAlone, BusyWorker
      DEF Continue, Insert, ReadReward, CheckLimit, SelectExpired, FlagExpired,
          Post, Write, Count, CountReferral, Answer
    <2>2. CASE Insert(w)
      <3>1. /\ worker[w].at = "create" /\ UNCHANGED <<posted, totalRedeemed>>
            /\ worker' = [worker EXCEPT ![w].at = "post", ![w].bonus = TRUE,
                            ![w].seen = account'[worker[w].user]]
        BY <2>2 DEF Insert
      <3>2. worker[w].kind # "claim"
        BY <2>1, <3>1 DEF InOrder, Awards
      <3>3. Others(w) /\ worker'[w].kind = worker[w].kind
        <4>1. /\ worker'[w] = [worker[w] EXCEPT !.at = "post", !.bonus = TRUE,
                                 !.seen = account'[worker[w].user]]
              /\ Others(w)
          BY <3>1 DEF Others, Inv, RowsOK
        <4> QED BY <2>1, <4>1 DEF Worker
      <3> QED BY <2>1, <3>1, <3>2, <3>3, ClaimsNothing DEF Inv
    <2>3. CASE ReadReward(w)
      <3>1. /\ worker[w].at = "reward" /\ UNCHANGED <<posted, totalRedeemed>>
            /\ worker' = [worker EXCEPT ![w].at = "limit"]
            /\ \/ TotalAvailable[worker[w].reward] = 0
               \/ totalRedeemed[worker[w].reward]
                    < TotalAvailable[worker[w].reward]
        BY <2>3 DEF ReadReward
      <3>2. /\ Others(w) /\ worker'[w].at = "limit"
            /\ worker'[w].reward = worker[w].reward
        BY <3>1, Reaches DEF Inv
      <3>3. /\ \A r \in Rewards : w \in Admitted(r)' => r = worker[w].reward
            /\ \A u \in Users, r \in Rewards : w \notin Claiming(u, r)'
        BY <3>2 DEF Admitted, Claiming
      <3> QED BY <2>1, <3>1, <3>2, <3>3, InTurnKept DEF Inv
    <2>4. CASE CheckLimit(w)
      <3>1. /\ worker[w].at = "limit" /\ UNCHANGED <<posted, totalRedeemed>>
            /\ worker' = [worker EXCEPT ![w].at = "post"]
            /\ \/ MaxPerUser[worker[w].reward] = 0
               \/ posted[worker[w].user].uses[worker[w].reward]
                    < MaxPerUser[worker[w].reward]
        BY <2>4 DEF CheckLimit
      <3>2. /\ Others(w) /\ worker'[w].at = "post"
            /\ worker'[w].kind = worker[w].kind
            /\ worker'[w].user = worker[w].user
            /\ worker'[w].reward = worker[w].reward
        BY <3>1, Reaches DEF Inv
      <3>3. /\ \A r \in Rewards : w \in Admitted(r)' => w \in Admitted(r)
            /\ \A u \in Users, r \in Rewards :
                 w \in Claiming(u, r)' => u = worker[w].user /\ r = worker[w].reward
        BY <3>1, <3>2 DEF Admitted, Claiming
      <3> QED BY <2>1, <3>1, <3>2, <3>3, InTurnKept DEF Inv
    <2>5. CASE SelectExpired(w)
      <3>1. PICK end, n : worker' = [worker EXCEPT ![w].at = "flag",
                                       ![w].upto = end, ![w].points = n]
        BY <2>5 DEF SelectExpired
      <3>2. /\ worker'[w] = [worker[w] EXCEPT !.at = "flag", !.upto = end,
                                              !.points = n]
            /\ Others(w)
        BY <3>1 DEF Others, Inv, RowsOK
      <3>3. worker'[w].at = "flag"
        BY <2>1, <3>2 DEF Worker
      <3>4. UNCHANGED <<posted, totalRedeemed>>
        BY <2>5 DEF SelectExpired
      <3> QED BY <2>1, <3>2, <3>3, <3>4, ClaimsNothing DEF Inv
    <2>6. CASE FlagExpired(w)
      <3>1. /\ worker[w].at = "flag" /\ totalRedeemed' = totalRedeemed
            /\ worker' = [worker EXCEPT ![w].at = "write"]
        BY <2>6 DEF FlagExpired
      <3>2. worker[w].kind # "claim"
        BY <2>1, <3>1 DEF InOrder
      <3>3. Others(w) /\ worker'[w].kind = worker[w].kind
        BY <3>1, Reaches DEF Inv
      <3>4. \A u \in Users : posted'[u].uses = posted[u].uses
        <4>1. PICK i, n, flagged :
                posted' = [posted EXCEPT ![i].expired = @ + n, ![i].flagged = flagged]
          BY <2>6 DEF FlagExpired
        <4>2. TAKE u \in Users
        <4>3. posted[u] \in Transactions
          BY DEF Inv, RowsOK
        <4>4. \/ posted'[u] = posted[u]
              \/ posted'[u] = [posted[u] EXCEPT !.expired = @ + n, !.flagged = flagged]
          BY <4>1 DEF Inv, RowsOK
        <4> QED BY <4>3, <4>4 DEF Transactions
      <3> QED BY <2>1, <3>1, <3>2, <3>3, <3>4, ClaimsNothing DEF Inv
    <2>7. CASE Post(w)
      BY <2>1, <2>7, PostInTurn
    <2>8. CASE Write(w)
      <3>1. /\ worker[w].at = "write" /\ UNCHANGED <<posted, totalRedeemed>>
            /\ worker' = [worker EXCEPT ![w].at = AfterWrite(w), ![w].bonus = FALSE,
                            ![w].seen = Updated(worker[w].seen, Change(w))]
        BY <2>8 DEF Write
      <3>2. /\ Others(w) /\ worker'[w].at = AfterWrite(w)
            /\ worker'[w].kind = worker[w].kind
            /\ worker'[w].reward = worker[w].reward
        <4>1. /\ worker'[w] = [worker[w] EXCEPT
                                 !.at = AfterWrite(w), !.bonus = FALSE,
                                 !.seen = Updated(worker[w].seen, Change(w))]
              /\ Others(w)
          BY <3>1 DEF Others, Inv, RowsOK
        <4> QED BY <2>1, <4>1 DEF Worker
      <3>3. worker[w].kind = "claim" => AfterWrite(w) # "post"
        <4>1. worker[w].bonus => worker[w].kind \in Awards \cup {"open"}
          BY <3>1, BusyWorker
        <4> QED BY <4>1 DEF AfterWrite, Awards
      <3>4. /\ \A r \in Rewards : w \in Admitted(r)' => w \in Admitted(r)
            /\ \A u \in Users, r \in Rewards : w \notin Claiming(u, r)'
        BY <3>1, <3>2, <3>3 DEF Admitted, Claiming
      <3> QED BY <2>1, <3>1, <3>2, <3>4, InTurnKept DEF Inv
    <2>9. CASE Count(w)
      BY <2>1, <2>9, CountInTurn
    <2>10. CASE CountReferral(w)
      <3>1. /\ worker' = [worker EXCEPT ![w].at = "answer"]
            /\ UNCHANGED <<posted, totalRedeemed>>
        BY <2>10 DEF CountReferral
      <3> QED BY <2>1, <3>1, Reaches, ClaimsNothing, ZenonT(60) DEF Inv
    <2>11. CASE Answer(w)
      <3>1. /\ Others(w) /\ worker'[w].at = "idle"
            /\ UNCHANGED <<posted, totalRedeemed>>
        BY <2>11 DEF Answer, Release, Others, Idle, Inv, RowsOK
      <3> QED BY <2>1, <3>1, ClaimsNothing DEF Inv
    <2> QED BY <1>2, <2>2, <2>3, <2>4, <2>5, <2>6, <2>7, <2>8, <2>9, <2>10, <2>11
            DEF Continue
  <1>3. ASSUME NEW w \in Workers, Refuse(w) PROVE SerialLimits'
    <2>1. Alone(w)
      BY <1>3, BusyAlone DEF Refuse
    <2>2. /\ Others(w) /\ worker'[w].at = "idle"
          /\ UNCHANGED <<posted, totalRedeemed>>
      BY <1>3 DEF Refuse, Stop, Release, Others, Idle, Inv, RowsOK
    <2> QED BY <2>1, <2>2, ClaimsNothing DEF Inv
  <1>4. CASE Administer
    <2>1. UNCHANGED <<posted, totalRedeemed, worker>>
      BY <1>4 DEF Administer, Suspend, Reactivate, UpgradeTier, SetAccount
    <2> QED BY <2>1 DEF SerialLimits, OneOf, Admitted, Claiming
  <1>5. CASE UNCHANGED vars
    BY <1>5 DEF vars, SerialLimits, OneOf, Admitted, Claiming
  <1> QED BY <1>1, <1>2, <1>3, <1>4, <1>5 DEF SerialNext

(* In the initial states no reward is taken.                               *)
LEMMA LimitsInit ==
  ASSUME Init
  PROVE  SerialLimits
  <1>1. ASSUME NEW r \in Rewards, NEW u \in Users
        PROVE  Admitted(r) = {} /\ Claiming(u, r) = {} /\ posted[u].uses[r] = 0
    BY DEF Init, Idle, Admitted, Claiming, NoTransactions
  <1>2. \A r \in Rewards : Admitted(r) = {} /\ totalRedeemed[r] = 0
    BY DEF Init, Idle, Admitted
  <1>3. \A r \in Rewards : TotalAvailable[r] \in Nat /\ MaxPerUser[r] \in Nat
    BY LoyaltyAssumption
  <1> QED BY <1>1, <1>2, <1>3 DEF SerialLimits, OneOf

(* When requests run one at a time, no limit of a reward is exceeded: the  *)
(* excess that LimitsCorrect bounds comes from requests that overlap.      *)
THEOREM TurnCorrect == SerialSpec => []LimitsHoldInTurn
  <1>1. Init => SerialInv /\ SerialLimits
    BY SerialInit, LimitsInit
  <1>2. /\ Inv /\ SerialInv /\ SerialLimits /\ [SerialNext]_vars
        => SerialInv' /\ SerialLimits'
    BY SerialNextIsRight, InTurnStep DEF SerialInv
  <1>3. Inv /\ SerialLimits => LimitsHoldInTurn
    <2>1. SUFFICES ASSUME Inv, SerialLimits PROVE LimitsHoldInTurn
      OBVIOUS
    <2>2. \A S : OneOf(S) \in {0, 1}
      BY DEF OneOf
    <2>3. ASSUME NEW r \in Rewards
          PROVE  totalRedeemed[r] \in Nat /\ TotalAvailable[r] \in Nat /\ MaxPerUser[r] \in Nat
      BY <2>1, LoyaltyAssumption DEF Inv, RowsOK
    <2>4. ASSUME NEW r \in Rewards, NEW u \in Users PROVE posted[u].uses[r] \in Nat
      BY <2>1, CreditsType DEF Inv, RowsOK
    <2> QED BY <2>1, <2>2, <2>3, <2>4 DEF LimitsHoldInTurn, SerialLimits
  <1> QED BY <1>1, <1>2, <1>3, SerialImplements, LoyaltyInvariant, PTL
          DEF SerialSpec

(***************************************************************************)
(* The book: one request at a time is one entry.                           *)
(***************************************************************************)

(* A step of one worker alone keeps what the others know: they are idle.   *)
LEMMA EntryStep ==
  ASSUME NEW w \in Workers, Alone(w), Others(w),
         worker'[w].at # "idle" => Asked(w)' /\ Covered(w)',
         \A u \in Users : ExpiresOnce(u)'
  PROVE  EntryInv'
  <1>1. \A v \in Workers \ {w} : worker'[v].at = "idle"
    BY DEF Alone, Others
  <1> QED BY <1>1 DEF EntryInv

(* What a request was asked for stays the same to its end.                 *)
LEMMA StillAsked ==
  ASSUME NEW w \in Workers, Asked(w), worker'[w].kind = worker[w].kind,
         worker'[w].points = worker[w].points
  PROVE  Asked(w)'
  BY DEF Asked

(* Which points have expired is not changed by other transactions.         *)
LEMMA ExpiryKept ==
  ASSUME \A u \in Users : ExpiresOnce(u), posted' = posted
  PROVE  \A u \in Users : ExpiresOnce(u)'
  BY DEF ExpiresOnce

(* A transaction that is posted is the last to expire.                     *)
LEMMA PostedExpiresLast ==
  ASSUME RowsOK, NEW w \in Workers, worker[w].at = "post",
         NEW u \in Users, u = worker[w].user, ExpiresOnce(u)
  PROVE  LET next == Posting(w) IN
           /\ next.expired = next.flagged /\ next.flagged <= next.earned
           /\ \A end \in next.ends : end <= next.earned
  <1> DEFINE past == posted[u]
             n == Amount(w)
             earned == Earned(past, n)
             uses == [past.uses EXCEPT ![worker[w].reward] = @ + 1]
  <1>1. /\ past \in Transactions /\ n \in Nat
        /\ past.earned \in Nat /\ past.flagged \in Nat /\ past.ends \in SUBSET Nat
    BY AmountType, CreditsType DEF RowsOK
  <1>2. /\ past.expired = past.flagged /\ past.flagged <= past.earned
        /\ \A end \in past.ends : end <= past.earned
    BY DEF ExpiresOnce
  <1>3. /\ earned.earned = past.earned + n /\ earned.expired = past.expired
        /\ earned.flagged = past.flagged
        /\ earned.ends = past.ends \cup {past.earned + n}
    BY <1>1 DEF Earned, Transactions
  <1>4. \/ /\ Posting(w).earned = past.earned /\ Posting(w).ends = past.ends
           /\ Posting(w).expired = past.expired
           /\ Posting(w).flagged = past.flagged
        \/ /\ Posting(w).earned = earned.earned /\ Posting(w).ends = earned.ends
           /\ Posting(w).expired = earned.expired
           /\ Posting(w).flagged = earned.flagged
    <2> DEFINE same(next) == /\ next.earned = past.earned /\ next.ends = past.ends
                             /\ next.expired = past.expired
                             /\ next.flagged = past.flagged
               more(next) == /\ next.earned = earned.earned
                             /\ next.ends = earned.ends
                             /\ next.expired = earned.expired
                             /\ next.flagged = earned.flagged
    <2>1. earned = [past EXCEPT !.earned = @ + n, !.ends = earned.ends]
      BY <1>1, <1>3 DEF Earned
    <2>2. more([earned EXCEPT !.signups = @ + 1])
      BY <1>1, <2>1 DEF Transactions
    <2>3. more([earned EXCEPT !.referrals = @ + 1])
      BY <1>1, <2>1 DEF Transactions
    <2>4. same([past EXCEPT !.adjusted = @ + n])
      BY <1>1 DEF Transactions
    <2>5. same([past EXCEPT !.redeemed = @ + n])
      BY <1>1 DEF Transactions
    <2>6. same([past EXCEPT !.redeemed = @ + n, !.uses = uses])
      BY <1>1 DEF Transactions
    <2>7. [past EXCEPT !.redeemed = @ + n, !.uses[worker[w].reward] = @ + 1]
            = [past EXCEPT !.redeemed = @ + n, !.uses = uses]
      BY <1>1 DEF Transactions
    <2> HIDE DEF same, more, earned, uses
    <2>8. same(Posting(w)) \/ more(Posting(w))
      <3>1. earned = Earned(past, n)
        BY DEF earned
      <3>2. more(earned)
        BY DEF more
      <3> QED BY <2>2, <2>3, <2>4, <2>5, <2>6, <2>7, <3>1, <3>2 DEF Posting
    <2> QED BY <2>8 DEF same, more
  <1> QED BY <1>1, <1>2, <1>3, <1>4

(* A new request knows what it was asked for.                              *)
LEMMA EntryBegin ==
  ASSUME Inv, EntryInv, AllIdle, NEW w \in Workers, Begin(w)
  PROVE  EntryInv'
  <1>1. PICK u \in Users :
          \/ Open(w, u)
          \/ \E kind \in Awarded : Award(w, u, kind)
          \/ Discount(w, u)
          \/ \E r \in Rewards : Claim(w, u, r)
          \/ Expire(w, u)
    BY DEF Begin
  <1> DEFINE Fits(kind, n) ==
               /\ kind # "none"
               /\ kind \in Awards =>
                    kind \in Awarded /\ \E t \in Tiers : n = AwardPoints[kind][t]
               /\ kind = "discount" => n \in Discounts
               /\ kind = "open" => n = 0
  <1>2. PICK at, kind, r, n : /\ at \in {"create", "reward", "select", "post"}
                              /\ Request(w, at, kind, u, r, n) /\ Fits(kind, n)
    <2>1. CASE Open(w, u)
      BY <2>1 DEF Open, Awards
    <2>2. ASSUME NEW kind \in Awarded, Award(w, u, kind)
          PROVE  \E at \in {"create", "post"} :
                   /\ Request(w, at, kind, u, NoReward,
                              AwardPoints[kind][account[u].tier])
                   /\ Fits(kind, AwardPoints[kind][account[u].tier])
      <3>1. account[u].tier \in Tiers /\ kind \in Awards
        BY LoyaltyAssumption DEF Inv, RowsOK, Account
      <3> QED BY <2>2, <3>1 DEF Award, Awards
    <2>3. CASE Discount(w, u)
      BY <2>3 DEF Discount, Awards
    <2>4. CASE \E r \in Rewards : Claim(w, u, r)
      BY <2>4 DEF Claim, Awards
    <2>5. CASE Expire(w, u)
      BY <2>5 DEF Expire, Awards
    <2> HIDE DEF Fits
    <2> QED BY <1>1, <2>1, <2>2, <2>3, <2>4, <2>5
  <1>3. /\ Alone(w) /\ Others(w) /\ UNCHANGED posted
        /\ worker'[w] = [Idle EXCEPT !.at = at, !.kind = kind, !.user = u,
                           !.reward = r, !.points = n, !.seen = account[u]]
    BY <1>2 DEF Request, AllIdle, Idle, Alone, Others, Inv, RowsOK
  <1>4. worker'[w].at = at /\ worker'[w].kind = kind /\ worker'[w].points = n
    BY <1>3 DEF Idle
  <1>5. Asked(w)' /\ Covered(w)'
    BY <1>2, <1>4 DEF Asked, Covered
  <1> QED BY <1>3, <1>5, ExpiryKept, EntryStep DEF EntryInv

(* A step after which the request is not about to change what it relies on *)
(* leaves it nothing to know but what it was asked for.                    *)
LEMMA EntryQuiet ==
  ASSUME EntryInv, NEW w \in Workers, worker[w].at # "idle", Alone(w), Others(w),
         UNCHANGED posted,
         worker'[w].kind = worker[w].kind, worker'[w].points = worker[w].points,
         worker'[w].at \notin {"flag", "write"}
  PROVE  EntryInv'
  <1>1. Asked(w)' /\ Covered(w)'
    BY StillAsked DEF EntryInv, Covered
  <1> QED BY <1>1, ExpiryKept, EntryStep DEF EntryInv

(* The points that are selected have been earned and not expired yet.      *)
LEMMA EntrySelect ==
  ASSUME Inv, EntryInv, NEW w \in Workers, Alone(w), SelectExpired(w)
  PROVE  EntryInv'
  <1>1. worker[w].at = "select" /\ InOrder(w) /\ worker[w].user \in Users
    BY BusyWorker DEF SelectExpired
  <1>2. PICK u \in Users : u = worker[w].user
    BY <1>1
  <1>3. PICK end \in posted[u].ends :
          /\ end > posted[u].flagged
          /\ worker' = [worker EXCEPT ![w].at = "flag", ![w].upto = end,
                                      ![w].points = end - posted[u].flagged]
    BY <1>2 DEF SelectExpired
  <1>4. /\ worker'[w] = [worker[w] EXCEPT !.at = "flag", !.upto = end,
                           !.points = end - posted[u].flagged]
        /\ Others(w) /\ worker[w] \in Worker
    BY <1>3 DEF Others, Inv, RowsOK
  <1>5. /\ worker'[w].at = "flag" /\ worker'[w].kind = "expire"
        /\ worker'[w].user = u /\ worker'[w].upto = end
        /\ worker'[w].points = end - posted[u].flagged
    BY <1>1, <1>2, <1>4 DEF Worker, InOrder
  <1>6. end \in Nat /\ posted[u].flagged \in Nat /\ UNCHANGED posted
    BY CreditsType DEF Inv, RowsOK, SelectExpired
  <1>7. Asked(w)' /\ Covered(w)'
    BY <1>3, <1>5, <1>6 DEF Asked, Covered, Awards
  <1> QED BY <1>4, <1>6, <1>7, ExpiryKept, EntryStep DEF EntryInv

(* They are flagged, so that nobody selects them again.                    *)
LEMMA EntryFlag ==
  ASSUME Inv, EntryInv, NEW w \in Workers, Alone(w), FlagExpired(w)
  PROVE  EntryInv'
  <1>1. /\ worker[w].at = "flag" /\ InOrder(w) /\ worker[w].user \in Users
        /\ worker[w].points \in Nat /\ worker[w].upto \in Nat
        /\ worker' = [worker EXCEPT ![w].at = "write"]
        /\ Asked(w) /\ Covered(w)
    BY BusyWorker, WorkerType DEF FlagExpired, EntryInv, Inv, RowsOK
  <1>2. PICK u \in Users : u = worker[w].user
    BY <1>1
  <1>3. PICK n \in Nat, upto \in Nat : n = worker[w].points /\ upto = worker[w].upto
    BY <1>1
  <1>4. /\ upto \in posted[u].ends /\ n > 0 /\ upto = posted[u].flagged + n
        /\ posted[u].flagged \in Nat /\ posted[u].expired \in Nat
        /\ posted[u].earned \in Nat /\ posted[u].ends \in SUBSET Nat
        /\ ExpiresOnce(u)
    BY <1>1, <1>2, <1>3, CreditsType DEF Covered, EntryInv, Inv, RowsOK
  <1>5. /\ posted'[u] = [posted[u] EXCEPT !.expired = @ + n, !.flagged = upto]
        /\ \A i \in Users \ {u} : posted'[i] = posted[i]
    <2>1. posted' = [posted EXCEPT ![u].expired = @ + n,
                       ![u].flagged = IF upto > @ THEN upto ELSE @]
      BY <1>2, <1>3 DEF FlagExpired
    <2>2. upto > posted[u].flagged
      BY <1>4
    <2> QED BY <2>1, <2>2 DEF Inv, RowsOK
  <1>6. /\ posted'[u].expired = posted[u].expired + n /\ posted'[u].flagged = upto
        /\ posted'[u].earned = posted[u].earned /\ posted'[u].ends = posted[u].ends
    <2>1. posted[u] \in Transactions
      BY DEF Inv, RowsOK
    <2> QED BY <1>5, <2>1 DEF Transactions
  <1>7. \A i \in Users : ExpiresOnce(i)'
    <2>1. ExpiresOnce(u)'
      BY <1>4, <1>6 DEF ExpiresOnce
    <2>2. \A i \in Users \ {u} : ExpiresOnce(i)'
      BY <1>5 DEF ExpiresOnce, EntryInv
    <2> QED BY <2>1, <2>2
  <1>8. /\ Others(w) /\ worker'[w].at = "write" /\ worker'[w].kind = "expire"
        /\ worker'[w].user = u /\ worker'[w].points = n
        /\ worker[w].kind = "expire"
    BY <1>1, <1>2, <1>3, Reaches DEF InOrder, Inv
  <1>9. Asked(w)'
    BY <1>1, <1>3, <1>8, StillAsked
  <1>10. Covered(w)'
    BY <1>4, <1>6, <1>8 DEF Covered, Redeems
  <1> QED BY <1>7, <1>8, <1>9, <1>10, EntryStep

(* A redemption is posted that the balance covers.                         *)
LEMMA EntryPost ==
  ASSUME Inv, EntryInv, NEW w \in Workers, Alone(w), Post(w)
  PROVE  EntryInv'
  <1>1. /\ worker[w].at = "post" /\ InOrder(w) /\ worker[w].user \in Users
        /\ worker' = [worker EXCEPT ![w].at = "write"]
        /\ SeenIsBacked(w) /\ Asked(w)
        /\ worker[w].bonus => worker[w].kind \in Awards \cup {"open"}
        /\ worker[w].kind = "claim" => worker[w].reward \in Rewards
    BY BusyWorker DEF Post, EntryInv, Inv, WorkersAreRight
  <1>2. PICK u \in Users : u = worker[w].user
    BY <1>1
  <1>3. /\ posted'[u] = Posting(w)
        /\ \A i \in Users \ {u} : posted'[i] = posted[i]
    BY <1>2 DEF Post, Inv, RowsOK
  <1>4. \A i \in Users : ExpiresOnce(i)'
    <2>1. ExpiresOnce(u)
      BY DEF EntryInv
    <2>2. ExpiresOnce(u)'
      BY <1>1, <1>2, <1>3, <2>1, PostedExpiresLast DEF ExpiresOnce, Inv
    <2>3. \A i \in Users \ {u} : ExpiresOnce(i)'
      BY <1>3 DEF ExpiresOnce, EntryInv
    <2> QED BY <2>2, <2>3
  <1>5. /\ Others(w) /\ worker'[w].at = "write"
        /\ worker'[w].kind = worker[w].kind /\ worker'[w].user = u
        /\ worker'[w].reward = worker[w].reward
        /\ worker'[w].points = worker[w].points
        /\ worker'[w].seen = worker[w].seen
    BY <1>1, <1>2, Reaches DEF Inv
  <1>6. worker[w].kind = "claim" => posted'[u].uses[worker[w].reward] > 0
    <2>1. SUFFICES ASSUME worker[w].kind = "claim"
                   PROVE  posted'[u].uses[worker[w].reward] > 0
      OBVIOUS
    <2>2. Adds(w, posted[u], Posting(w), Amount(w)) /\ PostsClaim(w)
      BY <1>1, <1>2, <2>1, PostingType DEF Inv, PostsClaim, Awards
    <2>3. /\ posted[u].uses \in [Rewards -> Nat] /\ worker[w].reward \in Rewards
          /\ posted'[u].uses = [posted[u].uses EXCEPT ![worker[w].reward] = @ + 1]
      BY <1>1, <1>3, <2>1, <2>2, CreditsType DEF Adds, Inv, RowsOK
    <2> QED BY <2>3
  <1>7. Asked(w)'
    BY <1>1, <1>5, StillAsked
  <1>8. Covered(w)'
    <2>1. worker[w].kind # "expire"
      BY <1>1 DEF InOrder
    <2>2. Redeems(w)' => worker[w].points <= worker[w].seen.points
      BY <1>1, <1>5 DEF Redeems, SeenIsBacked
    <2> QED BY <1>5, <1>6, <2>1, <2>2 DEF Covered
  <1> QED BY <1>4, <1>5, <1>7, <1>8, EntryStep

(* Every step of requests that run one at a time keeps what they know.     *)
LEMMA EntryNext ==
  ASSUME Inv, OneAtWork, EntryInv, [SerialNext]_vars
  PROVE  EntryInv'
  <1>1. ASSUME NEW w \in Workers, AllIdle, Begin(w) PROVE EntryInv'
    BY <1>1, EntryBegin
  <1>2. ASSUME NEW w \in Workers, Continue(w) PROVE EntryInv'
    <2>1. worker[w].at # "idle" /\ Alone(w) /\ worker[w] \in Worker
      BY <1>2, BusyAlone
      DEF Continue, Insert, ReadReward, CheckLimit, SelectExpired, FlagExpired,
          Post, Write, Count, CountReferral, Answer, Inv, RowsOK
    <2>2. CASE Insert(w)
      <3>1. /\ worker'[w] = [worker[w] EXCEPT !.at = "post", !.bonus = TRUE,
                               !.seen = account'[worker[w].user]]
            /\ Others(w) /\ UNCHANGED posted
        BY <2>2 DEF Insert, Others, Inv, RowsOK
      <3> QED BY <2>1, <3>1, EntryQuiet DEF Worker
    <2>3. CASE ReadReward(w)
      <3>1. worker' = [worker EXCEPT ![w].at = "limit"] /\ UNCHANGED posted
        BY <2>3 DEF ReadReward
      <3>2. /\ Others(w) /\ worker'[w].at \in {"limit", "post", "answer"}
            /\ worker'[w].kind = worker[w].kind
            /\ worker'[w].points = worker[w].points
        BY <3>1, Reaches DEF Inv
      <3> QED BY <2>1, <3>1, <3>2, EntryQuiet
    <2>4. CASE CheckLimit(w)
      <3>1. worker' = [worker EXCEPT ![w].at = "post"] /\ UNCHANGED posted
        BY <2>4 DEF CheckLimit
      <3>2. /\ Others(w) /\ worker'[w].at \in {"limit", "post", "answer"}
            /\ worker'[w].kind = worker[w].kind
            /\ worker'[w].points = worker[w].points
        BY <3>1, Reaches DEF Inv
      <3> QED BY <2>1, <3>1, <3>2, EntryQuiet
    <2>5. CASE SelectExpired(w)
      BY <2>1, <2>5, EntrySelect
    <2>6. CASE FlagExpired(w)
      BY <2>1, <2>6, EntryFlag
    <2>7. CASE Post(w)
      BY <2>1, <2>7, EntryPost
    <2>8. CASE Write(w)
      <3>1. /\ worker'[w] = [worker[w] EXCEPT !.at = AfterWrite(w), !.bonus = FALSE,
                               !.seen = Updated(worker[w].seen, Change(w))]
            /\ Others(w) /\ UNCHANGED posted
        BY <2>8 DEF Write, Others, Inv, RowsOK
      <3>2. AfterWrite(w) \notin {"flag", "write"}
        BY DEF AfterWrite
      <3> QED BY <2>1, <3>1, <3>2, EntryQuiet DEF Worker
    <2>9. CASE Count(w)
      <3>1. worker' = [worker EXCEPT ![w].at = "answer"] /\ UNCHANGED posted
        BY <2>9 DEF Count
      <3>2. /\ Others(w) /\ worker'[w].at \in {"limit", "post", "answer"}
            /\ worker'[w].kind = worker[w].kind
            /\ worker'[w].points = worker[w].points
        BY <3>1, Reaches DEF Inv
      <3> QED BY <2>1, <3>1, <3>2, EntryQuiet
    <2>10. CASE CountReferral(w)
      <3>1. worker' = [worker EXCEPT ![w].at = "answer"] /\ UNCHANGED posted
        BY <2>10 DEF CountReferral
      <3>2. /\ Others(w) /\ worker'[w].at \in {"limit", "post", "answer"}
            /\ worker'[w].kind = worker[w].kind
            /\ worker'[w].points = worker[w].points
        BY <3>1, Reaches DEF Inv
      <3> QED BY <2>1, <3>1, <3>2, EntryQuiet
    <2>11. CASE Answer(w)
      <3>1. Others(w) /\ worker'[w].at = "idle" /\ UNCHANGED posted
        BY <2>11 DEF Answer, Release, Others, Idle, Inv, RowsOK
      <3> QED BY <2>1, <3>1, ExpiryKept, EntryStep DEF EntryInv
    <2> QED BY <1>2, <2>2, <2>3, <2>4, <2>5, <2>6, <2>7, <2>8, <2>9, <2>10, <2>11
            DEF Continue
  <1>3. ASSUME NEW w \in Workers, Refuse(w) PROVE EntryInv'
    <2>1. Alone(w)
      BY <1>3, BusyAlone DEF Refuse
    <2>2. Others(w) /\ worker'[w].at = "idle" /\ UNCHANGED posted
      BY <1>3 DEF Refuse, Stop, Release, Others, Idle, Inv, RowsOK
    <2> QED BY <2>1, <2>2, ExpiryKept, EntryStep DEF EntryInv
  <1>4. ASSUME UNCHANGED <<posted, worker>> PROVE EntryInv'
    <2>1. \A u \in Users : ExpiresOnce(u)'
      BY <1>4, ExpiryKept DEF EntryInv
    <2>2. \A w \in Workers : worker'[w].at # "idle" => Asked(w)' /\ Covered(w)'
      BY <1>4 DEF EntryInv, Asked, Covered, Redeems
    <2> QED BY <2>1, <2>2 DEF EntryInv
  <1>5. Administer => UNCHANGED <<posted, worker>>
    BY DEF Administer, Suspend, Reactivate, UpgradeTier, SetAccount
  <1> QED BY <1>1, <1>2, <1>3, <1>4, <1>5 DEF SerialNext, vars

(***************************************************************************)
(* The pages of the book.                                                  *)
(***************************************************************************)

(* What one worker alone has not entered yet.                              *)
LEMMA NotEntered ==
  ASSUME NEW w \in Workers, Alone(w), Others(w), NEW u \in Users
  PROVE  /\ Joining(u) <=> /\ worker[w].at # "idle" /\ worker[w].bonus
                           /\ worker[w].user = u
         /\ Joining(u)' <=> /\ worker'[w].at # "idle" /\ worker'[w].bonus
                            /\ worker'[w].user = u
         /\ Expiring(u) = IF Expires(w, u) THEN worker[w].points ELSE 0
         /\ Expiring(u)' = IF Expires(w, u)' THEN worker'[w].points ELSE 0
         /\ \A r \in Rewards :
              /\ Taking(u, r) = IF Takes(w, u, r) THEN 1 ELSE 0
              /\ Taking(u, r)' = IF Takes(w, u, r)' THEN 1 ELSE 0
  <1>1. \A v \in Workers \ {w} : worker[v].at = "idle" /\ worker'[v].at = "idle"
    BY DEF Alone, Others
  <1>2. /\ \A v \in Workers : Expires(v, u) => v = w
        /\ \A v \in Workers : Expires(v, u)' => v = w
    BY <1>1 DEF Expires
  <1>3. /\ \A v \in Workers, r \in Rewards : Takes(v, u, r) => v = w
        /\ \A v \in Workers, r \in Rewards : Takes(v, u, r)' => v = w
    BY <1>1 DEF Takes
  <1>4. Expiring(u) = IF Expires(w, u) THEN worker[w].points ELSE 0
    <2>1. CASE Expires(w, u)
      <3>1. (CHOOSE v \in Workers : Expires(v, u)) = w
        BY <1>2, <2>1
      <3> QED BY <2>1, <3>1 DEF Expiring
    <2>2. CASE ~Expires(w, u)
      BY <1>2, <2>2 DEF Expiring
    <2> QED BY <2>1, <2>2
  <1>5. Expiring(u)' = IF Expires(w, u)' THEN worker'[w].points ELSE 0
    <2>1. CASE Expires(w, u)'
      <3>1. (CHOOSE v \in Workers : Expires(v, u)') = w
        BY <1>2, <2>1
      <3> QED BY <2>1, <3>1 DEF Expiring
    <2>2. CASE ~Expires(w, u)'
      BY <1>2, <2>2 DEF Expiring
    <2> QED BY <2>1, <2>2
  <1>6. ASSUME NEW r \in Rewards
        PROVE  /\ Taking(u, r) = IF Takes(w, u, r) THEN 1 ELSE 0
               /\ Taking(u, r)' = IF Takes(w, u, r)' THEN 1 ELSE 0
    BY <1>3 DEF Taking
  <1> QED BY <1>1, <1>4, <1>5, <1>6 DEF Joining

(* Two pages that show the same are equal.                                 *)
LEMMA SamePage ==
  ASSUME NEW u \in Users,
         (account'[u].exists /\ ~Joining(u)') <=> (account[u].exists /\ ~Joining(u)),
         account'[u].points = account[u].points,
         account'[u].lifetime = account[u].lifetime,
         posted'[u].expired - Expiring(u)' = posted[u].expired - Expiring(u),
         \A r \in Rewards : posted'[u].uses[r] - Taking(u, r)'
                              = posted[u].uses[r] - Taking(u, r)
  PROVE  Page(u)' = Page(u)
  <1>1. (account'[u].exists /\ ~Joining(u)') = (account[u].exists /\ ~Joining(u))
    OBVIOUS
  <1>2. [r \in Rewards |-> posted'[u].uses[r] - Taking(u, r)']
          = [r \in Rewards |-> posted[u].uses[r] - Taking(u, r)]
    OBVIOUS
  <1> QED BY <1>1, <1>2 DEF Page

(* The page of a user for whom nobody works shows what is stored.          *)
LEMMA OthersPage ==
  ASSUME NEW w \in Workers, Alone(w), Others(w), NEW u \in Users,
         worker[w].at # "idle" => worker[w].user # u,
         worker'[w].at # "idle" => worker'[w].user # u,
         account'[u] = account[u], posted'[u] = posted[u]
  PROVE  Page(u)' = Page(u)
  <1>1. /\ ~Expires(w, u) /\ ~Expires(w, u)'
        /\ \A r \in Rewards : ~Takes(w, u, r) /\ ~Takes(w, u, r)'
    BY DEF Expires, Takes
  <1>2. Joining(u)' <=> Joining(u)
    BY NotEntered
  <1>3. Expiring(u)' = Expiring(u)
    BY <1>1, NotEntered
  <1>4. \A r \in Rewards : Taking(u, r)' = Taking(u, r)
    BY <1>1, NotEntered
  <1> QED BY <1>2, <1>3, <1>4, SamePage

(* A step that writes no balance and posts nothing is not seen in the book *)
(* (the bonus of an account that is inserted is still to come).            *)
LEMMA Unseen ==
  ASSUME NEW w \in Workers, Alone(w), Others(w),
         UNCHANGED posted,
         worker[w].at # "write", worker'[w].at # "write",
         \A u \in Users :
           /\ account'[u].points = account[u].points
           /\ account'[u].lifetime = account[u].lifetime
           /\ (account'[u].exists /\ ~Joining(u)')
                <=> (account[u].exists /\ ~Joining(u))
  PROVE  UNCHANGED Pages
  <1>1. ASSUME NEW u \in Users PROVE Page(u)' = Page(u)
    <2>1. /\ ~Expires(w, u) /\ ~Expires(w, u)'
          /\ \A r \in Rewards : ~Takes(w, u, r) /\ ~Takes(w, u, r)'
      BY DEF Expires, Takes
    <2>2. Expiring(u)' = Expiring(u)
      BY <2>1, NotEntered
    <2>3. \A r \in Rewards : Taking(u, r)' = Taking(u, r)
      BY <2>1, NotEntered
    <2> QED BY <2>2, <2>3, SamePage
  <1> QED BY <1>1 DEF Pages

(* ... nor one that leaves the accounts alone and adds no bonus.           *)
LEMMA UnseenRead ==
  ASSUME NEW w \in Workers, Alone(w), Others(w),
         UNCHANGED <<account, posted>>,
         worker[w].at # "write", worker'[w].at # "write",
         \/ /\ worker'[w].at # "idle" /\ worker[w].at # "idle"
            /\ worker'[w].bonus = worker[w].bonus
            /\ worker'[w].user = worker[w].user
         \/ /\ worker[w].at # "idle" => ~worker[w].bonus
            /\ worker'[w].at # "idle" => ~worker'[w].bonus
  PROVE  UNCHANGED Pages
  <1>1. \A u \in Users : Joining(u)' <=> Joining(u)
    BY NotEntered
  <1> QED BY <1>1, Unseen

(* A new request is not seen.                                              *)
LEMMA BeginUnseen ==
  ASSUME Inv, AllIdle, NEW w \in Workers, Begin(w)
  PROVE  UNCHANGED Pages
  <1>1. PICK u \in Users :
          \/ Open(w, u)
          \/ \E kind \in Awarded : Award(w, u, kind)
          \/ Discount(w, u)
          \/ \E r \in Rewards : Claim(w, u, r)
          \/ Expire(w, u)
    BY DEF Begin
  <1>2. PICK at, kind, r, n : at # "write" /\ Request(w, at, kind, u, r, n)
    <2>1. CASE Open(w, u)
      BY <2>1 DEF Open
    <2>2. ASSUME NEW kind \in Awarded, Award(w, u, kind)
          PROVE  \E at : at # "write" /\ Request(w, at, kind, u, NoReward,
                                           AwardPoints[kind][account[u].tier])
      BY <2>2 DEF Award
    <2>3. CASE Discount(w, u)
      BY <2>3 DEF Discount
    <2>4. CASE \E r \in Rewards : Claim(w, u, r)
      BY <2>4 DEF Claim
    <2>5. CASE Expire(w, u)
      BY <2>5 DEF Expire
    <2> QED BY <1>1, <2>1, <2>2, <2>3, <2>4, <2>5
  <1>3. /\ Alone(w) /\ Others(w) /\ UNCHANGED <<account, posted>>
        /\ worker[w].at = "idle"
        /\ worker'[w] = [Idle EXCEPT !.at = at, !.kind = kind, !.user = u,
                           !.reward = r, !.points = n, !.seen = account[u]]
    BY <1>2 DEF Request, AllIdle, Idle, Alone, Others, Inv, RowsOK
  <1>4. worker'[w].at # "write" /\ ~worker'[w].bonus
    BY <1>2, <1>3 DEF Idle
  <1> QED BY <1>3, <1>4, UnseenRead

(* The account that is inserted has not joined before its bonus is written.*)
LEMMA InsertUnseen ==
  ASSUME Inv, SerialInv, NEW w \in Workers, Insert(w)
  PROVE  UNCHANGED Pages
  <1> DEFINE new == [NoAccount EXCEPT !.exists = TRUE]
  <1>1. /\ worker[w].at = "create" /\ UNCHANGED posted
        /\ ~account[worker[w].user].exists
        /\ account' = [account EXCEPT ![worker[w].user] = new]
    BY DEF Insert
  <1>2. worker[w].user \in Users /\ Alone(w) /\ InOrder(w)
    BY <1>1, BusyWorker, BusyAlone DEF SerialInv
  <1>3. PICK u \in Users : u = worker[w].user
    BY <1>2
  <1>4. account[u] = NoAccount
    BY <1>1, <1>3 DEF SerialInv, NoneYet
  <1>5. /\ new.points = account[u].points /\ new.lifetime = account[u].lifetime
        /\ new.exists
    BY <1>4 DEF NoAccount
  <1> HIDE DEF new
  <1>6. account'[u] = new /\ \A i \in Users \ {u} : account'[i] = account[i]
    BY <1>1, <1>3 DEF Inv, RowsOK
  <1>7. /\ Others(w) /\ worker'[w].at = "post" /\ worker'[w].user = u
        /\ worker'[w].bonus /\ ~worker[w].bonus
    <2>1. /\ worker'[w] = [worker[w] EXCEPT !.at = "post", !.bonus = TRUE,
                             !.seen = account'[worker[w].user]]
          /\ Others(w) /\ worker[w] \in Worker
      BY DEF Insert, Others, Inv, RowsOK
    <2> QED BY <1>1, <1>2, <1>3, <2>1 DEF Worker, InOrder
  <1>8. ASSUME NEW i \in Users
        PROVE  /\ account'[i].points = account[i].points
               /\ account'[i].lifetime = account[i].lifetime
               /\ (account'[i].exists /\ ~Joining(i)')
                    <=> (account[i].exists /\ ~Joining(i))
    <2>1. Joining(i)' <=> i = u
      BY <1>2, <1>7, NotEntered
    <2>2. ~Joining(i)
      BY <1>2, <1>7, NotEntered
    <2> QED BY <1>1, <1>3, <1>5, <1>6, <2>1, <2>2
  <1> QED BY <1>1, <1>2, <1>7, <1>8, Unseen

(* What is posted is not seen before the balance is written.               *)
LEMMA PostUnseen ==
  ASSUME Inv, NEW w \in Workers, Alone(w), Post(w)
  PROVE  UNCHANGED Pages
  <1>1. /\ worker[w].at = "post" /\ InOrder(w) /\ worker[w].user \in Users
        /\ worker' = [worker EXCEPT ![w].at = "write"] /\ UNCHANGED account
        /\ worker[w].bonus => worker[w].kind \in Awards \cup {"open"}
        /\ worker[w].kind = "claim" => worker[w].reward \in Rewards
    BY BusyWorker DEF Post
  <1>2. PICK u \in Users : u = worker[w].user
    BY <1>1
  <1>3. /\ Others(w) /\ worker'[w].at = "write"
        /\ worker'[w].kind = worker[w].kind /\ worker'[w].user = u
        /\ worker'[w].reward = worker[w].reward
        /\ worker'[w].bonus = worker[w].bonus
    BY <1>1, <1>2, Reaches DEF Inv
  <1>4. /\ posted'[u].expired = posted[u].expired
        /\ posted'[u].uses = IF worker[w].kind = "claim"
                             THEN [posted[u].uses EXCEPT ![worker[w].reward] = @ + 1]
                             ELSE posted[u].uses
        /\ \A i \in Users \ {u} : posted'[i] = posted[i]
    <2>1. Adds(w, posted[u], Posting(w), Amount(w))
      BY <1>1, <1>2, PostingType DEF Inv
    <2>2. /\ posted'[u] = Posting(w)
          /\ \A i \in Users \ {u} : posted'[i] = posted[i]
      BY <1>2 DEF Post, Inv, RowsOK
    <2>3. PostsClaim(w) <=> worker[w].kind = "claim"
      BY <1>1 DEF PostsClaim, Awards
    <2> QED BY <2>1, <2>2, <2>3 DEF Adds
  <1>5. Page(u)' = Page(u)
    <2>1. Joining(u)' <=> Joining(u)
      BY <1>1, <1>2, <1>3, NotEntered
    <2>2. worker[w].kind # "expire"
      BY <1>1 DEF InOrder
    <2>3. Expiring(u)' = 0 /\ Expiring(u) = 0
      BY <1>3, <2>2, NotEntered DEF Expires
    <2>4. ASSUME NEW r \in Rewards
          PROVE  posted'[u].uses[r] - Taking(u, r)' = posted[u].uses[r] - Taking(u, r)
      <3>1. Taking(u, r) = 0
        BY <1>1, <1>3, NotEntered DEF Takes
      <3>2. Taking(u, r)' = IF worker[w].kind = "claim" /\ worker[w].reward = r
                            THEN 1 ELSE 0
        BY <1>3, NotEntered DEF Takes
      <3>3. posted[u].uses \in [Rewards -> Nat]
        BY CreditsType DEF Inv, RowsOK
      <3>4. posted'[u].uses[r] =
              posted[u].uses[r] + (IF worker[w].kind = "claim" /\ worker[w].reward = r
                                   THEN 1 ELSE 0)
        BY <1>4, <3>3
      <3> QED BY <3>1, <3>2, <3>3, <3>4
    <2> QED BY <1>1, <1>4, <2>1, <2>3, <2>4, SamePage
  <1>6. \A i \in Users \ {u} : Page(i)' = Page(i)
    BY <1>1, <1>2, <1>3, <1>4, OthersPage
  <1> QED BY <1>5, <1>6 DEF Pages

(* ... nor are the points that expire.                                     *)
LEMMA FlagUnseen ==
  ASSUME Inv, NEW w \in Workers, Alone(w), FlagExpired(w)
  PROVE  UNCHANGED Pages
  <1>1. /\ worker[w].at = "flag" /\ InOrder(w) /\ worker[w].user \in Users
        /\ worker[w].points \in Nat
        /\ worker' = [worker EXCEPT ![w].at = "write"] /\ UNCHANGED account
    BY BusyWorker, WorkerType DEF FlagExpired, Inv, RowsOK
  <1>2. PICK u \in Users : u = worker[w].user
    BY <1>1
  <1>3. PICK n \in Nat : n = worker[w].points
    BY <1>1
  <1>4. /\ Others(w) /\ worker'[w].at = "write" /\ worker'[w].kind = "expire"
        /\ worker'[w].user = u /\ worker'[w].points = n
        /\ worker'[w].bonus = worker[w].bonus
    BY <1>1, <1>2, <1>3, Reaches DEF InOrder, Inv
  <1>5. /\ posted'[u].expired = posted[u].expired + n
        /\ posted'[u].uses = posted[u].uses
        /\ \A i \in Users \ {u} : posted'[i] = posted[i]
    <2>1. PICK flagged :
            posted' = [posted EXCEPT ![u].expired = @ + n, ![u].flagged = flagged]
      BY <1>2, <1>3 DEF FlagExpired
    <2>2. /\ posted'[u] = [posted[u] EXCEPT !.expired = @ + n, !.flagged = flagged]
          /\ \A i \in Users \ {u} : posted'[i] = posted[i]
          /\ posted[u] \in Transactions
      BY <2>1 DEF Inv, RowsOK
    <2> QED BY <2>2 DEF Transactions
  <1>6. Page(u)' = Page(u)
    <2>1. Joining(u)' <=> Joining(u)
      BY <1>1, <1>2, <1>4, NotEntered
    <2>2. Expiring(u) = 0 /\ Expiring(u)' = n
      BY <1>1, <1>4, NotEntered DEF Expires
    <2>3. \A r \in Rewards : Taking(u, r) = 0 /\ Taking(u, r)' = 0
      BY <1>1, <1>4, NotEntered DEF Takes
    <2>4. posted[u].expired \in Nat
      BY CreditsType DEF Inv, RowsOK
    <2>5. posted'[u].expired - Expiring(u)' = posted[u].expired - Expiring(u)
      BY <1>5, <2>2, <2>4
    <2> QED BY <1>1, <1>5, <2>1, <2>3, <2>5, SamePage
  <1>7. \A i \in Users \ {u} : Page(i)' = Page(i)
    BY <1>1, <1>2, <1>4, <1>5, OthersPage
  <1> QED BY <1>6, <1>7 DEF Pages

(* The administrator writes nothing that is in the book.                   *)
LEMMA AdministerUnseen ==
  ASSUME RowsOK, Administer
  PROVE  UNCHANGED Pages
  <1> DEFINE Set(i, row) ==
               /\ SetAccount(i, row)
               /\ \/ row = [account[i] EXCEPT !.suspended = TRUE]
                  \/ row = [account[i] EXCEPT !.suspended = FALSE]
                  \/ \E t \in Tiers : row = [account[i] EXCEPT !.tier = t]
  <1>5. PICK i \in Users : \E row : Set(i, row)
    BY DEF Administer, Suspend, Reactivate, UpgradeTier
  <1>1. PICK row : Set(i, row)
    BY <1>5
  <1>2. /\ account'[i] = row /\ \A u \in Users \ {i} : account'[u] = account[u]
        /\ UNCHANGED <<posted, worker>> /\ account[i] \in Account
    BY <1>1 DEF SetAccount, RowsOK
  <1>3. /\ row.exists = account[i].exists /\ row.points = account[i].points
        /\ row.lifetime = account[i].lifetime
    BY <1>1, <1>2 DEF Account
  <1>4. ASSUME NEW u \in Users PROVE Page(u)' = Page(u)
    <2>1. /\ account'[u].exists = account[u].exists
          /\ account'[u].points = account[u].points
          /\ account'[u].lifetime = account[u].lifetime
      BY <1>2, <1>3
    <2>2. Joining(u)' <=> Joining(u)
      BY <1>2 DEF Joining
    <2>3. Expiring(u)' = Expiring(u)
      BY <1>2 DEF Expiring, Expires
    <2>4. \A r \in Rewards : Taking(u, r)' = Taking(u, r)
      BY <1>2 DEF Taking, Takes
    <2> QED BY <1>2, <2>1, <2>2, <2>3, <2>4, SamePage
  <1> QED BY <1>4 DEF Pages

(* What the book says of the rewards that all users have taken.            *)
TakenPages(r) == [u \in Users |-> Page(u).taken[r]]

LEMMA TakenIsSum ==
  ASSUME NEW r
  PROVE  Book!TakenByAll(r) = Sum(TakenPages(r))
  <1>1. Book!TakenByAll(r) = Sum([u \in Users |-> Pages[u].taken[r]])
    BY DEF Book!TakenByAll, Book!FoldFunction, Book!FoldFunctionOnSet,
           Book!MapThenFoldSet, Sum, Totals, Sums, Pick
  <1>2. [u \in Users |-> Pages[u].taken[r]] = TakenPages(r)
    BY DEF Pages, TakenPages
  <1> QED BY <1>1, <1>2

(* While a claim is written, the book is behind the transactions by it.    *)
LEMMA TakenIsCounted ==
  ASSUME Inv, SerialInv, EntryInv, NEW w \in Workers, Alone(w),
         NEW u \in Users, NEW r \in Rewards, Takes(w, u, r)
  PROVE  Book!TakenByAll(r) = totalRedeemed[r]
  <1>1. ASSUME NEW i \in Users
        PROVE  Page(i).taken[r] = posted[i].uses[r] - (IF i = u THEN 1 ELSE 0)
    <2>1. Taking(i, r) = IF i = u THEN 1 ELSE 0
      BY DEF Alone, Takes, Taking
    <2> QED BY <2>1 DEF Page
  <1>2. ASSUME NEW i \in Users PROVE posted[i].uses[r] \in Nat
    BY CreditsType DEF Inv, RowsOK
  <1>3. posted[u].uses[r] > 0
    BY DEF Takes, EntryInv, Covered
  <1>4. PICK f \in [Users -> Nat] : f = TakenPages(r)
    <2>1. \A i \in Users : Page(i).taken[r] \in Nat
      BY <1>1, <1>2, <1>3
    <2> QED BY <2>1 DEF TakenPages
  <1>5. Uses(r) = [f EXCEPT ![u] = @ + 1]
    <2>1. \A i \in Users : f[i] = posted[i].uses[r] - (IF i = u THEN 1 ELSE 0)
      BY <1>1, <1>4 DEF TakenPages
    <2>2. f[u] + 1 = posted[u].uses[r] /\ \A i \in Users \ {u} : f[i] = posted[i].uses[r]
      BY <1>2, <2>1
    <2> QED BY <2>2 DEF Uses
  <1>6. Sum(f) \in Nat /\ Sum(Uses(r)) = Sum(f) + 1
    <2>1. Sum(f) \in Nat /\ Sum([f EXCEPT ![u] = @ + 1]) = Sum(f) + 1
      BY FiniteUsers, SumOfOneMore
    <2> QED BY <1>5, <2>1
  <1>7. UsesOf(r) = totalRedeemed[r] + 1
    <2>1. OwesCount(w, r)
      BY DEF Takes, OwesCount
    <2> QED BY <2>1 DEF SerialInv, UsesAreCounted
  <1>8. totalRedeemed[r] \in Nat
    BY DEF Inv, RowsOK
  <1>9. Sum(f) = totalRedeemed[r]
    BY <1>6, <1>7, <1>8, UsesAreSum
  <1> QED BY <1>4, <1>9, TakenIsSum

(* The page of a user changes by the request that is written.              *)
Written(w, u, change) ==
    /\ Pages' = [Pages EXCEPT ![u] = Page(u)']
    /\ Page(u)'.member
    /\ Page(u).member <=> ~worker[w].bonus
    /\ Page(u)'.points = Page(u).points + change
    /\ Page(u)'.lifetime = IF change > 0 THEN Page(u).lifetime + change
                           ELSE Page(u).lifetime
    /\ Page(u)'.expired = IF worker[w].kind = "expire"
                          THEN Page(u).expired + worker[w].points
                          ELSE Page(u).expired
    /\ Page(u)'.taken = IF worker[w].kind = "claim"
                        THEN [Page(u).taken EXCEPT ![worker[w].reward] = @ + 1]
                        ELSE Page(u).taken
    /\ Page(u).expired \in Int /\ Page(u).taken \in [Rewards -> Int]

LEMMA WriteWritten ==
  ASSUME Inv, SerialInv, NEW w \in Workers, Alone(w), Write(w),
         NEW u \in Users, u = worker[w].user
  PROVE  Written(w, u, Change(w))
  <1>1. /\ worker[w].at = "write" /\ UNCHANGED posted
        /\ InBooks(w) /\ InOrder(w) /\ worker[w].seen \in Account
        /\ worker[w].points \in Nat
        /\ worker[w].kind = "claim" => worker[w].reward \in Rewards
    BY BusyWorker, WorkerType DEF Write, SerialInv, Inv, RowsOK
  <1>2. PICK seen \in Account : seen = worker[w].seen
    BY <1>1
  <1>3. PICK change \in Int : change = Change(w)
    BY AmountType DEF Inv, RowsOK
  <1>4. PICK row \in Account :
          /\ row = Updated(seen, change)
          /\ row.points = seen.points + change
          /\ row.lifetime = IF change > 0 THEN seen.lifetime + change
                            ELSE seen.lifetime
    BY UpdatedType
  <1>5. /\ account[u] \in Account /\ account[u].exists
        /\ account[u].points = seen.points /\ account[u].lifetime = seen.lifetime
    BY <1>1, <1>2 DEF InBooks, InOrder, Inv, RowsOK
  <1>6. /\ account'[u].points = row.points /\ account'[u].lifetime = row.lifetime
        /\ account'[u].exists
        /\ \A i \in Users \ {u} : account'[i] = account[i]
    <2>1. account' = [account EXCEPT ![u].points = row.points,
                                     ![u].lifetime = row.lifetime]
      BY <1>2, <1>3, <1>4 DEF Write
    <2>2. /\ account'[u] = [account[u] EXCEPT !.points = row.points,
                                              !.lifetime = row.lifetime]
          /\ \A i \in Users \ {u} : account'[i] = account[i]
      BY <2>1 DEF Inv, RowsOK
    <2> QED BY <1>5, <2>2 DEF Account
  <1>7. /\ Others(w) /\ worker'[w].at = AfterWrite(w) /\ worker'[w].user = u
        /\ ~worker'[w].bonus
    <2>1. worker' = [worker EXCEPT ![w].at = AfterWrite(w), ![w].bonus = FALSE,
                                   ![w].seen = row]
      BY <1>2, <1>3, <1>4 DEF Write
    <2>2. /\ worker'[w] = [worker[w] EXCEPT !.at = AfterWrite(w), !.bonus = FALSE,
                                            !.seen = row]
          /\ Others(w) /\ worker[w] \in Worker
      BY <2>1 DEF Others, Inv, RowsOK
    <2> QED BY <2>2 DEF Worker
  <1>8. worker'[w].at # "write"
    BY <1>7 DEF AfterWrite
  <1>9. /\ Joining(u) <=> worker[w].bonus
        /\ ~Joining(u)'
        /\ Expiring(u) = IF worker[w].kind = "expire" THEN worker[w].points ELSE 0
        /\ Expiring(u)' = 0
    BY <1>1, <1>7, <1>8, NotEntered DEF Expires
  <1>10. ASSUME NEW r \in Rewards
         PROVE  /\ Taking(u, r) = IF worker[w].kind = "claim" /\ worker[w].reward = r
                                  THEN 1 ELSE 0
                /\ Taking(u, r)' = 0
    BY <1>1, <1>7, <1>8, NotEntered DEF Takes
  <1>11. Pages' = [Pages EXCEPT ![u] = Page(u)']
    <2>1. \A i \in Users \ {u} : Page(i)' = Page(i)
      BY <1>1, <1>6, <1>7, OthersPage
    <2> QED BY <2>1 DEF Pages
  <1>12. /\ posted[u].expired \in Nat /\ posted'[u].expired = posted[u].expired
         /\ posted[u].uses \in [Rewards -> Nat] /\ posted'[u].uses = posted[u].uses
    BY <1>1, CreditsType DEF Inv, RowsOK
  <1>13. Page(u)'.taken = IF worker[w].kind = "claim"
                          THEN [Page(u).taken EXCEPT ![worker[w].reward] = @ + 1]
                          ELSE Page(u).taken
    <2>1. /\ Page(u).taken = [r \in Rewards |-> posted[u].uses[r] - Taking(u, r)]
          /\ Page(u)'.taken = [r \in Rewards |-> posted'[u].uses[r] - Taking(u, r)']
      BY DEF Page
    <2>2. \A r \in Rewards : posted[u].uses[r] \in Nat
      BY <1>12
    <2>3. CASE worker[w].kind = "claim"
      <3>1. PICK reward \in Rewards : reward = worker[w].reward
        BY <1>1, <2>3
      <3>2. /\ posted'[u].uses[reward] - Taking(u, reward)'
                 = posted[u].uses[reward] - Taking(u, reward) + 1
            /\ \A r \in Rewards \ {reward} :
                 posted'[u].uses[r] - Taking(u, r)' = posted[u].uses[r] - Taking(u, r)
        BY <1>10, <1>12, <2>2, <2>3, <3>1
      <3>3. PICK before, after :
              before = Page(u).taken /\ after = Page(u)'.taken
        OBVIOUS
      <3>4. /\ before = [r \in Rewards |-> before[r]]
            /\ after = [r \in Rewards |-> after[r]]
            /\ after[reward] = before[reward] + 1
            /\ \A r \in Rewards \ {reward} : after[r] = before[r]
        BY <2>1, <3>2, <3>3
      <3>5. after = [before EXCEPT ![reward] = @ + 1]
        BY <3>4
      <3> QED BY <2>3, <3>1, <3>3, <3>5
    <2>4. CASE worker[w].kind # "claim"
      <3>1. \A r \in Rewards :
              posted'[u].uses[r] - Taking(u, r)' = posted[u].uses[r] - Taking(u, r)
        BY <1>10, <1>12, <2>2, <2>4
      <3> QED BY <2>1, <2>4, <3>1
    <2> QED BY <2>3, <2>4
  <1>14. Page(u)'.member /\ (Page(u).member <=> ~worker[w].bonus)
    BY <1>5, <1>6, <1>9 DEF Page
  <1>15. /\ Page(u).points = account[u].points
         /\ Page(u)'.points = account'[u].points
         /\ Page(u).lifetime = account[u].lifetime
         /\ Page(u)'.lifetime = account'[u].lifetime
         /\ Page(u).expired = posted[u].expired - Expiring(u)
         /\ Page(u)'.expired = posted'[u].expired - Expiring(u)'
    BY DEF Page
  <1>16. Page(u)'.expired = IF worker[w].kind = "expire"
                            THEN Page(u).expired + worker[w].points
                            ELSE Page(u).expired
    BY <1>1, <1>9, <1>12, <1>15
  <1>17. Page(u).expired \in Int /\ Page(u).taken \in [Rewards -> Int]
    <2>1. Page(u).expired \in Int
      BY <1>1, <1>9, <1>12, <1>15
    <2>2. \A r \in Rewards : posted[u].uses[r] - Taking(u, r) \in Int
      BY <1>10, <1>12
    <2> QED BY <2>1, <2>2 DEF Page
  <1> QED BY <1>3, <1>4, <1>5, <1>6, <1>11, <1>13, <1>14, <1>15, <1>16, <1>17 DEF Written

(* A page by what it shows.                                                *)
PageType == [member: BOOLEAN, points : Int, lifetime : Int, expired : Int, taken : [Rewards -> Int]]
Showing(m, p, l, e, t) ==
    [member |-> m, points |-> p, lifetime |-> l, expired |-> e, taken |-> t]

LEMMA PageShows ==
  ASSUME NEW u
  PROVE  /\ Page(u) = Showing(Page(u).member, Page(u).points, Page(u).lifetime,
                             Page(u).expired, Page(u).taken)
         /\ Page(u)' = Showing(Page(u)'.member, Page(u)'.points, Page(u)'.lifetime,
                              Page(u)'.expired, Page(u)'.taken)
         /\ Page(u).member \in BOOLEAN /\ Page(u)'.member \in BOOLEAN
  BY DEF Page, Showing

LEMMA ShowingType ==
  ASSUME NEW m \in BOOLEAN, NEW p \in Int, NEW l \in Int, NEW e \in Int,
         NEW t \in [Rewards -> Int]
  PROVE  /\ Showing(m, p, l, e, t) \in PageType
         /\ Showing(m, p, l, e, t).member = m
         /\ Showing(m, p, l, e, t).points = p
         /\ Showing(m, p, l, e, t).lifetime = l
         /\ Showing(m, p, l, e, t).expired = e
         /\ Showing(m, p, l, e, t).taken = t
    BY DEF PageType, Showing

LEMMA SameFields ==
  ASSUME NEW page \in PageType, NEW other \in PageType, 
         page.member = other.member, page.points = other.points,
         page.lifetime = other.lifetime, page.expired = other.expired,
         page.taken = other.taken
  PROVE  page = other
    BY DEF PageType

(* What an entry makes of the fields that a page shows.                    *)
LEMMA CreditedType ==
  ASSUME NEW page \in PageType, NEW n \in Int, NEW other,
         other = [page EXCEPT !.points = @ + n, !.lifetime = @ + n]
  PROVE  other \in PageType
  <1>1. PICK p \in Int, l \in Int : p = page.points + n /\ l = page.lifetime + n
    BY DEF PageType
  <1>2. other = [page EXCEPT !.points = p, !.lifetime = l]
    BY <1>1
  <1> QED BY <1>2 DEF PageType

LEMMA CreditedShows ==
  ASSUME NEW m \in BOOLEAN, NEW p \in Int, NEW l \in Int, NEW e \in Int,
         NEW t \in [Rewards -> Int], NEW n \in Int
  PROVE  Book!Credited(Showing(m, p, l, e, t), n) = Showing(m, p + n, l + n, e, t)
  <1>1. PICK page : page = Showing(m, p, l, e, t)
    OBVIOUS
  <1>2. PICK other : other = Book!Credited(page, n)
    OBVIOUS
  <1>3. other = [page EXCEPT !.points = @ + n, !.lifetime = @ + n]
    BY <1>2, Zenon DEF Book!Credited
  <1>4. /\ other \in PageType /\ other.member = page.member
        /\ other.points = page.points + n /\ other.lifetime = page.lifetime + n
        /\ other.expired = page.expired /\ other.taken = page.taken
    <2>1. page \in PageType
      BY <1>1, ShowingType
    <2>2. other \in PageType
      BY <2>1, <1>3, CreditedType
    <2>3. other.member = page.member /\ other.expired = page.expired
      BY <2>1, <1>3 DEF PageType
    <2>4. other.points = page.points + n /\ other.lifetime = page.lifetime + n
      BY <2>1, <1>3 DEF PageType
    <2>5. other.taken = page.taken
      BY <2>1, <1>3 DEF PageType
    <2> QED BY <2>2, <2>3, <2>4, <2>5
  <1>5. other = Showing(m, p + n, l + n, e, t)
    <2>1. p + n \in Int /\ l + n \in Int
      OBVIOUS
    <2> QED BY <1>1, <1>4, <2>1, ShowingType, SameFields
  <1> QED BY <1>1, <1>2, <1>5

LEMMA DebitedShows ==
  ASSUME NEW m \in BOOLEAN, NEW p \in Int, NEW l \in Int, NEW e \in Int,
         NEW t \in [Rewards -> Int], NEW n \in Int
  PROVE  Book!Debited(Showing(m, p, l, e, t), n) = Showing(m, p - n, l, e, t)
    BY DEF Showing, Book!Debited

LEMMA ExpiredShows ==
  ASSUME NEW m \in BOOLEAN, NEW p \in Int, NEW l \in Int, NEW e \in Int,
         NEW t \in [Rewards -> Int], NEW n \in Int
  PROVE  Book!Expired(Showing(m, p, l, e, t), n) = Showing(m, p - n, l, e + n, t)
  <1>1. PICK points \in Int : points = p - n
    OBVIOUS
  <1>2. Book!Debited(Showing(m, p, l, e, t), n) = Showing(m, points, l, e, t)
    BY <1>1, DebitedShows
  <1>3. [Showing(m, points, l, e, t) EXCEPT !.expired = @ + n]
          = Showing(m, points, l, e + n, t)
    BY DEF Showing
  <1> QED BY <1>1, <1>2, <1>3 DEF Book!Expired

(* The balance that is written is one entry in the book.                   *)
LEMMA WriteEntered ==
  ASSUME Inv, SerialInv, SerialLimits, EntryInv, NEW w \in Workers, Write(w)
  PROVE  Book!Next \/ UNCHANGED Pages
  <1>1. /\ worker[w].at = "write" /\ InOrder(w) /\ InBooks(w) /\ Alone(w)
        /\ worker[w].user \in Users /\ Asked(w) /\ Covered(w)
        /\ worker[w].points \in Nat
        /\ worker[w].kind \in Awards \cup {"none", "open", "discount", "claim", "expire"}
        /\ worker[w].bonus => worker[w].kind \in Awards \cup {"open"}
        /\ worker[w].kind = "claim" => worker[w].reward \in Rewards
    BY BusyWorker, BusyAlone, WorkerType DEF Write, SerialInv, EntryInv, Inv, RowsOK
  <1>2. PICK u \in Users : u = worker[w].user
    BY <1>1
  <1>3. PICK n \in Nat : n = worker[w].points
    BY <1>1
  <1>4. /\ Written(w, u, Change(w)) /\ Pages[u] = Page(u) /\ SignupBonus \in Nat
    BY <1>1, <1>2, WriteWritten, LoyaltyAssumption DEF Pages
  <1>5. /\ Page(u).points = account[u].points
        /\ Page(u).lifetime = account[u].lifetime
        /\ account[u].points \in Int /\ account[u].lifetime \in Nat
    BY DEF Page, Inv, RowsOK, Account
  <1>6. Redeems(w) => n <= account[u].points
    BY <1>1, <1>2, <1>3 DEF Covered, InBooks
  <1>7. PICK m \in BOOLEAN, p \in Int, l \in Int, e \in Int, t \in [Rewards -> Int] :
          /\ Page(u) = Showing(m, p, l, e, t)
          /\ m = Page(u).member /\ p = Page(u).points /\ l = Page(u).lifetime
          /\ e = Page(u).expired /\ t = Page(u).taken
    BY <1>4, <1>5, PageShows DEF Written
  <1>17. PICK page : page = Showing(m, p, l, e, t)
    OBVIOUS
  <1>18. page = Pages[u]
    BY <1>4, <1>7, <1>17
  <1>8. PICK pp, ll, ee, tt : /\ Page(u)' = Showing(TRUE, pp, ll, ee, tt)
                              /\ pp = Page(u)'.points /\ ll = Page(u)'.lifetime
                              /\ ee = Page(u)'.expired /\ tt = Page(u)'.taken
    <2>1. Page(u)'.member = TRUE
      BY <1>4, PageShows DEF Written
    <2> QED BY <2>1, PageShows
  <1>9. /\ m \in BOOLEAN /\ (m <=> ~worker[w].bonus)
        /\ l \in Nat
        /\ pp = p + Change(w)
        /\ ll = IF Change(w) > 0 THEN l + Change(w) ELSE l
        /\ ee = IF worker[w].kind = "expire" THEN e + worker[w].points ELSE e
        /\ tt = IF worker[w].kind = "claim"
                THEN [t EXCEPT ![worker[w].reward] = @ + 1] ELSE t
        /\ Pages' = [Pages EXCEPT ![u] = Page(u)']
    BY <1>4, <1>5, <1>7, <1>8, PageShows DEF Written
  <1>19. (Page(u)' = Page(u) => UNCHANGED Pages)
         /\ (Page(u)' # Page(u) => Pages'[u] # Pages[u])
    BY <1>4, <1>9 DEF Pages
  <1>10. CASE worker[w].bonus
    <2>1. Change(w) = SignupBonus
      BY <1>1, <1>10 DEF Change, Amount, Redeems, Awards
    <2>2. pp = p + SignupBonus /\ ll = l + SignupBonus /\ ee = e /\ tt = t
      BY <1>1, <1>4, <1>9, <1>10, <2>1 DEF Awards
    <2>3. Page(u)' = Book!Joined(page)
      <3>1. PICK credited : credited = Book!Credited(page, SignupBonus)
        OBVIOUS
      <3>2. PICK points \in Int, lifetime \in Int :
              points = p + SignupBonus /\ lifetime = l + SignupBonus
        BY LoyaltyAssumption
      <3>3. credited = Showing(m, points, lifetime, e, t)
        <4>1. credited = Showing(m, p + SignupBonus, l + SignupBonus, e, t)
          BY <1>17, <3>1, CreditedShows, LoyaltyAssumption
        <4> QED BY <4>1, <3>2
      <3>4. PICK yes \in BOOLEAN : yes = TRUE
        OBVIOUS
      <3>5. [Showing(m, points, lifetime, e, t) EXCEPT !.member = yes]
              = Showing(yes, points, lifetime, e, t)
        BY DEF Showing
      <3>6. [credited EXCEPT !.member = TRUE] = Showing(yes, points, lifetime, e, t)
        BY <3>3, <3>4, <3>5
      <3>7. Book!Joined(page) = Showing(yes, points, lifetime, e, t)
        BY <3>1, <3>6 DEF Book!Joined
      <3>8. Page(u)' = Showing(yes, points, lifetime, e, t)
        BY <1>8, <2>2, <3>2, <3>4
      <3> QED BY <3>7, <3>8
    <2>4. Pages' = [Pages EXCEPT ![u] = Book!Joined(page)]
      BY <1>4, <1>9, <2>3
    <2>5. Book!Join(u)
      BY <1>4, <1>7, <1>9, <1>10, <1>18, <2>4 DEF Book!Join, Book!Joined, Book!Credited
    <2> QED BY <2>5, <1>19 DEF Book!Next
  <1>11. CASE ~worker[w].bonus /\ worker[w].kind \in Awards
    <2>1. PICK kind \in Awarded, tier \in Tiers : n = AwardPoints[kind][tier]
      BY <1>1, <1>3, <1>11 DEF Asked
    <2>2. Change(w) = n
      BY <1>3, <1>11 DEF Change, Amount, Redeems, Awards
    <2>3. m = TRUE /\ pp = p + n /\ ll = l + n /\ ee = e /\ tt = t
      BY <1>9, <1>11, <2>2 DEF Awards
    <2>4. Page(u)' = Book!Credited(page, n)
      <3>1. Book!Credited(page, n) = Showing(m, p + n, l + n, e, t)
        BY <1>17, CreditedShows
      <3>2. Page(u)' = Showing(m, p + n, l + n, e, t)
        BY <1>8, <2>3
      <3> QED BY <3>1, <3>2
    <2>5. Pages' = [Pages EXCEPT ![u] = Book!Credited(page, n)]
      BY <1>4, <1>9, <2>4
    <2>6. Book!Credit(u)
      <3>1. n \in Book!Amounts
        BY <2>1 DEF Book!Amounts
      <3> QED BY <1>4, <1>7, <1>18, <2>3, <2>5, <3>1 DEF Book!Credit, Book!Credited
    <2> QED BY <2>6, <1>19 DEF Book!Next
  <1>12. CASE ~worker[w].bonus /\ worker[w].kind = "open"
    <2>1. Change(w) = 0
      BY <1>1, <1>12 DEF Change, Amount, Redeems, Asked
    <2>2. m = TRUE /\ pp = p /\ ll = l /\ ee = e /\ tt = t
      BY <1>9, <1>12, <2>1
    <2>3. Page(u)' = Page(u)
      BY <1>7, <1>8, <2>2
    <2> QED BY <1>4, <1>9, <2>3 DEF Pages
  <1>13. CASE ~worker[w].bonus /\ worker[w].kind = "discount"
    <2>1. n \in Discounts /\ n <= Page(u).points
      BY <1>1, <1>3, <1>5, <1>6, <1>13 DEF Asked, Redeems
    <2>2. Change(w) = -n
      BY <1>3, <1>13 DEF Change, Amount, Redeems
    <2>3. m = TRUE /\ pp = p - n /\ ll = l /\ ee = e /\ tt = t
      BY <1>9, <1>13, <2>2
    <2>4. Page(u)' = Book!Debited(page, n)
      <3>1. Book!Debited(page, n) = Showing(m, p - n, l, e, t)
        BY <1>17, DebitedShows
      <3>2. Page(u)' = Showing(m, p - n, l, e, t)
        BY <1>8, <2>3
      <3> QED BY <3>1, <3>2
    <2>5. Pages' = [Pages EXCEPT ![u] = Book!Debited(page, n)]
      BY <1>4, <1>9, <2>4
    <2>6. Book!Spend(u)
      BY <1>4, <1>7, <1>18, <2>1, <2>3, <2>5 DEF Book!Spend, Book!Debited
    <2> QED BY <2>6, <1>19 DEF Book!Next
  <1>14. CASE ~worker[w].bonus /\ worker[w].kind = "expire"
    <2>1. /\ n > 0 /\ posted[u].expired <= posted[u].earned
          /\ posted[u].earned \in Nat /\ posted[u].adjusted \in Nat
          /\ posted[u].expired \in Nat
      BY <1>1, <1>2, <1>3, <1>14, CreditsType
      DEF Covered, EntryInv, ExpiresOnce, Inv, RowsOK
    <2>2. Change(w) = -n
      BY <1>3, <1>14 DEF Change, Amount
    <2>3. Page(u).expired = posted[u].expired - n
      <3>1. Expires(w, u)
        BY <1>1, <1>2, <1>14 DEF Expires
      <3>2. (CHOOSE v \in Workers : Expires(v, u)) = w
        BY <1>1, <3>1 DEF Alone, Expires
      <3> QED BY <1>3, <3>1, <3>2 DEF Page, Expiring
    <2>4. Page(u).lifetime = posted[u].earned + posted[u].adjusted
      <3>1. /\ HasBooks(Updated(account[u], -n), u) /\ account[u] \in Account
            /\ -n \in Int /\ ~(-n > 0)
        BY <1>1, <1>2, <2>1, <2>2 DEF InBooks, Inv, RowsOK
      <3>2. Updated(account[u], -n).lifetime = account[u].lifetime
        BY <3>1, UpdatedType
      <3> QED BY <1>5, <3>1, <3>2 DEF HasBooks, Credits
    <2>5. n \in 1..(Page(u).lifetime - Page(u).expired)
      BY <2>1, <2>3, <2>4
    <2>6. m = TRUE /\ pp = p - n /\ ll = l /\ ee = e + n /\ tt = t
      BY <1>3, <1>9, <1>14, <2>1, <2>2
    <2>7. Page(u)' = Book!Expired(page, n)
      <3>1. Book!Expired(page, n) = Showing(m, p - n, l, e + n, t)
        BY <1>17, ExpiredShows
      <3>2. Page(u)' = Showing(m, p - n, l, e + n, t)
        BY <1>8, <2>6, ZenonT(60)
      <3> QED BY <3>1, <3>2
    <2>8. Pages' = [Pages EXCEPT ![u] = Book!Expired(page, n)]
      BY <1>4, <1>9, <2>7
    <2>9. Book!Expire(u)
      BY <1>4, <1>7, <1>18, <2>5, <2>6, <2>8 DEF Book!Expire, Book!Expired, Book!Debited
    <2> QED BY <2>9, <1>19 DEF Book!Next
  <1>15. CASE ~worker[w].bonus /\ worker[w].kind = "claim"
    <2>1. PICK r \in Rewards : r = worker[w].reward
      BY <1>1, <1>15
    <2>2. n = Cost[r] /\ n <= Page(u).points
      BY <1>1, <1>3, <1>5, <1>6, <1>15, <2>1 DEF InOrder, Redeems
    <2>3. Change(w) = -n
      BY <1>3, <1>15 DEF Change, Amount, Redeems
    <2>4. Takes(w, u, r)
      BY <1>1, <1>2, <1>15, <2>1 DEF Takes
    <2>5. TotalAvailable[r] = 0 \/ Book!TakenByAll(r) < TotalAvailable[r]
      <3>1. /\ totalRedeemed[r] \in Nat /\ TotalAvailable[r] \in Nat
        BY LoyaltyAssumption DEF Inv, RowsOK
      <3>2. Book!TakenByAll(r) = totalRedeemed[r]
        BY <1>1, <2>4, TakenIsCounted
      <3>3. OneOf(Admitted(r)) = 1
        BY <1>1, <1>15, <2>1 DEF OneOf, Admitted
      <3> QED BY <3>1, <3>2, <3>3 DEF SerialLimits
    <2>6. MaxPerUser[r] = 0 \/ Page(u).taken[r] < MaxPerUser[r]
      <3>1. posted[u].uses[r] \in Nat /\ MaxPerUser[r] \in Nat
        BY LoyaltyAssumption, CreditsType DEF Inv, RowsOK
      <3>2. Page(u).taken[r] = posted[u].uses[r] - 1
        BY <1>1, <2>4 DEF Page, Taking
      <3>3. MaxPerUser[r] > 0 => posted[u].uses[r] + OneOf(Claiming(u, r)) <= MaxPerUser[r]
        BY DEF SerialLimits
      <3>4. OneOf(Claiming(u, r)) \in {0, 1}
        BY DEF OneOf
      <3> QED BY <3>1, <3>2, <3>3, <3>4
    <2>7. /\ m = TRUE /\ pp = p - n /\ ll = l /\ ee = e
          /\ tt = [t EXCEPT ![r] = @ + 1]
      BY <1>9, <1>15, <2>1, <2>3
    <2>8. Page(u)' = Book!Taken(page, r)
      <3>1. PICK points \in Int : points = p - n
        OBVIOUS
      <3>2. Book!Debited(Showing(m, p, l, e, t), n) = Showing(m, points, l, e, t)
        BY <3>1, DebitedShows
      <3>3. [Showing(m, points, l, e, t) EXCEPT !.taken[r] = @ + 1]
              = Showing(m, points, l, e, [t EXCEPT ![r] = @ + 1])
        BY DEF Showing
      <3>4. Page(u)' = Showing(m, points, l, e, [t EXCEPT ![r] = @ + 1])
        BY <1>8, <2>7, <3>1
      <3>5. Book!Taken(page, r)
              = [Book!Debited(Showing(m, p, l, e, t), n) EXCEPT !.taken[r] = @ + 1]
        BY <1>17, <2>2 DEF Book!Taken
      <3> QED BY <3>2, <3>3, <3>4, <3>5
    <2>9. Pages' = [Pages EXCEPT ![u] = Book!Taken(page, r)]
      BY <1>4, <1>9, <2>8
    <2>10. Book!Take(u)
      BY <1>4, <1>7, <1>18, <2>2, <2>5, <2>6, <2>7, <2>9 DEF Book!Take, Book!Taken, Book!Debited
    <2> QED BY <2>10, <1>19 DEF Book!Next
  <1>16. worker[w].kind # "none"
    BY <1>1 DEF Asked
  <1> QED BY <1>1, <1>10, <1>11, <1>12, <1>13, <1>14, <1>15, <1>16

(* A request that only reads or answers is not seen.                       *)
LEMMA ReadIsUnseen ==
  ASSUME Inv, NEW w \in Workers, worker[w].at # "idle", Alone(w), Others(w),
         UNCHANGED <<account, posted>>,
         worker[w].at \notin {"post", "write"},
         \/ worker'[w].at = "idle"
         \/ /\ worker'[w].at \notin {"idle", "write"}
            /\ worker'[w].bonus = worker[w].bonus
            /\ worker'[w].user = worker[w].user
  PROVE  UNCHANGED Pages
  <1>1. ~worker[w].bonus
    BY BusyWorker DEF InOrder
  <1>2. worker[w].at # "write" /\ worker'[w].at # "write"
    OBVIOUS
  <1> QED BY <1>1, <1>2, UnseenRead

(* The step of a worker that goes on with its request.                     *)
LEMMA ContinueEntered ==
  ASSUME Inv, SerialInv, SerialLimits, EntryInv, NEW w \in Workers, Continue(w)
  PROVE  Book!Next \/ UNCHANGED Pages
  <1>1. worker[w].at # "idle" /\ Alone(w) /\ worker[w] \in Worker
    BY BusyAlone
    DEF Continue, Insert, ReadReward, CheckLimit, SelectExpired, FlagExpired,
        Post, Write, Count, CountReferral, Answer, Inv, RowsOK, SerialInv
  <1>2. CASE Insert(w)
    BY <1>2, InsertUnseen
  <1>3. CASE ReadReward(w)
    <2>1. /\ worker' = [worker EXCEPT ![w].at = "limit"]
          /\ worker[w].at = "reward" /\ UNCHANGED <<account, posted>>
      BY <1>3 DEF ReadReward
    <2>2. /\ Others(w) /\ worker'[w].at = "limit"
          /\ worker'[w].bonus = worker[w].bonus /\ worker'[w].user = worker[w].user
      BY <2>1, Reaches DEF Inv
    <2> QED BY <1>1, <2>1, <2>2, ReadIsUnseen
  <1>4. CASE CheckLimit(w)
    <2>1. /\ worker' = [worker EXCEPT ![w].at = "post"]
          /\ worker[w].at = "limit" /\ UNCHANGED <<account, posted>>
      BY <1>4 DEF CheckLimit
    <2>2. /\ Others(w) /\ worker'[w].at = "post"
          /\ worker'[w].bonus = worker[w].bonus /\ worker'[w].user = worker[w].user
      BY <2>1, Reaches DEF Inv
    <2> QED BY <1>1, <2>1, <2>2, ReadIsUnseen
  <1>5. CASE SelectExpired(w)
    <2>1. PICK end, n : worker' = [worker EXCEPT ![w].at = "flag",
                                     ![w].upto = end, ![w].points = n]
      BY <1>5 DEF SelectExpired
    <2>2. /\ worker'[w] = [worker[w] EXCEPT !.at = "flag", !.upto = end,
                                            !.points = n]
          /\ Others(w)
      BY <2>1 DEF Others, Inv, RowsOK
    <2>3. /\ worker'[w].at = "flag" /\ worker'[w].user = worker[w].user
          /\ worker'[w].bonus = worker[w].bonus
      BY <1>1, <2>2 DEF Worker
    <2>4. worker[w].at = "select" /\ UNCHANGED <<account, posted>>
      BY <1>5 DEF SelectExpired
    <2> QED BY <1>1, <2>2, <2>3, <2>4, ReadIsUnseen
  <1>6. CASE FlagExpired(w)
    BY <1>1, <1>6, FlagUnseen
  <1>7. CASE Post(w)
    BY <1>1, <1>7, PostUnseen
  <1>8. CASE Write(w)
    BY <1>8, WriteEntered
  <1>9. CASE Count(w)
    <2>1. /\ worker' = [worker EXCEPT ![w].at = "answer"]
          /\ worker[w].at = "count" /\ UNCHANGED <<account, posted>>
      BY <1>9 DEF Count
    <2>2. /\ Others(w) /\ worker'[w].at = "answer"
          /\ worker'[w].bonus = worker[w].bonus /\ worker'[w].user = worker[w].user
      BY <2>1, Reaches DEF Inv
    <2> QED BY <1>1, <2>1, <2>2, ReadIsUnseen
  <1>10. CASE CountReferral(w)
    <2>1. /\ worker[w].at = "refer" /\ UNCHANGED posted
          /\ worker' = [worker EXCEPT ![w].at = "answer"]
          /\ account' = [account EXCEPT
               ![worker[w].user].referrals = worker[w].seen.referrals + 1]
      BY <1>10 DEF CountReferral
    <2>2. /\ Others(w) /\ worker'[w].at = "answer"
          /\ worker'[w].bonus = worker[w].bonus /\ worker'[w].user = worker[w].user
      BY <2>1, Reaches DEF Inv
    <2>3. \A u \in Users : /\ account'[u].exists = account[u].exists
                           /\ account'[u].points = account[u].points
                           /\ account'[u].lifetime = account[u].lifetime
      BY <2>1 DEF Inv, RowsOK, Account
    <2>4. \A u \in Users : Joining(u)' <=> Joining(u)
      BY <1>1, <2>1, <2>2, NotEntered
    <2> QED BY <1>1, <2>1, <2>2, <2>3, <2>4, Unseen
  <1>11. CASE Answer(w)
    <2>1. /\ Others(w) /\ worker'[w].at = "idle" /\ worker[w].at = "answer"
          /\ UNCHANGED <<account, posted>>
      BY <1>11 DEF Answer, Release, Others, Idle, Inv, RowsOK
    <2> QED BY <1>1, <2>1, ReadIsUnseen
  <1> QED BY <1>2, <1>3, <1>4, <1>5, <1>6, <1>7, <1>8, <1>9, <1>10, <1>11
          DEF Continue

(* Every step is one entry in the book, or is not seen there.              *)
LEMMA StepsAreEntries ==
  ASSUME Inv, SerialInv, SerialLimits, EntryInv, [SerialNext]_vars
  PROVE  Book!Next \/ UNCHANGED Pages
  <1>1. ASSUME NEW w \in Workers, AllIdle, Begin(w) PROVE UNCHANGED Pages
    BY <1>1, BeginUnseen
  <1>2. ASSUME NEW w \in Workers, Refuse(w) PROVE UNCHANGED Pages
    <2>1. /\ Others(w) /\ worker'[w].at = "idle"
          /\ worker[w].at \in {"reward", "limit", "select"}
          /\ UNCHANGED <<account, posted>>
      BY <1>2 DEF Refuse, Stop, Release, Others, Idle, Inv, RowsOK
    <2>2. Alone(w)
      BY <2>1, BusyAlone DEF SerialInv
    <2> QED BY <2>1, <2>2, ReadIsUnseen
  <1>3. Administer => UNCHANGED Pages
    BY AdministerUnseen DEF Inv
  <1>4. UNCHANGED vars => UNCHANGED Pages
    BY DEF vars, Pages, Page, Joining, Expiring, Expires, Taking, Takes
  <1> QED BY <1>1, <1>2, <1>3, <1>4, ContinueEntered DEF SerialNext

(* In the initial states nothing is entered.                               *)
LEMMA EmptyBook ==
  ASSUME Init
  PROVE  Book!Init /\ EntryInv
  <1>1. /\ \A u \in Users : account[u] = NoAccount /\ posted[u] = NoTransactions
        /\ \A w \in Workers : worker[w].at = "idle"
    BY DEF Init, Idle
  <1>2. ASSUME NEW u \in Users PROVE Page(u) = Book!NoPage
    <2>1. /\ ~Joining(u) /\ Expiring(u) = 0
          /\ \A r \in Rewards : Taking(u, r) = 0
      BY <1>1 DEF Joining, Expiring, Expires, Taking, Takes
    <2>2. [r \in Rewards |-> posted[u].uses[r] - Taking(u, r)]
            = [r \in Rewards |-> 0]
      BY <1>1, <2>1 DEF NoTransactions
    <2>3. /\ account[u].exists = FALSE /\ account[u].points = 0
          /\ account[u].lifetime = 0 /\ posted[u].expired = 0
      BY <1>1 DEF NoAccount, NoTransactions
    <2>4. account[u].exists /\ ~Joining(u) <=> FALSE
      BY <2>3
    <2>5. posted[u].expired - Expiring(u) = 0
      BY <2>1, <2>3
    <2> QED BY <2>2, <2>3, <2>4, <2>5 DEF Page, Book!NoPage
  <1>3. Book!Init
    BY <1>2 DEF Book!Init, Pages
  <1>4. \A u \in Users : ExpiresOnce(u)
    BY <1>1 DEF ExpiresOnce, NoTransactions
  <1> QED BY <1>1, <1>3, <1>4 DEF EntryInv

(* The programme, one request at a time, implements the book: a request is *)
(* a sequence of transactions, and what its member sees of it is one entry *)
(* that respects the page and the limits of the reward.                    *)
THEOREM BookImplemented == SerialSpec => ImplementsBook
  <1>1. Init => SerialInv /\ SerialLimits /\ EntryInv /\ Book!Init
    BY SerialInit, LimitsInit, EmptyBook
  <1>2. /\ Inv /\ SerialInv /\ SerialLimits /\ EntryInv /\ [SerialNext]_vars
        => SerialInv' /\ SerialLimits' /\ EntryInv'
    BY SerialNextIsRight, InTurnStep, EntryNext DEF SerialInv
  <1>3. /\ Inv /\ SerialInv /\ SerialLimits /\ EntryInv /\ [SerialNext]_vars
        => [Book!Next]_Pages
    BY StepsAreEntries
  <1> QED BY <1>1, <1>2, <1>3, SerialImplements, LoyaltyInvariant, PTL
          DEF SerialSpec, ImplementsBook, Book!Spec
=============================================================================

------------------------------- MODULE Loyalty -------------------------------
(***************************************************************************)
(* LoyaltyService (backend/app/services/loyalty.py) over LoyaltyRepository *)
(* (backend/app/db/repositories/loyalty.py).                               *)
(*                                                                         *)
(* A request is a sequence of transactions: the repository commits after   *)
(* every write.  It reads the account once; later reads of the same row in *)
(* the request return the object the session already holds, so the balance *)
(* a request writes is the balance it has seen plus its own change.  A     *)
(* request that stops halfway keeps what it has committed.                 *)
(*                                                                         *)
(* The actions are the methods of the service.  Those for redemptions and  *)
(* reviews are behind routes; the routes of the administrator (awards of   *)
(* custom points, suspension, tiers, expiry) as committed refuse everybody,*)
(* since they give require_role a list where it compares one role, and     *)
(* nothing calls the birthday and referral awards.  The model has them all,*)
(* so what is said of it is said of the service, whoever may call it.      *)
(***************************************************************************)
EXTENDS Integers, FiniteSets, Functions

CONSTANTS
    Users, Rewards,
    NoUser, NoReward,   \* the user and reward of an idle worker
    Workers,            \* request handlers that may run at the same time
    Tiers,              \* ranks of LoyaltyTier, 0 for BRONZE
    SignupBonus,        \* points of _award_points with SIGNUP_BONUS
    AwardPoints,        \* points of each kind of award in each tier
    Discounts,          \* points a discount is asked for
    Cost,               \* each reward's point_cost
    MinTier,            \* ... the rank of its minimum_tier
    TotalAvailable,     \* ... its total_available, 0 for no limit
    MaxPerUser,         \* ... its max_redemptions_per_user, 0 for no limit
    Awarded,            \* bound: the kinds of award that are requested
    MaxPosted           \* bound: no request to post more is begun once so much
                        \* is posted

Awards == {"review", "birthday", "referral", "custom"}

(* A table has finitely many rows: the redemptions of a reward have a sum. *)
ASSUME FiniteUsers == IsFiniteSet(Users)

ASSUME LoyaltyAssumption ==
    /\ NoUser \notin Users /\ NoReward \notin Rewards
    /\ IsFiniteSet(Workers) /\ Workers # {}
    /\ Tiers \subseteq Nat /\ 0 \in Tiers
    /\ SignupBonus \in Nat
    /\ AwardPoints \in [Awards -> [Tiers -> Nat]]
    /\ Discounts \subseteq Nat \ {0}
    /\ Cost \in [Rewards -> Nat]
    /\ MinTier \in [Rewards -> Tiers]
    /\ TotalAvailable \in [Rewards -> Nat]
    /\ MaxPerUser \in [Rewards -> Nat]
    /\ Awarded \subseteq Awards /\ MaxPosted \in Nat

VARIABLES
    account,        \* the loyalty_accounts table
    posted,         \* the point_transactions table, in totals
    totalRedeemed,  \* total_redeemed of each reward
    worker,         \* what each worker is doing and has read
    uncounted       \* history: redemptions of each reward whose request
                    \* stopped before it had counted them

vars == <<account, posted, totalRedeemed, worker, uncounted>>

(* A row of loyalty_accounts.  (tier_points is always written together     *)
(* with lifetime_points and by the same amount; is_active is never unset.) *)
Account == [exists: BOOLEAN, points: Int, lifetime: Nat, tier: Tiers,
            suspended: BOOLEAN, referrals: Nat]

NoAccount == [exists |-> FALSE, points |-> 0, lifetime |-> 0, tier |-> 0,
              suspended |-> FALSE, referrals |-> 0]

(* The transactions of an account: the points of each type, how many are   *)
(* signup and referral bonuses, how many redeem each reward.  The EARNED   *)
(* ones expire in the order they were created: "ends" are the running      *)
(* totals of earned points after each, "flagged" the total of those that   *)
(* have is_expired set.                                                    *)
Transactions == [earned: Nat, adjusted: Nat, redeemed: Nat, expired: Nat,
                 signups: Nat, referrals: Nat, uses: [Rewards -> Nat],
                 ends: SUBSET Nat, flagged: Nat]

NoTransactions == [earned |-> 0, adjusted |-> 0, redeemed |-> 0, expired |-> 0,
                   signups |-> 0, referrals |-> 0,
                   uses |-> [r \in Rewards |-> 0], ends |-> {}, flagged |-> 0]

Credits(u) == posted[u].earned + posted[u].adjusted

(* A worker: the point it has reached, its request, whether it has still   *)
(* to award the signup bonus of an account it created, the account as its  *)
(* session holds it, and the running total up to which it expires points.  *)
Worker == [at: {"idle", "create", "reward", "limit", "select", "flag", "post",
                "write", "count", "refer", "answer"},
           kind: Awards \cup {"none", "open", "discount", "claim", "expire"},
           user: Users \cup {NoUser}, reward: Rewards \cup {NoReward},
           points: Nat, bonus: BOOLEAN, seen: Account, upto: Nat]

Idle == [at |-> "idle", kind |-> "none", user |-> NoUser, reward |-> NoReward,
         points |-> 0, bonus |-> FALSE, seen |-> NoAccount, upto |-> 0]

Release(w) == worker' = [worker EXCEPT ![w] = Idle]

(***************************************************************************)
(* The first read of a request, and the checks that depend on it alone.    *)
(***************************************************************************)
Request(w, at, kind, u, r, n) ==
    /\ worker[w].at = "idle"
    /\ worker' = [worker EXCEPT
         ![w] = [Idle EXCEPT !.at = at, !.kind = kind, !.user = u, !.reward = r,
                             !.points = n, !.seen = account[u]]]
    /\ UNCHANGED <<account, posted, totalRedeemed, uncounted>>

(* Mutant: the balance is not looked at.                                   *)
CanRedeemMore(row, n) == ~row.suspended /\ n > 0

(* LoyaltyAccount.can_redeem_points.                                       *)
CanRedeem(row, n) == ~row.suspended /\ row.points >= n /\ n > 0

(* create_loyalty_account of a user who has none.                          *)
Open(w, u) == ~account[u].exists /\ Request(w, "create", "open", u, NoReward, 0)

(* award_review_points, award_birthday_bonus, award_referral_points and    *)
(* award_custom_points to an existing account, or after creating one; only *)
(* the last does not look whether the account is suspended.                *)
Award(w, u, kind) ==
    /\ kind = "custom" \/ ~account[u].suspended
    /\ Request(w, IF account[u].exists THEN "post" ELSE "create", kind, u,
               NoReward, AwardPoints[kind][account[u].tier])

(* redeem_points_for_discount.                                             *)
Discount(w, u) ==
    \E n \in Discounts :
        /\ account[u].exists /\ CanRedeem(account[u], n)
        /\ Request(w, "post", "discount", u, NoReward, n)

(* redeem_reward.                                                          *)
Claim(w, u, r) ==
    account[u].exists /\ Request(w, "reward", "claim", u, r, Cost[r])

(* expire_user_points.                                                     *)
Expire(w, u) == account[u].exists /\ Request(w, "select", "expire", u, NoReward, 0)

(***************************************************************************)
(* The later steps of a request.                                           *)
(***************************************************************************)

(* Mutant: the account is inserted whether or not one exists.              *)
InsertAgain(w) ==
    LET u == worker[w].user IN
      /\ worker[w].at = "create"
      /\ account' = [account EXCEPT ![u] = [NoAccount EXCEPT !.exists = TRUE]]
      /\ worker' = [worker EXCEPT ![w].at = "post", ![w].bonus = TRUE,
                                  ![w].seen = account'[u]]
      /\ UNCHANGED <<posted, totalRedeemed, uncounted>>

(* The repository's create_loyalty_account; user_id is unique.             *)
Insert(w) ==
    LET u == worker[w].user IN
      /\ worker[w].at = "create"
      /\ ~account[u].exists
      /\ account' = [account EXCEPT ![u] = [NoAccount EXCEPT !.exists = TRUE]]
      /\ worker' = [worker EXCEPT ![w].at = "post", ![w].bonus = TRUE,
                                  ![w].seen = account'[u]]
      /\ UNCHANGED <<posted, totalRedeemed, uncounted>>

(* The reward is read: is_available, can_be_redeemed_by_tier and           *)
(* can_redeem_points of the account as it was read before.                 *)
ReadReward(w) ==
    LET r == worker[w].reward IN
      /\ worker[w].at = "reward"
      /\ TotalAvailable[r] = 0 \/ totalRedeemed[r] < TotalAvailable[r]
      /\ MinTier[r] <= worker[w].seen.tier
      /\ CanRedeem(worker[w].seen, Cost[r])
      /\ worker' = [worker EXCEPT ![w].at = "limit"]
      /\ UNCHANGED <<account, posted, totalRedeemed, uncounted>>

(* Mutant: the limit is exceeded by one.                                   *)
CheckLimitLate(w) ==
    LET r == worker[w].reward IN
      /\ worker[w].at = "limit"
      /\ MaxPerUser[r] = 0 \/ posted[worker[w].user].uses[r] <= MaxPerUser[r]
      /\ worker' = [worker EXCEPT ![w].at = "post"]
      /\ UNCHANGED <<account, posted, totalRedeemed, uncounted>>

(* get_user_redemption_count, if the reward has a limit for each user.     *)
CheckLimit(w) ==
    LET r == worker[w].reward IN
      /\ worker[w].at = "limit"
      /\ MaxPerUser[r] = 0 \/ posted[worker[w].user].uses[r] < MaxPerUser[r]
      /\ worker' = [worker EXCEPT ![w].at = "post"]
      /\ UNCHANGED <<account, posted, totalRedeemed, uncounted>>

(* expire_points selects the EARNED transactions past their expiry date    *)
(* that are not flagged: the oldest ones.                                  *)
SelectExpired(w) ==
    LET past == posted[worker[w].user] IN
      /\ worker[w].at = "select"
      /\ \E end \in past.ends :
           /\ end > past.flagged
           /\ worker' = [worker EXCEPT ![w].at = "flag", ![w].upto = end,
                                       ![w].points = end - past.flagged]
      /\ UNCHANGED <<account, posted, totalRedeemed, uncounted>>

(* Mutant: is_expired is not set.                                          *)
FlagNothing(w) ==
    LET u == worker[w].user IN
      /\ worker[w].at = "flag"
      /\ posted' = [posted EXCEPT ![u].expired = @ + worker[w].points]
      /\ worker' = [worker EXCEPT ![w].at = "write"]
      /\ UNCHANGED <<account, totalRedeemed, uncounted>>

(* ... and flags them and posts an EXPIRED transaction for each.           *)
FlagExpired(w) ==
    LET u == worker[w].user IN
      /\ worker[w].at = "flag"
      /\ posted' = [posted EXCEPT
           ![u].expired = @ + worker[w].points,
           ![u].flagged = IF worker[w].upto > @ THEN worker[w].upto ELSE @]
      /\ worker' = [worker EXCEPT ![w].at = "write"]
      /\ UNCHANGED <<account, totalRedeemed, uncounted>>

(* The points a worker posts, and the change of the balance it writes.     *)
Amount(w) == IF worker[w].bonus THEN SignupBonus ELSE worker[w].points

Redeems(w) == worker[w].kind \in {"discount", "claim"}

(* Mutant: expired points are added.                                       *)
ChangeAdds(w) == IF Redeems(w) THEN -Amount(w) ELSE Amount(w)

Change(w) == IF Redeems(w) \/ worker[w].kind = "expire" THEN -Amount(w)
             ELSE Amount(w)

(* An EARNED transaction.                                                  *)
Earned(past, n) == [past EXCEPT !.earned = @ + n,
                                !.ends = @ \cup {past.earned + n}]

(* The transactions of the user after create_point_transaction.            *)
Posting(w) ==
    LET past == posted[worker[w].user]
        n == Amount(w)
        kind == worker[w].kind
    IN  IF worker[w].bonus THEN [Earned(past, n) EXCEPT !.signups = @ + 1]
        ELSE CASE kind = "custom" -> [past EXCEPT !.adjusted = @ + n]
               [] kind = "referral" -> [Earned(past, n) EXCEPT !.referrals = @ + 1]
               [] kind = "discount" -> [past EXCEPT !.redeemed = @ + n]
               [] kind = "claim" -> [past EXCEPT !.redeemed = @ + n,
                                                 !.uses[worker[w].reward] = @ + 1]
               [] OTHER -> Earned(past, n)

Post(w) ==
    /\ worker[w].at = "post"
    /\ posted' = [posted EXCEPT ![worker[w].user] = Posting(w)]
    /\ worker' = [worker EXCEPT ![w].at = "write"]
    /\ UNCHANGED <<account, totalRedeemed, uncounted>>

(* _update_account_balance on the account the session holds: only what is  *)
(* added counts in lifetime_points.                                        *)
Updated(row, change) ==
    [row EXCEPT !.points = @ + change,
                !.lifetime = IF change > 0 THEN @ + change ELSE @]

(* What follows the write of the balance.                                  *)
AfterWrite(w) ==
    CASE worker[w].bonus /\ worker[w].kind # "open" -> "post"
      [] ~worker[w].bonus /\ worker[w].kind = "referral" -> "refer"
      [] worker[w].kind = "claim" -> "count"
      [] OTHER -> "answer"

(* Mutant: the session goes on with the account it had before the write.   *)
WriteForgets(w) ==
    LET u == worker[w].user
        row == Updated(worker[w].seen, Change(w))
    IN  /\ worker[w].at = "write"
        /\ account' = [account EXCEPT ![u].points = row.points,
                                      ![u].lifetime = row.lifetime]
        /\ worker' = [worker EXCEPT ![w].at = AfterWrite(w), ![w].bonus = FALSE]
        /\ UNCHANGED <<posted, totalRedeemed, uncounted>>

(* update_loyalty_account writes both columns, and keeps the object that   *)
(* the session holds in step with what it has written.                     *)
Write(w) ==
    LET u == worker[w].user
        row == Updated(worker[w].seen, Change(w))
    IN  /\ worker[w].at = "write"
        /\ account' = [account EXCEPT ![u].points = row.points,
                                      ![u].lifetime = row.lifetime]
        /\ worker' = [worker EXCEPT ![w].at = AfterWrite(w), ![w].bonus = FALSE,
                                    ![w].seen = row]
        /\ UNCHANGED <<posted, totalRedeemed, uncounted>>

(* Mutant: the counter is not incremented.                                 *)
CountForgets(w) ==
    /\ worker[w].at = "count"
    /\ worker' = [worker EXCEPT ![w].at = "answer"]
    /\ UNCHANGED <<account, posted, totalRedeemed, uncounted>>

(* increment_reward_redemption_count, in one statement of the database.    *)
Count(w) ==
    /\ worker[w].at = "count"
    /\ totalRedeemed' = [totalRedeemed EXCEPT ![worker[w].reward] = @ + 1]
    /\ worker' = [worker EXCEPT ![w].at = "answer"]
    /\ UNCHANGED <<account, posted, uncounted>>

(* The last write of award_referral_points.                                *)
CountReferral(w) ==
    /\ worker[w].at = "refer"
    /\ account' = [account EXCEPT
         ![worker[w].user].referrals = worker[w].seen.referrals + 1]
    /\ worker' = [worker EXCEPT ![w].at = "answer"]
    /\ UNCHANGED <<posted, totalRedeemed, uncounted>>

Answer(w) ==
    /\ worker[w].at = "answer"
    /\ Release(w)
    /\ UNCHANGED <<account, posted, totalRedeemed, uncounted>>

(* A redemption of the reward is posted that the worker has not counted.   *)
OwesCount(w, r) == /\ worker[w].kind = "claim" /\ worker[w].reward = r
                   /\ worker[w].at \in {"write", "count"}

(* A check refuses the request, the account was inserted by another one,   *)
(* there is nothing to expire, a statement fails or the process dies: what *)
(* the request has committed stays.                                        *)
Stop(w) ==
    /\ worker[w].at \notin {"idle", "answer"}
    /\ Release(w)
    /\ uncounted' = [r \in Rewards |->
                       IF OwesCount(w, r) THEN uncounted[r] + 1 ELSE uncounted[r]]
    /\ UNCHANGED <<account, posted, totalRedeemed>>

(***************************************************************************)
(* The service's operations for the administrator; a suspension may also   *)
(* end by its date.  None of them writes a column that depends on what it  *)
(* has read.                                                               *)
(***************************************************************************)
SetAccount(u, row) ==
    /\ account[u].exists /\ account[u] # row
    /\ account' = [account EXCEPT ![u] = row]
    /\ UNCHANGED <<posted, totalRedeemed, worker, uncounted>>

Suspend(u) == SetAccount(u, [account[u] EXCEPT !.suspended = TRUE])

Reactivate(u) == SetAccount(u, [account[u] EXCEPT !.suspended = FALSE])

UpgradeTier(u) == \E t \in Tiers : SetAccount(u, [account[u] EXCEPT !.tier = t])

(***************************************************************************)
(* The specification.                                                      *)
(***************************************************************************)
Init ==
    /\ account = [u \in Users |-> NoAccount]
    /\ posted = [u \in Users |-> NoTransactions]
    /\ totalRedeemed = [r \in Rewards |-> 0]
    /\ worker = [w \in Workers |-> Idle]
    /\ uncounted = [r \in Rewards |-> 0]

MayPost(u) == Credits(u) + posted[u].redeemed < MaxPosted

(* A call of one of the service's methods for a user.                      *)
Begin(w) ==
    \E u \in Users :
        \/ /\ MayPost(u)
           /\ \/ Open(w, u)
              \/ \E kind \in Awarded : Award(w, u, kind)
              \/ Discount(w, u)
              \/ \E r \in Rewards : Claim(w, u, r)
        \/ Expire(w, u)

Continue(w) ==
    \/ Insert(w)
    \/ ReadReward(w)
    \/ CheckLimit(w)
    \/ SelectExpired(w)
    \/ FlagExpired(w)
    \/ Post(w)
    \/ Write(w)
    \/ Count(w)
    \/ CountReferral(w)
    \/ Answer(w)

Administer == \E u \in Users : Suspend(u) \/ Reactivate(u) \/ UpgradeTier(u)

Next == (\E w \in Workers : Begin(w) \/ Continue(w) \/ Stop(w)) \/ Administer

Spec == Init /\ [][Next]_vars

(* One request at a time, each refused before it has committed or run to   *)
(* its end.                                                                *)
Refuse(w) == worker[w].at \in {"reward", "limit", "select"} /\ Stop(w)

AllIdle == \A w \in Workers : worker[w] = Idle

SerialNext == \/ \E w \in Workers : AllIdle /\ Begin(w)
              \/ \E w \in Workers : Continue(w) \/ Refuse(w)
              \/ Administer

SerialSpec == Init /\ [][SerialNext]_vars

(***************************************************************************)
(* Safety.                                                                 *)
(***************************************************************************)

(* Every variable has its type; a busy worker has a user, one that claims  *)
(* a reward a reward, and one that awards a signup bonus does only that.   *)
RowsOK ==
    /\ account \in [Users -> Account]
    /\ posted \in [Users -> Transactions]
    /\ totalRedeemed \in [Rewards -> Nat]
    /\ worker \in [Workers -> Worker]
    /\ \A w \in Workers :
         /\ worker[w].at # "idle" => worker[w].user \in Users
         /\ worker[w].kind = "claim" => worker[w].reward \in Rewards
         /\ worker[w].bonus => worker[w].kind \in Awards \cup {"open"}

TypeOK == RowsOK /\ uncounted \in [Rewards -> Nat]

(* An account is given its signup bonus at most once, and nothing is       *)
(* posted for a user without an account, however many requests find that   *)
(* there is none and set out to create it.                                 *)
WillPostBonus(u) ==
    {w \in Workers : /\ worker[w].user = u /\ worker[w].at = "post"
                     /\ worker[w].bonus}

SignupBonusOnce ==
    \A u \in Users :
        /\ posted[u].signups + Cardinality(WillPostBonus(u)) <= 1
        /\ ~account[u].exists => posted[u] = NoTransactions

(* The balance and the lifetime points never exceed what was posted for    *)
(* the account: of two requests that have read the same balance one may    *)
(* undo the other's change, but none credits points that are not posted.   *)
PointsArePosted ==
    \A u \in Users : /\ account[u].points <= Credits(u)
                     /\ account[u].lifetime <= Credits(u)

(* A balance is below zero by no more than the points that have expired:   *)
(* requests that redeem never overdraw it, not even together, because each *)
(* writes the balance that it has checked less what it redeems.  (Points   *)
(* that were redeemed expire all the same, so it may become negative.)     *)
OnlyExpiryOverdraws == \A u \in Users : account[u].points + posted[u].expired >= 0

(* The redemptions of a reward: those of all its users.                    *)
UsesOf(r) == FoldFunction(+, 0, [u \in Users |-> posted[u].uses[r]])

(* redeem_reward checks total_available and max_redemptions_per_user before*)
(* it posts a redemption, and counts it last: the redemptions of a reward  *)
(* may exceed either limit by the other requests that run at the same time,*)
(* and total_available by those redemptions, too, whose request stopped    *)
(* after posting and before counting them.  Nothing else exceeds it.       *)
LimitsHoldUpToWorkers ==
    LET others == Cardinality(Workers) - 1 IN
      \A r \in Rewards :
        /\ TotalAvailable[r] > 0 =>
             UsesOf(r) <= TotalAvailable[r] + others + uncounted[r]
        /\ MaxPerUser[r] > 0 =>
             \A u \in Users : posted[u].uses[r] <= MaxPerUser[r] + others

(* The strengthening that makes this inductive: the limits hold of the     *)
(* counter and of the redemptions with the requests that have passed the   *)
(* check, and each redemption is counted, about to be, or never will be.   *)
Admitted(r) == {w \in Workers : /\ worker[w].kind = "claim"
                                /\ worker[w].reward = r
                                /\ worker[w].at \in {"limit", "post", "write", "count"}}

Claiming(u, r) == {w \in Workers : /\ worker[w].kind = "claim"
                                   /\ worker[w].user = u /\ worker[w].reward = r
                                   /\ worker[w].at = "post"}

CounterIsLimited ==
    LET others == Cardinality(Workers) - 1 IN
      \A r \in Rewards :
        /\ TotalAvailable[r] > 0 =>
             totalRedeemed[r] + Cardinality(Admitted(r))
                <= TotalAvailable[r] + others
        /\ MaxPerUser[r] > 0 =>
             \A u \in Users :
               posted[u].uses[r] + Cardinality(Claiming(u, r))
                  <= MaxPerUser[r] + others

Owing(r) == {w \in Workers : OwesCount(w, r)}

EveryUseIsKnown ==
    \A r \in Rewards :
        UsesOf(r) = totalRedeemed[r] + Cardinality(Owing(r)) + uncounted[r]

(* The strengthening of the invariants above: the steps that a request     *)
(* of each kind takes, and what a session knows of the account it has read *)
(* and of the row that it is about to write.                               *)
InOrder(w) ==
    LET me == worker[w] IN
      /\ me.at \in {"reward", "limit", "count"} => me.kind = "claim"
      /\ me.at \in {"select", "flag"} => me.kind = "expire"
      /\ me.at = "create" => me.kind \in Awards \cup {"open"}
      /\ me.at = "post" => me.kind \notin {"none", "expire"}
      /\ me.bonus => me.at \in {"post", "write"}
      /\ me.kind = "claim" => me.points = Cost[me.reward]
      /\ me.at \notin {"idle", "create"} => account[me.user].exists

Backed(row, u) == /\ row.points <= Credits(u)
                  /\ row.lifetime <= Credits(u)
                  /\ row.points + posted[u].expired >= 0

SeenIsBacked(w) ==
    LET me == worker[w] IN
      /\ Backed(me.seen, me.user)
      /\ me.at = "write" => Backed(Updated(me.seen, Change(w)), me.user)
      /\ me.at \in {"limit", "post"} /\ Redeems(w) => me.points <= me.seen.points

WorkersAreRight ==
    \A w \in Workers : worker[w].at # "idle" => InOrder(w) /\ SeenIsBacked(w)

Inv ==
    /\ RowsOK
    /\ SignupBonusOnce
    /\ PointsArePosted
    /\ OnlyExpiryOverdraws
    /\ CounterIsLimited
    /\ WorkersAreRight

(* The books of requests that run one at a time and to their end: between  *)
(* requests the balance is what the transactions add up to, and the counts *)
(* of referrals and of redeemed rewards are those of the transactions.     *)
Balance(u) == Credits(u) - posted[u].redeemed - posted[u].expired

BooksBalance ==
    AllIdle =>
      /\ \A u \in Users : /\ account[u].points = Balance(u)
                          /\ account[u].lifetime = Credits(u)
                          /\ account[u].referrals = posted[u].referrals
      /\ \A r \in Rewards : totalRedeemed[r] = UsesOf(r)

(* When requests run one at a time, the limits of a reward hold exactly: a *)
(* claim that has passed the checks of redeem_reward is the only one until *)
(* it is posted and counted.                                               *)
LimitsHoldInTurn ==
    \A r \in Rewards :
        /\ TotalAvailable[r] > 0 => totalRedeemed[r] <= TotalAvailable[r]
        /\ MaxPerUser[r] > 0 =>
             \A u \in Users : posted[u].uses[r] <= MaxPerUser[r]

(* The strengthening that makes these inductive when one request runs at a *)
(* time.  A user nobody works for has settled books.  A worker's session   *)
(* holds the totals of the row, which account for the transactions once    *)
(* the change that was posted is written; a referral that was posted, or a *)
(* claim, is still to be counted.                                          *)
OneAtWork ==
    \A v, w \in Workers : worker[v].at # "idle" /\ worker[w].at # "idle" => v = w

NoneYet == \A u \in Users : ~account[u].exists => account[u] = NoAccount

HasBooks(row, u) == row.points = Balance(u) /\ row.lifetime = Credits(u)

Settled(u) == /\ HasBooks(account[u], u)
              /\ account[u].referrals = posted[u].referrals

OwesReferral(w) ==
    LET me == worker[w] IN
      \/ me.at = "refer"
      \/ me.at = "write" /\ me.kind = "referral" /\ ~me.bonus

InBooks(w) ==
    LET me == worker[w]
        row == account[me.user]
    IN  /\ me.at # "answer" => /\ me.seen.points = row.points
                               /\ me.seen.lifetime = row.lifetime
                               /\ me.seen.referrals = row.referrals
        /\ HasBooks(IF me.at = "write" THEN Updated(row, Change(w)) ELSE row,
                    me.user)
        /\ posted[me.user].referrals =
             row.referrals + (IF OwesReferral(w) THEN 1 ELSE 0)

UsesAreCounted ==
    \A r \in Rewards :
        UsesOf(r) = totalRedeemed[r]
                      + (IF \E w \in Workers : OwesCount(w, r) THEN 1 ELSE 0)

SerialInv ==
    /\ OneAtWork /\ NoneYet /\ UsesAreCounted
    /\ \A u \in Users :
         (\A w \in Workers : worker[w].at = "idle" \/ worker[w].user # u) => Settled(u)
    /\ \A w \in Workers : worker[w].at # "idle" => InBooks(w)

(* One more claim that is under way, in a set of them that has one at most. *)
OneOf(S) == IF S = {} THEN 0 ELSE 1

SerialLimits ==
    \A r \in Rewards :
        /\ TotalAvailable[r] > 0 =>
             totalRedeemed[r] + OneOf(Admitted(r)) <= TotalAvailable[r]
        /\ MaxPerUser[r] > 0 =>
             \A u \in Users :
               posted[u].uses[r] + OneOf(Claiming(u, r)) <= MaxPerUser[r]

(***************************************************************************)
(* The book that the programme keeps, as its members see it: a request is  *)
(* entered when it writes the balance, and what it has posted before that  *)
(* is not in the book yet.                                                 *)
(***************************************************************************)
Joining(u) == \E w \in Workers : /\ worker[w].at # "idle" /\ worker[w].bonus
                                 /\ worker[w].user = u

Expires(w, u) == /\ worker[w].at = "write" /\ worker[w].kind = "expire"
                 /\ worker[w].user = u

Expiring(u) ==
    IF \E w \in Workers : Expires(w, u)
    THEN worker[CHOOSE w \in Workers : Expires(w, u)].points ELSE 0

Takes(w, u, r) == /\ worker[w].at = "write" /\ worker[w].kind = "claim"
                  /\ worker[w].user = u /\ worker[w].reward = r

Taking(u, r) == IF \E w \in Workers : Takes(w, u, r) THEN 1 ELSE 0

Page(u) == [member |-> account[u].exists /\ ~Joining(u),
            points |-> account[u].points,
            lifetime |-> account[u].lifetime,
            expired |-> posted[u].expired - Expiring(u),
            taken |-> [r \in Rewards |-> posted[u].uses[r] - Taking(u, r)]]

Pages == [u \in Users |-> Page(u)]

Book == INSTANCE LoyaltyBook WITH book <- Pages

(* Requests that run one at a time look like single entries in that book,  *)
(* although each is a sequence of transactions: the bonus of an account is *)
(* entered when the user joins, what is redeemed is on the page, a reward  *)
(* is taken within its limits, and no point expires twice.                 *)
ImplementsBook == Book!Spec

(* What a request still knows when it is entered: what it was asked for,   *)
(* that the page covers what it redeems, and that the points it expires    *)
(* are earned ones that have not expired before.                           *)
Asked(w) ==
    LET me == worker[w] IN
      /\ me.kind # "none"
      /\ me.kind \in Awards =>
           me.kind \in Awarded /\ \E t \in Tiers : me.points = AwardPoints[me.kind][t]
      /\ me.kind = "discount" => me.points \in Discounts
      /\ me.kind = "open" => me.points = 0

Covered(w) ==
    LET me == worker[w]
        past == posted[me.user]
    IN  /\ me.at = "write" /\ Redeems(w) => me.points <= me.seen.points
        /\ me.at = "flag" => /\ me.upto \in past.ends /\ me.points > 0
                             /\ me.upto = past.flagged + me.points
        /\ me.at = "write" /\ me.kind = "expire" =>
             me.points > 0 /\ me.points <= past.expired
        /\ me.at = "write" /\ me.kind = "claim" => past.uses[me.reward] > 0

ExpiresOnce(u) == /\ posted[u].expired = posted[u].flagged
                  /\ posted[u].flagged <= posted[u].earned
                  /\ \A end \in posted[u].ends : end <= posted[u].earned

EntryInv ==
    /\ \A w \in Workers : worker[w].at # "idle" => Asked(w) /\ Covered(w)
    /\ \A u \in Users : ExpiresOnce(u)
=============================================================================

----------------------------- MODULE LoyaltyBook -----------------------------
(***************************************************************************)
(* What the loyalty programme promises its members: a book with a page for *)
(* each, on which every request is one entry.  Nobody joins twice, nobody  *)
(* spends points that are not on the page, nobody takes a reward beyond    *)
(* its limits, and no more points expire than were ever credited.          *)
(***************************************************************************)
EXTENDS Integers, Functions

CONSTANTS Users, Rewards, Tiers, SignupBonus, AwardPoints, Awarded, Discounts,
          Cost, TotalAvailable, MaxPerUser

VARIABLE book   \* the page of each user

NoPage == [member |-> FALSE, points |-> 0, lifetime |-> 0, expired |-> 0,
           taken |-> [r \in Rewards |-> 0]]

Init == book = [u \in Users |-> NoPage]

Credited(page, n) == [page EXCEPT !.points = @ + n, !.lifetime = @ + n]

Debited(page, n) == [page EXCEPT !.points = @ - n]

Joined(page) == [Credited(page, SignupBonus) EXCEPT !.member = TRUE]

Taken(page, r) == [Debited(page, Cost[r]) EXCEPT !.taken[r] = @ + 1]

Expired(page, n) == [Debited(page, n) EXCEPT !.expired = @ + n]

(* A user joins and is given the signup bonus.                             *)
Join(u) ==
    /\ ~book[u].member
    /\ book' = [book EXCEPT ![u] = Joined(@)]

(* A member is awarded points of some kind, as one of some tier.           *)
Amounts == {AwardPoints[kind][t] : kind \in Awarded, t \in Tiers}

Credit(u) ==
    \E n \in Amounts :
        /\ book[u].member
        /\ book' = [book EXCEPT ![u] = Credited(@, n)]

(* A member spends points on a discount.                                   *)
Spend(u) ==
    \E n \in Discounts :
        /\ book[u].member /\ n <= book[u].points
        /\ book' = [book EXCEPT ![u] = Debited(@, n)]

(* A member takes a reward.                                                *)
TakenByAll(r) == FoldFunction(+, 0, [u \in Users |-> book[u].taken[r]])

Take(u) ==
    \E r \in Rewards :
        /\ book[u].member /\ Cost[r] <= book[u].points
        /\ TotalAvailable[r] = 0 \/ TakenByAll(r) < TotalAvailable[r]
        /\ MaxPerUser[r] = 0 \/ book[u].taken[r] < MaxPerUser[r]
        /\ book' = [book EXCEPT ![u] = Taken(@, r)]

(* Points of a member expire, spent or not.                                *)
Expire(u) ==
    \E n \in 1..(book[u].lifetime - book[u].expired) :
        /\ book[u].member
        /\ book' = [book EXCEPT ![u] = Expired(@, n)]

(* What changes is one page, by one entry.                                 *)
Next ==
    \E u \in Users :
        /\ book'[u] # book[u]
        /\ Join(u) \/ Credit(u) \/ Spend(u) \/ Take(u) \/ Expire(u)

Spec == Init /\ [][Next]_book
=============================================================================

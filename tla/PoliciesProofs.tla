--------------------------- MODULE PoliciesProofs ---------------------------
(***************************************************************************)
(* Proofs about Policies, for any set of tiers, windows, rules and prices. *)
(***************************************************************************)
EXTENDS Policies, WellFoundedInduction, TLAPS

-----------------------------------------------------------------------------
(* The first of the tiers that apply.                                      *)

Less == {ss \in Nat \X Nat : ss[1] < ss[2]}

LEMMA LessWellFounded == IsWellFoundedOn(Less, Nat)
BY NatLessThanWellFounded, Zenon DEF OpToRel, Less

\* A set of numbers that is not empty has a least member.
LEMMA LeastExists ==
    ASSUME NEW S, S \subseteq Nat, S # {}
    PROVE  \E i \in S : \A j \in S : i <= j
<1>1. PICK i \in S : \A j \in S : ~ (<<j, i>> \in Less)
  BY LessWellFounded, WFMin, Zenon
<1>2. \A j \in S : ~ j < i
  BY <1>1 DEF Less
<1> QED
  BY <1>2

\* What a policy's list of tiers is.
LEMMA TiersAreOrdered ==
    ASSUME NEW tiers \in Tiers
    PROVE  /\ Len(tiers) \in Nat
           /\ \A i \in 1..Len(tiers) : tiers[i] \in Tier /\ tiers[i].notice \in Nat
           /\ \A i, j \in 1..Len(tiers) : i < j => tiers[i].notice > tiers[j].notice
<1>1. PICK n \in 0..MaxTiers : tiers \in [1..n -> Tier]
  BY DEF Tiers
<1>2. Len(tiers) = n /\ n \in Nat
  BY <1>1, PoliciesAssumption
<1>3. \A t \in Tier : t.notice \in Nat
  BY PoliciesAssumption
<1>4. \A i, j \in 1..Len(tiers) : i < j => tiers[i].notice > tiers[j].notice
  BY Zenon DEF Tiers
<1> QED
  BY <1>1, <1>2, <1>3, <1>4

\* FindTier returns the tier that asks for the longest notice among those
\* that apply, or nothing when none does.
LEMMA FindTierFindsTightest ==
    ASSUME NEW tiers \in Tiers, NEW notice \in Int
    PROVE  LET fits == {i \in 1..Len(tiers) : tiers[i].notice <= notice}
           IN  /\ FindTier(tiers, notice) = None <=> fits = {}
               /\ fits # {} =>
                    /\ FindTier(tiers, notice) \in Tier
                    /\ \E i \in fits : FindTier(tiers, notice) = tiers[i]
                    /\ \A i \in fits : tiers[i].notice <= FindTier(tiers, notice).notice
<1> DEFINE fits == {i \in 1..Len(tiers) : Applies(tiers[i], notice)}
           first == CHOOSE i \in fits : \A j \in fits : i <= j
<1>1. fits = {i \in 1..Len(tiers) : tiers[i].notice <= notice}
  BY TiersAreOrdered DEF Applies
<1>2. FindTier(tiers, notice) = IF fits = {} THEN None ELSE tiers[first]
  BY DEF FindTier
<1>3. CASE fits = {}
  BY <1>1, <1>2, <1>3
<1>4. CASE fits # {}
  <2>1. \E i \in fits : \A j \in fits : i <= j
    <3>1. fits \subseteq Nat
      BY TiersAreOrdered
    <3> QED
      BY <3>1, <1>4, LeastExists
  <2>2. first \in fits /\ \A j \in fits : first <= j
    BY <2>1
  <2>3. tiers[first] \in Tier
    BY <2>2, TiersAreOrdered
  <2>4. \A i \in fits : tiers[i].notice <= tiers[first].notice
    <3> SUFFICES ASSUME NEW i \in fits
                 PROVE  tiers[i].notice <= tiers[first].notice
      OBVIOUS
    <3>1. i \in 1..Len(tiers) /\ first \in 1..Len(tiers) /\ first <= i
      BY <2>2
    <3>2. i = first \/ first < i
      BY <3>1, TiersAreOrdered
    <3> HIDE DEF first, fits
    <3> QED
      BY <3>1, <3>2, TiersAreOrdered
  <2>5. tiers[first] # None
    BY <2>3, PoliciesAssumption
  <2> QED
    BY <1>1, <1>2, <1>4, <2>2, <2>3, <2>4, <2>5
<1> QED
  BY <1>3, <1>4

-----------------------------------------------------------------------------
(* Answers.                                                                *)

\* A percentage of a price is between nothing and the whole of it.
LEMMA PercentageOfPrice ==
    ASSUME NEW p \in Nat, NEW v \in 0..100
    PROVE  /\ p * v \in Nat
           /\ 100 * p - p * v \in 0..(100 * p)
<1>1. PICK w \in Nat : v + w = 100
  <2>1. 100 - v \in Nat /\ v + (100 - v) = 100
    OBVIOUS
  <2> QED
    BY <2>1
<1>2. p * v \in Nat /\ p * w \in Nat
  OBVIOUS
<1>3. p * v + p * w = 100 * p
  <2>1. p * v + p * w = p * (v + w)
    OBVIOUS
  <2> QED
    BY <2>1, <1>1
<1> QED
  BY <1>2, <1>3

\* A fee of a tier is an amount.
LEMMA FeeIsAmount ==
    ASSUME NEW tier \in Tier, NEW p \in Price
    PROVE  /\ CancellationFee(tier, p) \in Nat
           /\ tier.type = "percentage" =>
                100 * p - CancellationFee(tier, p) \in 0..(100 * p)
<1>1. p \in Nat /\ tier.value \in Nat
  BY PoliciesAssumption
<1>2. CASE tier.type = "percentage"
  <2>1. tier.value \in 0..100
    BY <1>1, <1>2, PoliciesAssumption
  <2>2. CancellationFee(tier, p) = p * tier.value
    BY <1>2 DEF CancellationFee
  <2> QED
    BY <2>1, <2>2, <1>1, PercentageOfPrice
<1>3. CASE tier.type # "percentage"
  <2>1. CancellationFee(tier, p) = 100 * tier.value
    BY <1>3 DEF CancellationFee
  <2> QED
    BY <2>1, <1>1, <1>3
<1> QED
  BY <1>2, <1>3

\* An evaluation, case by case.
LEMMA EvaluateCases ==
    ASSUME NEW p \in [tiers : Tiers, window : Window], NEW amount \in Price,
           NEW t \in Nat
    PROVE  LET tier == FindTier(p.tiers, Start - t)
               e == Evaluate(p, amount, t)
           IN  \/ e = Refused("not effective", None)
               \/ tier = None /\ e = Refused("too late", None)
               \/ tier \in Tier /\ e = Refused("no refund", tier)
               \/ /\ tier \in Tier
                  /\ e = [result |-> IF CancellationFee(tier, amount) = 0
                                     THEN "free" ELSE "charged",
                          tier |-> tier,
                          fee |-> CancellationFee(tier, amount),
                          refund |-> 100 * amount - CancellationFee(tier, amount)]
<1> DEFINE tier == FindTier(p.tiers, Start - t)
<1>1. Start - t \in Int /\ p.tiers \in Tiers
  BY PoliciesAssumption
<1>2. tier = None \/ tier \in Tier
  BY <1>1, FindTierFindsTightest
<1> HIDE DEF tier
<1>3. Evaluate(p, amount, t) =
        IF ~ EffectiveAt(p, t) THEN Refused("not effective", None)
        ELSE IF tier = None THEN Refused("too late", None)
        ELSE IF ~ tier.refund THEN Refused("no refund", tier)
        ELSE [result |-> IF CancellationFee(tier, amount) = 0
                         THEN "free" ELSE "charged",
              tier |-> tier,
              fee |-> CancellationFee(tier, amount),
              refund |-> 100 * amount - CancellationFee(tier, amount)]
  BY Zenon DEF Evaluate, tier
<1> QED
  BY <1>2, <1>3, Zenon DEF tier

\* A no-show fee is an amount within the rule's limits.
LEMMA NoShowFeeInRule ==
    ASSUME NEW r \in Rule, NEW p \in Price
    PROVE  /\ NoShowFee(r, p) \in Nat
           /\ r.maximum # None => NoShowFee(r, p) <= 100 * r.maximum
           /\ r.minimum # None =>
                \/ NoShowFee(r, p) >= 100 * r.minimum
                \/ r.maximum # None /\ NoShowFee(r, p) = 100 * r.maximum
<1> DEFINE base == BaseFee(r, p)
           low == AtLeast(base, r.minimum)
<1>1. /\ r.percentage \in 0..100 /\ r.fixed \in Nat \cup {None}
      /\ r.minimum \in Nat \cup {None} /\ r.maximum \in Nat \cup {None}
      /\ p \in Nat
  BY PoliciesAssumption
<1>2. base \in Nat
  <2>1. CASE r.fixed = None
    BY <1>1, <2>1, PercentageOfPrice DEF BaseFee
  <2>2. CASE r.fixed # None
    BY <1>1, <2>2 DEF BaseFee
  <2> QED
    BY <2>1, <2>2
<1>3. NoShowFee(r, p) = AtMost(low, r.maximum)
  BY DEF NoShowFee
<1> HIDE DEF base
<1>4. low \in Nat /\ (r.minimum # None => low >= 100 * r.minimum)
  BY <1>1, <1>2 DEF AtLeast
<1> HIDE DEF low
<1> QED
  BY <1>1, <1>3, <1>4 DEF AtMost

-----------------------------------------------------------------------------
(* The inductive invariant: besides the types, why an answer was given.    *)

\* Who was told that it is too late had no tier left, and has none now.
TooLateFor == quote.result = "too late" =>
    \A i \in 1..Len(policy.tiers) : Start - now < policy.tiers[i].notice

IInv ==
    /\ TypeOK
    /\ TooLateFor
    /\ NoShowFeesInBounds

LEMMA InitIInv == Init => IInv
<1> SUFFICES ASSUME Init PROVE IInv
  OBVIOUS
<1>1. TypeOK
  BY PoliciesAssumption DEF Init, TypeOK
<1>2. TooLateFor
  BY DEF Init, TooLateFor, Silent
<1>3. NoShowFeesInBounds
  BY DEF Init, NoShowFeesInBounds
<1> QED
  BY <1>1, <1>2, <1>3 DEF IInv

\* A notice that is missed stays missed.
LEMMA Later ==
    ASSUME NEW s \in Nat, NEW t \in Nat, NEW n \in Nat, s - t < n
    PROVE  ~ (n <= s - t) /\ s - (t + 1) < n
OBVIOUS

\* What the steps need of a state's types.
LEMMA StateTypes ==
    ASSUME TypeOK
    PROVE  /\ policy \in [tiers : Tiers, window : Window] /\ price \in Price
           /\ now \in Nat /\ policy.tiers \in Tiers /\ Start - now \in Int
           /\ \A i \in 1..Len(policy.tiers) : policy.tiers[i].notice \in Nat
<1>1. /\ policy \in [tiers : Tiers, window : Window] /\ price \in Price
      /\ now \in 0..MaxTime
  BY DEF TypeOK
<1>2. policy.tiers \in Tiers
  BY <1>1
<1>3. \A i \in 1..Len(policy.tiers) : policy.tiers[i].notice \in Nat
  BY <1>2, TiersAreOrdered
<1> QED
  BY <1>1, <1>2, <1>3, PoliciesAssumption

\* An answer about a cancellation.
LEMMA AskCancellationKeeps ==
    ASSUME IInv, AskCancellation
    PROVE  IInv'
<1> DEFINE tier == FindTier(policy.tiers, Start - now)
           fee == CancellationFee(tier, price)
<1>1. /\ policy \in [tiers : Tiers, window : Window] /\ price \in Price
      /\ now \in Nat /\ policy.tiers \in Tiers /\ Start - now \in Int
      /\ \A i \in 1..Len(policy.tiers) : policy.tiers[i].notice \in Nat
  BY StateTypes DEF IInv
<1>2. \/ quote' = Refused("not effective", None)
      \/ tier = None /\ quote' = Refused("too late", None)
      \/ tier \in Tier /\ quote' = Refused("no refund", tier)
      \/ /\ tier \in Tier
         /\ quote' = [result |-> IF fee = 0 THEN "free" ELSE "charged",
                      tier |-> tier, fee |-> fee, refund |-> 100 * price - fee]
  BY <1>1, EvaluateCases DEF AskCancellation
<1>3. tier = None =>
        \A i \in 1..Len(policy.tiers) : ~ (policy.tiers[i].notice <= Start - now)
  BY <1>1, FindTierFindsTightest
<1>4. tier \in Tier => fee \in Nat
  BY <1>1, FeeIsAmount
<1> HIDE DEF tier, fee
<1>5. quote' \in [result : Refusal \cup Grant, tier : Tier \cup {None},
                  fee : Nat, refund : Int]
  <2> DEFINE Answer == [result : Refusal \cup Grant, tier : Tier \cup {None},
                        fee : Nat, refund : Int]
  <2>1. \A r \in Refusal, t \in Tier \cup {None} : Refused(r, t) \in Answer
    BY DEF Refused
  <2>2. CASE \E r \in Refusal, t \in Tier \cup {None} : quote' = Refused(r, t)
    BY <2>1, <2>2
  <2>3. CASE /\ tier \in Tier
             /\ quote' = [result |-> IF fee = 0 THEN "free" ELSE "charged",
                          tier |-> tier, fee |-> fee, refund |-> 100 * price - fee]
    <3>1. fee \in Nat /\ 100 * price - fee \in Int
      BY <2>3, <1>1, <1>4, PoliciesAssumption
    <3> QED
      BY <2>3, <3>1 DEF Grant
  <2>4. {"not effective", "too late", "no refund"} \subseteq Refusal
    BY DEF Refusal
  <2> QED
    BY <1>2, <2>2, <2>3, <2>4, Zenon
<1>6. TypeOK'
  BY <1>5 DEF AskCancellation, IInv, TypeOK
<1>7. TooLateFor'
  <2>1. quote'.result = "too late" => tier = None
    <3>1. CASE quote' = Refused("not effective", None)
      BY <3>1 DEF Refused
    <3>2. CASE quote' = Refused("no refund", tier)
      BY <3>2 DEF Refused
    <3>3. CASE quote' = [result |-> IF fee = 0 THEN "free" ELSE "charged",
                         tier |-> tier, fee |-> fee, refund |-> 100 * price - fee]
      BY <3>3
    <3> QED
      BY <1>2, <3>1, <3>2, <3>3, Zenon
  <2>2. ASSUME tier = None, NEW i \in 1..Len(policy.tiers)
        PROVE  Start - now < policy.tiers[i].notice
    <3>1. ~ (policy.tiers[i].notice <= Start - now)
      BY <2>2, <1>3
    <3>2. policy.tiers[i].notice \in Nat
      BY <1>1
    <3> QED
      BY <3>1, <3>2, <1>1
  <2> QED
    BY <2>1, <2>2 DEF TooLateFor, AskCancellation
<1>8. NoShowFeesInBounds'
  BY DEF AskCancellation, IInv, NoShowFeesInBounds
<1> QED
  BY <1>6, <1>7, <1>8 DEF IInv

\* An answer about a missed booking.
LEMMA AskNoShowKeeps ==
    ASSUME IInv, AskNoShow
    PROVE  IInv'
<1> DEFINE blamed == Blamed(present, now)
<1>1. /\ rule \in Rules /\ price \in Price /\ now \in Nat
  BY PoliciesAssumption DEF IInv, TypeOK
<1>2. verdict' = [blamed |-> blamed,
                  fee |-> IF blamed = "nobody" \/ rule[blamed] = None THEN 0
                          ELSE NoShowFee(rule[blamed], price)]
  BY DEF AskNoShow, Detect
<1>3. /\ blamed \in {"client", "professional", "nobody"}
      /\ blamed # "nobody" => now - Start > Delay
  BY DEF Blamed
<1> HIDE DEF blamed
<1>4. blamed # "nobody" => rule[blamed] = None \/ rule[blamed] \in Rule
  BY <1>1, <1>3 DEF Rules
<1>5. verdict' \in [blamed : {"client", "professional", "nobody"}, fee : Nat]
  BY <1>1, <1>2, <1>3, <1>4, NoShowFeeInRule
<1>6. TypeOK'
  BY <1>5 DEF AskNoShow, IInv, TypeOK
<1>7. NoShowFeesInBounds'
  <2>1. CASE blamed = "nobody"
    BY <2>1, <1>2 DEF NoShowFeesInBounds, AskNoShow
  <2>2. CASE blamed # "nobody" /\ rule[blamed] = None
    BY <2>2, <1>2, <1>3 DEF NoShowFeesInBounds, AskNoShow
  <2>3. CASE blamed # "nobody" /\ rule[blamed] # None
    <3>1. rule[blamed] \in Rule
      BY <2>3, <1>4
    <3>2. verdict'.blamed = blamed /\ verdict'.fee = NoShowFee(rule[blamed], price)
      BY <2>3, <1>2
    <3> QED
      BY <2>3, <3>1, <3>2, <1>1, <1>3, NoShowFeeInRule
      DEF NoShowFeesInBounds, AskNoShow
  <2> QED
    BY <2>1, <2>2, <2>3
<1>8. TooLateFor'
  BY DEF AskNoShow, IInv, TooLateFor
<1> QED
  BY <1>6, <1>7, <1>8 DEF IInv

\* Time passes: what was too late stays too late, and a delay stays over.
LEMMA TickKeeps ==
    ASSUME IInv, Tick
    PROVE  IInv'
<1>1. now \in 0..MaxTime /\ now' \in 0..MaxTime /\ now' = now + 1
  BY PoliciesAssumption DEF IInv, TypeOK, Tick
<1>2. TypeOK'
  BY <1>1 DEF Tick, IInv, TypeOK
<1>3. TooLateFor'
  <2> SUFFICES ASSUME quote.result = "too late", NEW i \in 1..Len(policy.tiers)
               PROVE  Start - now' < policy.tiers[i].notice
    BY DEF TooLateFor, Tick
  <2>1. Start - now < policy.tiers[i].notice
    BY DEF IInv, TooLateFor
  <2>2. policy.tiers[i].notice \in Nat
    BY StateTypes DEF IInv
  <2>3. Start \in Nat
    BY PoliciesAssumption
  <2> QED
    <3>1. now \in Nat
      BY StateTypes DEF IInv
    <3>2. Start - (now + 1) < policy.tiers[i].notice
      BY <2>1, <2>2, <2>3, <3>1, Later
    <3> QED
      BY <3>2, <1>1
<1>4. NoShowFeesInBounds'
  <2>1. now - Start > Delay => now' - Start > Delay
    BY <1>1, PoliciesAssumption
  <2> QED
    BY <2>1 DEF Tick, IInv, NoShowFeesInBounds
<1> QED
  BY <1>2, <1>3, <1>4 DEF IInv

LEMMA NextIInv == IInv /\ [Next]_vars => IInv'
<1> SUFFICES ASSUME IInv, [Next]_vars PROVE IInv'
  OBVIOUS
<1>1. CASE AskCancellation
  BY <1>1, AskCancellationKeeps
<1>2. CASE AskNoShow
  BY <1>2, AskNoShowKeeps
<1>3. ASSUME NEW who \in {"client", "professional"}, Arrive(who) PROVE IInv'
  BY <1>3 DEF Arrive, IInv, TypeOK, TooLateFor, NoShowFeesInBounds
<1>4. CASE Tick
  BY <1>4, TickKeeps
<1>5. CASE UNCHANGED vars
  BY <1>5 DEF vars, IInv, TypeOK, TooLateFor, NoShowFeesInBounds
<1> QED
  BY <1>1, <1>2, <1>3, <1>4, <1>5 DEF Next

\* The invariant holds throughout.
THEOREM Invariance == Spec => []IInv
<1>1. Init => IInv
  BY InitIInv
<1>2. IInv /\ [Next]_vars => IInv'
  BY NextIInv
<1> QED
  BY <1>1, <1>2, PTL DEF Spec

\* Policies and the answers about them have their types, whatever is asked.
THEOREM TypeCorrect == Spec => []TypeOK
<1>1. IInv => TypeOK
  BY DEF IInv
<1> QED
  BY <1>1, Invariance, PTL

\* A no-show fee keeps the limits of calculate_no_show_fee's rule.
THEOREM FeesInBounds == Spec => []NoShowFeesInBounds
<1>1. IInv => NoShowFeesInBounds
  BY DEF IInv
<1> QED
  BY <1>1, Invariance, PTL

-----------------------------------------------------------------------------
(* What a step may never do.                                               *)

LEMMA TightestTierStep ==
    IInv /\ [Next]_vars =>
        [LET given == {i \in 1..Len(policy.tiers) :
                         policy.tiers[i].notice <= Start - now}
         IN  quote' # quote =>
             /\ quote'.result = "too late" => given = {}
             /\ quote'.tier # None =>
                   /\ now <= Start
                   /\ \E i \in given : quote'.tier = policy.tiers[i]
                   /\ \A i \in given : policy.tiers[i].notice <= quote'.tier.notice
             /\ quote'.result \in Grant /\ quote'.tier.type = "percentage" =>
                   quote'.refund \in 0..(100 * price)]_vars
<1> DEFINE given == {i \in 1..Len(policy.tiers) :
                       policy.tiers[i].notice <= Start - now}
           tier == FindTier(policy.tiers, Start - now)
           fee == CancellationFee(tier, price)
<1> SUFFICES ASSUME IInv, [Next]_vars, quote' # quote
             PROVE  /\ quote'.result = "too late" => given = {}
                    /\ quote'.tier # None =>
                          /\ now <= Start
                          /\ \E i \in given : quote'.tier = policy.tiers[i]
                          /\ \A i \in given : policy.tiers[i].notice <= quote'.tier.notice
                    /\ quote'.result \in Grant /\ quote'.tier.type = "percentage" =>
                          quote'.refund \in 0..(100 * price)
  BY Zenon
<1>1. AskCancellation
  BY DEF Next, vars, AskNoShow, Arrive, Tick
<1>2. /\ policy \in [tiers : Tiers, window : Window] /\ price \in Price
      /\ now \in Nat /\ policy.tiers \in Tiers /\ Start - now \in Int
      /\ Start \in Nat
  BY PoliciesAssumption DEF IInv, TypeOK
<1>3. \/ quote' = Refused("not effective", None)
      \/ tier = None /\ quote' = Refused("too late", None)
      \/ tier \in Tier /\ quote' = Refused("no refund", tier)
      \/ /\ tier \in Tier
         /\ quote' = [result |-> IF fee = 0 THEN "free" ELSE "charged",
                      tier |-> tier, fee |-> fee, refund |-> 100 * price - fee]
  BY <1>1, <1>2, EvaluateCases DEF AskCancellation
<1>4. /\ tier = None <=> given = {}
      /\ given # {} => /\ \E i \in given : tier = policy.tiers[i]
                       /\ \A i \in given : policy.tiers[i].notice <= tier.notice
  BY <1>2, FindTierFindsTightest
<1>5. given # {} => now <= Start
  <2>1. \A i \in 1..Len(policy.tiers) : policy.tiers[i].notice \in Nat
    BY <1>2, TiersAreOrdered
  <2> QED
    BY <2>1, <1>2
<1>6. tier \in Tier /\ tier.type = "percentage" => 100 * price - fee \in 0..(100 * price)
  BY <1>2, FeeIsAmount
<1>7. None \notin Tier
  BY PoliciesAssumption
<1> HIDE DEF given, tier, fee
<1>8. CASE quote' = Refused("not effective", None)
  BY <1>8 DEF Refused, Grant
<1>9. CASE tier = None /\ quote' = Refused("too late", None)
  BY <1>9, <1>4 DEF Refused, Grant
<1>10. CASE tier \in Tier /\ quote' = Refused("no refund", tier)
  BY <1>10, <1>4, <1>5, <1>7 DEF Refused, Grant
<1>11. CASE /\ tier \in Tier
            /\ quote' = [result |-> IF fee = 0 THEN "free" ELSE "charged",
                         tier |-> tier, fee |-> fee, refund |-> 100 * price - fee]
  BY <1>11, <1>4, <1>5, <1>6, <1>7 DEF Grant
<1> QED
  BY <1>3, <1>8, <1>9, <1>10, <1>11

\* The tier with the longest notice still given decides.
THEOREM TightestTier == Spec => TightestTierDecides
BY Invariance, TightestTierStep, PTL DEF Spec, TightestTierDecides

LEMMA TooLateStep ==
    IInv /\ [Next]_vars =>
        [quote.result = "too late"
         => quote'.result \in {"too late", "not effective"}]_vars
<1> SUFFICES ASSUME IInv, [Next]_vars, quote.result = "too late"
             PROVE  quote'.result \in {"too late", "not effective"}
  BY Zenon
<1>1. CASE AskCancellation
  <2>1. /\ policy \in [tiers : Tiers, window : Window] /\ price \in Price
        /\ now \in Nat /\ policy.tiers \in Tiers /\ Start - now \in Int
    BY StateTypes DEF IInv
  <2>2. {i \in 1..Len(policy.tiers) : policy.tiers[i].notice <= Start - now} = {}
    <3> SUFFICES ASSUME NEW i \in 1..Len(policy.tiers)
                 PROVE  ~ (policy.tiers[i].notice <= Start - now)
      OBVIOUS
    <3>1. Start - now < policy.tiers[i].notice
      BY DEF IInv, TooLateFor
    <3>2. policy.tiers[i].notice \in Nat
      BY StateTypes DEF IInv
    <3>3. Start \in Nat /\ now \in Nat
      BY <2>1, PoliciesAssumption
    <3> QED
      BY <3>1, <3>2, <3>3, Later
  <2>3. FindTier(policy.tiers, Start - now) = None
    BY <2>1, <2>2, FindTierFindsTightest
  <2>4. None \notin Tier
    BY PoliciesAssumption
  <2>5. quote' = Refused("not effective", None) \/ quote' = Refused("too late", None)
    BY <1>1, <2>1, <2>3, <2>4, EvaluateCases DEF AskCancellation
  <2>6. CASE quote' = Refused("not effective", None)
    BY <2>6 DEF Refused
  <2>7. CASE quote' = Refused("too late", None)
    BY <2>7 DEF Refused
  <2> QED
    BY <2>5, <2>6, <2>7
<1>2. CASE quote' = quote
  BY <1>2
<1> QED
  BY <1>1, <1>2 DEF Next, vars, AskNoShow, Arrive, Tick

\* Too late is final.
THEOREM TooLateForGood == Spec => TooLateIsFinal
BY Invariance, TooLateStep, PTL DEF Spec, TooLateIsFinal
=============================================================================

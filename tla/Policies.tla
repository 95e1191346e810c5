------------------------------ MODULE Policies ------------------------------
(***************************************************************************)
(* The policies of eSalao as pure rules: what a cancellation costs         *)
(* (domain/policies/cancellation.py) and what a missed booking costs       *)
(* (domain/policies/no_show.py), asked again and again about one booking   *)
(* while time passes.                                                      *)
(*                                                                         *)
(* Times are hours, or a finer unit.  Amounts are hundredths of the unit   *)
(* prices and fixed fees are given in, so that a percentage of a price is  *)
(* exact, as it is with Decimal.                                           *)
(***************************************************************************)
EXTENDS Integers, Sequences

CONSTANTS Tier,             \* tiers a cancellation policy may have
          Window,           \* periods in which a policy may be effective
          MaxTiers,         \* bound: tiers of a policy
          Rule,             \* fee rules of a no-show policy
          Price,            \* prices of the booking
          Start,            \* when the booking begins
          Delay,            \* detection_delay_minutes
          None,             \* no limit, no tier, no end
          MaxTime           \* bound: clock

FeeType == {"percentage", "fixed"}

ASSUME PoliciesAssumption ==
    /\ Tier \subseteq [notice : Nat, type : FeeType, value : Nat, refund : BOOLEAN]
    /\ \A t \in Tier : t.type = "percentage" => t.value <= 100
    /\ MaxTiers \in Nat
    /\ Price \subseteq Nat
    /\ Start \in Nat
    /\ Delay \in Nat
    /\ MaxTime \in Nat
    /\ Window \subseteq [from : Nat, until : Nat \cup {None}]
    /\ Rule \subseteq [percentage : 0..100, fixed : Nat \cup {None},
                       minimum : Nat \cup {None}, maximum : Nat \cup {None}]
    /\ None \notin Int
    /\ None \notin Tier
    /\ None \notin Rule

VARIABLES policy,           \* the cancellation policy
          rule,             \* the no-show policy's rules, for either side
          price,            \* the price of the booking
          present,          \* who has arrived
          now,              \* the time
          quote,            \* the last answer about a cancellation
          verdict           \* the last answer about a no-show

vars == <<policy, rule, price, present, now, quote, verdict>>

-----------------------------------------------------------------------------
(* Cancellation.                                                           *)

\* The tiers of a policy as the relationship orders them: the longest notice
\* first.  A policy has one tier of each notice.
Tiers ==
    {s \in UNION {[1..n -> Tier] : n \in 0..MaxTiers} :
        \A i, j \in 1..Len(s) : i < j => s[i].notice > s[j].notice}

EffectiveAt(p, t) ==
    /\ p.window.from <= t
    /\ p.window.until = None \/ t <= p.window.until

\* Mutant of Applies: the comparison the other way round.
AppliesBelow(tier, notice) == notice <= tier.notice

\* applies_to_advance_notice.
Applies(tier, notice) == notice >= tier.notice

\* Mutant of FindTier: the last tier that applies.
FindTierLast(tiers, notice) ==
    LET fits == {i \in 1..Len(tiers) : Applies(tiers[i], notice)}
    IN  IF fits = {} THEN None
        ELSE tiers[CHOOSE i \in fits : \A j \in fits : i >= j]

\* find_applicable_tier: the first that applies.
FindTier(tiers, notice) ==
    LET fits == {i \in 1..Len(tiers) : Applies(tiers[i], notice)}
    IN  IF fits = {} THEN None
        ELSE tiers[CHOOSE i \in fits : \A j \in fits : i <= j]

\* calculate_fee.
CancellationFee(tier, amount) ==
    IF tier.type = "percentage" THEN amount * tier.value ELSE 100 * tier.value

Refused(result, tier) == [result |-> result, tier |-> tier, fee |-> 0, refund |-> 0]

\* evaluate_cancellation, in the order of its tests.
Evaluate(p, amount, t) ==
    LET tier == FindTier(p.tiers, Start - t)
        fee  == CancellationFee(tier, amount)
    IN  IF ~ EffectiveAt(p, t) THEN Refused("not effective", None)
        ELSE IF tier = None THEN Refused("too late", None)
        ELSE IF ~ tier.refund THEN Refused("no refund", tier)
        ELSE [result |-> IF fee = 0 THEN "free" ELSE "charged", tier |-> tier,
              fee |-> fee, refund |-> 100 * amount - fee]

-----------------------------------------------------------------------------
(* No-shows.                                                               *)

\* A policy need not have a rule for professionals.
Rules == [client : Rule, professional : Rule \cup {None}]

AtLeast(fee, limit) == IF limit # None /\ fee < 100 * limit THEN 100 * limit ELSE fee

AtMost(fee, limit) == IF limit # None /\ fee > 100 * limit THEN 100 * limit ELSE fee

\* A percentage of the price, unless an amount is fixed.
BaseFee(r, amount) ==
    IF r.fixed # None THEN 100 * r.fixed ELSE amount * r.percentage

\* Mutant of NoShowFee: the maximum is applied before the minimum.
NoShowFeeSwapped(r, amount) ==
    AtLeast(AtMost(BaseFee(r, amount), r.maximum), r.minimum)

\* calculate_no_show_fee.
NoShowFee(r, amount) ==
    AtMost(AtLeast(BaseFee(r, amount), r.minimum), r.maximum)

\* Who missed the booking, once the delay is over.
Blamed(who, t) ==
    IF t - Start > Delay /\ who = {"professional"} THEN "client"
    ELSE IF t - Start > Delay /\ who = {"client"} THEN "professional" ELSE "nobody"

\* evaluate_no_show_detection.
Detect(rules, amount, who, t) ==
    LET blamed == Blamed(who, t)
    IN  [blamed |-> blamed,
         fee |-> IF blamed = "nobody" \/ rules[blamed] = None THEN 0
                 ELSE NoShowFee(rules[blamed], amount)]

-----------------------------------------------------------------------------

Silent == [result |-> "none"]

Init ==
    /\ policy \in [tiers : Tiers, window : Window]
    /\ rule \in Rules
    /\ price \in Price
    /\ present = {}
    /\ now = 0
    /\ quote = Silent
    /\ verdict = Silent

AskCancellation ==
    /\ quote' = Evaluate(policy, price, now)
    /\ UNCHANGED <<policy, rule, price, present, now, verdict>>

AskNoShow ==
    /\ verdict' = Detect(rule, price, present, now)
    /\ UNCHANGED <<policy, rule, price, present, now, quote>>

Arrive(who) ==
    /\ present' = present \cup {who}
    /\ UNCHANGED <<policy, rule, price, now, quote, verdict>>

Tick ==
    /\ now < MaxTime
    /\ now' = now + 1
    /\ UNCHANGED <<policy, rule, price, present, quote, verdict>>

Next ==
    \/ AskCancellation
    \/ AskNoShow
    \/ \E who \in {"client", "professional"} : Arrive(who)
    \/ Tick

Spec == Init /\ [][Next]_vars

-----------------------------------------------------------------------------
(* Properties.                                                             *)

Refusal == {"not effective", "too late", "no refund"}
Grant == {"free", "charged"}

\* Policies and answers have their types.
TypeOK ==
    /\ policy \in [tiers : Tiers, window : Window]
    /\ rule \in Rules
    /\ price \in Price
    /\ present \subseteq {"client", "professional"}
    /\ now \in 0..MaxTime
    /\ quote = Silent \/ quote \in [result : Refusal \cup Grant,
                                    tier : Tier \cup {None}, fee : Nat, refund : Int]
    /\ verdict = Silent
       \/ verdict \in [blamed : {"client", "professional", "nobody"}, fee : Nat]

\* Of a policy's tiers the one with the longest notice that was still given
\* decides, as long as the policy is effective, however its tiers lie: nothing
\* is granted after the booking's start, and a refund that a percentage leaves
\* is neither negative nor more than the price.
TightestTierDecides ==
    [][LET given == {i \in 1..Len(policy.tiers) :
                        policy.tiers[i].notice <= Start - now}
       IN  quote' # quote =>
           /\ quote'.result = "too late" => given = {}
           /\ quote'.tier # None =>
                 /\ now <= Start
                 /\ \E i \in given : quote'.tier = policy.tiers[i]
                 /\ \A i \in given : policy.tiers[i].notice <= quote'.tier.notice
           /\ quote'.result \in Grant /\ quote'.tier.type = "percentage" =>
                 quote'.refund \in 0..(100 * price)]_vars

\* Who was told that it is too late is never told otherwise by asking again.
TooLateIsFinal ==
    [][quote.result = "too late"
       => quote'.result \in {"too late", "not effective"}]_vars

\* Nobody is blamed before the delay is over, and nobody pays without being
\* blamed, and by a rule of his side of the booking: no more than its maximum,
\* and no less than its minimum unless the maximum is below it.
NoShowFeesInBounds ==
    verdict # Silent =>
        LET mine == rule[verdict.blamed]
        IN  IF verdict.blamed = "nobody" THEN verdict.fee = 0
            ELSE /\ now - Start > Delay
                 /\ mine = None => verdict.fee = 0
                 /\ mine # None =>
                       /\ mine.maximum # None => verdict.fee <= 100 * mine.maximum
                       /\ mine.minimum # None =>
                             \/ verdict.fee >= 100 * mine.minimum
                             \/ mine.maximum # None /\ verdict.fee = 100 * mine.maximum
=============================================================================

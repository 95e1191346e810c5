------------------------------ MODULE MCLoyalty ------------------------------
(* Instances of Loyalty for TLC.                                           *)
EXTENDS Loyalty, TLC

CONSTANTS u1, u2, gift, card, w1, w2

(* A review is worth less than the signup bonus, and so is a birthday to a *)
(* member of the lowest tier.                                              *)
SmallAwards ==
    [kind \in Awards |->
        [t \in Tiers |-> IF kind = "birthday" THEN t + 1 ELSE 1]]

(* A gift of which there is one, and a card for each user.                 *)
BothCost == [r \in Rewards |-> 1]
BothTier == [r \in Rewards |-> 0]
OneGift == (gift :> 1) @@ (card :> 0)
CardPerUser == (gift :> 0) @@ (card :> 1)

GiftCost == gift :> 1
GiftPerUser == gift :> 1

(* A gift of which there are two, for the second tier.                     *)
TwoGifts == gift :> 2
SecondTier == gift :> 1

Symmetric == Permutations(Workers)
SymmetricUsers == Permutations(Users)
=============================================================================

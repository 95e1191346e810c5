----------------------------- MODULE MCReviews -----------------------------
(***************************************************************************)
(* Instances of Reviews for TLC.                                           *)
(***************************************************************************)
EXTENDS Reviews, TLC

CONSTANTS r1, r2, ana, bia, caio, davi, eva, w1, w2, low, high,
          thanks, sorry

(* The bookings are ana's; eva moderates them.                             *)
AuthorIsAna == [r \in Reviews |-> ana]

(* bia owns the salon, caio did the work.                                  *)
BiaAndCaio == [r \in Reviews |-> {bia, caio}]
OneOrRepeated == {<<r>> : r \in Reviews} \cup {<<r, r>> : r \in Reviews}

(* Kinds of requests that touch the same columns or rows are sent          *)
(* together, the others side by side.                                      *)
Separately == {{op} : op \in Ops}

WorkerSymmetry == Permutations(Workers)
=============================================================================

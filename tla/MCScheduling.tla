---------------------------- MODULE MCScheduling ----------------------------
(* Slots, with Catalogue, for TLC: a day of six units whose hours come in   *)
(* two windows and one that is not active, and two bookings.               *)
EXTENDS Slots, TLC

CONSTANTS bia, leo, cut, e1, e2, r1, b1, b2, q1, q2

MCWindows == bia :> {[start |-> 0, end |-> 4, active |-> TRUE],
                     [start |-> 3, end |-> 6, active |-> TRUE],
                     [start |-> 6, end |-> 8, active |-> FALSE]}

MCTimes == {[start |-> 1, length |-> 3], [start |-> 4, length |-> 1]}

Symmetry ==
    Permutations(Editor) \cup Permutations(Booking) \cup Permutations(Profile)
=============================================================================

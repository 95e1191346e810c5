----------------------------- MODULE MCBookings -----------------------------
(***************************************************************************)
(* Bookings for TLC: a package of two bookings, its client and someone of  *)
(* the salon.                                                              *)
(***************************************************************************)
EXTENDS Bookings, TLC

CONSTANTS ana, rui, cut, dye, spa, w1, w2, w3

MCPackageOf == cut :> spa @@ dye :> spa
MCClientOf == cut :> ana @@ dye :> ana

(* The two bookings differ in name only, and so do the workers.            *)
Symmetry == Permutations(Worker) \cup Permutations(Booking)
=============================================================================

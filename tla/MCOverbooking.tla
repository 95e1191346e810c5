---------------------------- MODULE MCOverbooking ----------------------------
(* Overbooking for TLC: a service, a professional, a salon and the platform. *)
EXTENDS Overbooking, TLC

CONSTANTS cut, bia, shop, all, c1, c2, w1, w2

MCLevel == cut :> 1 @@ bia :> 2 @@ shop :> 3 @@ all :> 4

\* Always, from the next instant on, and until now.
MCPeriod == {[from |-> None, until |-> None], [from |-> 1, until |-> None],
             [from |-> None, until |-> 0]}

Symmetry == Permutations(Config) \cup Permutations(Worker)
=============================================================================

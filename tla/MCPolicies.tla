----------------------------- MODULE MCPolicies -----------------------------
(* Policies for TLC: a booking in the third of five instants, cancelled     *)
(* under up to three tiers.                                                *)
EXTENDS Policies

T(n, k, v, r) == [notice |-> n, type |-> k, value |-> v, refund |-> r]

\* A fixed fee may exceed the price.
MCTier == {T(0, "percentage", 100, TRUE), T(0, "percentage", 50, FALSE),
           T(1, "fixed", 3, TRUE), T(1, "percentage", 0, TRUE),
           T(2, "percentage", 0, TRUE), T(2, "fixed", 1, FALSE),
           T(3, "percentage", 50, TRUE)}

MCWindow == {[from |-> 0, until |-> None], [from |-> 1, until |-> 3]}

R(p, f, lo, hi) == [percentage |-> p, fixed |-> f, minimum |-> lo, maximum |-> hi]

MCRule == {R(50, None, None, None), R(50, None, 2, 1), R(0, 3, None, 2),
           R(0, None, 1, 5), R(100, None, None, 1)}
=============================================================================

----------------------- MODULE MCIdempotentDispatch -----------------------
(* Instance of IdempotentDispatch for TLC: an rpc with a route, called     *)
(* with two values, in the body or (with an empty body) in the path.       *)
(* Requests are interchangeable, and so are the two values; the times are  *)
(* the smallest that keep their order.                                     *)
EXTENDS IdempotentDispatch, TLC

CONSTANTS q1, q2, q3, k1, empty, a1, a2

BothAddresses ==
    {[address |-> "rpc", body |-> a, args |-> a] : a \in {a1, a2}}
    \cup {[address |-> "route", body |-> empty, args |-> a] : a \in {a1, a2}}

Interchangeable == Permutations({q1, q2, q3}) \cup Permutations({a1, a2})
=============================================================================

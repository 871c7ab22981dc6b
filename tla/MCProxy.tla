------------------------------ MODULE MCProxy ------------------------------
(* Three upstreams, the one in the middle reliable, and two keys with two    *)
(* claimants each.                                                          *)
EXTENDS Proxy, TLC

CONSTANTS a, b, c1, c2

MCHolds == (1 :> {b} @@ 2 :> {a} @@ 3 :> {a, b})

\* The two clients may trade places.
Clients == Permutations(Client)
=============================================================================

------------------------------ MODULE MCSignIn ------------------------------
(* Small instances of SignIn for TLC. *)
EXTENDS SignIn, TLC

CONSTANTS r1, r2, r3, here, there

\* Requests from one place, and requests from two.
OnePlace  == [r \in Req |-> here]
TwoPlaces == [r \in Req |-> IF r = r2 THEN there ELSE here]

\* Requests from one place are interchangeable.
Interchangeable == Permutations(Req)
=============================================================================

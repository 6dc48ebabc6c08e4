------------------------------ MODULE MCSignIn ------------------------------
(* Instance of SignIn for TLC: two requests at once. *)
EXTENDS SignIn, TLC

CONSTANTS r1, r2

MCRequests == {r1, r2}
MCSymmetry == Permutations(MCRequests)
=============================================================================

---------------------------- MODULE MCMembership ----------------------------
(* Instances of Membership for TLC. *)
EXTENDS Membership, TLC

CONSTANTS ann, bob, cyd, r1, r2

MCPersons == {ann, bob, cyd}
MCAsked == {"OWNER", "ADMIN", "VIEWER"}
MCRequests == {r1, r2}

\* The invited persons are interchangeable, and so are the requests.
MCSymmetry == Permutations({bob, cyd}) \cup Permutations({r1, r2})
=============================================================================

------------------------------ MODULE MCLogin -------------------------------
(***************************************************************************)
(* A small instance of Login: an admin with one provider, two others       *)
(* with another.                                                           *)
(***************************************************************************)
EXTENDS Login, TLC

CONSTANTS w1, w2, google, apple, ann, bob, carl

MCProviderOf == (ann :> google) @@ (bob :> apple) @@ (carl :> apple)

\* Requests are alike, and so are the two who are no admins.
LoginSymmetry == Permutations(Workers) \cup Permutations({bob, carl})
=============================================================================

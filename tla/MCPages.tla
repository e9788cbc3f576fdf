------------------------------ MODULE MCPages -------------------------------
(***************************************************************************)
(* A small instance of Pages: one duck, its owner, who is an admin, and a  *)
(* visitor whose account may be deleted under their session.               *)
(***************************************************************************)
EXTENDS Pages, TLC

CONSTANTS owner, visitor, duckA, flockA, w1, w2

OneFlockOf == duckA :> flockA
OneOwnerOf == flockA :> owner

WorkerSymmetry == Permutations(Workers)
=============================================================================

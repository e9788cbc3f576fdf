----------------------------- MODULE MCListings -----------------------------
(***************************************************************************)
(* A small instance of Listings; ducks and vessels are interchangeable.    *)
(***************************************************************************)
EXTENDS Listings, TLC

CONSTANTS d1, d2, v1, v2

DuckVesselSymmetry == Permutations(Ducks) \cup Permutations(Vessels)
=============================================================================

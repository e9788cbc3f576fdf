---------------------------- MODULE MCDuckVoyage ----------------------------
(***************************************************************************)
(* Small instances of DuckVoyage: one or two ducks in one or two flocks,   *)
(* an owner, an admin and a visitor, or an owner who is the admin and a    *)
(* visitor.                                                                *)
(***************************************************************************)
EXTENDS DuckVoyage, TLC

CONSTANTS owner, admin, visitor, duckA, duckB, flockA, flockB, w1, w2

MCUsers == {owner, admin, visitor}
MCAdmins == {admin}

PairUsers == {owner, visitor}
PairAdmins == {owner}

OneDuckFlockOf == duckA :> flockA
OneFlockOwnerOf == flockA :> owner

TwoDucksFlockOf == (duckA :> flockA) @@ (duckB :> flockB)
TwoFlocksOwnerOf == (flockA :> owner) @@ (flockB :> visitor)

WorkerSymmetry == Permutations(Workers)
=============================================================================

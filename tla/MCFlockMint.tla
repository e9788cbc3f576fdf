----------------------------- MODULE MCFlockMint ----------------------------
(***************************************************************************)
(* Small instances of FlockMint: flocks of up to three codes, the second   *)
(* of which is rude under one prefix and the only one that is not under    *)
(* the other, and a rude prefix.                                           *)
(***************************************************************************)
EXTENDS FlockMint

CONSTANTS pA, pB, pRude, alice, w1, w2

MCRudeSeqs == [p \in Prefixes |-> IF p = pA THEN {2} \cap (1..MaxSeq) ELSE (1..MaxSeq) \ {2}]
=============================================================================

---------------------------- MODULE MCDuckCodec -----------------------------
(***************************************************************************)
(* A small instance of DuckCodec: five payloads, of which three are        *)
(* sequence numbers, under ciphers that rotate them.                       *)
(***************************************************************************)
EXTENDS DuckCodec, TLC

CONSTANTS i1, i2, k1, k2, pA, pB

MCPayloads == 0..4

Shift(kp) == (IF kp[1] = k1 THEN 1 ELSE 2) + (IF kp[2] = pA THEN 0 ELSE 2)
MCFF1 == [kp \in Keys \X Prefixes |-> [x \in MCPayloads |-> (x + Shift(kp)) % 5]]

InstanceSymmetry == Permutations(Instances)
=============================================================================

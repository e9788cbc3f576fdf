\* Two instances, two generations, two keys in any arrangement, two flocks.
CONSTANTS
  i1 = i1
  i2 = i2
  k1 = k1
  k2 = k2
  pA = pA
  pB = pB
  Instances = {i1, i2}
  MaxGeneration = 1
  Keys = {k1, k2}
  Prefixes = {pA, pB}
  Payloads <- MCPayloads
  MaxSeq = 3
  FF1 <- MCFF1
SPECIFICATION Spec
SYMMETRY InstanceSymmetry
INVARIANTS OwnDuckOrNone KeptKeyFinds

\* A printed code is minted again after its flock was hard-deleted.
CONSTANTS
  pA = pA
  pB = pB
  pRude = pRude
  alice = alice
  w1 = w1
  w2 = w2
  Users = {alice}
  Workers = {w1}
  Prefixes = {pA}
  RudePrefixes = {}
  RudeSeqs <- MCRudeSeqs
  MaxSeq = 1
  BatchMax = 1
  FlocksPerUser = 2
  UnoriginatedMax = 4
  DrawAttempts = 2
  MaxFlocks = 2
  Ops = {"create", "mint", "delete_flock"}
SPECIFICATION Spec
INVARIANTS CodeNeverReused
\* Clients may stop sending requests.
CHECK_DEADLOCK FALSE

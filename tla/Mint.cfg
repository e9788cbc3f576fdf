\* Concurrent creates and mints, two prefixes to share, up to the last code, with
\* originations, soft and hard deletes and aborts.
CONSTANTS
  pA = pA
  pB = pB
  pRude = pRude
  alice = alice
  w1 = w1
  w2 = w2
  Users = {alice}
  Workers = {w1, w2}
  Prefixes = {pA, pB, pRude}
  RudePrefixes = {pRude}
  RudeSeqs <- MCRudeSeqs
  MaxSeq = 3
  BatchMax = 2
  FlocksPerUser = 1
  UnoriginatedMax = 2
  DrawAttempts = 2
  MaxFlocks = 2
  Ops = {"create", "mint", "originate", "delete_duck", "delete_flock", "abandon"}
SPECIFICATION FairSpec
INVARIANTS TypeOK MintedOnce SeqsDense NothingRude CapOvershoot
PROPERTIES BatchAtomic ImplementsRegistry MintsAnswered
\* Clients may stop sending requests.
CHECK_DEADLOCK FALSE

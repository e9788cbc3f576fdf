\* Two concurrent requests, three logins, the clock passing the deadline.
CONSTANTS
  w1 = w1
  w2 = w2
  google = google
  apple = apple
  ann = ann
  bob = bob
  carl = carl
  Workers = {w1, w2}
  Providers = {google, apple}
  Identities = {ann, bob, carl}
  ProviderOf <- MCProviderOf
  AdminIdentities = {ann}
  Ttl = 1
  MaxTime = 2
  MaxFlows = 3
SPECIFICATION Spec
SYMMETRY LoginSymmetry
INVARIANTS SessionIsAuthenticated SessionNamesOwnUser AdminSessionsBacked LoginInv
PROPERTIES FlowCompletesOnce FlowsLeaveByTakeOrAge NameKept
\* The clock and the flows are bounded.
CHECK_DEADLOCK FALSE

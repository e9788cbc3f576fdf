\* A photo committed after the key list was read is never cleaned up.
CONSTANTS
  owner = owner
  admin = admin
  visitor = visitor
  duckA = duckA
  duckB = duckB
  flockA = flockA
  flockB = flockB
  w1 = w1
  w2 = w2
  Users <- MCUsers
  Admins <- MCAdmins
  Ducks = {duckA}
  Flocks = {flockA}
  FlockOf <- OneDuckFlockOf
  OwnerOf <- OneFlockOwnerOf
  Workers = {w1, w2}
  Ops = {"originate", "delete_flock"}
  MaxKeys = 1
  MaxSightings = 0
  MaxComments = 0
SPECIFICATION Spec
SYMMETRY WorkerSymmetry
PROPERTIES DeleteReturnsOrphanedKeys
\* Clients may stop sending requests.
CHECK_DEADLOCK FALSE

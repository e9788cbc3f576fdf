\* The notifications of another duck's sighting go with a forged id.
CONSTANTS
  owner = owner
  admin = admin
  visitor = visitor
  duckA = duckA
  duckB = duckB
  flockA = flockA
  flockB = flockB
  w1 = w1
  w2 = w2
  Users <- MCUsers
  Admins <- MCAdmins
  Ducks = {duckA, duckB}
  Flocks = {flockA, flockB}
  FlockOf <- TwoDucksFlockOf
  OwnerOf <- TwoFlocksOwnerOf
  Workers = {w1}
  Ops = {"originate", "log_sighting", "follow", "delete_sighting"}
  MaxKeys = 2
  MaxSightings = 1
  MaxComments = 0
SPECIFICATION Spec
SYMMETRY WorkerSymmetry
PROPERTIES DeleteScopedToDuck
\* Clients may stop sending requests.
CHECK_DEADLOCK FALSE

\* One duck, two concurrent requests: all that writes the duck row or the store,
\* every wait a request can meet, and the unfollow that overtakes a find.
CONSTANTS
  owner = owner
  admin = admin
  visitor = visitor
  duckA = duckA
  duckB = duckB
  flockA = flockA
  flockB = flockB
  w1 = w1
  w2 = w2
  Users <- MCUsers
  Admins <- MCAdmins
  Ducks = {duckA}
  Flocks = {flockA}
  FlockOf <- OneDuckFlockOf
  OwnerOf <- OneFlockOwnerOf
  Workers = {w1, w2}
  Ops = {"originate", "set_sail", "log_sighting", "unfollow", "delete_sighting", "delete_duck", "delete_flock", "delete_user", "abandon"}
  MaxKeys = 2
  MaxSightings = 1
  MaxComments = 0
SPECIFICATION FairSpec
INVARIANTS NoDanglingPhoto PhotoBelongsToOneRow PhotoInv
PROPERTIES LifecycleMonotone ImplementsLogbook RequestsAnswered
\* Clients may stop sending requests.
CHECK_DEADLOCK FALSE

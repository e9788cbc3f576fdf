\* One duck, two concurrent requests: finds, comments, locks, follows, the
\* activity feed and the deletes.  The owner is the admin.
CONSTANTS
  owner = owner
  admin = admin
  visitor = visitor
  duckA = duckA
  duckB = duckB
  flockA = flockA
  flockB = flockB
  w1 = w1
  w2 = w2
  Users <- PairUsers
  Admins <- PairAdmins
  Ducks = {duckA}
  Flocks = {flockA}
  FlockOf <- OneDuckFlockOf
  OwnerOf <- OneFlockOwnerOf
  Workers = {w1, w2}
  Ops = {"originate", "comment", "follow", "unfollow", "delete_duck", "lock_comments", "delete_comment",
         "log_sighting", "delete_sighting", "mark_read", "delete_flock", "delete_user"}
  MaxKeys = 1
  MaxSightings = 1
  MaxComments = 1
SPECIFICATION Spec
SYMMETRY WorkerSymmetry
INVARIANTS InteractionsOnSailed ReferentialIntegrity FinderNotNotified RowInv
\* Clients may stop sending requests.
CHECK_DEADLOCK FALSE

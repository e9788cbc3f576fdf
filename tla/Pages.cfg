\* One duck, two concurrent requests and a visitor at a page; a feed of one row.
\* The owner is the admin, and the other user's account may be deleted.
CONSTANTS
  owner = owner
  visitor = visitor
  Anonymous = Anonymous
  duckA = duckA
  flockA = flockA
  w1 = w1
  w2 = w2
  Users = {owner, visitor}
  Admins = {owner}
  Ducks = {duckA}
  Flocks = {flockA}
  FlockOf <- OneFlockOf
  OwnerOf <- OneOwnerOf
  Workers = {w1, w2}
  Ops = {"originate", "log_sighting", "delete_sighting", "follow", "mark_read", "delete_duck", "lock_comments", "delete_flock", "delete_user"}
  MaxKeys = 1
  MaxSightings = 2
  MaxComments = 0
  FeedLimit = 1
  Visitors = {owner, visitor}
SPECIFICATION PagesSpec
SYMMETRY WorkerSymmetry
INVARIANTS OfferStands BadgeExplained
\* Clients may stop sending requests.
CHECK_DEADLOCK FALSE

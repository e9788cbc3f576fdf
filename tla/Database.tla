------------------------------ MODULE Database ------------------------------
(***************************************************************************)
(* The Postgres tables of duck.voyage (migrations 0001, 0002 and 0004) and *)
(* the statements of crates/storage/src/repos.rs that write them.  A       *)
(* statement is an operator that gives the new value of the table it       *)
(* writes; a handler module turns it into a step.                          *)
(*                                                                         *)
(* Row identities are never reused: users, flocks and ducks are the rows   *)
(* that exist when the model starts, sightings and comments are numbered   *)
(* by their identity columns.  A photo key stands for the whole definition *)
(* (DuckDetails) it was submitted with, because every submission draws a   *)
(* fresh key.                                                              *)
(***************************************************************************)
EXTENDS Naturals, FiniteSets

CONSTANTS
  Users,          \* ids of app_user rows
  Admins,         \* the users whose is_admin column (and session) is true
  Flocks,         \* ids of flock rows
  Ducks,          \* ids of duck rows
  FlockOf,        \* duck.flock_id
  OwnerOf         \* flock.owner_user_id

ASSUME DatabaseAssumption ==
  /\ Admins \subseteq Users
  /\ FlockOf \in [Ducks -> Flocks]
  /\ OwnerOf \in [Flocks -> Users]

VARIABLES
  userRows,       \* the app_user rows that still exist
  flockRows,      \* the flock rows that still exist
  duck,           \* the duck table, one entry per id ever minted
  sightings,      \* the sighting table
  comments,       \* the duck_comment table
  follows,        \* the duck_follow table: <<user, duck>> pairs
  notifications,  \* the notification table
  nextSighting,   \* the identity sequence of sighting
  nextComment     \* the identity sequence of duck_comment

tables == <<userRows, flockRows, duck, sightings, comments, follows,
            notifications, nextSighting, nextComment>>

NoKey == 0        \* a NULL photo_key column

\* "Gone" is the absence of the row; the other three are DuckLifecycle.
Lifecycles == {"Gone", "Allocated", "Staged", "Sailing"}

DuckRow == [life : Lifecycles, photo : Nat, deleted : BOOLEAN, locked : BOOLEAN]
GoneRow == [life |-> "Gone", photo |-> NoKey, deleted |-> FALSE, locked |-> FALSE]
MintedRow == [life |-> "Allocated", photo |-> NoKey, deleted |-> FALSE, locked |-> FALSE]

SightingRow == [id : Nat, duck : Ducks, user : Users, photo : Nat]
CommentRow == [id : Nat, duck : Ducks, user : Users]
NotificationRow == [user : Users, duck : Ducks, sighting : Nat, read : BOOLEAN]

TablesTypeOK ==
  /\ userRows \subseteq Users
  /\ flockRows \subseteq Flocks
  /\ duck \in [Ducks -> DuckRow]
  /\ sightings \subseteq SightingRow
  /\ comments \subseteq CommentRow
  /\ follows \subseteq (Users \X Ducks)
  /\ notifications \subseteq NotificationRow
  /\ nextSighting \in Nat
  /\ nextComment \in Nat

\* Every user has logged in, every duck is freshly minted, nothing else happened.
TablesInit ==
  /\ userRows = Users
  /\ flockRows = Flocks
  /\ duck = [d \in Ducks |-> MintedRow]
  /\ sightings = {} /\ comments = {} /\ follows = {} /\ notifications = {}
  /\ nextSighting = 1 /\ nextComment = 1

-----------------------------------------------------------------------------
\* Reads

Exists(d) == duck[d].life # "Gone"
Owner(d) == OwnerOf[FlockOf[d]]
DucksOfFlock(f) == {d \in Ducks : FlockOf[d] = f}
DucksOfUser(u) == {d \in Ducks : Owner(d) = u}

\* Fault: the finder is notified of their own find.
FollowersAndFinder(d, finder) == {u \in Users : <<u, d>> \in follows}

\* The followers to notify of a find, the finder excluded.
Followers(d, finder) == {u \in Users : <<u, d>> \in follows /\ u # finder}

\* What the foreign keys of sighting, duck_comment and duck_follow demand.
ForeignKeysOK(u, d) == u \in userRows /\ Exists(d)

\* Keys(S, D): the photo keys on the sightings S and on the duck rows D, as the
\* UNION ALL at the head of delete_flock and delete_user selects them.
Keys(S, D) == ({s.photo : s \in S} \cup {duck[d].photo : d \in D}) \ {NoKey}

FlockSightings(f) == {s \in sightings : FlockOf[s.duck] = f}
UserSightings(u) == {s \in sightings : s.user = u \/ Owner(s.duck) = u}

-----------------------------------------------------------------------------
\* DuckRepo: the single-row compare-and-sets

\* Fault: stage without its IS NULL guard.
StageUnguarded(d, key) ==
  IF Exists(d) THEN [duck EXCEPT ![d].life = "Staged", ![d].photo = key] ELSE duck

\* UPDATE duck ... WHERE id = d AND originated_at IS NULL
Stage(d, key) ==
  IF duck[d].life = "Allocated"
  THEN [duck EXCEPT ![d].life = "Staged", ![d].photo = key]
  ELSE duck

\* UPDATE duck SET set_sail_at ... WHERE originated_at IS NOT NULL AND set_sail_at IS NULL
SetSail(d) ==
  IF duck[d].life = "Staged" THEN [duck EXCEPT ![d].life = "Sailing"] ELSE duck

SetDeleted(d, deleted) ==
  IF Exists(d) THEN [duck EXCEPT ![d].deleted = deleted] ELSE duck

SetCommentsLocked(d, locked) ==
  IF Exists(d) THEN [duck EXCEPT ![d].locked = locked] ELSE duck

-----------------------------------------------------------------------------
\* SightingRepo, CommentRepo, FollowRepo, NotificationRepo

Follow(u, d) == follows \cup {<<u, d>>}
Unfollow(u, d) == follows \ {<<u, d>>}

\* Fault: the finder is not made a follower.
LogSightingUnfollowed(id, d, finder, key, notify, joins) ==
  /\ sightings' = sightings \cup
       {[id |-> id, duck |-> d, user |-> finder, photo |-> key]}
  /\ notifications' = notifications \cup
       {[user |-> u, duck |-> d, sighting |-> id, read |-> FALSE] : u \in notify}
  /\ UNCHANGED follows

\* The three inserts of log, made visible by its commit: the follow is one of
\* them only if the statement found none to conflict with.
LogSighting(id, d, finder, key, notify, joins) ==
  /\ sightings' = sightings \cup
       {[id |-> id, duck |-> d, user |-> finder, photo |-> key]}
  /\ notifications' = notifications \cup
       {[user |-> u, duck |-> d, sighting |-> id, read |-> FALSE] : u \in notify}
  /\ follows' = IF joins THEN Follow(finder, d) ELSE follows

\* The sighting rows that DELETE ... WHERE id = $1 AND duck_id = $2 matches.
SightingsToDelete(id, d) == {s \in sightings : s.id = id /\ s.duck = d}

\* Fault: the sighting stays although its photo key is returned for cleanup.
DeleteSightingNotifications(id, d) ==
  /\ notifications' = {n \in notifications : n.sighting # id}
  /\ UNCHANGED sightings

\* The notifications go by sighting id alone, whether or not the sighting is
\* one of this duck's.
DeleteSighting(id, d) ==
  /\ notifications' = {n \in notifications : n.sighting # id}
  /\ sightings' = sightings \ SightingsToDelete(id, d)

AddComment(d, u) ==
  /\ comments' = comments \cup {[id |-> nextComment, duck |-> d, user |-> u]}
  /\ nextComment' = nextComment + 1

DeleteComment(id, d) == {c \in comments : ~(c.id = id /\ c.duck = d)}

MarkAllRead(u) == {[n EXCEPT !.read = @ \/ n.user = u] : n \in notifications}

-----------------------------------------------------------------------------
\* AdminRepo: the hard deletes

\* Fault: the comments are forgotten.
DeleteFlockNotComments(f) ==
  /\ notifications' = {n \in notifications : FlockOf[n.duck] # f}
  /\ follows' = {p \in follows : FlockOf[p[2]] # f}
  /\ UNCHANGED comments
  /\ sightings' = sightings \ FlockSightings(f)
  /\ duck' = [d \in Ducks |-> IF FlockOf[d] = f THEN GoneRow ELSE duck[d]]
  /\ flockRows' = flockRows \ {f}

\* Everything hanging off the flock's ducks, the ducks and the flock.
DeleteFlock(f) ==
  /\ notifications' = {n \in notifications : FlockOf[n.duck] # f}
  /\ follows' = {p \in follows : FlockOf[p[2]] # f}
  /\ comments' = {c \in comments : FlockOf[c.duck] # f}
  /\ sightings' = sightings \ FlockSightings(f)
  /\ duck' = [d \in Ducks |-> IF FlockOf[d] = f THEN GoneRow ELSE duck[d]]
  /\ flockRows' = flockRows \ {f}

\* Fault: notifications of the user's finds are forgotten.
DeleteUserOwnNotifications(u) ==
  /\ notifications' = {n \in notifications : n.user # u /\ Owner(n.duck) # u}
  /\ follows' = {p \in follows : p[1] # u /\ Owner(p[2]) # u}
  /\ comments' = {c \in comments : c.user # u /\ Owner(c.duck) # u}
  /\ sightings' = sightings \ UserSightings(u)
  /\ duck' = [d \in Ducks |-> IF Owner(d) = u THEN GoneRow ELSE duck[d]]
  /\ flockRows' = {f \in flockRows : OwnerOf[f] # u}
  /\ userRows' = userRows \ {u}

\* The user, their flocks and ducks, and every trace of either.
DeleteUser(u) ==
  /\ notifications' = {n \in notifications :
                         /\ n.user # u
                         /\ \A s \in sightings : s.id = n.sighting => s.user # u
                         /\ Owner(n.duck) # u}
  /\ follows' = {p \in follows : p[1] # u /\ Owner(p[2]) # u}
  /\ comments' = {c \in comments : c.user # u /\ Owner(c.duck) # u}
  /\ sightings' = sightings \ UserSightings(u)
  /\ duck' = [d \in Ducks |-> IF Owner(d) = u THEN GoneRow ELSE duck[d]]
  /\ flockRows' = {f \in flockRows : OwnerOf[f] # u}
  /\ userRows' = userRows \ {u}
=============================================================================

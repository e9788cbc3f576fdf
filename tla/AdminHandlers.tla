--------------------------- MODULE AdminHandlers ----------------------------
(***************************************************************************)
(* The destructive levers of crates/web/src/handlers/admin.rs and the      *)
(* AdminRepo transactions behind them.  A transaction is two steps: it     *)
(* reads the photo keys, and later its deletes commit together.  Between   *)
(* the two, READ COMMITTED lets other requests commit rows the deletes     *)
(* will see and the key list will not.  Deletes that meet rows locked by   *)
(* an open log transaction wait for it; if they have by then passed a      *)
(* table it wrote, a foreign key makes the whole delete fail (Abandon).    *)
(***************************************************************************)
EXTENDS DuckHandlers

DeleteFlockReq == [pc : {"deleteFlock"}, flock : Flocks, keys : SUBSET Nat]
DeleteUserReq == [pc : {"deleteUser"}, target : Users, keys : SUBSET Nat]

Requests == DuckRequests \cup DeleteFlockReq \cup DeleteUserReq

\* cleanup_photos over the keys the transaction returned.
CleanupOrReply(w, keys) ==
  IF keys = {} THEN Reply(w)
  ELSE req' = [req EXCEPT ![w] = [pc |-> "cleanup", keys |-> keys]]

-----------------------------------------------------------------------------

DeleteFlockSelect(w, f) ==
  /\ Admins # {}
  /\ Start(w, "delete_flock",
           [pc |-> "deleteFlock", flock |-> f,
            keys |-> Keys(FlockSightings(f), DucksOfFlock(f))])
  /\ UNCHANGED <<tables, store>>

\* Fault: a delete waits for every other delete of the flock, and they for it.
DeleteFlockWaiting(w) ==
  LET f == req[w].flock IN
  /\ At(w, "deleteFlock")
  /\ \A v \in Workers \ {w} : At(v, "deleteFlock") => req[v].flock # f
  /\ DeleteFlock(f)
  /\ IF f \in flockRows THEN CleanupOrReply(w, req[w].keys) ELSE Reply(w)
  /\ UNCHANGED <<userRows, nextSighting, nextComment, store>>

\* A flock that is already gone has no rows left: the deletes match nothing and
\* the answer is a 404, without cleanup.
DeleteFlockCommit(w) ==
  LET f == req[w].flock IN
  /\ At(w, "deleteFlock")
  /\ \A v \in Workers : \A d \in DucksOfFlock(f) : ~LocksDuck(v, d)
  /\ DeleteFlock(f)
  /\ IF f \in flockRows THEN CleanupOrReply(w, req[w].keys) ELSE Reply(w)
  /\ UNCHANGED <<userRows, nextSighting, nextComment, store>>

-----------------------------------------------------------------------------

\* Somebody else's account: an admin cannot name their own.
DeleteUserSelect(w, u, target) ==
  /\ u \in Admins
  /\ target # u
  /\ Start(w, "delete_user",
           [pc |-> "deleteUser", target |-> target,
            keys |-> Keys(UserSightings(target), DucksOfUser(target))])
  /\ UNCHANGED <<tables, store>>

\* No deletable row (gone already, or an admin's): the transaction is dropped
\* with everything it deleted, and no photo is cleaned up.
DeleteUserCommit(w) ==
  LET u == req[w].target IN
  /\ At(w, "deleteUser")
  /\ \A v \in Workers : ~LocksUser(v, u) /\ \A d \in DucksOfUser(u) : ~LocksDuck(v, d)
  /\ IF u \in userRows \ Admins
     THEN /\ DeleteUser(u)
          /\ CleanupOrReply(w, req[w].keys)
     ELSE /\ Reply(w)
          /\ UNCHANGED <<notifications, follows, comments, sightings, duck,
                         flockRows, userRows>>
  /\ UNCHANGED <<nextSighting, nextComment, store>>
=============================================================================

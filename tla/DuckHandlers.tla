---------------------------- MODULE DuckHandlers ----------------------------
(***************************************************************************)
(* The request handlers of crates/web/src/handlers/duck.rs (and the one    *)
(* writing handler of me.rs).  A worker is an in-flight request, on any    *)
(* application instance.  A handler is cut at its awaits: what it read     *)
(* before one (the duck resolved from the code, the lifecycle, the lock)   *)
(* is not read again after it.  Requests that fail validation, or that are *)
(* answered with a 404 or a redirect before they write, change nothing and *)
(* are not represented; one that fails after its first write is Abandon.   *)
(***************************************************************************)
EXTENDS Database, PhotoStore

CONSTANTS
  Workers,        \* concurrent requests
  Ops,            \* the endpoints in use
  MaxSightings,   \* bound: no sighting request starts past this id
  MaxComments     \* bound: no comment request starts past this id

ASSUME BoundsAssumption == MaxSightings \in Nat /\ MaxComments \in Nat

VARIABLE req      \* what each worker is doing

vars == <<tables, store, req>>

-----------------------------------------------------------------------------
\* pc is the next await of the handler.

Idle == [pc |-> "idle"]
OriginateReq == [pc : {"putOrigin", "stage", "stageSail"}, duck : Ducks,
                 key : Nat, sail : BOOLEAN]
SailReq == [pc : {"setSail"}, duck : Ducks]
LogReq == [pc : {"putSighting", "log", "logCommit"}, duck : Ducks, user : Users,
           key : Nat, id : Nat, notify : SUBSET Users, joins : BOOLEAN]
InteractReq == [pc : {"addComment", "follow", "unfollow"}, duck : Ducks, user : Users]
ModerateReq == [pc : {"setDeleted", "setLocked"}, duck : Ducks, flag : BOOLEAN]
RemoveReq == [pc : {"deleteComment", "deleteSighting"}, duck : Ducks, id : Nat]
CleanupReq == [pc : {"cleanup"}, keys : SUBSET Nat]

DuckRequests == {Idle} \cup OriginateReq \cup SailReq \cup LogReq
                \cup InteractReq \cup ModerateReq \cup RemoveReq \cup CleanupReq

At(w, pc) == req[w].pc = pc
Goto(w, pc) == req' = [req EXCEPT ![w].pc = pc]
Reply(w) == req' = [req EXCEPT ![w] = Idle]
Start(w, op, r) == op \in Ops /\ At(w, "idle") /\ req' = [req EXCEPT ![w] = r]

-----------------------------------------------------------------------------
\* The checks at the head of the handlers

ResolveAny(d) == Exists(d)
Resolve(d) == ResolveAny(d) /\ ~duck[d].deleted
ResolveSailing(d) == Resolve(d) /\ duck[d].life = "Sailing"
CanModerate(u, d) == u \in Admins \/ u = Owner(d)

-----------------------------------------------------------------------------
\* originate: put the photo, stage the duck, and set it sailing if asked to.
\* Only the owner passes the check, so the caller is not recorded.

\* Fault: the duck is staged before its photo is stored.
OriginateBeforePut(w, d, sail) ==
  /\ Resolve(d)
  /\ duck[d].life = "Allocated"
  /\ NewKey
  /\ Start(w, "originate",
           [pc |-> "stage", duck |-> d, key |-> nextKey, sail |-> sail])
  /\ UNCHANGED <<tables, objects>>

Originate(w, d, sail) ==
  /\ Resolve(d)
  /\ duck[d].life = "Allocated"
  /\ NewKey
  /\ Start(w, "originate",
           [pc |-> "putOrigin", duck |-> d, key |-> nextKey, sail |-> sail])
  /\ UNCHANGED <<tables, objects>>

PutOriginPhoto(w) ==
  /\ At(w, "putOrigin")
  /\ objects' = Put(req[w].key)
  /\ Goto(w, "stage")
  /\ UNCHANGED <<tables, nextKey>>

\* What stage returns is dropped: a lost race goes on as a win does.
OriginateStage(w) ==
  /\ At(w, "stage")
  /\ duck' = Stage(req[w].duck, req[w].key)
  /\ IF req[w].sail THEN Goto(w, "stageSail") ELSE Reply(w)
  /\ UNCHANGED <<userRows, flockRows, sightings, comments, follows,
                 notifications, nextSighting, nextComment, store>>

SailStep(w, pc) ==
  /\ At(w, pc)
  /\ duck' = SetSail(req[w].duck)
  /\ Reply(w)
  /\ UNCHANGED <<userRows, flockRows, sightings, comments, follows,
                 notifications, nextSighting, nextComment, store>>

OriginateSail(w) == SailStep(w, "stageSail")

\* set_sail: the owner confirms; the lifecycle is left to the UPDATE.
SetSailing(w, d) ==
  /\ Resolve(d)
  /\ Start(w, "set_sail", [pc |-> "setSail", duck |-> d])
  /\ UNCHANGED <<tables, store>>

SetSailUpdate(w) == SailStep(w, "setSail")

-----------------------------------------------------------------------------
\* log_sighting: an optional photo, then one transaction.

LogWithPhoto(w, u, d) ==
  /\ ResolveSailing(d)
  /\ nextSighting <= MaxSightings
  /\ NewKey
  /\ Start(w, "log_sighting",
           [pc |-> "putSighting", duck |-> d, user |-> u, key |-> nextKey,
            id |-> 0, notify |-> {}, joins |-> FALSE])
  /\ UNCHANGED <<tables, objects>>

LogWithoutPhoto(w, u, d) ==
  /\ ResolveSailing(d)
  /\ nextSighting <= MaxSightings
  /\ Start(w, "log_sighting",
           [pc |-> "log", duck |-> d, user |-> u, key |-> NoKey,
            id |-> 0, notify |-> {}, joins |-> FALSE])
  /\ UNCHANGED <<tables, store>>

PutSightingPhoto(w) ==
  /\ At(w, "putSighting")
  /\ objects' = Put(req[w].key)
  /\ Goto(w, "log")
  /\ UNCHANGED <<tables, nextKey>>

\* An open log transaction has inserted the pair <<u, d>> into duck_follow: an
\* INSERT of the same pair waits for its end, a DELETE does not see the row.
FollowPending(u, d) ==
  \E w \in Workers : At(w, "logCommit") /\ req[w].joins /\ req[w].user = u /\ req[w].duck = d

\* The inserts run against the current tables: the id is drawn, the followers
\* are read, and the foreign-key checks lock the duck, the finder and the
\* followers until the transaction ends.  A finder who follows already is left
\* alone (ON CONFLICT DO NOTHING), and that row is not locked.  Others see
\* nothing of it yet.
LogInsert(w) ==
  /\ At(w, "log")
  /\ ~FollowPending(req[w].user, req[w].duck)
  /\ nextSighting' = nextSighting + 1
  /\ IF ForeignKeysOK(req[w].user, req[w].duck)
     THEN req' = [req EXCEPT ![w].pc = "logCommit", ![w].id = nextSighting,
                             ![w].notify = Followers(req[w].duck, req[w].user),
                             ![w].joins = <<req[w].user, req[w].duck>> \notin follows]
     ELSE Reply(w)
  /\ UNCHANGED <<userRows, flockRows, duck, sightings, comments, follows,
                 notifications, nextComment, store>>

LogCommit(w) ==
  /\ At(w, "logCommit")
  /\ LogSighting(req[w].id, req[w].duck, req[w].user, req[w].key, req[w].notify, req[w].joins)
  /\ Reply(w)
  /\ UNCHANGED <<userRows, flockRows, duck, comments, nextSighting, nextComment, store>>

\* The rows an open log transaction keeps from being deleted.
LocksDuck(w, d) == At(w, "logCommit") /\ req[w].duck = d
LocksUser(w, u) == At(w, "logCommit") /\ (req[w].user = u \/ u \in req[w].notify)

-----------------------------------------------------------------------------
\* comment, follow, unfollow, mark_notifications_read

Comment(w, u, d) ==
  /\ ResolveSailing(d)
  /\ ~duck[d].locked
  /\ nextComment <= MaxComments
  /\ Start(w, "comment", [pc |-> "addComment", duck |-> d, user |-> u])
  /\ UNCHANGED <<tables, store>>

CommentInsert(w) ==
  /\ At(w, "addComment")
  /\ IF ForeignKeysOK(req[w].user, req[w].duck)
     THEN AddComment(req[w].duck, req[w].user)
     ELSE UNCHANGED comments /\ nextComment' = nextComment + 1
  /\ Reply(w)
  /\ UNCHANGED <<userRows, flockRows, duck, sightings, follows, notifications,
                 nextSighting, store>>

FollowRequest(w, u, d) ==
  /\ ResolveSailing(d)
  /\ Start(w, "follow", [pc |-> "follow", duck |-> d, user |-> u])
  /\ UNCHANGED <<tables, store>>

FollowInsert(w) ==
  /\ At(w, "follow")
  /\ ~FollowPending(req[w].user, req[w].duck)
  /\ follows' = IF ForeignKeysOK(req[w].user, req[w].duck)
                THEN Follow(req[w].user, req[w].duck) ELSE follows
  /\ Reply(w)
  /\ UNCHANGED <<userRows, flockRows, duck, sightings, comments, notifications,
                 nextSighting, nextComment, store>>

UnfollowRequest(w, u, d) ==
  /\ ResolveSailing(d)
  /\ Start(w, "unfollow", [pc |-> "unfollow", duck |-> d, user |-> u])
  /\ UNCHANGED <<tables, store>>

UnfollowDelete(w) ==
  /\ At(w, "unfollow")
  /\ follows' = Unfollow(req[w].user, req[w].duck)
  /\ Reply(w)
  /\ UNCHANGED <<userRows, flockRows, duck, sightings, comments, notifications,
                 nextSighting, nextComment, store>>

\* One statement and nothing before it: a single step.
MarkNotificationsRead(u) ==
  /\ "mark_read" \in Ops
  /\ notifications' = MarkAllRead(u)
  /\ UNCHANGED <<userRows, flockRows, duck, sightings, comments, follows,
                 nextSighting, nextComment, store, req>>

-----------------------------------------------------------------------------
\* Moderation by the flock owner or an admin

\* delete_duck and restore_duck resolve soft-deleted ducks too.
DeleteOrRestore(w, u, d, deleted) ==
  /\ ResolveAny(d)
  /\ CanModerate(u, d)
  /\ Start(w, "delete_duck", [pc |-> "setDeleted", duck |-> d, flag |-> deleted])
  /\ UNCHANGED <<tables, store>>

DeletedUpdate(w) ==
  /\ At(w, "setDeleted")
  /\ duck' = SetDeleted(req[w].duck, req[w].flag)
  /\ Reply(w)
  /\ UNCHANGED <<userRows, flockRows, sightings, comments, follows,
                 notifications, nextSighting, nextComment, store>>

LockOrUnlock(w, u, d, locked) ==
  /\ Resolve(d)
  /\ CanModerate(u, d)
  /\ Start(w, "lock_comments", [pc |-> "setLocked", duck |-> d, flag |-> locked])
  /\ UNCHANGED <<tables, store>>

LockedUpdate(w) ==
  /\ At(w, "setLocked")
  /\ duck' = SetCommentsLocked(req[w].duck, req[w].flag)
  /\ Reply(w)
  /\ UNCHANGED <<userRows, flockRows, sightings, comments, follows,
                 notifications, nextSighting, nextComment, store>>

\* The id in the URL is any number: here, any id drawn so far.
RemoveCommentRequest(w, u, d, id) ==
  /\ ResolveSailing(d)
  /\ CanModerate(u, d)
  /\ Start(w, "delete_comment", [pc |-> "deleteComment", duck |-> d, id |-> id])
  /\ UNCHANGED <<tables, store>>

CommentDelete(w) ==
  /\ At(w, "deleteComment")
  /\ comments' = DeleteComment(req[w].id, req[w].duck)
  /\ Reply(w)
  /\ UNCHANGED <<userRows, flockRows, duck, sightings, follows, notifications,
                 nextSighting, nextComment, store>>

RemoveSightingRequest(w, u, d, id) ==
  /\ ResolveSailing(d)
  /\ CanModerate(u, d)
  /\ Start(w, "delete_sighting", [pc |-> "deleteSighting", duck |-> d, id |-> id])
  /\ UNCHANGED <<tables, store>>

\* One transaction; a photo key it returns is removed from the store next.
SightingDelete(w) ==
  /\ At(w, "deleteSighting")
  /\ DeleteSighting(req[w].id, req[w].duck)
  /\ LET keys == Keys(SightingsToDelete(req[w].id, req[w].duck), {}) IN
       IF keys = {} THEN Reply(w)
       ELSE req' = [req EXCEPT ![w] = [pc |-> "cleanup", keys |-> keys]]
  /\ UNCHANGED <<userRows, flockRows, duck, comments, follows, nextSighting,
                 nextComment, store>>

\* Best effort, key by key; a store error only logs and goes on to the next.
CleanupPhoto(w, key) ==
  /\ At(w, "cleanup")
  /\ key \in req[w].keys
  /\ objects' \in {Remove(key), objects}
  /\ IF req[w].keys = {key} THEN Reply(w)
     ELSE req' = [req EXCEPT ![w].keys = @ \ {key}]
  /\ UNCHANGED <<tables, nextKey>>

-----------------------------------------------------------------------------
\* The client disconnects, the instance dies, a statement or the store fails,
\* or (log_sighting) the coordinates are rejected after the photo was stored.
\* An open transaction rolls back; nothing else is undone.
Abandon(w) ==
  /\ "abandon" \in Ops
  /\ ~At(w, "idle")
  /\ Reply(w)
  /\ UNCHANGED <<tables, store>>
=============================================================================

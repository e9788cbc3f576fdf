----------------------------- MODULE DuckVoyage -----------------------------
(***************************************************************************)
(* duck.voyage as a whole: concurrent requests on any number of instances  *)
(* over one database and one photo store, and what must hold of the two    *)
(* together.                                                               *)
(***************************************************************************)
EXTENDS AdminHandlers

Init == TablesInit /\ StoreInit /\ req = [w \in Workers |-> Idle]

\* A new request arrives: what the handler does up to its first write.
Arrive(w) ==
  \/ \E d \in Ducks, sail \in BOOLEAN : Originate(w, d, sail)
  \/ \E d \in Ducks : SetSailing(w, d)
  \/ \E u \in Users, d \in Ducks :
       \/ LogWithPhoto(w, u, d)
       \/ LogWithoutPhoto(w, u, d)
       \/ Comment(w, u, d)
       \/ FollowRequest(w, u, d)
       \/ UnfollowRequest(w, u, d)
       \/ \E flag \in BOOLEAN :
            DeleteOrRestore(w, u, d, flag) \/ LockOrUnlock(w, u, d, flag)
       \/ \E id \in 1..(nextComment - 1) : RemoveCommentRequest(w, u, d, id)
       \/ \E id \in 1..(nextSighting - 1) : RemoveSightingRequest(w, u, d, id)
  \/ \E f \in Flocks : DeleteFlockSelect(w, f)
  \/ \E u \in Users, target \in Users : DeleteUserSelect(w, u, target)

\* A running request gets past its next await.
Step(w) ==
  \/ PutOriginPhoto(w) \/ OriginateStage(w) \/ OriginateSail(w)
  \/ SetSailUpdate(w)
  \/ PutSightingPhoto(w) \/ LogInsert(w) \/ LogCommit(w)
  \/ CommentInsert(w) \/ FollowInsert(w) \/ UnfollowDelete(w)
  \/ DeletedUpdate(w) \/ LockedUpdate(w)
  \/ CommentDelete(w) \/ SightingDelete(w)
  \/ DeleteFlockCommit(w) \/ DeleteUserCommit(w)
  \/ \E key \in IF At(w, "cleanup") THEN req[w].keys ELSE {} : CleanupPhoto(w, key)

Next ==
  \/ \E w \in Workers : Arrive(w) \/ Step(w) \/ Abandon(w)
  \/ \E u \in Users : MarkNotificationsRead(u)

Spec == Init /\ [][Next]_vars

\* Every running request is scheduled again: the executor polls it, and the
\* database and the store answer it, if only with an error.
Fairness == \A w \in Workers : WF_vars(Step(w))

FairSpec == Spec /\ Fairness

-----------------------------------------------------------------------------
\* Safety

\* Every column holds a value of its type, every request the arguments of its
\* handler.
TypeOK == TablesTypeOK /\ StoreTypeOK /\ req \in [Workers -> Requests]

\* The photo keys the duck and sighting rows refer to.
RowKeys == Keys(sightings, Ducks)

\* No broken pictures: whatever handlers race, die or clean up, an object a row
\* refers to is in the store (serve_photo would answer 500 otherwise).
NoDanglingPhoto == RowKeys \subseteq objects

\* Only sailing ducks have sightings, comments, followers and notifications,
\* although each handler checks the lifecycle one await before it writes.
InteractionsOnSailed ==
  \A d \in Ducks : duck[d].life # "Sailing" =>
    /\ \A s \in sightings : s.duck # d
    /\ \A c \in comments : c.duck # d
    /\ \A p \in follows : p[2] # d
    /\ \A n \in notifications : n.duck # d

\* The hard deletes leave no row behind that refers to a deleted one: the
\* foreign keys of the schema hold by the statements alone.
ReferentialIntegrity ==
  /\ \A d \in Ducks : Exists(d) => FlockOf[d] \in flockRows
  /\ \A f \in flockRows : OwnerOf[f] \in userRows
  /\ \A s \in sightings : ForeignKeysOK(s.user, s.duck)
  /\ \A c \in comments : ForeignKeysOK(c.user, c.duck)
  /\ \A p \in follows : ForeignKeysOK(p[1], p[2])
  /\ \A n \in notifications :
       /\ n.user \in userRows
       /\ \E s \in sightings : s.id = n.sighting /\ s.duck = n.duck

\* A find is announced to others only, never to the user who made it.
FinderNotNotified ==
  \A n \in notifications, s \in sightings : s.id = n.sighting => n.user # s.user

\* One photo belongs to one row, so cleaning up after one row cannot take the
\* picture of another.
PhotoBelongsToOneRow ==
  /\ \A s, t \in sightings : s.photo # NoKey /\ s.photo = t.photo => s = t
  /\ \A d, e \in Ducks : duck[d].photo # NoKey /\ duck[d].photo = duck[e].photo => d = e
  /\ \A s \in sightings, d \in Ducks : s.photo # NoKey => s.photo # duck[d].photo

\* A duck goes from allocated to staged to sailing and never back, its details
\* are written once, and a hard-deleted row does not come back, whichever
\* requests were resolved before.
LifecycleForward ==
  \A d \in Ducks :
    LET old == duck[d]
        new == duck'[d] IN
    /\ old.life = "Gone" => new = GoneRow
    /\ old.life = "Staged" => new.life \in {"Staged", "Sailing", "Gone"}
    /\ old.life = "Sailing" => new.life \in {"Sailing", "Gone"}
    /\ old.photo # NoKey /\ new.life # "Gone" => new.photo = old.photo

LifecycleMonotone == [][LifecycleForward]_vars

-----------------------------------------------------------------------------
\* Inductive strengthenings

\* The key a running request has drawn and not yet attached to a row.
Carried(w) ==
  IF req[w].pc \in {"putOrigin", "stage", "putSighting", "log", "logCommit"}
  THEN {req[w].key} \ {NoKey} ELSE {}

\* The keys a running request has read from rows and may remove.
Collected(w) ==
  IF req[w].pc \in {"deleteFlock", "deleteUser", "cleanup"} THEN req[w].keys ELSE {}

\* Every key in use was drawn before nextKey.
KeysDrawn ==
  /\ \A d \in Ducks : duck[d].photo < nextKey
  /\ \A s \in sightings : s.photo < nextKey
  /\ \A w \in Workers : \A k \in Carried(w) \cup Collected(w) : k < nextKey

\* A carried key is nobody else's: not a row's, not another request's.
CarriedKeysPrivate ==
  \A w \in Workers : \A k \in Carried(w) :
    /\ \A d \in Ducks : duck[d].photo # k
    /\ \A s \in sightings : s.photo # k
    /\ \A v \in Workers : k \notin Collected(v) /\ (v # w => k \notin Carried(v))

\* A request about to write a row has stored the object already.
CarriedKeysStored ==
  \A w \in Workers : req[w].pc \in {"stage", "log", "logCommit"} =>
    req[w].key \in objects \cup {NoKey}

\* The rows a delete transaction has listed are ones its deletes remove, and
\* what is being cleaned up has no row any more.
CollectedRowsDoomed ==
  \A w \in Workers : \A k \in Collected(w) :
    /\ k # NoKey
    /\ \A d \in Ducks : duck[d].photo = k =>
         \/ At(w, "deleteFlock") /\ FlockOf[d] = req[w].flock
         \/ At(w, "deleteUser") /\ Owner(d) = req[w].target
    /\ \A s \in sightings : s.photo = k =>
         \/ At(w, "deleteFlock") /\ FlockOf[s.duck] = req[w].flock
         \/ At(w, "deleteUser") /\ (s.user = req[w].target \/ Owner(s.duck) = req[w].target)

\* Why no photo dangles: at every moment a key has one holder, and it passes
\* from a request to a row to a cleanup, never back.
PhotoInv ==
  /\ NoDanglingPhoto
  /\ PhotoBelongsToOneRow
  /\ KeysDrawn
  /\ CarriedKeysPrivate
  /\ CarriedKeysStored
  /\ CollectedRowsDoomed

\* A duck without details has no photo; a deleted row is the absent row.
DuckRowShape ==
  \A d \in Ducks :
    /\ duck[d].life = "Gone" => duck[d] = GoneRow
    /\ duck[d].life = "Allocated" => duck[d].photo = NoKey

\* The duck a request resolved as sailing is still sailing, or its row is gone.
ResolvedStaysSailing ==
  \A w \in Workers :
    req[w].pc \in {"putSighting", "log", "logCommit", "addComment", "follow"} =>
      duck[req[w].duck].life \in {"Sailing", "Gone"}

\* The rows an open log transaction refers to are locked, so they exist; its
\* sighting id is its own.
OpenLogsLock ==
  \A w \in Workers : At(w, "logCommit") =>
    /\ ForeignKeysOK(req[w].user, req[w].duck)
    /\ req[w].notify \subseteq userRows \ {req[w].user}
    /\ req[w].id < nextSighting
    /\ \A s \in sightings : s.id # req[w].id
    /\ \A v \in Workers : At(v, "logCommit") /\ req[v].id = req[w].id => v = w

\* Sighting ids in use come from the identity sequence.
SightingIdsDrawn == \A s \in sightings : s.id < nextSighting

\* Why no row dangles and no early duck is written to: a lifecycle only moves
\* forward and row locks close the gap between check and commit.
RowInv ==
  /\ InteractionsOnSailed
  /\ ReferentialIntegrity
  /\ FinderNotNotified
  /\ DuckRowShape
  /\ ResolvedStaysSailing
  /\ OpenLogsLock
  /\ SightingIdsDrawn

-----------------------------------------------------------------------------
\* Refinement

\* Finders who unfollowed after their open log transaction saw them follow.
LeftMeanwhile ==
  {<<req[w].user, req[w].duck>> : w \in {v \in Workers : At(v, "logCommit") /\ ~req[v].joins}}
  \ follows

\* The handlers implement Logbook: rows and objects together are a book whose
\* pictures can all be seen, and a write takes effect in one step at a moment
\* when its duck sails and its user exists, whatever was checked before.  A
\* picture can be seen if a row refers to it and the store has it.
Book == INSTANCE Logbook WITH
  left <- LeftMeanwhile,
  accounts <- userRows,
  pages <- [d \in Ducks |-> [life |-> duck[d].life, photo |-> duck[d].photo]],
  finds <- sightings,
  news <- notifications,
  pictures <- RowKeys \cap objects,
  NoPicture <- NoKey

ImplementsLogbook == Book!Spec

\* What the refinement needs beyond PhotoInv and RowInv: comment ids come from
\* their sequence, one for each comment, and an origination always has a photo.
BookInv ==
  /\ \A c \in comments : c.id < nextComment
  /\ \A b, c \in comments : b.id = c.id => b = c
  /\ \A w \in Workers : req[w].pc \in {"putOrigin", "stage"} => req[w].key # NoKey

-----------------------------------------------------------------------------
\* Liveness

\* Every request is answered: waiting for locks and cleaning up both end.
RequestsAnswered == \A w \in Workers : ~At(w, "idle") ~> At(w, "idle")

-----------------------------------------------------------------------------
\* What the repository says of itself and the code does not do

\* "Scoped to the duck so a forged id can't delete across ducks."
DeleteScopedToDuck ==
  [][\A w \in Workers : At(w, "deleteSighting") /\ req'[w] # req[w] =>
       \A n \in notifications \ notifications' : n.duck = req[w].duck]_vars

\* delete_flock "returns the orphaned photo keys for object-store cleanup".
DeleteReturnsOrphanedKeys ==
  [][\A w \in Workers : At(w, "deleteFlock") /\ req'[w] # req[w] =>
       RowKeys \ RowKeys' \subseteq req[w].keys]_vars
=============================================================================

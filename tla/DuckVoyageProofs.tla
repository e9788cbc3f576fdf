-------------------------- MODULE DuckVoyageProofs --------------------------
(***************************************************************************)
(* DuckVoyage for any number of users, flocks, ducks and concurrent        *)
(* requests, in four parts that rest on each other: types; photos          *)
(* (PhotoInv); rows (RowInv); and the refinement of Logbook.               *)
(***************************************************************************)
EXTENDS DuckVoyage, TLAPS

\* A request's pc tells which handler it runs, so which arguments it carries.
LEMMA RequestShape ==
  ASSUME NEW r \in Requests
  PROVE  /\ r.pc \in {"putOrigin", "stage", "stageSail"} => r \in OriginateReq
         /\ r.pc = "setSail" => r \in SailReq
         /\ r.pc \in {"putSighting", "log", "logCommit"} => r \in LogReq
         /\ r.pc \in {"addComment", "follow", "unfollow"} => r \in InteractReq
         /\ r.pc \in {"setDeleted", "setLocked"} => r \in ModerateReq
         /\ r.pc \in {"deleteComment", "deleteSighting"} => r \in RemoveReq
         /\ r.pc = "cleanup" => r \in CleanupReq
         /\ r.pc = "deleteFlock" => r \in DeleteFlockReq
         /\ r.pc = "deleteUser" => r \in DeleteUserReq
  BY DEF Requests, DuckRequests, Idle, OriginateReq, SailReq, LogReq, InteractReq,
         ModerateReq, RemoveReq, CleanupReq, DeleteFlockReq, DeleteUserReq

\* A request that moves on within its handler is still one of that handler's.
LEMMA AdvanceShape ==
  ASSUME NEW r \in Requests
  PROVE  /\ r.pc = "putOrigin" => [r EXCEPT !.pc = "stage"] \in OriginateReq
         /\ r.pc = "stage" => [r EXCEPT !.pc = "stageSail"] \in OriginateReq
         /\ r.pc = "putSighting" => [r EXCEPT !.pc = "log"] \in LogReq
         /\ \A i \in Nat, N \in SUBSET Users, j \in BOOLEAN :
              r.pc = "log" =>
                [r EXCEPT !.pc = "logCommit", !.id = i, !.notify = N, !.joins = j] \in LogReq
         /\ \A K : r.pc = "cleanup" => [r EXCEPT !.keys = r.keys \ K] \in CleanupReq
  BY RequestShape DEF OriginateReq, LogReq, CleanupReq

\* One worker's request is replaced by another well-typed one.
LEMMA ReqUpdate ==
  ASSUME req \in [Workers -> Requests], NEW w \in Workers, NEW r \in Requests,
         req' = [req EXCEPT ![w] = r]
  PROVE  req' \in [Workers -> Requests]
  OBVIOUS

\* An answered request is well-typed.
LEMMA IdleIsRequest == Idle \in Requests
  BY DEF Requests, DuckRequests

\* The absent row is well-typed.
LEMMA GoneIsRow == GoneRow \in DuckRow
  BY DEF GoneRow, DuckRow, Lifecycles, NoKey

\* The keys a hard delete selects are keys.
LEMMA KeysAreNumbers ==
  ASSUME TypeOK, NEW S, S \subseteq sightings, NEW D, D \subseteq Ducks
  PROVE  Keys(S, D) \in SUBSET Nat
  BY DEF TypeOK, TablesTypeOK, Keys, SightingRow, DuckRow

\* No step of any handler stores an ill-typed value.
LEMMA TypeStep ==
  ASSUME TypeOK, [Next]_vars
  PROVE  TypeOK'
<1> USE DatabaseAssumption
<1>0. CASE UNCHANGED vars
  BY <1>0 DEF TypeOK, vars, TablesTypeOK, tables, StoreTypeOK, store
<1>1. ASSUME NEW w \in Workers, NEW d \in Ducks, NEW sail \in BOOLEAN, Originate(w, d, sail)
      PROVE  TypeOK'
  <2>1. [pc |-> "putOrigin", duck |-> d, key |-> nextKey, sail |-> sail] \in Requests
    BY <1>1 DEF TypeOK, StoreTypeOK, Requests, DuckRequests, OriginateReq
  <2> QED
    BY <1>1, <2>1, ReqUpdate DEF Originate, Start, NewKey, TypeOK, TablesTypeOK, StoreTypeOK, tables
<1>2. ASSUME NEW w \in Workers, PutOriginPhoto(w)
      PROVE  TypeOK'
  <2>1. [req[w] EXCEPT !.pc = "stage"] \in Requests
    BY <1>2, AdvanceShape DEF TypeOK, PutOriginPhoto, At, Requests, DuckRequests
  <2>2. req[w].key \in Nat
    BY <1>2, RequestShape DEF TypeOK, PutOriginPhoto, At, OriginateReq
  <2> QED
    BY <1>2, <2>1, <2>2, ReqUpdate DEF PutOriginPhoto, Goto, Put, TypeOK, TablesTypeOK, StoreTypeOK, tables
<1>3. ASSUME NEW w \in Workers, OriginateStage(w)
      PROVE  TypeOK'
  <2>1. [req[w] EXCEPT !.pc = "stageSail"] \in Requests
    BY <1>3, AdvanceShape DEF TypeOK, OriginateStage, At, Requests, DuckRequests
  <2>2. req[w].key \in Nat /\ req[w].duck \in Ducks
    BY <1>3, RequestShape DEF TypeOK, OriginateStage, At, OriginateReq
  <2>3. duck' \in [Ducks -> DuckRow]
    BY <1>3, <2>2 DEF OriginateStage, Stage, TypeOK, TablesTypeOK, DuckRow, Lifecycles
  <2> QED
    BY <1>3, <2>1, <2>3, ReqUpdate, IdleIsRequest
    DEF OriginateStage, Goto, Reply, TypeOK, TablesTypeOK, StoreTypeOK, store
<1>4. ASSUME NEW w \in Workers, OriginateSail(w) \/ SetSailUpdate(w)
      PROVE  TypeOK'
  <2>1. req[w].duck \in Ducks
    BY <1>4, RequestShape
    DEF TypeOK, OriginateSail, SetSailUpdate, SailStep, At, OriginateReq, SailReq
  <2>2. duck' \in [Ducks -> DuckRow]
    BY <1>4, <2>1
    DEF OriginateSail, SetSailUpdate, SailStep, SetSail, TypeOK, TablesTypeOK, DuckRow, Lifecycles
  <2> QED
    BY <1>4, <2>2, ReqUpdate, IdleIsRequest
    DEF OriginateSail, SetSailUpdate, SailStep, Reply, TypeOK, TablesTypeOK, StoreTypeOK, store
<1>5. ASSUME NEW w \in Workers, NEW d \in Ducks, SetSailing(w, d)
      PROVE  TypeOK'
  <2>1. [pc |-> "setSail", duck |-> d] \in Requests
    BY DEF Requests, DuckRequests, SailReq
  <2> QED
    BY <1>5, <2>1, ReqUpdate
    DEF SetSailing, Start, TypeOK, TablesTypeOK, StoreTypeOK, tables, store
<1>6. ASSUME NEW w \in Workers, NEW u \in Users, NEW d \in Ducks, LogWithPhoto(w, u, d)
      PROVE  TypeOK'
  <2>1. [pc |-> "putSighting", duck |-> d, user |-> u, key |-> nextKey,
         id |-> 0, notify |-> {}, joins |-> FALSE] \in Requests
    BY DEF TypeOK, StoreTypeOK, Requests, DuckRequests, LogReq
  <2> QED
    BY <1>6, <2>1, ReqUpdate
    DEF LogWithPhoto, Start, NewKey, TypeOK, TablesTypeOK, StoreTypeOK, tables
<1>7. ASSUME NEW w \in Workers, NEW u \in Users, NEW d \in Ducks, LogWithoutPhoto(w, u, d)
      PROVE  TypeOK'
  <2>1. [pc |-> "log", duck |-> d, user |-> u, key |-> NoKey,
         id |-> 0, notify |-> {}, joins |-> FALSE] \in Requests
    BY DEF NoKey, Requests, DuckRequests, LogReq
  <2> QED
    BY <1>7, <2>1, ReqUpdate
    DEF LogWithoutPhoto, Start, TypeOK, TablesTypeOK, StoreTypeOK, tables, store
<1>8. ASSUME NEW w \in Workers, PutSightingPhoto(w)
      PROVE  TypeOK'
  <2>1. [req[w] EXCEPT !.pc = "log"] \in Requests
    BY <1>8, AdvanceShape DEF TypeOK, PutSightingPhoto, At, Requests, DuckRequests
  <2>2. req[w].key \in Nat
    BY <1>8, RequestShape DEF TypeOK, PutSightingPhoto, At, LogReq
  <2> QED
    BY <1>8, <2>1, <2>2, ReqUpdate
    DEF PutSightingPhoto, Goto, Put, TypeOK, TablesTypeOK, StoreTypeOK, tables
<1>9. ASSUME NEW w \in Workers, LogInsert(w)
      PROVE  TypeOK'
  <2> DEFINE N == Followers(req[w].duck, req[w].user)
             j == <<req[w].user, req[w].duck>> \notin follows
  <2>1. nextSighting \in Nat /\ N \in SUBSET Users /\ j \in BOOLEAN
    BY DEF TypeOK, TablesTypeOK, Followers
  <2>2. [req[w] EXCEPT !.pc = "logCommit", !.id = nextSighting, !.notify = N, !.joins = j] \in Requests
    <3> HIDE DEF N, j
    <3> QED BY <1>9, <2>1, AdvanceShape DEF TypeOK, LogInsert, At, Requests, DuckRequests
  <2>3. req' \in [Workers -> Requests]
    BY <1>9, <2>2, ReqUpdate, IdleIsRequest DEF LogInsert, Reply, TypeOK
  <2> QED
    BY <1>9, <2>3 DEF LogInsert, TypeOK, TablesTypeOK, StoreTypeOK, store
<1>10. ASSUME NEW w \in Workers, LogCommit(w)
       PROVE  TypeOK'
  <2>1. req[w] \in LogReq
    BY <1>10, RequestShape DEF TypeOK, LogCommit, At
  <2>2. /\ [id |-> req[w].id, duck |-> req[w].duck, user |-> req[w].user,
             photo |-> req[w].key] \in SightingRow
        /\ \A u \in req[w].notify :
             [user |-> u, duck |-> req[w].duck, sighting |-> req[w].id,
              read |-> FALSE] \in NotificationRow
        /\ <<req[w].user, req[w].duck>> \in Users \X Ducks
    BY <2>1 DEF LogReq, SightingRow, NotificationRow
  <2>3. sightings' \subseteq SightingRow /\ notifications' \subseteq NotificationRow
    BY <1>10, <2>2 DEF LogCommit, LogSighting, TypeOK, TablesTypeOK
  <2>4. follows' \subseteq Users \X Ducks
    BY <1>10, <2>2 DEF LogCommit, LogSighting, Follow, TypeOK, TablesTypeOK
  <2> QED
    BY <1>10, <2>3, <2>4, ReqUpdate, IdleIsRequest
    DEF LogCommit, Reply, TypeOK, TablesTypeOK, StoreTypeOK, store
<1>11. ASSUME NEW w \in Workers, NEW u \in Users, NEW d \in Ducks,
              Comment(w, u, d) \/ FollowRequest(w, u, d) \/ UnfollowRequest(w, u, d)
       PROVE  TypeOK'
  <2>1. \A p \in {"addComment", "follow", "unfollow"} :
          [pc |-> p, duck |-> d, user |-> u] \in Requests
    BY DEF Requests, DuckRequests, InteractReq
  <2>2. req' \in [Workers -> Requests]
    BY <1>11, <2>1, ReqUpdate
    DEF Comment, FollowRequest, UnfollowRequest, Start, TypeOK
  <2> QED
    BY <1>11, <2>2
    DEF Comment, FollowRequest, UnfollowRequest, TypeOK, TablesTypeOK, StoreTypeOK, tables, store
<1>12. ASSUME NEW w \in Workers, CommentInsert(w)
       PROVE  TypeOK'
  <2>1. req[w] \in InteractReq
    BY <1>12, RequestShape DEF TypeOK, CommentInsert, At
  <2>2. [id |-> nextComment, duck |-> req[w].duck, user |-> req[w].user] \in CommentRow
    BY <2>1 DEF InteractReq, CommentRow, TypeOK, TablesTypeOK
  <2>3. comments' \subseteq CommentRow /\ nextComment' \in Nat
    BY <1>12, <2>2 DEF CommentInsert, AddComment, TypeOK, TablesTypeOK
  <2> QED
    BY <1>12, <2>3, ReqUpdate, IdleIsRequest
    DEF CommentInsert, Reply, TypeOK, TablesTypeOK, StoreTypeOK, store
<1>13. ASSUME NEW w \in Workers, FollowInsert(w) \/ UnfollowDelete(w)
       PROVE  TypeOK'
  <2>1. req[w] \in InteractReq
    BY <1>13, RequestShape DEF TypeOK, FollowInsert, UnfollowDelete, At
  <2>2. follows' \subseteq Users \X Ducks
    BY <1>13, <2>1
    DEF InteractReq, FollowInsert, UnfollowDelete, Follow, Unfollow, TypeOK, TablesTypeOK
  <2> QED
    BY <1>13, <2>2, ReqUpdate, IdleIsRequest
    DEF FollowInsert, UnfollowDelete, Reply, TypeOK, TablesTypeOK, StoreTypeOK, store
<1>14. ASSUME NEW u \in Users, MarkNotificationsRead(u)
       PROVE  TypeOK'
  <2>1. \A n \in NotificationRow : [n EXCEPT !.read = @ \/ n.user = u] \in NotificationRow
    BY DEF NotificationRow
  <2>2. notifications' \subseteq NotificationRow
    BY <1>14, <2>1 DEF MarkNotificationsRead, MarkAllRead, TypeOK, TablesTypeOK
  <2> QED
    BY <1>14, <2>2 DEF MarkNotificationsRead, TypeOK, TablesTypeOK, StoreTypeOK, store
<1>15. ASSUME NEW w \in Workers, NEW u \in Users, NEW d \in Ducks, NEW flag \in BOOLEAN,
              DeleteOrRestore(w, u, d, flag) \/ LockOrUnlock(w, u, d, flag)
       PROVE  TypeOK'
  <2>1. \A p \in {"setDeleted", "setLocked"} : [pc |-> p, duck |-> d, flag |-> flag] \in Requests
    BY DEF Requests, DuckRequests, ModerateReq
  <2>2. req' \in [Workers -> Requests]
    BY <1>15, <2>1, ReqUpdate DEF DeleteOrRestore, LockOrUnlock, Start, TypeOK
  <2> QED
    BY <1>15, <2>2
    DEF DeleteOrRestore, LockOrUnlock, TypeOK, TablesTypeOK, StoreTypeOK, tables, store
<1>16. ASSUME NEW w \in Workers, DeletedUpdate(w) \/ LockedUpdate(w)
       PROVE  TypeOK'
  <2>1. req[w] \in ModerateReq
    BY <1>16, RequestShape DEF TypeOK, DeletedUpdate, LockedUpdate, At
  <2>2. duck' \in [Ducks -> DuckRow]
    BY <1>16, <2>1
    DEF ModerateReq, DeletedUpdate, LockedUpdate, SetDeleted, SetCommentsLocked,
        TypeOK, TablesTypeOK, DuckRow
  <2> QED
    BY <1>16, <2>2, ReqUpdate, IdleIsRequest
    DEF DeletedUpdate, LockedUpdate, Reply, TypeOK, TablesTypeOK, StoreTypeOK, store
<1>17. ASSUME NEW w \in Workers, NEW u \in Users, NEW d \in Ducks, NEW id \in Nat,
              RemoveCommentRequest(w, u, d, id) \/ RemoveSightingRequest(w, u, d, id)
       PROVE  TypeOK'
  <2>1. \A p \in {"deleteComment", "deleteSighting"} : [pc |-> p, duck |-> d, id |-> id] \in Requests
    BY DEF Requests, DuckRequests, RemoveReq
  <2>2. req' \in [Workers -> Requests]
    BY <1>17, <2>1, ReqUpdate DEF RemoveCommentRequest, RemoveSightingRequest, Start, TypeOK
  <2> QED
    BY <1>17, <2>2
    DEF RemoveCommentRequest, RemoveSightingRequest, TypeOK, TablesTypeOK, StoreTypeOK, tables, store
<1>18. ASSUME NEW w \in Workers, CommentDelete(w)
       PROVE  TypeOK'
  BY <1>18, ReqUpdate, IdleIsRequest
  DEF CommentDelete, DeleteComment, Reply, TypeOK, TablesTypeOK, StoreTypeOK, store
<1>19. ASSUME NEW w \in Workers, SightingDelete(w)
       PROVE  TypeOK'
  <2> DEFINE K == Keys(SightingsToDelete(req[w].id, req[w].duck), {})
  <2>1. [pc |-> "cleanup", keys |-> K] \in Requests
    BY KeysAreNumbers DEF SightingsToDelete, Requests, DuckRequests, CleanupReq
  <2>2. req' \in [Workers -> Requests]
    BY <1>19, <2>1, ReqUpdate, IdleIsRequest DEF SightingDelete, Reply, TypeOK
  <2> QED
    BY <1>19, <2>2
    DEF SightingDelete, DeleteSighting, TypeOK, TablesTypeOK, StoreTypeOK, store
<1>20. ASSUME NEW w \in Workers, NEW key, CleanupPhoto(w, key)
       PROVE  TypeOK'
  <2>1. [req[w] EXCEPT !.keys = req[w].keys \ {key}] \in Requests
    BY <1>20, AdvanceShape DEF CleanupPhoto, At, TypeOK, Requests, DuckRequests
  <2>2. req' \in [Workers -> Requests]
    BY <1>20, <2>1, ReqUpdate, IdleIsRequest DEF CleanupPhoto, Reply, TypeOK
  <2> QED
    BY <1>20, <2>2 DEF CleanupPhoto, Remove, TypeOK, TablesTypeOK, StoreTypeOK, tables
<1>21. ASSUME NEW w \in Workers, NEW f \in Flocks, DeleteFlockSelect(w, f)
       PROVE  TypeOK'
  <2>1. [pc |-> "deleteFlock", flock |-> f,
         keys |-> Keys(FlockSightings(f), DucksOfFlock(f))] \in Requests
    BY KeysAreNumbers DEF FlockSightings, DucksOfFlock, Requests, DeleteFlockReq
  <2> QED
    BY <1>21, <2>1, ReqUpdate
    DEF DeleteFlockSelect, Start, TypeOK, TablesTypeOK, StoreTypeOK, tables, store
<1>22. ASSUME NEW w \in Workers, NEW u \in Users, NEW target \in Users,
              DeleteUserSelect(w, u, target)
       PROVE  TypeOK'
  <2>1. [pc |-> "deleteUser", target |-> target,
         keys |-> Keys(UserSightings(target), DucksOfUser(target))] \in Requests
    BY KeysAreNumbers DEF UserSightings, DucksOfUser, Requests, DeleteUserReq
  <2> QED
    BY <1>22, <2>1, ReqUpdate
    DEF DeleteUserSelect, Start, TypeOK, TablesTypeOK, StoreTypeOK, tables, store
<1>23. ASSUME NEW w \in Workers, DeleteFlockCommit(w)
       PROVE  TypeOK'
  <2>1. [pc |-> "cleanup", keys |-> req[w].keys] \in Requests
    BY <1>23, RequestShape
    DEF DeleteFlockCommit, At, TypeOK, DeleteFlockReq, Requests, DuckRequests, CleanupReq
  <2>2. req' \in [Workers -> Requests]
    BY <1>23, <2>1, ReqUpdate, IdleIsRequest DEF DeleteFlockCommit, CleanupOrReply, Reply, TypeOK
  <2>3. duck' \in [Ducks -> DuckRow]
    BY <1>23, GoneIsRow DEF DeleteFlockCommit, DeleteFlock, TypeOK, TablesTypeOK
  <2> QED
    BY <1>23, <2>2, <2>3
    DEF DeleteFlockCommit, DeleteFlock, TypeOK, TablesTypeOK, StoreTypeOK, store
<1>24. ASSUME NEW w \in Workers, DeleteUserCommit(w)
       PROVE  TypeOK'
  <2>1. [pc |-> "cleanup", keys |-> req[w].keys] \in Requests
    BY <1>24, RequestShape
    DEF DeleteUserCommit, At, TypeOK, DeleteUserReq, Requests, DuckRequests, CleanupReq
  <2>2. req' \in [Workers -> Requests]
    BY <1>24, <2>1, ReqUpdate, IdleIsRequest DEF DeleteUserCommit, CleanupOrReply, Reply, TypeOK
  <2>3. duck' \in [Ducks -> DuckRow]
    BY <1>24, GoneIsRow DEF DeleteUserCommit, DeleteUser, TypeOK, TablesTypeOK
  <2> QED
    BY <1>24, <2>2, <2>3
    DEF DeleteUserCommit, DeleteUser, TypeOK, TablesTypeOK, StoreTypeOK, store
<1>25. ASSUME NEW w \in Workers, Abandon(w)
       PROVE  TypeOK'
  BY <1>25, ReqUpdate, IdleIsRequest
  DEF Abandon, Reply, TypeOK, TablesTypeOK, StoreTypeOK, tables, store
<1>26. 1..(nextComment - 1) \subseteq Nat /\ 1..(nextSighting - 1) \subseteq Nat
  BY DEF TypeOK, TablesTypeOK
<1> QED
  BY <1>0, <1>1, <1>2, <1>3, <1>4, <1>5, <1>6, <1>7, <1>8, <1>9, <1>10, <1>11, <1>12,
     <1>13, <1>14, <1>15, <1>16, <1>17, <1>18, <1>19, <1>20, <1>21, <1>22, <1>23,
     <1>24, <1>25, <1>26
  DEF Next, Arrive, Step

\* Every table column, the store and every request hold values of their types,
\* whatever requests are interleaved, abandoned or cleaned up after.
THEOREM TypeCorrect == Spec => []TypeOK
<1>1. Init => TypeOK
  BY DEF Init, TablesInit, StoreInit, TypeOK, TablesTypeOK, StoreTypeOK, MintedRow, DuckRow,
         Lifecycles, NoKey, Requests, DuckRequests
<1> QED BY <1>1, TypeStep, PTL DEF Spec

-----------------------------------------------------------------------------
\* Photos and rows.  The inductive invariant is PhotoInv: a photo key has one
\* holder at a time, first the request that drew it, then a row, then the
\* cleanup of a request that deleted the row.

\* A step that stores nothing, writes no photo column and collects no key.
LEMMA QuietStep ==
  ASSUME TypeOK, TypeOK', PhotoInv, NEW w \in Workers,
         \A v \in Workers \ {w} : req'[v] = req[v],
         \A d \in Ducks : duck'[d].photo = duck[d].photo,
         sightings' \subseteq sightings,
         UNCHANGED store,
         Carried(w)' \subseteq Carried(w),
         Collected(w)' = {},
         req'[w].pc \in {"stage", "log", "logCommit"} => req'[w].key \in objects \cup {NoKey}
  PROVE  PhotoInv'
<1>1. \A v \in Workers \ {w} : Carried(v)' = Carried(v) /\ Collected(v)' = Collected(v)
  BY DEF Carried, Collected
<1>2. NoDanglingPhoto'
  BY DEF PhotoInv, NoDanglingPhoto, RowKeys, Keys, store
<1>3. PhotoBelongsToOneRow'
  BY DEF PhotoInv, PhotoBelongsToOneRow
<1>4. KeysDrawn'
  BY <1>1 DEF PhotoInv, KeysDrawn, store
<1>5. CarriedKeysPrivate'
  BY <1>1 DEF PhotoInv, CarriedKeysPrivate
<1>6. CarriedKeysStored'
  BY DEF PhotoInv, CarriedKeysStored, store
<1>7. CollectedRowsDoomed'
  BY <1>1 DEF PhotoInv, CollectedRowsDoomed, At
<1> QED BY <1>2, <1>3, <1>4, <1>5, <1>6, <1>7 DEF PhotoInv

\* A request that starts with a fresh key (new_key in originate, log_sighting).
LEMMA DrawStep ==
  ASSUME TypeOK, TypeOK', PhotoInv, NEW w \in Workers,
         \A v \in Workers \ {w} : req'[v] = req[v],
         UNCHANGED <<tables, objects>>,
         nextKey' = nextKey + 1,
         req'[w].pc \in {"putOrigin", "putSighting"},
         req'[w].key = nextKey
  PROVE  PhotoInv'
<1>1. \A v \in Workers \ {w} : Carried(v)' = Carried(v) /\ Collected(v)' = Collected(v)
  BY DEF Carried, Collected
<1>2. Carried(w)' = {nextKey} /\ Collected(w)' = {}
  BY DEF Carried, Collected, TypeOK, StoreTypeOK, NoKey
<1>a. /\ nextKey \in Nat /\ \A k \in Nat : k < nextKey => k < nextKey + 1 /\ k # nextKey
      /\ \A d \in Ducks : duck[d].photo \in Nat
      /\ \A s \in sightings : s.photo \in Nat
  BY DEF TypeOK, StoreTypeOK, TablesTypeOK, DuckRow, SightingRow
<1>b. \A v \in Workers : Carried(v) \cup Collected(v) \subseteq Nat
  BY RequestShape DEF TypeOK, Carried, Collected, OriginateReq, LogReq, DeleteFlockReq, DeleteUserReq, CleanupReq
<1>3. NoDanglingPhoto'
  BY DEF PhotoInv, NoDanglingPhoto, RowKeys, Keys, tables
<1>4. PhotoBelongsToOneRow'
  BY DEF PhotoInv, PhotoBelongsToOneRow, tables
<1>5. KeysDrawn'
  BY <1>1, <1>2, <1>a, <1>b DEF PhotoInv, KeysDrawn, tables
<1>6. CarriedKeysPrivate'
  BY <1>1, <1>2, <1>a, <1>b DEF PhotoInv, CarriedKeysPrivate, KeysDrawn, tables
<1>7. CarriedKeysStored'
  BY DEF PhotoInv, CarriedKeysStored
<1>8. CollectedRowsDoomed'
  BY <1>1, <1>2 DEF PhotoInv, CollectedRowsDoomed, At, tables
<1> QED BY <1>3, <1>4, <1>5, <1>6, <1>7, <1>8 DEF PhotoInv

\* What other requests carry and collect is theirs alone.
LEMMA OthersKeep ==
  ASSUME TypeOK, NEW w \in Workers, NEW r, req' = [req EXCEPT ![w] = r]
  PROVE  /\ \A v \in Workers \ {w} : req'[v] = req[v]
         /\ \A v \in Workers \ {w} : Carried(v)' = Carried(v) /\ Collected(v)' = Collected(v)
         /\ req'[w] = r
  BY DEF TypeOK, Carried, Collected

\* A request without a photo carries no key.
LEMMA CarriedIsKey == \A v \in Workers : NoKey \notin Carried(v)
  BY DEF Carried

\* PhotoStore::put stores the object under the key the request carries.
LEMMA PutStep ==
  ASSUME TypeOK, TypeOK', PhotoInv, NEW w \in Workers, PutOriginPhoto(w) \/ PutSightingPhoto(w)
  PROVE  PhotoInv'
<1>1. /\ \A v \in Workers \ {w} : req'[v] = req[v]
      /\ \A v \in Workers : Carried(v)' = Carried(v) /\ Collected(v)' = Collected(v)
      /\ req'[w].key = req[w].key /\ req'[w].pc \in {"stage", "log"}
      /\ At(w, "putOrigin") \/ At(w, "putSighting")
  <2>1. req[w] \in OriginateReq \/ req[w] \in LogReq
    BY RequestShape DEF TypeOK, PutOriginPhoto, PutSightingPhoto, At
  <2> QED
    BY <2>1 DEF PutOriginPhoto, PutSightingPhoto, At, Goto, TypeOK, Carried, Collected, OriginateReq, LogReq
<1>2. objects' = objects \cup {req[w].key} /\ UNCHANGED <<tables, nextKey>>
  BY DEF PutOriginPhoto, PutSightingPhoto, Put
<1>3. NoDanglingPhoto' /\ PhotoBelongsToOneRow'
  BY <1>2 DEF PhotoInv, NoDanglingPhoto, PhotoBelongsToOneRow, RowKeys, Keys, tables
<1>4. KeysDrawn' /\ CarriedKeysPrivate'
  BY <1>1, <1>2 DEF PhotoInv, KeysDrawn, CarriedKeysPrivate, tables
<1>5. CarriedKeysStored'
  BY <1>1, <1>2 DEF PhotoInv, CarriedKeysStored
<1>6. CollectedRowsDoomed'
  <2>1. Collected(w) = {}
    BY <1>1 DEF Collected, At
  <2> QED BY <1>1, <1>2, <2>1 DEF PhotoInv, CollectedRowsDoomed, At, tables
<1> QED BY <1>3, <1>4, <1>5, <1>6 DEF PhotoInv

\* DuckRepo::stage moves the carried key to the duck row, or loses the race and
\* drops it: the object is orphaned, never dangling.
LEMMA StageStep ==
  ASSUME TypeOK, TypeOK', PhotoInv, NEW w \in Workers, OriginateStage(w)
  PROVE  PhotoInv'
<1> DEFINE key == req[w].key
           d == req[w].duck
<1>1. key \in Nat /\ d \in Ducks /\ req[w].pc = "stage"
  BY RequestShape DEF TypeOK, OriginateStage, At, OriginateReq
<1>2. PICK r : req' = [req EXCEPT ![w] = r] /\ r.pc \in {"stageSail", "idle"}
  <2>1. [req[w] EXCEPT !.pc = "stageSail"].pc = "stageSail"
    BY <1>1, AdvanceShape, RequestShape DEF TypeOK, OriginateReq
  <2> QED BY <2>1 DEF OriginateStage, Goto, Reply, Idle
<1>3. /\ \A v \in Workers \ {w} : req'[v] = req[v]
      /\ \A v \in Workers \ {w} : Carried(v)' = Carried(v) /\ Collected(v)' = Collected(v)
      /\ Carried(w)' = {} /\ Collected(w)' = {} /\ Carried(w) = {key} \ {NoKey}
  BY <1>1, <1>2, OthersKeep DEF Carried, Collected
<1>4. UNCHANGED <<sightings, store>>
  BY DEF OriginateStage
<1>5. CASE duck' = duck
  BY <1>2, <1>3, <1>4, <1>5, OthersKeep, QuietStep DEF OriginateStage
<1>6. CASE duck' # duck
  <2>1. duck' = [duck EXCEPT ![d].life = "Staged", ![d].photo = key]
    BY <1>6 DEF OriginateStage, Stage
  <2>2. \A e \in Ducks : duck'[e].photo = IF e = d THEN key ELSE duck[e].photo
    BY <1>1, <2>1 DEF TypeOK, TablesTypeOK, DuckRow
  <2>3. key \in objects \cup {NoKey}
    BY <1>1 DEF PhotoInv, CarriedKeysStored
  <2>4. key # NoKey =>
          /\ \A e \in Ducks : duck[e].photo # key
          /\ \A s \in sightings : s.photo # key
          /\ \A v \in Workers : key \notin Collected(v) /\ (v # w => key \notin Carried(v))
    BY <1>3 DEF PhotoInv, CarriedKeysPrivate
  <2>5. NoDanglingPhoto'
    BY <1>4, <2>2, <2>3 DEF PhotoInv, NoDanglingPhoto, RowKeys, Keys, store
  <2>6. PhotoBelongsToOneRow'
    BY <1>1, <1>4, <2>2, <2>4 DEF PhotoInv, PhotoBelongsToOneRow
  <2>7. KeysDrawn'
    <3>1. key < nextKey
      BY <1>1, <1>3, SMT DEF PhotoInv, KeysDrawn, NoKey, TypeOK, StoreTypeOK
    <3> QED BY <1>3, <1>4, <2>2, <3>1 DEF PhotoInv, KeysDrawn, store
  <2>8. CarriedKeysPrivate'
    BY <1>3, <1>4, <2>2, <2>4, CarriedIsKey DEF PhotoInv, CarriedKeysPrivate
  <2>9. CarriedKeysStored'
    BY <1>2, <1>3, <1>4, OthersKeep DEF PhotoInv, CarriedKeysStored, store
  <2>10. CollectedRowsDoomed'
    BY <1>3, <1>4, <2>2, <2>4 DEF PhotoInv, CollectedRowsDoomed, At
  <2> QED BY <2>5, <2>6, <2>7, <2>8, <2>9, <2>10 DEF PhotoInv
<1> QED BY <1>5, <1>6

\* The commit of SightingRepo::log moves the carried key to the sighting row.
LEMMA LogCommitStep ==
  ASSUME TypeOK, TypeOK', PhotoInv, NEW w \in Workers, LogCommit(w)
  PROVE  PhotoInv'
<1> DEFINE key == req[w].key
           new == [id |-> req[w].id, duck |-> req[w].duck, user |-> req[w].user, photo |-> key]
<1>1. key \in Nat /\ req[w].pc = "logCommit"
  BY RequestShape DEF TypeOK, LogCommit, At, LogReq
<1>2. /\ \A v \in Workers \ {w} : req'[v] = req[v]
      /\ \A v \in Workers \ {w} : Carried(v)' = Carried(v) /\ Collected(v)' = Collected(v)
      /\ Carried(w)' = {} /\ Collected(w)' = {} /\ Carried(w) = {key} \ {NoKey}
      /\ req'[w].pc = "idle"
  <2>1. req' = [req EXCEPT ![w] = Idle]
    BY DEF LogCommit, Reply
  <2>2. req'[w] = Idle
    BY <2>1 DEF TypeOK
  <2>3. Carried(w)' = {} /\ Collected(w)' = {} /\ req'[w].pc = "idle"
    BY <2>2 DEF Carried, Collected, Idle
  <2>4. Carried(w) = {key} \ {NoKey}
    BY <1>1 DEF Carried
  <2> QED BY <2>1, <2>3, <2>4, OthersKeep
<1>3. sightings' = sightings \cup {new} /\ new.photo = key /\ UNCHANGED <<duck, store>>
  BY DEF LogCommit, LogSighting
<1>4. key \in objects \cup {NoKey}
  BY <1>1 DEF PhotoInv, CarriedKeysStored
<1>5. key # NoKey =>
        /\ \A e \in Ducks : duck[e].photo # key
        /\ \A s \in sightings : s.photo # key
        /\ \A v \in Workers : key \notin Collected(v) /\ (v # w => key \notin Carried(v))
  BY <1>2 DEF PhotoInv, CarriedKeysPrivate
<1> HIDE DEF new
<1>6. NoDanglingPhoto'
  BY <1>3, <1>4 DEF PhotoInv, NoDanglingPhoto, RowKeys, Keys, store
<1>7. PhotoBelongsToOneRow'
  BY <1>3, <1>5 DEF PhotoInv, PhotoBelongsToOneRow
<1>8. KeysDrawn'
  <2>1. key < nextKey
    BY <1>1, <1>2, SMT DEF PhotoInv, KeysDrawn, NoKey, TypeOK, StoreTypeOK
  <2> QED BY <1>2, <1>3, <2>1 DEF PhotoInv, KeysDrawn, store
<1>9. CarriedKeysPrivate'
  BY <1>2, <1>3, <1>5, CarriedIsKey DEF PhotoInv, CarriedKeysPrivate
<1>10. CarriedKeysStored'
  BY <1>2, <1>3 DEF PhotoInv, CarriedKeysStored, store
<1>11. CollectedRowsDoomed'
  BY <1>2, <1>3, <1>5 DEF PhotoInv, CollectedRowsDoomed, At
<1> QED BY <1>6, <1>7, <1>8, <1>9, <1>10, <1>11 DEF PhotoInv

\* Rows go and their keys are handed to w's cleanup (or dropped).
LEMMA CollectStep ==
  ASSUME TypeOK, TypeOK', PhotoInv, NEW w \in Workers,
         \A v \in Workers \ {w} : req'[v] = req[v],
         \A d \in Ducks : duck'[d].photo \in {duck[d].photo, NoKey},
         sightings' \subseteq sightings,
         UNCHANGED store,
         Carried(w)' = {},
         ~(req'[w].pc \in {"stage", "log", "logCommit"}),
         NEW K, Collected(w)' \subseteq K,
         \A k \in K : /\ k # NoKey /\ k < nextKey
                      /\ \A v \in Workers : v # w => k \notin Carried(v),
         \A k \in Collected(w)' :
           /\ \A d \in Ducks : duck'[d].photo = k =>
                \/ At(w, "deleteFlock")' /\ FlockOf[d] = req'[w].flock
                \/ At(w, "deleteUser")' /\ Owner(d) = req'[w].target
           /\ \A s \in sightings' : s.photo = k =>
                \/ At(w, "deleteFlock")' /\ FlockOf[s.duck] = req'[w].flock
                \/ At(w, "deleteUser")' /\ (s.user = req'[w].target \/ Owner(s.duck) = req'[w].target)
  PROVE  PhotoInv'
<1>1. \A v \in Workers \ {w} : Carried(v)' = Carried(v) /\ Collected(v)' = Collected(v)
  BY DEF Carried, Collected
<1>2. NoDanglingPhoto'
  BY DEF PhotoInv, NoDanglingPhoto, RowKeys, Keys, store
<1>3. PhotoBelongsToOneRow'
  BY DEF PhotoInv, PhotoBelongsToOneRow
<1>4. KeysDrawn'
  BY <1>1, 0 < nextKey DEF PhotoInv, KeysDrawn, store, NoKey, TypeOK, StoreTypeOK
<1>5. CarriedKeysPrivate'
  BY <1>1, CarriedIsKey DEF PhotoInv, CarriedKeysPrivate
<1>6. CarriedKeysStored'
  BY DEF PhotoInv, CarriedKeysStored, store
<1>7. CollectedRowsDoomed'
  BY <1>1 DEF PhotoInv, CollectedRowsDoomed, At, Owner
<1> QED BY <1>2, <1>3, <1>4, <1>5, <1>6, <1>7 DEF PhotoInv

\* A key on a row is no running request's.
LEMMA RowKeysPrivate ==
  ASSUME TypeOK, PhotoInv, NEW S, S \subseteq sightings, NEW D, D \subseteq Ducks,
         NEW k \in Keys(S, D)
  PROVE  /\ k # NoKey /\ k < nextKey
         /\ \A v \in Workers : k \notin Carried(v)
  BY DEF Keys, PhotoInv, KeysDrawn, CarriedKeysPrivate

\* SightingRepo::delete takes the key off its row before the handler removes
\* the object.
LEMMA SightingDeleteStep ==
  ASSUME TypeOK, TypeOK', PhotoInv, NEW w \in Workers, SightingDelete(w)
  PROVE  PhotoInv'
<1> DEFINE S == SightingsToDelete(req[w].id, req[w].duck)
           K == Keys(S, {})
<1>1. S \subseteq sightings /\ sightings' = sightings \ S /\ UNCHANGED <<duck, store>>
  BY DEF SightingDelete, DeleteSighting, SightingsToDelete
<1>2. PICK r : req' = [req EXCEPT ![w] = r] /\ (r = Idle \/ r = [pc |-> "cleanup", keys |-> K])
  BY DEF SightingDelete, Reply
<1>3. Carried(w)' = {} /\ Collected(w)' \subseteq K /\ req'[w].pc \in {"idle", "cleanup"}
  <2>1. req'[w] = r
    BY <1>2, OthersKeep
  <2> QED BY <1>2, <2>1 DEF Carried, Collected, Idle
<1>4. \A k \in K : /\ k # NoKey /\ k < nextKey
                   /\ \A v \in Workers : v # w => k \notin Carried(v)
  BY <1>1, RowKeysPrivate
<1>5. \A k \in K : /\ \A d \in Ducks : duck'[d].photo # k
                   /\ \A s \in sightings' : s.photo # k
  BY <1>1 DEF Keys, PhotoInv, PhotoBelongsToOneRow
<1> HIDE DEF S, K
<1> QED BY <1>1, <1>2, <1>3, <1>4, <1>5, OthersKeep, CollectStep

\* The key list a hard delete reads names only rows its deletes will remove.
LEMMA SelectStep ==
  ASSUME TypeOK, TypeOK', PhotoInv, NEW w \in Workers,
         \/ \E f \in Flocks : DeleteFlockSelect(w, f)
         \/ \E u, target \in Users : DeleteUserSelect(w, u, target)
  PROVE  PhotoInv'
<1>1. CASE \E f \in Flocks : DeleteFlockSelect(w, f)
  <2>1. PICK f \in Flocks : DeleteFlockSelect(w, f)
    BY <1>1
  <2> DEFINE K == Keys(FlockSightings(f), DucksOfFlock(f))
             r == [pc |-> "deleteFlock", flock |-> f, keys |-> K]
  <2>2. req' = [req EXCEPT ![w] = r] /\ UNCHANGED <<tables, store>>
    BY <2>1 DEF DeleteFlockSelect, Start
  <2>3. Carried(w)' = {} /\ Collected(w)' = K /\ req'[w] = r
    <3>1. req'[w] = r
      BY <2>2, OthersKeep
    <3> QED BY <3>1 DEF Carried, Collected
  <2>4. \A k \in K : /\ k # NoKey /\ k < nextKey
                     /\ \A v \in Workers : v # w => k \notin Carried(v)
    BY RowKeysPrivate DEF FlockSightings, DucksOfFlock
  <2>5. \A k \in K : /\ \A d \in Ducks : duck[d].photo = k => FlockOf[d] = f
                     /\ \A s \in sightings : s.photo = k => FlockOf[s.duck] = f
    BY DEF Keys, FlockSightings, DucksOfFlock, PhotoInv, PhotoBelongsToOneRow
  <2> HIDE DEF K
  <2> QED BY <2>2, <2>3, <2>4, <2>5, OthersKeep, CollectStep DEF At, tables
<1>2. CASE \E u, target \in Users : DeleteUserSelect(w, u, target)
  <2>1. PICK u \in Users, t \in Users : DeleteUserSelect(w, u, t)
    BY <1>2
  <2> DEFINE K == Keys(UserSightings(t), DucksOfUser(t))
             r == [pc |-> "deleteUser", target |-> t, keys |-> K]
  <2>2. req' = [req EXCEPT ![w] = r] /\ UNCHANGED <<tables, store>>
    BY <2>1 DEF DeleteUserSelect, Start
  <2>3. Carried(w)' = {} /\ Collected(w)' = K /\ req'[w] = r
    <3>1. req'[w] = r
      BY <2>2, OthersKeep
    <3> QED BY <3>1 DEF Carried, Collected
  <2>4. \A k \in K : /\ k # NoKey /\ k < nextKey
                     /\ \A v \in Workers : v # w => k \notin Carried(v)
    BY RowKeysPrivate DEF UserSightings, DucksOfUser
  <2>5. \A k \in K : /\ \A d \in Ducks : duck[d].photo = k => Owner(d) = t
                     /\ \A s \in sightings : s.photo = k => s.user = t \/ Owner(s.duck) = t
    BY DEF Keys, UserSightings, DucksOfUser, PhotoInv, PhotoBelongsToOneRow
  <2> HIDE DEF K
  <2> QED BY <2>2, <2>3, <2>4, <2>5, OthersKeep, CollectStep DEF At, tables
<1> QED BY <1>1, <1>2

\* After the commit of a hard delete no row has a listed key any more.
LEMMA DeleteCommitStep ==
  ASSUME TypeOK, TypeOK', PhotoInv, NEW w \in Workers,
         DeleteFlockCommit(w) \/ DeleteUserCommit(w)
  PROVE  PhotoInv'
<1> DEFINE K == req[w].keys
<1>1. PICK r : req' = [req EXCEPT ![w] = r] /\ (r = Idle \/ r = [pc |-> "cleanup", keys |-> K])
  BY DEF DeleteFlockCommit, DeleteUserCommit, CleanupOrReply, Reply
<1>2. Carried(w)' = {} /\ Collected(w)' \subseteq K /\ req'[w].pc \in {"idle", "cleanup"}
  <2>1. req'[w] = r
    BY <1>1, OthersKeep
  <2> QED BY <1>1, <2>1 DEF Carried, Collected, Idle
<1>3. Collected(w) = K
  BY DEF DeleteFlockCommit, DeleteUserCommit, At, Collected
<1>4. \A k \in K : /\ k # NoKey /\ k < nextKey
                   /\ \A v \in Workers : v # w => k \notin Carried(v)
  BY <1>3 DEF PhotoInv, KeysDrawn, CarriedKeysPrivate, CollectedRowsDoomed
<1>5. /\ UNCHANGED store
      /\ sightings' \subseteq sightings
      /\ \A d \in Ducks : duck'[d].photo \in {duck[d].photo, NoKey}
  BY DEF DeleteFlockCommit, DeleteUserCommit, DeleteFlock, DeleteUser, GoneRow
<1>6. \A k \in Collected(w)' : /\ \A d \in Ducks : duck'[d].photo # k
                               /\ \A s \in sightings' : s.photo # k
  <2>1. CASE DeleteFlockCommit(w)
    BY <1>2, <1>3, <1>4, <2>1
    DEF DeleteFlockCommit, DeleteFlock, FlockSightings, GoneRow, At, PhotoInv, CollectedRowsDoomed
  <2>2. CASE DeleteUserCommit(w) /\ req[w].target \in userRows \ Admins
    BY <1>2, <1>3, <1>4, <2>2
    DEF DeleteUserCommit, DeleteUser, UserSightings, GoneRow, At, PhotoInv, CollectedRowsDoomed
  <2>3. CASE DeleteUserCommit(w) /\ req[w].target \notin userRows \ Admins
    <3>1. req'[w] = Idle
      BY <2>3 DEF DeleteUserCommit, Reply, TypeOK
    <3>2. Collected(w)' = {}
      BY <3>1 DEF Collected, Idle
    <3> QED BY <3>2
  <2> QED BY <2>1, <2>2, <2>3
<1> HIDE DEF K
<1> QED BY <1>1, <1>2, <1>4, <1>5, <1>6, OthersKeep, CollectStep

\* cleanup_photos removes objects no row refers to.
LEMMA CleanupStep ==
  ASSUME TypeOK, TypeOK', PhotoInv, NEW w \in Workers, NEW key, CleanupPhoto(w, key)
  PROVE  PhotoInv'
<1>1. /\ Collected(w) = req[w].keys /\ key \in Collected(w) /\ At(w, "cleanup")
      /\ objects \ {key} \subseteq objects' /\ UNCHANGED <<tables, nextKey>>
  BY DEF CleanupPhoto, At, Collected, Remove
<1>2. /\ \A v \in Workers \ {w} : req'[v] = req[v]
      /\ \A v \in Workers : Carried(v)' = Carried(v) /\ Collected(v)' \subseteq Collected(v)
      /\ req'[w].pc \in {"idle", "cleanup"}
  <2>1. PICK r : /\ req' = [req EXCEPT ![w] = r]
                 /\ r = Idle \/ r = [req[w] EXCEPT !.keys = req[w].keys \ {key}]
    BY DEF CleanupPhoto, Reply
  <2>2. req'[w] = r
    BY <2>1, OthersKeep
  <2>3. req[w] \in CleanupReq
    BY <1>1, RequestShape DEF TypeOK, At
  <2>4. /\ Carried(w) = {} /\ Carried(w)' = {} /\ Collected(w)' \subseteq req[w].keys
        /\ req'[w].pc \in {"idle", "cleanup"}
    BY <2>1, <2>2, <2>3 DEF Carried, Collected, Idle, CleanupReq
  <2>5. /\ \A v \in Workers \ {w} : req'[v] = req[v]
        /\ \A v \in Workers \ {w} : Carried(v)' = Carried(v) /\ Collected(v)' = Collected(v)
    <3>1. req' = [req EXCEPT ![w] = r]
      BY <2>1
    <3> QED BY <3>1, OthersKeep
  <2> QED BY <1>1, <2>4, <2>5
<1>3. /\ \A d \in Ducks : duck[d].photo # key
      /\ \A s \in sightings : s.photo # key
      /\ \A v \in Workers : key \notin Carried(v)
  BY <1>1 DEF PhotoInv, CollectedRowsDoomed, CarriedKeysPrivate, At
<1>4. NoDanglingPhoto'
  BY <1>1, <1>3 DEF PhotoInv, NoDanglingPhoto, RowKeys, Keys, tables
<1>5. PhotoBelongsToOneRow' /\ KeysDrawn' /\ CarriedKeysPrivate'
  BY <1>1, <1>2 DEF PhotoInv, PhotoBelongsToOneRow, KeysDrawn, CarriedKeysPrivate, tables
<1>6. CarriedKeysStored'
  BY <1>1, <1>2, <1>3 DEF PhotoInv, CarriedKeysStored, Carried
<1>7. CollectedRowsDoomed'
  BY <1>1, <1>2 DEF PhotoInv, CollectedRowsDoomed, At, tables
<1> QED BY <1>4, <1>5, <1>6, <1>7 DEF PhotoInv

\* Every step of the system keeps PhotoInv.
LEMMA PhotoStep ==
  ASSUME TypeOK, PhotoInv, [Next]_vars
  PROVE  PhotoInv'
<1>0. TypeOK'
  BY TypeStep
<1>1. ASSUME UNCHANGED vars
      PROVE  PhotoInv'
  <2>1. \A w \in Workers : Carried(w)' = Carried(w) /\ Collected(w)' = Collected(w)
    BY <1>1 DEF vars, Carried, Collected
  <2>2. NoDanglingPhoto' /\ PhotoBelongsToOneRow'
    BY <1>1 DEF PhotoInv, vars, tables, store, NoDanglingPhoto, PhotoBelongsToOneRow, RowKeys, Keys
  <2> QED
    BY <1>1, <2>1, <2>2
    DEF PhotoInv, vars, tables, store, KeysDrawn, CarriedKeysPrivate, CarriedKeysStored,
        CollectedRowsDoomed, At
<1>2. ASSUME NEW w \in Workers,
             \/ \E d \in Ducks, sail \in BOOLEAN : Originate(w, d, sail)
             \/ \E u \in Users, d \in Ducks : LogWithPhoto(w, u, d)
      PROVE  PhotoInv'
  <2>a. ASSUME NEW d \in Ducks, NEW sail \in BOOLEAN, Originate(w, d, sail)
        PROVE  \E r : /\ req' = [req EXCEPT ![w] = r]
                      /\ r.pc \in {"putOrigin", "putSighting"} /\ r.key = nextKey
    <3> WITNESS [pc |-> "putOrigin", duck |-> d, key |-> nextKey, sail |-> sail]
    <3> QED BY <2>a DEF Originate, Start
  <2>b. ASSUME NEW u \in Users, NEW d \in Ducks, LogWithPhoto(w, u, d)
        PROVE  \E r : /\ req' = [req EXCEPT ![w] = r]
                      /\ r.pc \in {"putOrigin", "putSighting"} /\ r.key = nextKey
    <3> WITNESS [pc |-> "putSighting", duck |-> d, user |-> u, key |-> nextKey,
                 id |-> 0, notify |-> {}, joins |-> FALSE]
    <3> QED BY <2>b DEF LogWithPhoto, Start
  <2>1. PICK r : /\ req' = [req EXCEPT ![w] = r]
                 /\ r.pc \in {"putOrigin", "putSighting"} /\ r.key = nextKey
    BY <1>2, <2>a, <2>b
  <2>2. UNCHANGED <<tables, objects>> /\ nextKey' = nextKey + 1
    BY <1>2 DEF Originate, LogWithPhoto, NewKey
  <2> QED BY <1>0, <2>1, <2>2, OthersKeep, DrawStep
<1>3. ASSUME NEW w \in Workers, NEW r, req' = [req EXCEPT ![w] = r],
             UNCHANGED <<tables, store>>,
             r.pc \in {"idle", "setSail", "addComment", "follow", "unfollow", "setDeleted",
                      "setLocked", "deleteComment", "deleteSighting"} \/ (r.pc = "log" /\ r.key = NoKey)
      PROVE  PhotoInv'
  <2>1. req'[w] = r /\ \A v \in Workers \ {w} : req'[v] = req[v]
    BY <1>3, OthersKeep
  <2>2. Carried(w)' = {} /\ Collected(w)' = {}
    BY <1>3, <2>1 DEF Carried, Collected
  <2>3. req'[w].pc \in {"stage", "log", "logCommit"} => req'[w].key \in objects \cup {NoKey}
    BY <1>3, <2>1
  <2> QED BY <1>0, <1>3, <2>1, <2>2, <2>3, QuietStep DEF tables
<1>4. ASSUME NEW w \in Workers, Arrive(w)
      PROVE  PhotoInv'
  <2>1. ASSUME NEW d \in Ducks, SetSailing(w, d)
        PROVE  PhotoInv'
    BY <1>3, <2>1 DEF SetSailing, Start
  <2>2. ASSUME NEW u \in Users, NEW d \in Ducks,
               \/ LogWithoutPhoto(w, u, d) \/ Comment(w, u, d)
               \/ FollowRequest(w, u, d) \/ UnfollowRequest(w, u, d)
        PROVE  PhotoInv'
    BY <1>3, <2>2 DEF LogWithoutPhoto, Comment, FollowRequest, UnfollowRequest, Start
  <2>3. ASSUME NEW u \in Users, NEW d \in Ducks, NEW flag \in BOOLEAN,
               DeleteOrRestore(w, u, d, flag) \/ LockOrUnlock(w, u, d, flag)
        PROVE  PhotoInv'
    BY <1>3, <2>3 DEF DeleteOrRestore, LockOrUnlock, Start
  <2>4. ASSUME NEW u \in Users, NEW d \in Ducks, NEW id,
               RemoveCommentRequest(w, u, d, id) \/ RemoveSightingRequest(w, u, d, id)
        PROVE  PhotoInv'
    BY <1>3, <2>4 DEF RemoveCommentRequest, RemoveSightingRequest, Start
  <2>5. ASSUME \/ \E f \in Flocks : DeleteFlockSelect(w, f)
               \/ \E u, target \in Users : DeleteUserSelect(w, u, target)
        PROVE  PhotoInv'
    BY <1>0, <2>5, SelectStep
  <2> QED BY <1>2, <1>4, <2>1, <2>2, <2>3, <2>4, <2>5 DEF Arrive
<1>5. ASSUME NEW w \in Workers, Step(w)
      PROVE  PhotoInv'
  <2>1. ASSUME \/ OriginateSail(w) \/ SetSailUpdate(w) \/ CommentInsert(w) \/ FollowInsert(w)
               \/ UnfollowDelete(w) \/ DeletedUpdate(w) \/ LockedUpdate(w) \/ CommentDelete(w)
        PROVE  PhotoInv'
    <3>1. req' = [req EXCEPT ![w] = Idle] /\ UNCHANGED <<sightings, store>>
      BY <2>1
      DEF OriginateSail, SetSailUpdate, SailStep, CommentInsert, FollowInsert, UnfollowDelete,
          DeletedUpdate, LockedUpdate, CommentDelete, Reply
    <3>2. \A d \in Ducks : duck'[d].photo = duck[d].photo
      BY <2>1
      DEF OriginateSail, SetSailUpdate, SailStep, CommentInsert, FollowInsert, UnfollowDelete,
          DeletedUpdate, LockedUpdate, CommentDelete, SetSail, SetDeleted, SetCommentsLocked,
          TypeOK, TablesTypeOK, DuckRow
    <3>3. req'[w] = Idle /\ \A v \in Workers \ {w} : req'[v] = req[v]
      BY <3>1, OthersKeep
    <3>4. Carried(w)' = {} /\ Collected(w)' = {} /\ req'[w].pc = "idle"
      BY <3>3 DEF Carried, Collected, Idle
    <3> QED BY <1>0, <3>1, <3>2, <3>3, <3>4, QuietStep
  <2>2. ASSUME LogInsert(w)
        PROVE  PhotoInv'
    <3>1. req[w] \in LogReq /\ req[w].pc = "log"
      BY <2>2, RequestShape DEF TypeOK, LogInsert, At
    <3>2. PICK r : /\ req' = [req EXCEPT ![w] = r]
                   /\ r = Idle \/ (r.pc = "logCommit" /\ r.key = req[w].key)
      BY <2>2, <3>1 DEF LogInsert, Reply, LogReq
    <3>3. req'[w] = r /\ \A v \in Workers \ {w} : req'[v] = req[v]
      BY <3>2, OthersKeep
    <3>4. /\ Carried(w)' \subseteq Carried(w) /\ Collected(w)' = {}
          /\ req'[w].pc \in {"stage", "log", "logCommit"} => req'[w].key \in objects \cup {NoKey}
      BY <3>1, <3>2, <3>3 DEF Carried, Collected, Idle, PhotoInv, CarriedKeysStored
    <3>5. UNCHANGED <<duck, sightings, store>>
      BY <2>2 DEF LogInsert
    <3> QED BY <1>0, <3>3, <3>4, <3>5, QuietStep
  <2>3. ASSUME NEW key, CleanupPhoto(w, key)
        PROVE  PhotoInv'
    BY <1>0, <2>3, CleanupStep
  <2> QED
    BY <1>0, <1>5, <2>1, <2>2, <2>3, PutStep, StageStep, LogCommitStep, SightingDeleteStep,
       DeleteCommitStep
    DEF Step
<1>6. ASSUME NEW w \in Workers, Abandon(w)
      PROVE  PhotoInv'
  BY <1>3, <1>6 DEF Abandon, Reply, Idle
<1>7. ASSUME NEW u \in Users, MarkNotificationsRead(u)
      PROVE  PhotoInv'
  <2>1. UNCHANGED <<duck, sightings, store, req>>
    BY <1>7 DEF MarkNotificationsRead
  <2>2. \A w \in Workers : Carried(w)' = Carried(w) /\ Collected(w)' = Collected(w)
    BY <2>1 DEF Carried, Collected
  <2>3. NoDanglingPhoto' /\ PhotoBelongsToOneRow'
    BY <2>1 DEF PhotoInv, store, NoDanglingPhoto, PhotoBelongsToOneRow, RowKeys, Keys
  <2> QED
    BY <2>1, <2>2, <2>3
    DEF PhotoInv, store, KeysDrawn, CarriedKeysPrivate, CarriedKeysStored, CollectedRowsDoomed, At
<1> QED BY <1>1, <1>4, <1>5, <1>6, <1>7 DEF Next

\* PhotoInv, the inductive invariant, holds in every reachable state.
THEOREM PhotoInvariant == Spec => []PhotoInv
<1>1. Init => PhotoInv
  <2> SUFFICES ASSUME Init PROVE PhotoInv
    OBVIOUS
  <2>1. /\ \A d \in Ducks : duck[d].photo = NoKey
        /\ sightings = {} /\ nextKey = 1 /\ \A w \in Workers : req[w].pc = "idle"
    BY DEF Init, TablesInit, StoreInit, MintedRow, Idle
  <2>2. \A w \in Workers : Carried(w) = {} /\ Collected(w) = {}
    BY <2>1 DEF Carried, Collected
  <2> QED
    BY <2>1, <2>2
    DEF PhotoInv, NoDanglingPhoto, PhotoBelongsToOneRow, RowKeys, Keys, KeysDrawn,
        CarriedKeysPrivate, CarriedKeysStored, CollectedRowsDoomed, NoKey
<1>2. TypeOK /\ PhotoInv /\ [Next]_vars => PhotoInv'
  BY PhotoStep
<1> QED BY <1>1, <1>2, TypeCorrect, PTL DEF Spec

\* serve_photo never meets a row whose object is missing, and cleaning up after
\* one row never takes the photo of another.
THEOREM PhotosNeverDangle == Spec => [](NoDanglingPhoto /\ PhotoBelongsToOneRow)
<1>1. PhotoInv => NoDanglingPhoto /\ PhotoBelongsToOneRow
  BY DEF PhotoInv
<1> QED BY <1>1, PhotoInvariant, PTL

-----------------------------------------------------------------------------
\* The rows of the database.  The inductive invariant is RowInv: a duck's
\* lifecycle only moves forward, so what a handler checked before an await still
\* holds after it or the row is gone, and then the foreign keys refuse the
\* write; the row locks of an open log transaction do the same up to its commit.

\* The guarded updates of DuckRepo move a duck forward only, and a duck without
\* details has no photo.
LEMMA LifeStep ==
  ASSUME TypeOK, DuckRowShape, [Next]_vars
  PROVE  LifecycleForward /\ DuckRowShape'
<1>0. ASSUME duck' = duck
      PROVE  LifecycleForward /\ DuckRowShape'
  BY <1>0 DEF LifecycleForward, DuckRowShape
<1>1. ASSUME NEW w \in Workers, OriginateStage(w)
      PROVE  LifecycleForward /\ DuckRowShape'
  <2>1. req[w].duck \in Ducks
    BY <1>1, RequestShape DEF TypeOK, OriginateStage, At, OriginateReq
  <2> QED
    BY <1>1, <2>1
    DEF OriginateStage, Stage, LifecycleForward, DuckRowShape, TypeOK, TablesTypeOK, DuckRow
<1>2. ASSUME NEW w \in Workers, OriginateSail(w) \/ SetSailUpdate(w)
      PROVE  LifecycleForward /\ DuckRowShape'
  <2>1. req[w].duck \in Ducks
    BY <1>2, RequestShape
    DEF TypeOK, OriginateSail, SetSailUpdate, SailStep, At, OriginateReq, SailReq
  <2> QED
    BY <1>2, <2>1
    DEF OriginateSail, SetSailUpdate, SailStep, SetSail, LifecycleForward, DuckRowShape,
        TypeOK, TablesTypeOK, DuckRow
<1>3. ASSUME NEW w \in Workers, DeletedUpdate(w) \/ LockedUpdate(w)
      PROVE  LifecycleForward /\ DuckRowShape'
  <2>1. req[w].duck \in Ducks
    BY <1>3, RequestShape DEF TypeOK, DeletedUpdate, LockedUpdate, At, ModerateReq
  <2> QED
    BY <1>3, <2>1
    DEF DeletedUpdate, LockedUpdate, SetDeleted, SetCommentsLocked, Exists, LifecycleForward,
        DuckRowShape, TypeOK, TablesTypeOK, DuckRow
<1>4. ASSUME NEW w \in Workers, DeleteFlockCommit(w) \/ DeleteUserCommit(w)
      PROVE  LifecycleForward /\ DuckRowShape'
  <2>1. \A d \in Ducks : duck'[d] \in {duck[d], GoneRow}
    BY <1>4 DEF DeleteFlockCommit, DeleteUserCommit, DeleteFlock, DeleteUser
  <2>2. GoneRow.life = "Gone"
    BY DEF GoneRow
  <2> QED BY <2>1, <2>2 DEF LifecycleForward, DuckRowShape
<1>5. ASSUME NEW w \in Workers, Arrive(w) \/ Abandon(w)
      PROVE  duck' = duck
  BY <1>5
  DEF Arrive, Abandon, Originate, SetSailing, LogWithPhoto, LogWithoutPhoto, Comment,
      FollowRequest, UnfollowRequest, DeleteOrRestore, LockOrUnlock, RemoveCommentRequest,
      RemoveSightingRequest, DeleteFlockSelect, DeleteUserSelect, tables
<1>6. ASSUME NEW w \in Workers,
             \/ PutOriginPhoto(w) \/ PutSightingPhoto(w) \/ LogInsert(w) \/ LogCommit(w)
             \/ CommentInsert(w) \/ FollowInsert(w) \/ UnfollowDelete(w)
             \/ CommentDelete(w) \/ SightingDelete(w) \/ \E key : CleanupPhoto(w, key)
      PROVE  duck' = duck
  BY <1>6
  DEF PutOriginPhoto, PutSightingPhoto, LogInsert, LogCommit, CommentInsert, FollowInsert,
      UnfollowDelete, CommentDelete, SightingDelete, CleanupPhoto, tables
<1>7. ASSUME (\E u \in Users : MarkNotificationsRead(u)) \/ UNCHANGED vars
      PROVE  duck' = duck
  BY <1>7 DEF MarkNotificationsRead, vars, tables
<1> QED BY <1>0, <1>1, <1>2, <1>3, <1>4, <1>5, <1>6, <1>7 DEF Next, Step

\* A step that writes nothing but the duck's own columns, and deletes nothing.
LEMMA QuietRows ==
  ASSUME TypeOK, TypeOK', RowInv, LifecycleForward, DuckRowShape', NEW w \in Workers,
         \A v \in Workers \ {w} : req'[v] = req[v],
         \A d \in Ducks : duck'[d].life = "Gone" => duck[d].life = "Gone",
         UNCHANGED <<userRows, flockRows, sightings, comments, follows, notifications, nextSighting>>,
         ~At(w, "logCommit")',
         req'[w].pc \in {"putSighting", "log", "addComment", "follow"} =>
           duck'[req'[w].duck].life \in {"Sailing", "Gone"}
  PROVE  RowInv'
<1>a. \A d \in Ducks : Exists(d)' = Exists(d)
  BY DEF Exists, LifecycleForward, GoneRow
<1>b. \A v \in Workers : req[v].pc \in {"putSighting", "log", "logCommit", "addComment", "follow"} =>
        req[v].duck \in Ducks
  BY RequestShape DEF TypeOK, LogReq, InteractReq
<1>1. InteractionsOnSailed'
  BY DEF RowInv, InteractionsOnSailed, LifecycleForward
<1>2. ReferentialIntegrity'
  BY <1>a DEF RowInv, ReferentialIntegrity, ForeignKeysOK, TypeOK, TablesTypeOK, SightingRow, CommentRow
<1>3. FinderNotNotified' /\ SightingIdsDrawn'
  BY DEF RowInv, FinderNotNotified, SightingIdsDrawn
<1>4. ResolvedStaysSailing'
  BY <1>b DEF RowInv, ResolvedStaysSailing, LifecycleForward, At, GoneRow
<1>5. OpenLogsLock'
  BY <1>a, <1>b DEF RowInv, OpenLogsLock, ForeignKeysOK, At
<1> QED BY <1>1, <1>2, <1>3, <1>4, <1>5 DEF RowInv

\* One worker's request changes, the others stay.
LEMMA ReqStep ==
  ASSUME TypeOK, NEW w \in Workers, NEW r, req' = [req EXCEPT ![w] = r]
  PROVE  req'[w] = r /\ \A v \in Workers \ {w} : req'[v] = req[v]
  BY DEF TypeOK

\* After its transaction a deleting request is answered or cleans up.
LEMMA ReplyOrCleanup ==
  ASSUME TypeOK, NEW w \in Workers, NEW K, CleanupOrReply(w, K) \/ Reply(w)
  PROVE  /\ \A v \in Workers \ {w} : req'[v] = req[v]
         /\ req'[w].pc \in {"idle", "cleanup"}
<1> DEFINE c == [pc |-> "cleanup", keys |-> K]
<1>1. req' = [req EXCEPT ![w] = Idle] \/ req' = [req EXCEPT ![w] = c]
  BY DEF CleanupOrReply, Reply
<1>2. c.pc = "cleanup" /\ Idle.pc = "idle"
  BY DEF Idle
<1> HIDE DEF c
<1> QED BY <1>1, <1>2, ReqStep

\* A step of w that leaves its request idle keeps what is said of requests.
LEMMA RequestsKeep ==
  ASSUME TypeOK, RowInv, NEW w \in Workers, UNCHANGED <<duck, userRows>>,
         sightings' \subseteq sightings, nextSighting' = nextSighting,
         req' = [req EXCEPT ![w] = Idle] \/ \E r : req' = [req EXCEPT ![w] = r] /\ r.pc = "cleanup"
  PROVE  ResolvedStaysSailing' /\ OpenLogsLock' /\ SightingIdsDrawn'
<1>1. /\ \A v \in Workers \ {w} : req'[v] = req[v]
      /\ req'[w].pc \in {"idle", "cleanup"}
  BY ReqStep DEF Idle
<1>2. ResolvedStaysSailing'
  BY <1>1 DEF RowInv, ResolvedStaysSailing
<1>3. OpenLogsLock'
  BY <1>1 DEF RowInv, OpenLogsLock, ForeignKeysOK, Exists, At
<1> QED BY <1>2, <1>3 DEF RowInv, SightingIdsDrawn

\* The inserts of log read the followers and lock what they refer to.
LEMMA LogInsertRows ==
  ASSUME TypeOK, TypeOK', RowInv, DuckRowShape', NEW w \in Workers, LogInsert(w)
  PROVE  RowInv'
<1>1. req[w] \in LogReq /\ req[w].pc = "log"
  BY RequestShape DEF TypeOK, LogInsert, At
<1>2. PICK r : /\ req' = [req EXCEPT ![w] = r]
               /\ \/ r.pc = "idle"
                  \/ /\ ForeignKeysOK(req[w].user, req[w].duck)
                     /\ r.pc = "logCommit" /\ r.id = nextSighting
                     /\ r.notify = Followers(req[w].duck, req[w].user)
                     /\ r.user = req[w].user /\ r.duck = req[w].duck
  <2>1. CASE ForeignKeysOK(req[w].user, req[w].duck)
    <3> DEFINE r == [req[w] EXCEPT !.pc = "logCommit", !.id = nextSighting,
                                   !.notify = Followers(req[w].duck, req[w].user),
                                   !.joins = <<req[w].user, req[w].duck>> \notin follows]
    <3>1. req' = [req EXCEPT ![w] = r]
      BY <2>1 DEF LogInsert
    <3>2. /\ r.pc = "logCommit" /\ r.id = nextSighting
          /\ r.notify = Followers(req[w].duck, req[w].user)
          /\ r.user = req[w].user /\ r.duck = req[w].duck
      BY <1>1 DEF LogReq
    <3> HIDE DEF r
    <3> QED BY <2>1, <3>1, <3>2
  <2>2. CASE ~ForeignKeysOK(req[w].user, req[w].duck)
    <3>1. req' = [req EXCEPT ![w] = Idle]
      BY <2>2 DEF LogInsert, Reply
    <3>2. Idle.pc = "idle"
      BY DEF Idle
    <3> QED BY <3>1, <3>2
  <2> QED BY <2>1, <2>2
<1>3. req'[w] = r /\ \A v \in Workers \ {w} : req'[v] = req[v]
  BY <1>2, ReqStep
<1>4. /\ UNCHANGED <<userRows, flockRows, duck, sightings, comments, follows, notifications>>
      /\ nextSighting' = nextSighting + 1 /\ nextSighting \in Nat
  BY DEF LogInsert, TypeOK, TablesTypeOK
<1>5. InteractionsOnSailed' /\ ReferentialIntegrity' /\ FinderNotNotified'
  BY <1>4
  DEF RowInv, InteractionsOnSailed, ReferentialIntegrity, FinderNotNotified, ForeignKeysOK, Exists
<1>6. ResolvedStaysSailing'
  BY <1>1, <1>2, <1>3, <1>4 DEF RowInv, ResolvedStaysSailing
<1>7. SightingIdsDrawn' /\ \A s \in sightings : s.id # nextSighting
  BY <1>4 DEF RowInv, SightingIdsDrawn, TypeOK, TablesTypeOK, SightingRow
<1>8. \A v \in Workers \ {w} : At(v, "logCommit") =>
        req[v].id \in Nat /\ req[v].id < nextSighting /\ req[v].id # nextSighting
  BY <1>4, RequestShape DEF RowInv, OpenLogsLock, TypeOK, LogReq, At
<1>9. r.pc = "logCommit" => r.notify \subseteq userRows \ {req[w].user}
  <2>1. \A u \in Users : <<u, req[w].duck>> \in follows => u \in userRows
    BY DEF RowInv, ReferentialIntegrity, ForeignKeysOK
  <2> QED BY <1>2, <2>1 DEF Followers
<1>10. OpenLogsLock'
  <2> SUFFICES ASSUME NEW v \in Workers, At(v, "logCommit")'
               PROVE  /\ ForeignKeysOK(req[v].user, req[v].duck)'
                      /\ req'[v].notify \subseteq userRows' \ {req'[v].user}
                      /\ req'[v].id < nextSighting'
                      /\ \A s \in sightings' : s.id # req'[v].id
                      /\ \A x \in Workers : At(x, "logCommit")' /\ req'[x].id = req'[v].id => x = v
    BY DEF OpenLogsLock
  <2>1. CASE v = w
    BY <1>2, <1>3, <1>4, <1>7, <1>8, <1>9, <2>1 DEF At, ForeignKeysOK, Exists
  <2>2. CASE v # w
    BY <1>2, <1>3, <1>4, <1>8, <2>2 DEF At, ForeignKeysOK, Exists, RowInv, OpenLogsLock
  <2> QED BY <2>1, <2>2
<1> QED BY <1>5, <1>6, <1>7, <1>10 DEF RowInv

\* The commit of log adds rows whose references the locks have kept alive.
LEMMA LogCommitRows ==
  ASSUME TypeOK, TypeOK', RowInv, DuckRowShape', NEW w \in Workers, LogCommit(w)
  PROVE  RowInv'
<1> DEFINE new == [id |-> req[w].id, duck |-> req[w].duck, user |-> req[w].user, photo |-> req[w].key]
           N == {[user |-> u, duck |-> req[w].duck, sighting |-> req[w].id, read |-> FALSE] :
                   u \in req[w].notify}
<1>1. req[w] \in LogReq /\ req[w].pc = "logCommit"
  BY RequestShape DEF TypeOK, LogCommit, At
<1>2. /\ ForeignKeysOK(req[w].user, req[w].duck)
      /\ req[w].notify \subseteq userRows \ {req[w].user}
      /\ req[w].id < nextSighting
      /\ \A s \in sightings : s.id # req[w].id
      /\ \A v \in Workers : At(v, "logCommit") /\ req[v].id = req[w].id => v = w
  BY <1>1 DEF RowInv, OpenLogsLock, At
<1>3. duck[req[w].duck].life = "Sailing"
  BY <1>1, <1>2 DEF RowInv, ResolvedStaysSailing, ForeignKeysOK, Exists
<1>4. /\ sightings' = sightings \cup {new} /\ notifications' = notifications \cup N
      /\ follows' \subseteq follows \cup {<<req[w].user, req[w].duck>>}
      /\ UNCHANGED <<userRows, flockRows, duck, comments, nextSighting>>
  BY DEF LogCommit, LogSighting, Follow
<1>5. /\ new.id = req[w].id /\ new.duck = req[w].duck /\ new.user = req[w].user
      /\ \A n \in N : n.user \in req[w].notify /\ n.duck = req[w].duck /\ n.sighting = req[w].id
  OBVIOUS
<1>6. /\ \A v \in Workers \ {w} : req'[v] = req[v]
      /\ req'[w].pc = "idle"
  <2>1. req' = [req EXCEPT ![w] = Idle]
    BY DEF LogCommit, Reply
  <2>2. Idle.pc = "idle"
    BY DEF Idle
  <2> QED BY <2>1, <2>2, ReqStep
<1> HIDE DEF new, N
<1>7. InteractionsOnSailed'
  BY <1>3, <1>4, <1>5 DEF RowInv, InteractionsOnSailed
<1>8. ReferentialIntegrity'
  BY <1>2, <1>4, <1>5 DEF RowInv, ReferentialIntegrity, ForeignKeysOK, Exists
<1>9. FinderNotNotified'
  BY <1>2, <1>4, <1>5 DEF RowInv, FinderNotNotified, ReferentialIntegrity
<1>10. ResolvedStaysSailing' /\ SightingIdsDrawn'
  BY <1>2, <1>4, <1>5, <1>6 DEF RowInv, ResolvedStaysSailing, SightingIdsDrawn
<1>11. OpenLogsLock'
  BY <1>2, <1>4, <1>5, <1>6 DEF RowInv, OpenLogsLock, ForeignKeysOK, Exists, At
<1> QED BY <1>7, <1>8, <1>9, <1>10, <1>11 DEF RowInv

\* CommentRepo::add and FollowRepo::follow write for a duck that was sailing when
\* it was resolved: it still is, or the foreign key refuses the row.
LEMMA InsertRows ==
  ASSUME TypeOK, TypeOK', RowInv, DuckRowShape', NEW w \in Workers,
         CommentInsert(w) \/ FollowInsert(w)
  PROVE  RowInv'
<1> DEFINE u == req[w].user
           d == req[w].duck
<1>1. req[w] \in InteractReq /\ req[w].pc \in {"addComment", "follow"}
  BY RequestShape DEF TypeOK, CommentInsert, FollowInsert, At
<1>2. ForeignKeysOK(u, d) => duck[d].life = "Sailing"
  BY <1>1 DEF RowInv, ResolvedStaysSailing, ForeignKeysOK, Exists
<1>3. /\ UNCHANGED <<userRows, flockRows, duck, sightings, notifications, nextSighting>>
      /\ req' = [req EXCEPT ![w] = Idle]
  BY DEF CommentInsert, FollowInsert, Reply
<1>4. /\ \A c \in comments' : c \in comments \/ (c.user = u /\ c.duck = d /\ ForeignKeysOK(u, d))
      /\ \A p \in follows' : p \in follows \/ (p[1] = u /\ p[2] = d /\ ForeignKeysOK(u, d))
  BY DEF CommentInsert, FollowInsert, AddComment, Follow
<1> HIDE DEF u, d
<1>5. InteractionsOnSailed'
  BY <1>2, <1>3, <1>4 DEF RowInv, InteractionsOnSailed
<1>6. ReferentialIntegrity' /\ FinderNotNotified'
  BY <1>3, <1>4 DEF RowInv, ReferentialIntegrity, FinderNotNotified, ForeignKeysOK, Exists
<1>7. ResolvedStaysSailing' /\ OpenLogsLock' /\ SightingIdsDrawn'
  BY <1>3, RequestsKeep
<1> QED BY <1>5, <1>6, <1>7 DEF RowInv

\* The user-level deletes leave no row that refers to a deleted one.
LEMMA RemoveRows ==
  ASSUME TypeOK, TypeOK', RowInv, DuckRowShape', NEW w \in Workers,
         CommentDelete(w) \/ UnfollowDelete(w) \/ SightingDelete(w)
  PROVE  RowInv'
<1>1. /\ UNCHANGED <<userRows, flockRows, duck, nextSighting>>
      /\ comments' \subseteq comments /\ follows' \subseteq follows
      /\ notifications' \subseteq notifications /\ sightings' \subseteq sightings
  BY DEF CommentDelete, UnfollowDelete, SightingDelete, DeleteComment, Unfollow, DeleteSighting
<1>2. \A n \in notifications' : \A s \in sightings : s.id = n.sighting => s \in sightings'
  BY DEF CommentDelete, UnfollowDelete, SightingDelete, DeleteSighting, SightingsToDelete
<1>3. InteractionsOnSailed' /\ FinderNotNotified'
  BY <1>1 DEF RowInv, InteractionsOnSailed, FinderNotNotified
<1>4. ReferentialIntegrity'
  BY <1>1, <1>2 DEF RowInv, ReferentialIntegrity, ForeignKeysOK, Exists
<1>5. ResolvedStaysSailing' /\ OpenLogsLock' /\ SightingIdsDrawn'
  <2>1. \/ req' = [req EXCEPT ![w] = Idle]
        \/ \E r : req' = [req EXCEPT ![w] = r] /\ r.pc = "cleanup"
    <3> DEFINE r == [pc |-> "cleanup",
                     keys |-> Keys(SightingsToDelete(req[w].id, req[w].duck), {})]
    <3>1. r.pc = "cleanup"
      OBVIOUS
    <3>2. req' = [req EXCEPT ![w] = Idle] \/ req' = [req EXCEPT ![w] = r]
      BY DEF CommentDelete, UnfollowDelete, SightingDelete, Reply
    <3> HIDE DEF r
    <3> QED BY <3>1, <3>2
  <2> QED BY <1>1, <2>1, RequestsKeep
<1> QED BY <1>3, <1>4, <1>5 DEF RowInv

\* mark_all_read changes no reference.
LEMMA MarkReadRows ==
  ASSUME TypeOK, TypeOK', RowInv, DuckRowShape', NEW u \in Users, MarkNotificationsRead(u)
  PROVE  RowInv'
<1>1. UNCHANGED <<userRows, flockRows, duck, sightings, comments, follows, nextSighting, req>>
  BY DEF MarkNotificationsRead
<1>2. \A m \in notifications' : \E n \in notifications :
        m.user = n.user /\ m.duck = n.duck /\ m.sighting = n.sighting
  BY DEF MarkNotificationsRead, MarkAllRead, TypeOK, TablesTypeOK, NotificationRow
<1>3. InteractionsOnSailed' /\ FinderNotNotified'
  BY <1>1, <1>2 DEF RowInv, InteractionsOnSailed, FinderNotNotified
<1>4. ReferentialIntegrity'
  BY <1>1, <1>2 DEF RowInv, ReferentialIntegrity, ForeignKeysOK, Exists
<1>5. ResolvedStaysSailing' /\ OpenLogsLock' /\ SightingIdsDrawn'
  BY <1>1
  DEF RowInv, ResolvedStaysSailing, OpenLogsLock, SightingIdsDrawn, ForeignKeysOK, Exists, At
<1> QED BY <1>3, <1>4, <1>5 DEF RowInv

\* delete_flock removes every row that refers to what it removes.
LEMMA DeleteFlockRows ==
  ASSUME TypeOK, TypeOK', RowInv, DuckRowShape', NEW w \in Workers, DeleteFlockCommit(w)
  PROVE  RowInv'
<1> DEFINE f == req[w].flock
<1>1. /\ UNCHANGED <<userRows, nextSighting>>
      /\ notifications' = {n \in notifications : FlockOf[n.duck] # f}
      /\ follows' = {p \in follows : FlockOf[p[2]] # f}
      /\ comments' = {c \in comments : FlockOf[c.duck] # f}
      /\ sightings' = {s \in sightings : FlockOf[s.duck] # f}
      /\ duck' = [d \in Ducks |-> IF FlockOf[d] = f THEN GoneRow ELSE duck[d]]
      /\ flockRows' = flockRows \ {f}
  BY DEF DeleteFlockCommit, DeleteFlock, FlockSightings
<1>2. \A d \in Ducks : FlockOf[d] # f => duck'[d] = duck[d]
  BY <1>1
<1>3. \A d \in Ducks : FlockOf[d] = f => duck'[d].life = "Gone"
  BY <1>1 DEF GoneRow
<1>4. \A v \in Workers : At(v, "logCommit") => FlockOf[req[v].duck] # f /\ req[v].duck \in Ducks
  BY RequestShape
  DEF DeleteFlockCommit, LocksDuck, DucksOfFlock, At, TypeOK, LogReq
<1>5. /\ \A v \in Workers \ {w} : req'[v] = req[v]
      /\ req'[w].pc \in {"idle", "cleanup"}
  BY ReplyOrCleanup DEF DeleteFlockCommit
<1> HIDE DEF f
<1>6. InteractionsOnSailed'
  BY <1>1, <1>2 DEF RowInv, InteractionsOnSailed
<1>7. ReferentialIntegrity'
  <2>1. \A d \in Ducks : Exists(d)' => FlockOf[d] \in flockRows'
    BY <1>1, <1>2, <1>3 DEF RowInv, ReferentialIntegrity, Exists
  <2>2. \A s \in sightings' : ForeignKeysOK(s.user, s.duck)'
    BY <1>1, <1>2 DEF RowInv, ReferentialIntegrity, ForeignKeysOK, Exists, TypeOK, TablesTypeOK, SightingRow
  <2>3. \A c \in comments' : ForeignKeysOK(c.user, c.duck)'
    BY <1>1, <1>2 DEF RowInv, ReferentialIntegrity, ForeignKeysOK, Exists, TypeOK, TablesTypeOK, CommentRow
  <2>4. \A p \in follows' : ForeignKeysOK(p[1], p[2])'
    BY <1>1, <1>2 DEF RowInv, ReferentialIntegrity, ForeignKeysOK, Exists, TypeOK, TablesTypeOK
  <2>5. \A n \in notifications' :
          n.user \in userRows' /\ \E s \in sightings' : s.id = n.sighting /\ s.duck = n.duck
    BY <1>1 DEF RowInv, ReferentialIntegrity
  <2>6. \A g \in flockRows' : OwnerOf[g] \in userRows'
    BY <1>1 DEF RowInv, ReferentialIntegrity
  <2> QED BY <2>1, <2>2, <2>3, <2>4, <2>5, <2>6 DEF ReferentialIntegrity
<1>8. FinderNotNotified' /\ SightingIdsDrawn'
  BY <1>1 DEF RowInv, FinderNotNotified, SightingIdsDrawn
<1>9. ResolvedStaysSailing'
  <2>1. \A v \in Workers : req[v].pc \in {"putSighting", "log", "logCommit", "addComment", "follow"} =>
          req[v].duck \in Ducks
    BY RequestShape DEF TypeOK, LogReq, InteractReq
  <2> QED BY <1>2, <1>3, <1>5, <2>1 DEF RowInv, ResolvedStaysSailing
<1>10. OpenLogsLock'
  BY <1>1, <1>2, <1>4, <1>5 DEF RowInv, OpenLogsLock, ForeignKeysOK, Exists, At
<1> QED BY <1>6, <1>7, <1>8, <1>9, <1>10 DEF RowInv

\* delete_user removes every row that refers to what it removes.
LEMMA DeleteUserRows ==
  ASSUME TypeOK, TypeOK', RowInv, DuckRowShape', NEW w \in Workers, DeleteUserCommit(w),
         req[w].target \in userRows \ Admins
  PROVE  RowInv'
<1> DEFINE u == req[w].target
<1>1. /\ UNCHANGED nextSighting
      /\ notifications' = {n \in notifications :
                             /\ n.user # u
                             /\ \A s \in sightings : s.id = n.sighting => s.user # u
                             /\ Owner(n.duck) # u}
      /\ follows' = {p \in follows : p[1] # u /\ Owner(p[2]) # u}
      /\ comments' = {c \in comments : c.user # u /\ Owner(c.duck) # u}
      /\ sightings' = {s \in sightings : s.user # u /\ Owner(s.duck) # u}
      /\ duck' = [d \in Ducks |-> IF Owner(d) = u THEN GoneRow ELSE duck[d]]
      /\ flockRows' = {f \in flockRows : OwnerOf[f] # u}
      /\ userRows' = userRows \ {u}
  BY DEF DeleteUserCommit, DeleteUser, UserSightings
<1>2. \A d \in Ducks : Owner(d) # u => duck'[d] = duck[d]
  BY <1>1
<1>3. \A d \in Ducks : Owner(d) = u => duck'[d].life = "Gone"
  BY <1>1 DEF GoneRow
<1>4. \A v \in Workers : At(v, "logCommit") =>
        /\ req[v].duck \in Ducks /\ Owner(req[v].duck) # u
        /\ req[v].user # u /\ u \notin req[v].notify
  BY RequestShape DEF DeleteUserCommit, LocksUser, LocksDuck, DucksOfUser, At, TypeOK, LogReq
<1>5. /\ \A v \in Workers \ {w} : req'[v] = req[v]
      /\ req'[w].pc \in {"idle", "cleanup"}
  BY ReplyOrCleanup DEF DeleteUserCommit
<1> HIDE DEF u
<1>6. InteractionsOnSailed'
  BY <1>1, <1>2 DEF RowInv, InteractionsOnSailed
<1>7. ReferentialIntegrity'
  <2>1. \A d \in Ducks : Exists(d)' => FlockOf[d] \in flockRows'
    BY <1>1, <1>2, <1>3 DEF RowInv, ReferentialIntegrity, Exists, Owner
  <2>2. \A s \in sightings' : ForeignKeysOK(s.user, s.duck)'
    BY <1>1, <1>2 DEF RowInv, ReferentialIntegrity, ForeignKeysOK, Exists, TypeOK, TablesTypeOK, SightingRow
  <2>3. \A c \in comments' : ForeignKeysOK(c.user, c.duck)'
    BY <1>1, <1>2 DEF RowInv, ReferentialIntegrity, ForeignKeysOK, Exists, TypeOK, TablesTypeOK, CommentRow
  <2>4. \A p \in follows' : ForeignKeysOK(p[1], p[2])'
    BY <1>1, <1>2 DEF RowInv, ReferentialIntegrity, ForeignKeysOK, Exists, TypeOK, TablesTypeOK
  <2>5. \A n \in notifications' :
          n.user \in userRows' /\ \E s \in sightings' : s.id = n.sighting /\ s.duck = n.duck
    BY <1>1 DEF RowInv, ReferentialIntegrity
  <2>6. \A g \in flockRows' : OwnerOf[g] \in userRows'
    BY <1>1 DEF RowInv, ReferentialIntegrity
  <2> QED BY <2>1, <2>2, <2>3, <2>4, <2>5, <2>6 DEF ReferentialIntegrity
<1>8. FinderNotNotified' /\ SightingIdsDrawn'
  BY <1>1 DEF RowInv, FinderNotNotified, SightingIdsDrawn
<1>9. ResolvedStaysSailing'
  <2>1. \A v \in Workers : req[v].pc \in {"putSighting", "log", "logCommit", "addComment", "follow"} =>
          req[v].duck \in Ducks
    BY RequestShape DEF TypeOK, LogReq, InteractReq
  <2> QED BY <1>2, <1>3, <1>5, <2>1 DEF RowInv, ResolvedStaysSailing
<1>10. OpenLogsLock'
  BY <1>1, <1>2, <1>4, <1>5 DEF RowInv, OpenLogsLock, ForeignKeysOK, Exists, At
<1> QED BY <1>6, <1>7, <1>8, <1>9, <1>10 DEF RowInv

\* Every step of the system keeps RowInv.
LEMMA RowStep ==
  ASSUME TypeOK, RowInv, [Next]_vars
  PROVE  RowInv'
<1>0. TypeOK' /\ LifecycleForward /\ DuckRowShape'
  BY TypeStep, LifeStep DEF RowInv
<1>1. ASSUME NEW w \in Workers, NEW r, req' = [req EXCEPT ![w] = r],
             \A d \in Ducks : duck'[d].life = "Gone" => duck[d].life = "Gone",
             UNCHANGED <<userRows, flockRows, sightings, comments, follows, notifications, nextSighting>>,
             r.pc # "logCommit",
             r.pc \in {"putSighting", "log", "addComment", "follow"} =>
               duck'[r.duck].life \in {"Sailing", "Gone"}
      PROVE  RowInv'
  <2>1. req'[w] = r /\ \A v \in Workers \ {w} : req'[v] = req[v]
    BY <1>1, ReqStep
  <2> QED BY <1>0, <1>1, <2>1, QuietRows DEF At
<1>2. ASSUME NEW w \in Workers, NEW r, req' = [req EXCEPT ![w] = r], UNCHANGED tables,
             r.pc # "logCommit",
             r.pc \in {"putSighting", "log", "addComment", "follow"} =>
               duck[r.duck].life \in {"Sailing", "Gone"}
      PROVE  RowInv'
  <2>1. UNCHANGED <<userRows, flockRows, duck, sightings, comments, follows, notifications, nextSighting>>
    BY <1>2 DEF tables
  <2> QED BY <1>1, <1>2, <2>1
<1>a. ASSUME NEW w \in Workers, NEW r, req' = [req EXCEPT ![w] = r], UNCHANGED <<tables, store>>,
             r.pc \in {"idle", "setSail", "unfollow", "setDeleted", "setLocked", "deleteComment",
                      "deleteSighting", "deleteFlock", "deleteUser"}
      PROVE  RowInv'
  BY <1>2, <1>a
<1>b. ASSUME NEW w \in Workers, NEW r, req' = [req EXCEPT ![w] = r], UNCHANGED tables,
             r.pc \in {"putSighting", "log", "addComment", "follow"},
             duck[r.duck].life = "Sailing"
      PROVE  RowInv'
  BY <1>2, <1>b
<1>3. ASSUME NEW w \in Workers, Arrive(w)
      PROVE  RowInv'
  <2>1. ASSUME NEW d \in Ducks, NEW sail \in BOOLEAN, Originate(w, d, sail)
        PROVE  RowInv'
    <3> DEFINE r == [pc |-> "putOrigin", duck |-> d, key |-> nextKey, sail |-> sail]
    <3>1. req' = [req EXCEPT ![w] = r] /\ UNCHANGED tables
      BY <2>1 DEF Originate, Start
    <3>2. r.pc = "putOrigin"
      OBVIOUS
    <3> HIDE DEF r
    <3> QED BY <1>2, <3>1, <3>2
  <2>2. ASSUME NEW d \in Ducks, SetSailing(w, d)
        PROVE  RowInv'
    BY <1>a, <2>2 DEF SetSailing, Start
  <2>3. ASSUME NEW u \in Users, NEW d \in Ducks, LogWithPhoto(w, u, d) \/ LogWithoutPhoto(w, u, d)
        PROVE  RowInv'
    <3>1. PICK p \in {"putSighting", "log"}, k \in {nextKey, NoKey} :
            req' = [req EXCEPT ![w] = [pc |-> p, duck |-> d, user |-> u, key |-> k,
                                       id |-> 0, notify |-> {}, joins |-> FALSE]]
      BY <2>3 DEF LogWithPhoto, LogWithoutPhoto, Start
    <3> DEFINE r == [pc |-> p, duck |-> d, user |-> u, key |-> k, id |-> 0, notify |-> {}, joins |-> FALSE]
    <3>2. duck[d].life = "Sailing" /\ UNCHANGED tables
      BY <2>3 DEF LogWithPhoto, LogWithoutPhoto, ResolveSailing
    <3>3. r.pc \in {"putSighting", "log"} /\ r.duck = d
      OBVIOUS
    <3>4. req' = [req EXCEPT ![w] = r]
      BY <3>1
    <3> HIDE DEF r
    <3> QED BY <1>b, <3>2, <3>3, <3>4
  <2>4. ASSUME NEW u \in Users, NEW d \in Ducks, Comment(w, u, d) \/ FollowRequest(w, u, d)
        PROVE  RowInv'
    <3>1. PICK p \in {"addComment", "follow"} :
            req' = [req EXCEPT ![w] = [pc |-> p, duck |-> d, user |-> u]]
      BY <2>4 DEF Comment, FollowRequest, Start
    <3> DEFINE r == [pc |-> p, duck |-> d, user |-> u]
    <3>2. duck[d].life = "Sailing" /\ UNCHANGED tables
      BY <2>4 DEF Comment, FollowRequest, ResolveSailing
    <3>3. r.pc \in {"addComment", "follow"} /\ r.duck = d
      OBVIOUS
    <3>4. req' = [req EXCEPT ![w] = r]
      BY <3>1
    <3> HIDE DEF r
    <3> QED BY <1>b, <3>2, <3>3, <3>4
  <2>5. ASSUME NEW u \in Users, NEW d \in Ducks, UnfollowRequest(w, u, d)
        PROVE  RowInv'
    BY <1>a, <2>5 DEF UnfollowRequest, Start
  <2>6. ASSUME NEW u \in Users, NEW d \in Ducks, NEW flag \in BOOLEAN,
               DeleteOrRestore(w, u, d, flag) \/ LockOrUnlock(w, u, d, flag)
        PROVE  RowInv'
    BY <1>a, <2>6 DEF DeleteOrRestore, LockOrUnlock, Start
  <2>7. ASSUME NEW u \in Users, NEW d \in Ducks, NEW id,
               RemoveCommentRequest(w, u, d, id) \/ RemoveSightingRequest(w, u, d, id)
        PROVE  RowInv'
    BY <1>a, <2>7 DEF RemoveCommentRequest, RemoveSightingRequest, Start
  <2>8. ASSUME NEW f \in Flocks, DeleteFlockSelect(w, f)
        PROVE  RowInv'
    BY <1>a, <2>8 DEF DeleteFlockSelect, Start
  <2>9. ASSUME NEW u \in Users, NEW target \in Users, DeleteUserSelect(w, u, target)
        PROVE  RowInv'
    BY <1>a, <2>9 DEF DeleteUserSelect, Start
  <2> QED BY <1>3, <2>1, <2>2, <2>3, <2>4, <2>5, <2>6, <2>7, <2>8, <2>9 DEF Arrive
<1>4. ASSUME NEW w \in Workers, Abandon(w)
      PROVE  RowInv'
  BY <1>a, <1>4 DEF Abandon, Reply, Idle
<1>5. ASSUME NEW w \in Workers, Step(w)
      PROVE  RowInv'
  <2>1. ASSUME PutOriginPhoto(w) \/ PutSightingPhoto(w)
        PROVE  RowInv'
    <3>1. req[w] \in OriginateReq \/ req[w] \in LogReq
      BY <2>1, RequestShape DEF TypeOK, PutOriginPhoto, PutSightingPhoto, At
    <3>2. PICK r : /\ req' = [req EXCEPT ![w] = r]
                   /\ \/ r.pc = "stage"
                      \/ r.pc = "log" /\ r.duck = req[w].duck /\ At(w, "putSighting")
      <4>1. CASE PutOriginPhoto(w)
        <5>1. [req[w] EXCEPT !.pc = "stage"].pc = "stage"
          BY <3>1 DEF OriginateReq, LogReq
        <5> QED BY <4>1, <5>1 DEF PutOriginPhoto, Goto
      <4>2. CASE PutSightingPhoto(w)
        <5>1. /\ [req[w] EXCEPT !.pc = "log"].pc = "log"
              /\ [req[w] EXCEPT !.pc = "log"].duck = req[w].duck
          BY <3>1 DEF OriginateReq, LogReq
        <5> QED BY <4>2, <5>1 DEF PutSightingPhoto, Goto
      <4> QED BY <2>1, <4>1, <4>2
    <3>3. UNCHANGED tables
      BY <2>1 DEF PutOriginPhoto, PutSightingPhoto
    <3> QED BY <1>2, <3>2, <3>3 DEF RowInv, ResolvedStaysSailing, At
  <2>2. ASSUME OriginateStage(w)
        PROVE  RowInv'
    <3>1. req[w] \in OriginateReq
      BY <2>2, RequestShape DEF TypeOK, OriginateStage, At
    <3>2. PICK r : req' = [req EXCEPT ![w] = r] /\ r.pc \in {"stageSail", "idle"}
      <4>1. [req[w] EXCEPT !.pc = "stageSail"].pc = "stageSail" /\ Idle.pc = "idle"
        BY <3>1 DEF OriginateReq, Idle
      <4> QED BY <2>2, <4>1 DEF OriginateStage, Goto, Reply
    <3>3. \A d \in Ducks : duck'[d].life = "Gone" => duck[d].life = "Gone"
      BY <2>2, <3>1 DEF OriginateStage, Stage, OriginateReq, TypeOK, TablesTypeOK, DuckRow
    <3> QED BY <1>1, <2>2, <3>2, <3>3 DEF OriginateStage
  <2>3. ASSUME OriginateSail(w) \/ SetSailUpdate(w) \/ DeletedUpdate(w) \/ LockedUpdate(w)
        PROVE  RowInv'
    <3>1. /\ req' = [req EXCEPT ![w] = Idle]
          /\ UNCHANGED <<userRows, flockRows, sightings, comments, follows, notifications, nextSighting>>
      BY <2>3 DEF OriginateSail, SetSailUpdate, SailStep, DeletedUpdate, LockedUpdate, Reply
    <3>2. \A d \in Ducks : duck'[d].life = "Gone" => duck[d].life = "Gone"
      BY <2>3
      DEF OriginateSail, SetSailUpdate, SailStep, DeletedUpdate, LockedUpdate, SetSail,
          SetDeleted, SetCommentsLocked, TypeOK, TablesTypeOK, DuckRow
    <3>3. Idle.pc = "idle"
      BY DEF Idle
    <3> QED BY <1>1, <3>1, <3>2, <3>3
  <2>4. ASSUME NEW key, CleanupPhoto(w, key)
        PROVE  RowInv'
    <3>1. req[w] \in CleanupReq
      BY <2>4, RequestShape DEF TypeOK, CleanupPhoto, At
    <3>2. PICK r : req' = [req EXCEPT ![w] = r] /\ r.pc \in {"cleanup", "idle"}
      <4>1. [req[w] EXCEPT !.keys = req[w].keys \ {key}].pc = "cleanup" /\ Idle.pc = "idle"
        BY <3>1 DEF CleanupReq, Idle
      <4> QED BY <2>4, <4>1 DEF CleanupPhoto, Reply
    <3>3. UNCHANGED tables
      BY <2>4 DEF CleanupPhoto
    <3> QED BY <1>2, <3>2, <3>3
  <2>5. ASSUME DeleteUserCommit(w)
        PROVE  RowInv'
    <3>1. CASE req[w].target \in userRows \ Admins
      BY <1>0, <2>5, <3>1, DeleteUserRows
    <3>2. CASE req[w].target \notin userRows \ Admins
      <4>1. /\ req' = [req EXCEPT ![w] = Idle]
            /\ UNCHANGED <<userRows, flockRows, duck, sightings, comments, follows, notifications, nextSighting>>
        BY <2>5, <3>2 DEF DeleteUserCommit, Reply
      <4>2. Idle.pc = "idle"
        BY DEF Idle
      <4> QED BY <1>1, <4>1, <4>2
    <3> QED BY <3>1, <3>2
  <2> QED
    BY <1>0, <1>5, <2>1, <2>2, <2>3, <2>4, <2>5, LogInsertRows, LogCommitRows, InsertRows,
       RemoveRows, DeleteFlockRows
    DEF Step
<1>6. ASSUME UNCHANGED vars
      PROVE  RowInv'
  BY <1>0, <1>6
  DEF vars, tables, RowInv, InteractionsOnSailed, ReferentialIntegrity, FinderNotNotified,
      ResolvedStaysSailing, OpenLogsLock, SightingIdsDrawn, ForeignKeysOK, Exists, At
<1> QED BY <1>0, <1>3, <1>4, <1>5, <1>6, MarkReadRows DEF Next

\* RowInv, the inductive invariant, holds in every reachable state.
THEOREM RowInvariant == Spec => []RowInv
<1>1. Init => RowInv
  <2> SUFFICES ASSUME Init PROVE RowInv
    OBVIOUS
  <2>1. /\ \A d \in Ducks : duck[d] = MintedRow
        /\ userRows = Users /\ flockRows = Flocks
        /\ sightings = {} /\ comments = {} /\ follows = {} /\ notifications = {}
        /\ \A w \in Workers : req[w].pc = "idle"
    BY DEF Init, TablesInit, Idle
  <2>2. ReferentialIntegrity
    BY <2>1, DatabaseAssumption DEF ReferentialIntegrity
  <2>3. DuckRowShape
    BY <2>1 DEF DuckRowShape, MintedRow
  <2> QED
    BY <2>1, <2>2, <2>3
    DEF RowInv, InteractionsOnSailed, FinderNotNotified, ResolvedStaysSailing, OpenLogsLock,
        SightingIdsDrawn, At
<1>2. TypeOK /\ RowInv /\ [Next]_vars => RowInv'
  BY RowStep
<1> QED BY <1>1, <1>2, TypeCorrect, PTL DEF Spec

\* Whatever requests race: only sailing ducks are written about, no row refers to
\* a deleted one, and nobody is notified of their own find.
THEOREM RowsConsistent ==
  Spec => [](InteractionsOnSailed /\ ReferentialIntegrity /\ FinderNotNotified)
<1>1. RowInv => InteractionsOnSailed /\ ReferentialIntegrity /\ FinderNotNotified
  BY DEF RowInv
<1> QED BY <1>1, RowInvariant, PTL

\* No step takes a duck back in its lifecycle, rewrites its details or revives a
\* deleted row.
THEOREM LifecycleNeverBack == Spec => LifecycleMonotone
<1>1. TypeOK /\ RowInv /\ [Next]_vars => [LifecycleForward]_vars
  BY LifeStep DEF RowInv
<1> QED BY <1>1, TypeCorrect, RowInvariant, PTL DEF Spec, LifecycleMonotone

-----------------------------------------------------------------------------
\* The refinement of Logbook.  No picture dangles before or after a step, so the
\* pictures of the book are the keys of the rows (PhotoInv); a write that the
\* foreign keys or the row locks let through finds its duck sailing and its user
\* there (RowInv); and one comment is removed at a time (BookInv).

\* A step that writes no comment and starts no origination keeps BookInv.
LEMMA QuietBook ==
  ASSUME TypeOK, BookInv, NEW w \in Workers, NEW r, req' = [req EXCEPT ![w] = r],
         comments' \subseteq comments, UNCHANGED nextComment,
         r.pc \in {"putOrigin", "stage"} => r.key # NoKey
  PROVE  BookInv'
<1>1. req'[w] = r /\ \A v \in Workers \ {w} : req'[v] = req[v]
  BY ReqStep
<1> QED BY <1>1 DEF BookInv

\* Every step of the system keeps BookInv.
LEMMA BookInvStep ==
  ASSUME TypeOK, BookInv, [Next]_vars
  PROVE  BookInv'
<1>1. ASSUME UNCHANGED <<comments, nextComment, req>>
      PROVE  BookInv'
  BY <1>1 DEF BookInv
<1>2. ASSUME NEW w \in Workers, Arrive(w)
      PROVE  BookInv'
  <2>1. UNCHANGED <<comments, nextComment>>
    BY <1>2
    DEF Arrive, Originate, SetSailing, LogWithPhoto, LogWithoutPhoto, Comment, FollowRequest,
        UnfollowRequest, DeleteOrRestore, LockOrUnlock, RemoveCommentRequest,
        RemoveSightingRequest, DeleteFlockSelect, DeleteUserSelect, tables
  <2>2. ASSUME NEW r, req' = [req EXCEPT ![w] = r], r.pc \notin {"putOrigin", "stage"}
        PROVE  BookInv'
    BY <2>1, <2>2, QuietBook
  <2>3. ASSUME NEW d \in Ducks, NEW sail \in BOOLEAN, Originate(w, d, sail)
        PROVE  BookInv'
    <3> DEFINE r == [pc |-> "putOrigin", duck |-> d, key |-> nextKey, sail |-> sail]
    <3>1. req' = [req EXCEPT ![w] = r]
      BY <2>3 DEF Originate, Start
    <3>2. r.key # NoKey
      BY DEF TypeOK, StoreTypeOK, NoKey
    <3> HIDE DEF r
    <3> QED BY <2>1, <3>1, <3>2, QuietBook
  <2>4. ASSUME NEW d \in Ducks, SetSailing(w, d)
        PROVE  BookInv'
    BY <2>2, <2>4 DEF SetSailing, Start
  <2>5. ASSUME NEW u \in Users, NEW d \in Ducks,
               \/ LogWithPhoto(w, u, d) \/ LogWithoutPhoto(w, u, d) \/ Comment(w, u, d)
               \/ FollowRequest(w, u, d) \/ UnfollowRequest(w, u, d)
        PROVE  BookInv'
    BY <2>2, <2>5
    DEF LogWithPhoto, LogWithoutPhoto, Comment, FollowRequest, UnfollowRequest, Start
  <2>6. ASSUME NEW u \in Users, NEW d \in Ducks, NEW flag \in BOOLEAN,
               DeleteOrRestore(w, u, d, flag) \/ LockOrUnlock(w, u, d, flag)
        PROVE  BookInv'
    BY <2>2, <2>6 DEF DeleteOrRestore, LockOrUnlock, Start
  <2>7. ASSUME NEW u \in Users, NEW d \in Ducks, NEW id,
               RemoveCommentRequest(w, u, d, id) \/ RemoveSightingRequest(w, u, d, id)
        PROVE  BookInv'
    BY <2>2, <2>7 DEF RemoveCommentRequest, RemoveSightingRequest, Start
  <2>8. ASSUME NEW f \in Flocks, DeleteFlockSelect(w, f)
        PROVE  BookInv'
    BY <2>2, <2>8 DEF DeleteFlockSelect, Start
  <2>9. ASSUME NEW u \in Users, NEW target \in Users, DeleteUserSelect(w, u, target)
        PROVE  BookInv'
    BY <2>2, <2>9 DEF DeleteUserSelect, Start
  <2> QED BY <1>2, <2>3, <2>4, <2>5, <2>6, <2>7, <2>8, <2>9 DEF Arrive
<1>3. ASSUME NEW w \in Workers, PutOriginPhoto(w) \/ PutSightingPhoto(w)
      PROVE  BookInv'
  <2>1. UNCHANGED <<comments, nextComment>>
    BY <1>3 DEF PutOriginPhoto, PutSightingPhoto, tables
  <2>2. PICK r : /\ req' = [req EXCEPT ![w] = r]
                 /\ r.pc = "log" \/ (At(w, "putOrigin") /\ r.key = req[w].key)
    <3>1. CASE PutOriginPhoto(w)
      <4>1. [req[w] EXCEPT !.pc = "stage"].key = req[w].key
        BY <3>1, RequestShape DEF TypeOK, PutOriginPhoto, At, OriginateReq
      <4> QED BY <3>1, <4>1 DEF PutOriginPhoto, Goto
    <3>2. CASE PutSightingPhoto(w)
      <4>1. [req[w] EXCEPT !.pc = "log"].pc = "log"
        BY <3>2, RequestShape DEF TypeOK, PutSightingPhoto, At, LogReq
      <4> QED BY <3>2, <4>1 DEF PutSightingPhoto, Goto
    <3> QED BY <1>3, <3>1, <3>2
  <2> QED BY <2>1, <2>2, QuietBook DEF BookInv, At
<1>4. ASSUME NEW w \in Workers, OriginateStage(w)
      PROVE  BookInv'
  <2>1. UNCHANGED <<comments, nextComment>>
    BY <1>4 DEF OriginateStage
  <2>2. PICK r : req' = [req EXCEPT ![w] = r] /\ r.pc \in {"stageSail", "idle"}
    <3>1. [req[w] EXCEPT !.pc = "stageSail"].pc = "stageSail" /\ Idle.pc = "idle"
      BY <1>4, RequestShape DEF TypeOK, OriginateStage, At, OriginateReq, Idle
    <3> QED BY <1>4, <3>1 DEF OriginateStage, Goto, Reply
  <2> QED BY <2>1, <2>2, QuietBook
<1>5. ASSUME NEW w \in Workers,
             \/ OriginateSail(w) \/ SetSailUpdate(w) \/ LogCommit(w) \/ FollowInsert(w)
             \/ UnfollowDelete(w) \/ DeletedUpdate(w) \/ LockedUpdate(w) \/ CommentDelete(w)
             \/ Abandon(w)
      PROVE  BookInv'
  <2>1. /\ req' = [req EXCEPT ![w] = Idle]
        /\ comments' \subseteq comments /\ UNCHANGED nextComment
    BY <1>5
    DEF OriginateSail, SetSailUpdate, SailStep, LogCommit, FollowInsert, UnfollowDelete,
        DeletedUpdate, LockedUpdate, CommentDelete, DeleteComment, Abandon, Reply, tables
  <2> QED BY <2>1, QuietBook DEF Idle
<1>6. ASSUME NEW w \in Workers, LogInsert(w)
      PROVE  BookInv'
  <2>1. UNCHANGED <<comments, nextComment>>
    BY <1>6 DEF LogInsert
  <2>2. req[w] \in LogReq
    BY <1>6, RequestShape DEF TypeOK, LogInsert, At
  <2>3. PICK r : req' = [req EXCEPT ![w] = r] /\ (r = Idle \/ r.pc = "logCommit")
    BY <1>6, <2>2 DEF LogInsert, Reply, LogReq
  <2> QED BY <2>1, <2>3, QuietBook DEF Idle
<1>7. ASSUME NEW w \in Workers, CommentInsert(w)
      PROVE  BookInv'
  <2>1. \A v \in Workers : req'[v] = req[v] \/ req'[v].pc = "idle"
    BY <1>7 DEF CommentInsert, Reply, Idle, TypeOK
  <2>2. /\ nextComment \in Nat /\ nextComment' = nextComment + 1
        /\ \A c \in comments : c.id \in Nat
    BY <1>7 DEF CommentInsert, AddComment, TypeOK, TablesTypeOK, CommentRow
  <2> DEFINE new == [id |-> nextComment, duck |-> req[w].duck, user |-> req[w].user]
  <2>3. new.id = nextComment /\ comments' \subseteq comments \cup {new}
    BY <1>7 DEF CommentInsert, AddComment
  <2> HIDE DEF new
  <2> QED BY <2>1, <2>2, <2>3 DEF BookInv
<1>8. ASSUME NEW w \in Workers, SightingDelete(w) \/ DeleteFlockCommit(w) \/ DeleteUserCommit(w)
      PROVE  BookInv'
  <2>1. comments' \subseteq comments /\ UNCHANGED nextComment
    BY <1>8 DEF SightingDelete, DeleteFlockCommit, DeleteFlock, DeleteUserCommit, DeleteUser
  <2>2. \A v \in Workers : req'[v] = req[v] \/ req'[v].pc \in {"idle", "cleanup"}
    BY <1>8
    DEF SightingDelete, DeleteFlockCommit, DeleteUserCommit, CleanupOrReply, Reply, Idle, TypeOK
  <2> QED BY <2>1, <2>2 DEF BookInv
<1>9. ASSUME NEW w \in Workers, NEW key, CleanupPhoto(w, key)
      PROVE  BookInv'
  <2>1. UNCHANGED <<comments, nextComment>>
    BY <1>9 DEF CleanupPhoto, tables
  <2>2. PICK r : req' = [req EXCEPT ![w] = r] /\ r.pc \in {"cleanup", "idle"}
    <3>1. [req[w] EXCEPT !.keys = req[w].keys \ {key}].pc = "cleanup" /\ Idle.pc = "idle"
      BY <1>9, RequestShape DEF TypeOK, CleanupPhoto, At, CleanupReq, Idle
    <3> QED BY <1>9, <3>1 DEF CleanupPhoto, Reply
  <2> QED BY <2>1, <2>2, QuietBook
<1>10. ASSUME NEW u \in Users, MarkNotificationsRead(u)
       PROVE  BookInv'
  BY <1>1, <1>10 DEF MarkNotificationsRead
<1>11. CASE UNCHANGED vars
  BY <1>1, <1>11 DEF vars, tables
<1> QED
  BY <1>2, <1>3, <1>4, <1>5, <1>6, <1>7, <1>8, <1>9, <1>10, <1>11 DEF Next, Step

\* BookInv holds in every reachable state.
LEMMA BookInvariant == Spec => []BookInv
<1>1. Init => BookInv
  BY DEF Init, TablesInit, BookInv, Idle
<1>2. TypeOK /\ BookInv /\ [Next]_vars => BookInv'
  BY BookInvStep
<1> QED BY <1>1, <1>2, TypeCorrect, PTL DEF Spec

\* No picture is broken, so what can be seen is what the rows refer to.
LEMMA PicturesAreRowKeys ==
  ASSUME PhotoInv, PhotoInv'
  PROVE  RowKeys \cap objects = RowKeys /\ (RowKeys \cap objects)' = RowKeys'
  BY DEF PhotoInv, NoDanglingPhoto

\* A step that changes no row others can see is invisible in the book.
LEMMA SameBook ==
  ASSUME PhotoInv, PhotoInv',
         UNCHANGED <<userRows, sightings, comments, follows, notifications>>,
         \A d \in Ducks : duck'[d].life = duck[d].life /\ duck'[d].photo = duck[d].photo
  PROVE  UNCHANGED Book!book
<1>1. RowKeys' = RowKeys
  BY DEF RowKeys, Keys
<1>2. UNCHANGED [d \in Ducks |-> [life |-> duck[d].life, photo |-> duck[d].photo]]
  OBVIOUS
<1> QED BY <1>1, <1>2, PicturesAreRowKeys DEF Book!book

\* The stage that wins its race defines the duck with the picture it has stored.
LEMMA StageDefines ==
  ASSUME TypeOK, PhotoInv, PhotoInv', RowInv, BookInv, NEW w \in Workers, OriginateStage(w)
  PROVE  [Book!Write]_Book!book
<1> DEFINE P == [e \in Ducks |-> [life |-> duck[e].life, photo |-> duck[e].photo]]
<1>0. PICK d, k : d = req[w].duck /\ k = req[w].key
  OBVIOUS
<1>1. d \in Ducks /\ k \in Nat /\ k # NoKey /\ k \in objects
  BY <1>0, RequestShape
  DEF OriginateStage, At, TypeOK, OriginateReq, BookInv, PhotoInv, CarriedKeysStored
<1>2. k \notin RowKeys
  BY <1>0, <1>1
  DEF OriginateStage, At, PhotoInv, CarriedKeysPrivate, Carried, RowKeys, Keys
<1>3. UNCHANGED <<userRows, sightings, comments, follows, notifications, objects>>
  BY DEF OriginateStage, store
<1>4. CASE duck[d].life # "Allocated"
  <2>1. duck' = duck
    BY <1>0, <1>4 DEF OriginateStage, Stage
  <2> QED BY <1>3, <2>1, SameBook
<1>5. CASE duck[d].life = "Allocated"
  <2>1. duck' = [duck EXCEPT ![d].life = "Staged", ![d].photo = k]
    BY <1>0, <1>5 DEF OriginateStage, Stage
  <2>2. duck[d].photo = NoKey
    BY <1>1, <1>5 DEF RowInv, DuckRowShape
  <2>3. /\ duck'[d].life = "Staged" /\ duck'[d].photo = k
        /\ \A e \in Ducks \ {d} : duck'[e] = duck[e]
    BY <1>1, <2>1 DEF TypeOK, TablesTypeOK, DuckRow
  <2>4. RowKeys' = RowKeys \cup {k}
    BY <1>1, <1>3, <2>2, <2>3 DEF RowKeys, Keys
  <2>5. P' = [P EXCEPT ![d] = [life |-> "Staged", photo |-> k]] /\ P[d].life = "Allocated"
    BY <1>1, <1>5, <2>3
  <2>6. Book!Define(d, k)
    BY <1>1, <1>2, <1>3, <2>4, <2>5, PicturesAreRowKeys DEF Book!Define, Book!Fresh
  <2>7. k \in (RowKeys \cap objects)'
    BY <1>1, <1>3, <2>4
  <2> QED BY <1>1, <2>6, <2>7 DEF Book!Write
<1> QED BY <1>4, <1>5

\* The guarded update launches a staged duck or does nothing.
LEMMA SailLaunches ==
  ASSUME TypeOK, PhotoInv, PhotoInv', NEW w \in Workers, OriginateSail(w) \/ SetSailUpdate(w)
  PROVE  [Book!Write]_Book!book
<1> DEFINE P == [e \in Ducks |-> [life |-> duck[e].life, photo |-> duck[e].photo]]
<1>0. PICK d : d = req[w].duck
  OBVIOUS
<1>1. d \in Ducks
  BY <1>0, RequestShape
  DEF TypeOK, OriginateSail, SetSailUpdate, SailStep, At, OriginateReq, SailReq
<1>2. UNCHANGED <<userRows, sightings, comments, follows, notifications, objects>>
  BY DEF OriginateSail, SetSailUpdate, SailStep, store
<1>3. CASE duck[d].life # "Staged"
  <2>1. duck' = duck
    BY <1>0, <1>3 DEF OriginateSail, SetSailUpdate, SailStep, SetSail
  <2> QED BY <1>2, <2>1, SameBook
<1>4. CASE duck[d].life = "Staged"
  <2>1. duck' = [duck EXCEPT ![d].life = "Sailing"]
    BY <1>0, <1>4 DEF OriginateSail, SetSailUpdate, SailStep, SetSail
  <2>2. /\ duck'[d].life = "Sailing" /\ duck'[d].photo = duck[d].photo
        /\ \A e \in Ducks \ {d} : duck'[e] = duck[e]
    BY <1>1, <2>1 DEF TypeOK, TablesTypeOK, DuckRow
  <2>3. RowKeys' = RowKeys
    BY <1>2, <2>2 DEF RowKeys, Keys
  <2>4. P' = [P EXCEPT ![d].life = "Sailing"] /\ P[d].life = "Staged"
    BY <1>1, <1>4, <2>2
  <2>5. Book!Launch(d)
    BY <1>2, <2>3, <2>4, PicturesAreRowKeys DEF Book!Launch
  <2> QED BY <1>1, <2>5 DEF Book!Write
<1> QED BY <1>3, <1>4

\* The duck of a request that checked it and finds its row is sailing.
LEMMA StillSailing ==
  ASSUME RowInv, NEW w \in Workers, Exists(req[w].duck),
         req[w].pc \in {"logCommit", "addComment", "follow"}
  PROVE  duck[req[w].duck].life = "Sailing"
  BY DEF RowInv, ResolvedStaysSailing, Exists

\* A log transaction enters its find when it commits.
LEMMA CommitFinds ==
  ASSUME TypeOK, PhotoInv, PhotoInv', RowInv, NEW w \in Workers, LogCommit(w)
  PROVE  Book!Write
<1> DEFINE s == [id |-> req[w].id, duck |-> req[w].duck, user |-> req[w].user, photo |-> req[w].key]
           N == req[w].notify
           P == [e \in Ducks |-> [life |-> duck[e].life, photo |-> duck[e].photo]]
<1>1. /\ s.id = req[w].id /\ s.duck = req[w].duck /\ s.user = req[w].user /\ s.photo = req[w].key
      /\ s.duck \in Ducks /\ s.photo \in Nat
  BY RequestShape DEF LogCommit, At, TypeOK, LogReq
<1>2. /\ sightings' = sightings \cup {s}
      /\ notifications' = notifications \cup
           {[user |-> u, duck |-> s.duck, sighting |-> s.id, read |-> FALSE] : u \in N}
      /\ follows' \in {follows, follows \cup {<<s.user, s.duck>>}}
      /\ UNCHANGED <<userRows, duck, comments, objects>>
  BY DEF LogCommit, LogSighting, Follow, store
<1>l. <<s.user, s.duck>> \in follows' \cup LeftMeanwhile
  BY <1>1 DEF LogCommit, LogSighting, Follow, LeftMeanwhile
<1>3. /\ s.user \in userRows /\ duck[s.duck].life = "Sailing"
      /\ \A t \in sightings : t.id # s.id
      /\ N \subseteq userRows \ {s.user}
  BY <1>1, StillSailing DEF LogCommit, At, RowInv, OpenLogsLock, ForeignKeysOK
<1>4. s.photo = NoKey \/ s.photo \notin RowKeys
  BY <1>1 DEF LogCommit, At, PhotoInv, CarriedKeysPrivate, Carried, RowKeys, Keys
<1>5. N \in SUBSET Users
  BY <1>3 DEF TypeOK, TablesTypeOK
<1> HIDE DEF s, N
<1>6. RowKeys' = RowKeys \cup ({s.photo} \ {NoKey})
  BY <1>2 DEF RowKeys, Keys
<1>7. P' = P /\ P[s.duck].life = "Sailing"
  BY <1>1, <1>2, <1>3
<1> HIDE DEF P
<1>8. Book!Find(s, N)
  BY <1>2, <1>l, <1>3, <1>4, <1>6, <1>7, PicturesAreRowKeys DEF Book!Find, Book!Fresh, Book!Sailing, P
<1> QED BY <1>2, <1>5, <1>8 DEF Book!Write

\* A comment or a follow that its foreign keys let in is one of the book.
LEMMA InsertsEnter ==
  ASSUME TypeOK, PhotoInv, PhotoInv', RowInv, BookInv, NEW w \in Workers,
         CommentInsert(w) \/ FollowInsert(w)
  PROVE  [Book!Write]_Book!book
<1> DEFINE P == [e \in Ducks |-> [life |-> duck[e].life, photo |-> duck[e].photo]]
<1>0. PICK u, d : u = req[w].user /\ d = req[w].duck
  OBVIOUS
<1>1. u \in Users /\ d \in Ducks
  BY <1>0, RequestShape DEF TypeOK, CommentInsert, FollowInsert, At, InteractReq
<1>2. UNCHANGED <<userRows, duck, sightings, notifications, objects>>
  BY DEF CommentInsert, FollowInsert, store
<1>3. UNCHANGED <<P, RowKeys>>
  BY <1>2 DEF RowKeys, Keys
<1>4. CASE ~ForeignKeysOK(u, d)
  <2>1. UNCHANGED <<comments, follows>>
    BY <1>0, <1>4 DEF CommentInsert, FollowInsert
  <2> QED BY <1>2, <2>1, SameBook
<1>5. CASE ForeignKeysOK(u, d)
  <2>1. u \in userRows /\ P[d].life = "Sailing"
    BY <1>0, <1>1, <1>5, StillSailing DEF ForeignKeysOK, CommentInsert, FollowInsert, At
  <2>2. CASE CommentInsert(w)
    <3>1. PICK c : c = [id |-> nextComment, duck |-> d, user |-> u]
      OBVIOUS
    <3>2. c.id = nextComment /\ c.duck = d /\ c.user = u
      BY <3>1
    <3>3. comments' = comments \cup {c} /\ UNCHANGED follows
      BY <1>0, <1>5, <2>2, <3>1 DEF CommentInsert, AddComment
    <3>4. \A b \in comments : b.id # c.id
      BY <3>2 DEF BookInv, TypeOK, TablesTypeOK, CommentRow
    <3>5. Book!Comment(c)
      BY <1>2, <1>3, <2>1, <3>2, <3>3, <3>4 DEF Book!Comment, Book!Sailing
    <3> QED BY <3>3, <3>5 DEF Book!Write
  <2>3. CASE FollowInsert(w)
    <3>1. follows' = follows \cup {<<u, d>>} /\ UNCHANGED comments
      BY <1>0, <1>5, <2>3 DEF FollowInsert, Follow
    <3>2. Book!Follow(u, d)
      BY <1>2, <1>3, <2>1, <3>1 DEF Book!Follow, Book!Sailing
    <3> QED BY <1>1, <3>2 DEF Book!Write
  <2> QED BY <2>2, <2>3
<1> QED BY <1>4, <1>5

\* An unfollow and the removal of a comment take one entry out, or none.
LEMMA RemovesLeave ==
  ASSUME TypeOK, PhotoInv, PhotoInv', BookInv, NEW w \in Workers,
         UnfollowDelete(w) \/ CommentDelete(w)
  PROVE  [Book!Write]_Book!book
<1> DEFINE P == [e \in Ducks |-> [life |-> duck[e].life, photo |-> duck[e].photo]]
<1>1. UNCHANGED <<userRows, duck, sightings, notifications, objects>>
  BY DEF UnfollowDelete, CommentDelete, store
<1>2. UNCHANGED <<P, RowKeys>>
  BY <1>1 DEF RowKeys, Keys
<1>3. CASE UnfollowDelete(w)
  <2>0. PICK u, d : u = req[w].user /\ d = req[w].duck
    OBVIOUS
  <2>1. u \in Users /\ d \in Ducks
    BY <1>3, <2>0, RequestShape DEF TypeOK, UnfollowDelete, At, InteractReq
  <2>2. follows' = follows \ {<<u, d>>} /\ UNCHANGED comments
    BY <1>3, <2>0 DEF UnfollowDelete, Unfollow
  <2>3. Book!Unfollow(u, d)
    BY <1>1, <1>2, <2>2 DEF Book!Unfollow
  <2> QED BY <2>1, <2>3 DEF Book!Write
<1>4. CASE CommentDelete(w)
  <2>1. comments' = {c \in comments : ~(c.id = req[w].id /\ c.duck = req[w].duck)} /\ UNCHANGED follows
    BY <1>4 DEF CommentDelete, DeleteComment
  <2>2. CASE \A c \in comments : ~(c.id = req[w].id /\ c.duck = req[w].duck)
    <3>1. UNCHANGED comments
      BY <2>1, <2>2
    <3> QED BY <1>1, <2>1, <3>1, SameBook
  <2>3. ASSUME NEW c \in comments, c.id = req[w].id, c.duck = req[w].duck
        PROVE  Book!Write
    <3>1. comments' = comments \ {c}
      BY <2>1, <2>3 DEF BookInv
    <3>2. Book!RemoveComment(c)
      BY <1>1, <1>2, <2>1, <3>1 DEF Book!RemoveComment
    <3> QED BY <3>2 DEF Book!Write
  <2> QED BY <2>2, <2>3
<1> QED BY <1>3, <1>4

\* A photo belongs to one row, so the rows that stay keep theirs.
LEMMA KeysLost ==
  ASSUME PhotoInv, NEW S, NEW D, D \subseteq Ducks,
         sightings' = sightings \ S, S \subseteq sightings,
         \A d \in D : duck'[d].photo = NoKey,
         \A d \in Ducks \ D : duck'[d].photo = duck[d].photo
  PROVE  RowKeys' = RowKeys \ ({s.photo : s \in S} \cup {duck[d].photo : d \in D})
  BY DEF PhotoInv, PhotoBelongsToOneRow, RowKeys, Keys

\* Taking a find off a duck takes its picture and the news of it.
LEMMA DeleteRemovesFind ==
  ASSUME TypeOK, PhotoInv, PhotoInv', RowInv, NEW w \in Workers, SightingDelete(w)
  PROVE  [Book!Write]_Book!book
<1> DEFINE P == [e \in Ducks |-> [life |-> duck[e].life, photo |-> duck[e].photo]]
<1>0. PICK i, d : i = req[w].id /\ d = req[w].duck
  OBVIOUS
<1>1. d \in Ducks
  BY <1>0, RequestShape DEF TypeOK, SightingDelete, At, RemoveReq
<1>2. PICK S : S = {s \in sightings : s.id = i /\ s.duck = d}
  OBVIOUS
<1>3. /\ sightings' = sightings \ S
      /\ notifications' = {n \in notifications : n.sighting # i}
      /\ UNCHANGED <<userRows, duck, comments, follows, objects>>
  BY <1>0, <1>2 DEF SightingDelete, DeleteSighting, SightingsToDelete, store
<1>4. CASE \A s \in sightings : s.id # i
  <2>1. UNCHANGED <<sightings, notifications>>
    BY <1>2, <1>3, <1>4 DEF RowInv, ReferentialIntegrity
  <2> QED BY <1>3, <2>1, SameBook
<1>5. ASSUME NEW t \in sightings, t.id = i
      PROVE  Book!Write
  <2>1. RowKeys' = RowKeys \ ({s.photo : s \in S} \cup {duck[e].photo : e \in {}})
    BY <1>2, <1>3, KeysLost
  <2>2. RowKeys' = RowKeys \ ({s.photo : s \in S} \cup {P[e].photo : e \in {}})
    BY <2>1
  <2>3. P' = [e \in Ducks |-> IF e \in {} THEN [life |-> "Gone", photo |-> NoKey] ELSE P[e]]
    BY <1>3
  <2>4. Book!Lose(S, {})
    BY <1>3, <2>2, <2>3, PicturesAreRowKeys DEF Book!Lose
  <2>5. Book!RemoveFind(i, d)
    BY <1>2, <1>3, <2>4 DEF Book!RemoveFind
  <2> QED BY <1>1, <1>5, <2>5 DEF Book!Write
<1> QED BY <1>4, <1>5

\* delete_flock erases the flock from the book.
LEMMA DeleteErasesFlock ==
  ASSUME TypeOK, PhotoInv, PhotoInv', NEW w \in Workers, DeleteFlockCommit(w)
  PROVE  Book!Write
<1> DEFINE P == [e \in Ducks |-> [life |-> duck[e].life, photo |-> duck[e].photo]]
<1>0. PICK f : f = req[w].flock
  OBVIOUS
<1>1. f \in Flocks
  BY <1>0, RequestShape DEF TypeOK, DeleteFlockCommit, At, DeleteFlockReq
<1>2. PICK S, D : S = {s \in sightings : FlockOf[s.duck] = f} /\ D = {d \in Ducks : FlockOf[d] = f}
  OBVIOUS
<1>3. /\ notifications' = {n \in notifications : FlockOf[n.duck] # f}
      /\ follows' = {p \in follows : FlockOf[p[2]] # f}
      /\ comments' = {c \in comments : FlockOf[c.duck] # f}
      /\ sightings' = sightings \ S
      /\ duck' = [d \in Ducks |-> IF d \in D THEN GoneRow ELSE duck[d]]
      /\ UNCHANGED <<userRows, objects>>
  BY <1>0, <1>2 DEF DeleteFlockCommit, DeleteFlock, FlockSightings, store
<1>4. /\ \A d \in D : duck'[d].photo = NoKey /\ duck'[d].life = "Gone"
      /\ \A d \in Ducks \ D : duck'[d] = duck[d]
  BY <1>2, <1>3 DEF GoneRow
<1>5. RowKeys' = RowKeys \ ({s.photo : s \in S} \cup {P[d].photo : d \in D})
  <2>1. RowKeys' = RowKeys \ ({s.photo : s \in S} \cup {duck[d].photo : d \in D})
    BY <1>2, <1>3, <1>4, KeysLost
  <2> QED BY <1>2, <2>1
<1>6. P' = [d \in Ducks |-> IF d \in D THEN [life |-> "Gone", photo |-> NoKey] ELSE P[d]]
  BY <1>2, <1>4
<1>7. Book!Lose(S, D)
  BY <1>3, <1>5, <1>6, PicturesAreRowKeys DEF Book!Lose
<1>8. Book!EraseFlock(f)
  BY <1>2, <1>3, <1>7 DEF Book!EraseFlock
<1> QED BY <1>1, <1>8 DEF Book!Write

\* delete_user erases a user who is no admin from the book, or does nothing.
LEMMA DeleteErasesUser ==
  ASSUME TypeOK, PhotoInv, PhotoInv', NEW w \in Workers, DeleteUserCommit(w)
  PROVE  [Book!Write]_Book!book
<1> DEFINE P == [e \in Ducks |-> [life |-> duck[e].life, photo |-> duck[e].photo]]
<1>0. PICK u : u = req[w].target
  OBVIOUS
<1>1. u \in Users
  BY <1>0, RequestShape DEF TypeOK, DeleteUserCommit, At, DeleteUserReq
<1>2. CASE u \notin userRows \ Admins
  BY <1>0, <1>2, SameBook DEF DeleteUserCommit
<1>3. CASE u \in userRows \ Admins
  <2>1. PICK S, D : /\ S = {s \in sightings : s.user = u \/ OwnerOf[FlockOf[s.duck]] = u}
                    /\ D = {d \in Ducks : OwnerOf[FlockOf[d]] = u}
    OBVIOUS
  <2>2. /\ notifications' = {n \in notifications :
                               /\ n.user # u /\ OwnerOf[FlockOf[n.duck]] # u
                               /\ \A s \in sightings : s.id = n.sighting => s.user # u}
        /\ follows' = {p \in follows : p[1] # u /\ OwnerOf[FlockOf[p[2]]] # u}
        /\ comments' = {c \in comments : c.user # u /\ OwnerOf[FlockOf[c.duck]] # u}
        /\ sightings' = sightings \ S
        /\ duck' = [d \in Ducks |-> IF d \in D THEN GoneRow ELSE duck[d]]
        /\ userRows' = userRows \ {u}
        /\ UNCHANGED objects
    BY <1>0, <1>3, <2>1 DEF DeleteUserCommit, DeleteUser, UserSightings, Owner, store
  <2>3. /\ \A d \in D : duck'[d].photo = NoKey /\ duck'[d].life = "Gone"
        /\ \A d \in Ducks \ D : duck'[d] = duck[d]
    BY <2>1, <2>2 DEF GoneRow
  <2>4. RowKeys' = RowKeys \ ({s.photo : s \in S} \cup {P[d].photo : d \in D})
    <3>1. RowKeys' = RowKeys \ ({s.photo : s \in S} \cup {duck[d].photo : d \in D})
      BY <2>1, <2>2, <2>3, KeysLost
    <3> QED BY <2>1, <3>1
  <2>5. P' = [d \in Ducks |-> IF d \in D THEN [life |-> "Gone", photo |-> NoKey] ELSE P[d]]
    BY <2>1, <2>3
  <2>6. Book!Lose(S, D)
    BY <2>2, <2>4, <2>5, PicturesAreRowKeys DEF Book!Lose
  <2>7. Book!EraseUser(u)
    BY <1>3, <2>1, <2>2, <2>6 DEF Book!EraseUser
  <2> QED BY <1>1, <2>7 DEF Book!Write
<1> QED BY <1>2, <1>3

\* Every step of a request is a step of the book or invisible in it.
LEMMA BookStep ==
  ASSUME TypeOK, PhotoInv, RowInv, BookInv, [Next]_vars
  PROVE  [Book!Write]_Book!book
<1>0. PhotoInv'
  BY PhotoStep
<1>1. ASSUME UNCHANGED tables
      PROVE  UNCHANGED Book!book
  BY <1>0, <1>1, SameBook DEF tables
<1>2. ASSUME NEW w \in Workers, Arrive(w) \/ Abandon(w)
      PROVE  UNCHANGED tables
  BY <1>2
  DEF Arrive, Abandon, Originate, SetSailing, LogWithPhoto, LogWithoutPhoto, Comment,
      FollowRequest, UnfollowRequest, DeleteOrRestore, LockOrUnlock, RemoveCommentRequest,
      RemoveSightingRequest, DeleteFlockSelect, DeleteUserSelect
<1>3. ASSUME NEW w \in Workers,
             PutOriginPhoto(w) \/ PutSightingPhoto(w) \/ \E key : CleanupPhoto(w, key)
      PROVE  UNCHANGED tables
  BY <1>3 DEF PutOriginPhoto, PutSightingPhoto, CleanupPhoto
<1>4. ASSUME NEW w \in Workers, LogInsert(w)
      PROVE  UNCHANGED Book!book
  BY <1>0, <1>4, SameBook DEF LogInsert
<1>5. ASSUME NEW w \in Workers, DeletedUpdate(w) \/ LockedUpdate(w)
      PROVE  UNCHANGED Book!book
  <2>1. \A d \in Ducks : duck'[d].life = duck[d].life /\ duck'[d].photo = duck[d].photo
    BY <1>5
    DEF DeletedUpdate, LockedUpdate, SetDeleted, SetCommentsLocked, TypeOK, TablesTypeOK, DuckRow
  <2> QED BY <1>0, <1>5, <2>1, SameBook DEF DeletedUpdate, LockedUpdate
<1>6. ASSUME NEW u \in Users, MarkNotificationsRead(u)
      PROVE  Book!Write
  <2>1. UNCHANGED <<userRows, duck, sightings, comments, follows, objects>>
    BY <1>6 DEF MarkNotificationsRead, store
  <2>2. RowKeys' = RowKeys
    BY <2>1 DEF RowKeys, Keys
  <2>3. Book!ReadNews(u)
    BY <1>6, <2>1, <2>2 DEF MarkNotificationsRead, MarkAllRead, Book!ReadNews
  <2> QED BY <2>3 DEF Book!Write
<1>7. CASE UNCHANGED vars
  BY <1>1, <1>7 DEF vars
<1>8. ASSUME NEW w \in Workers, Step(w)
      PROVE  [Book!Write]_Book!book
  BY <1>0, <1>1, <1>3, <1>4, <1>5, <1>8, StageDefines, SailLaunches, CommitFinds, InsertsEnter,
     RemovesLeave, DeleteRemovesFind, DeleteErasesFlock, DeleteErasesUser
  DEF Step
<1> QED BY <1>1, <1>2, <1>6, <1>7, <1>8 DEF Next

\* A finder whose follow an open log transaction counts on is a follower until
\* they unfollow: nobody else is counted as having left.
LEMMA LeavingStep ==
  ASSUME TypeOK, [Next]_vars
  PROVE  LeftMeanwhile' \ LeftMeanwhile \subseteq follows \ follows'
<1> DEFINE Counts(r) == r.pc = "logCommit" /\ ~r.joins
<1>1. ASSUME NEW w \in Workers, NEW r, req' = [req EXCEPT ![w] = r],
             Counts(r) => <<r.user, r.duck>> \in follows'
      PROVE  LeftMeanwhile' \ LeftMeanwhile \subseteq follows \ follows'
  <2>1. req'[w] = r /\ \A v \in Workers \ {w} : req'[v] = req[v]
    BY <1>1, ReqStep
  <2> QED BY <1>1, <2>1 DEF LeftMeanwhile, At
<1>2. ASSUME NEW w \in Workers, NEW r, req' = [req EXCEPT ![w] = r], r.pc # "logCommit"
      PROVE  LeftMeanwhile' \ LeftMeanwhile \subseteq follows \ follows'
  BY <1>1, <1>2
<1>3. ASSUME NEW w \in Workers, LogInsert(w)
      PROVE  LeftMeanwhile' \ LeftMeanwhile \subseteq follows \ follows'
  <2>1. req[w] \in LogReq /\ UNCHANGED follows
    BY <1>3, RequestShape DEF TypeOK, LogInsert, At
  <2> DEFINE r == [req[w] EXCEPT !.pc = "logCommit", !.id = nextSighting,
                                 !.notify = Followers(req[w].duck, req[w].user),
                                 !.joins = <<req[w].user, req[w].duck>> \notin follows]
  <2>2. ~r.joins => <<r.user, r.duck>> \in follows
    BY <2>1 DEF LogReq
  <2>3. req' = [req EXCEPT ![w] = r] \/ req' = [req EXCEPT ![w] = Idle]
    BY <1>3 DEF LogInsert, Reply
  <2>4. Idle.pc # "logCommit"
    BY DEF Idle
  <2> HIDE DEF r
  <2> QED BY <1>1, <1>2, <2>1, <2>2, <2>3, <2>4
<1>4. ASSUME NEW w \in Workers, Arrive(w)
      PROVE  \E r : req' = [req EXCEPT ![w] = r] /\ r.pc # "logCommit"
  <2>1. ASSUME NEW r, NEW op, Start(w, op, r), r.pc # "logCommit"
        PROVE  \E q : req' = [req EXCEPT ![w] = q] /\ q.pc # "logCommit"
    BY <2>1 DEF Start
  <2>2. ASSUME NEW d \in Ducks, NEW sail, Originate(w, d, sail) \/ SetSailing(w, d)
        PROVE  \E r : req' = [req EXCEPT ![w] = r] /\ r.pc # "logCommit"
    BY <2>1, <2>2 DEF Originate, SetSailing
  <2>3. ASSUME NEW u, NEW d,
               \/ LogWithPhoto(w, u, d) \/ LogWithoutPhoto(w, u, d) \/ Comment(w, u, d)
               \/ FollowRequest(w, u, d) \/ UnfollowRequest(w, u, d)
        PROVE  \E r : req' = [req EXCEPT ![w] = r] /\ r.pc # "logCommit"
    BY <2>1, <2>3 DEF LogWithPhoto, LogWithoutPhoto, Comment, FollowRequest, UnfollowRequest
  <2>4. ASSUME NEW u, NEW d, NEW x,
               \/ DeleteOrRestore(w, u, d, x) \/ LockOrUnlock(w, u, d, x)
               \/ RemoveCommentRequest(w, u, d, x) \/ RemoveSightingRequest(w, u, d, x)
        PROVE  \E r : req' = [req EXCEPT ![w] = r] /\ r.pc # "logCommit"
    BY <2>1, <2>4 DEF DeleteOrRestore, LockOrUnlock, RemoveCommentRequest, RemoveSightingRequest
  <2>5. ASSUME NEW x, NEW y, DeleteFlockSelect(w, x) \/ DeleteUserSelect(w, x, y)
        PROVE  \E r : req' = [req EXCEPT ![w] = r] /\ r.pc # "logCommit"
    BY <2>1, <2>5 DEF DeleteFlockSelect, DeleteUserSelect
  <2> QED BY <1>4, <2>2, <2>3, <2>4, <2>5 DEF Arrive
<1>5. ASSUME NEW w \in Workers, Step(w) \/ Abandon(w), ~LogInsert(w)
      PROVE  \E r : req' = [req EXCEPT ![w] = r] /\ r.pc # "logCommit"
  <2>1. Idle.pc # "logCommit" /\ \A K : [pc |-> "cleanup", keys |-> K].pc # "logCommit"
    BY DEF Idle
  <2>2. CASE PutOriginPhoto(w) \/ OriginateStage(w) \/ PutSightingPhoto(w)
    <3>1. \A p \in {"stage", "stageSail", "log"} : [req[w] EXCEPT !.pc = p].pc = p
      BY <2>2, RequestShape
      DEF TypeOK, PutOriginPhoto, OriginateStage, PutSightingPhoto, At, OriginateReq, LogReq
    <3> QED BY <2>1, <2>2, <3>1 DEF PutOriginPhoto, OriginateStage, PutSightingPhoto, Goto, Reply
  <2>3. ASSUME NEW key, CleanupPhoto(w, key)
        PROVE  \E r : req' = [req EXCEPT ![w] = r] /\ r.pc # "logCommit"
    <3>1. [req[w] EXCEPT !.keys = req[w].keys \ {key}].pc = "cleanup"
      BY <2>3, RequestShape DEF TypeOK, CleanupPhoto, At, CleanupReq
    <3> QED BY <2>1, <2>3, <3>1 DEF CleanupPhoto, Reply
  <2>4. CASE \/ OriginateSail(w) \/ SetSailUpdate(w) \/ LogCommit(w) \/ CommentInsert(w)
             \/ FollowInsert(w) \/ UnfollowDelete(w) \/ DeletedUpdate(w) \/ LockedUpdate(w)
             \/ CommentDelete(w) \/ Abandon(w)
    BY <2>1, <2>4
    DEF OriginateSail, SetSailUpdate, SailStep, LogCommit, CommentInsert, FollowInsert,
        UnfollowDelete, DeletedUpdate, LockedUpdate, CommentDelete, Abandon, Reply
  <2>5. CASE SightingDelete(w) \/ DeleteFlockCommit(w) \/ DeleteUserCommit(w)
    BY <2>1, <2>5 DEF SightingDelete, DeleteFlockCommit, DeleteUserCommit, CleanupOrReply, Reply
  <2> QED BY <1>5, <2>2, <2>3, <2>4, <2>5 DEF Step
<1>6. CASE UNCHANGED req
  BY <1>6 DEF LeftMeanwhile, At
<1>7. ASSUME NEW u \in Users, MarkNotificationsRead(u)
      PROVE  UNCHANGED req
  BY <1>7 DEF MarkNotificationsRead
<1>8. UNCHANGED vars => UNCHANGED req
  BY DEF vars
<1> QED BY <1>2, <1>3, <1>4, <1>5, <1>6, <1>7, <1>8 DEF Next

\* Handlers that check before an await, write after it and clean up later, that
\* race and that die between two steps, together implement the book: every
\* picture it shows is there, and every write happens at one moment, when its
\* duck sails and its user exists.  A find makes its finder a follower, unless
\* they unfollowed after its transaction had found them following.
THEOREM VoyageImplementsLogbook == Spec => ImplementsLogbook
<1>1. Init => Book!Init
  <2> SUFFICES ASSUME Init PROVE Book!Init
    OBVIOUS
  <2>1. /\ userRows = Users /\ duck = [d \in Ducks |-> MintedRow]
        /\ sightings = {} /\ comments = {} /\ follows = {} /\ notifications = {}
    BY DEF Init, TablesInit
  <2>2. \A d \in Ducks : duck[d].life = "Allocated" /\ duck[d].photo = NoKey
    BY <2>1 DEF MintedRow
  <2>3. RowKeys = {}
    BY <2>1, <2>2 DEF RowKeys, Keys
  <2>4. LeftMeanwhile = {}
    BY DEF Init, LeftMeanwhile, At, Idle
  <2> QED BY <2>1, <2>2, <2>3, <2>4 DEF Book!Init
<1>2. TypeOK /\ PhotoInv /\ RowInv /\ BookInv /\ [Next]_vars => Book!Next
  BY BookStep, LeavingStep DEF Book!Next
<1> QED
  BY <1>1, <1>2, TypeCorrect, PhotoInvariant, RowInvariant, BookInvariant, PTL
  DEF Spec, ImplementsLogbook, Book!Spec
=============================================================================

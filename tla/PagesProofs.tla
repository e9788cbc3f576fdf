----------------------------- MODULE PagesProofs -----------------------------
(***************************************************************************)
(* Proofs about Pages, for any number of ducks, flocks, visitors and       *)
(* concurrent requests: pages change nothing, a form that a page offers    *)
(* stands until its duck changes, and counter and feed of the activity     *)
(* page differ only by what happened between the two.                      *)
(***************************************************************************)
EXTENDS Pages, DuckVoyageProofs

\* A step of a page leaves the rest alone, and any other step is one of DuckVoyage.
LEMMA PagesStep == [PagesNext]_pvars => [Next]_vars
  BY DEF PagesNext, pvars

\* A visitor writes nothing: with pages being read, duck.voyage still behaves as
\* DuckVoyage says, so that all that is proved of it holds beside Pages.
THEOREM PagesWriteNothing == PagesSpec => Spec
<1>1. PagesInit => Init
  BY DEF PagesInit
<1>2. QED
  BY <1>1, PagesStep, PTL DEF PagesSpec, Spec

-----------------------------------------------------------------------------
\* Types

LEMMA FormsOfDuck ==
  ASSUME NEW u, NEW d \in Ducks
  PROVE  DuckForms(u, d) \in SUBSET Forms
  BY DEF DuckForms, Forms

LEMMA ReadTypes ==
  ASSUME PagesTypeOK, Read
  PROVE  PagesTypeOK'
<1> USE DEF PagesTypeOK, Blank
<1>1. ASSUME NEW u \in Visitors \cap Users, MeNav(u)
      PROVE  PagesTypeOK'
  BY <1>1 DEF MeNav, MePage
<1>2. ASSUME NEW u \in Visitors \cap Users, FlocksPage(u)
      PROVE  PagesTypeOK'
  BY <1>2 DEF FlocksPage, FlockPages
<1>3. ASSUME NEW u \in Visitors, NEW d \in Ducks, DuckPage(u, d)
      PROVE  PagesTypeOK'
  <2>1. DuckForms(u, d) \X {d} \in SUBSET (Forms \X Ducks)
    BY FormsOfDuck
  <2>2. QED
    BY <1>3, <2>1 DEF DuckPage, DuckPages
<1>4. CASE MeFeed \/ Leave
  BY <1>4 DEF MeFeed, Leave
<1>5. CASE DuckHistory
  <2>1. page \in DuckPages
    BY <1>5 DEF DuckHistory, Showing, MePage, DuckPages, FlockPages
  <2>2. QED
    BY <1>5, <2>1 DEF DuckHistory, DuckPages, Forms
<1>6. CASE FlocksRendered
  <2>1. page \in FlockPages
    BY <1>6 DEF FlocksRendered, Showing, MePage, DuckPages, FlockPages
  <2>2. QED
    BY <1>6, <2>1 DEF FlocksRendered, FlockPages
<1>7. ASSUME NEW f \in Flocks, FlocksRows(f)
      PROVE  PagesTypeOK'
  <2>1. page \in FlockPages
    BY <1>7 DEF FlocksRows, Showing, MePage, DuckPages, FlockPages
  <2>2. QED
    BY <1>7, <2>1 DEF FlocksRows, FlockPages, DucksOfFlock, Forms
<1>8. QED
  BY <1>1, <1>2, <1>3, <1>4, <1>5, <1>6, <1>7 DEF Read

LEMMA WatchedTypes ==
  ASSUME PagesTypeOK, page' = Watched
  PROVE  PagesTypeOK'
<1>1. CASE page \in MePage
  BY <1>1 DEF PagesTypeOK, Watched, MePage
<1>2. CASE page \in DuckPages
  BY <1>2 DEF PagesTypeOK, Watched, DuckPages
<1>3. CASE page \in FlockPages
  BY <1>3 DEF PagesTypeOK, Watched, FlockPages
<1>4. CASE page = Blank
  BY <1>4 DEF PagesTypeOK, Watched, Blank
<1>5. QED
  BY <1>1, <1>2, <1>3, <1>4 DEF PagesTypeOK

\* Pages keep to their types.
THEOREM PagesTypeCorrect == PagesSpec => []PagesTypeOK
<1>1. PagesInit => PagesTypeOK
  BY DEF PagesInit, PagesTypeOK
<1>2. PagesTypeOK /\ [PagesNext]_pvars => PagesTypeOK'
  BY ReadTypes, WatchedTypes DEF PagesNext, pvars, PagesTypeOK
<1>3. QED
  BY <1>1, <1>2, PTL DEF PagesSpec

-----------------------------------------------------------------------------
\* Forms

\* What a handler checks of a duck is in the duck's row, and an account that is
\* gone does not come back.
LEMMA StandsByRow ==
  ASSUME NEW u, NEW op, NEW d, duck'[d] = duck[d], userRows' \subseteq userRows, Stands(u, op, d)
  PROVE  Stands(u, op, d)'
<1>1. DuckAccepts(u, op, d) => DuckAccepts(u, op, d)'
  BY DEF DuckAccepts, Resolve, ResolveAny, ResolveSailing, Exists, IsOwner, CanModerate, Owner
<1>2. QED
  BY <1>1 DEF Stands, Accepts

\* Accounts are only ever deleted.
LEMMA AccountsGo ==
  ASSUME Next
  PROVE  userRows' \subseteq userRows
<1>1. ASSUME NEW w \in Workers, Arrive(w) \/ Abandon(w)
      PROVE  userRows' = userRows
  BY <1>1
  DEF Arrive, Abandon, Originate, SetSailing, LogWithPhoto, LogWithoutPhoto, Comment,
      FollowRequest, UnfollowRequest, DeleteOrRestore, LockOrUnlock, RemoveCommentRequest,
      RemoveSightingRequest, DeleteFlockSelect, DeleteUserSelect, tables
<1>2. ASSUME NEW w \in Workers, Step(w), ~DeleteUserCommit(w)
      PROVE  userRows' = userRows
  BY <1>2
  DEF Step, PutOriginPhoto, OriginateStage, OriginateSail, SetSailUpdate, SailStep,
      PutSightingPhoto, LogInsert, LogCommit, CommentInsert, FollowInsert, UnfollowDelete,
      DeletedUpdate, LockedUpdate, CommentDelete, SightingDelete, DeleteFlockCommit,
      CleanupPhoto, tables
<1>3. ASSUME NEW w \in Workers, DeleteUserCommit(w)
      PROVE  userRows' \subseteq userRows
  BY <1>3 DEF DeleteUserCommit, DeleteUser
<1>4. ASSUME NEW u \in Users, MarkNotificationsRead(u)
      PROVE  userRows' = userRows
  BY <1>4 DEF MarkNotificationsRead
<1>5. QED
  BY <1>1, <1>2, <1>3, <1>4 DEF Next

\* What the duck page offers is what the handlers accept.
LEMMA DuckFormsPass ==
  ASSUME TypeOK, NEW u \in Visitors, NEW d \in Ducks,
         DuckPageOpens(u, d), NEW op \in DuckForms(u, d)
  PROVE  DuckAccepts(u, op, d)
<1>1. Resolve(d) /\ ResolveAny(d)
  BY DEF DuckPageOpens, Resolve
<1>2. CASE duck[d].life = "Allocated"
  BY <1>1, <1>2 DEF DuckForms, DuckPageOpens, DuckAccepts
<1>3. CASE duck[d].life = "Staged"
  BY <1>1, <1>3 DEF DuckForms, DuckPageOpens, DuckAccepts
<1>4. CASE duck[d].life = "Sailing"
  BY <1>1, <1>4 DEF DuckForms, DuckAccepts, ResolveSailing
<1>5. duck[d].life \in Lifecycles \ {"Gone"}
  BY <1>1 DEF TypeOK, TablesTypeOK, DuckRow, ResolveAny, Exists
<1>6. QED
  BY <1>2, <1>3, <1>4, <1>5 DEF Lifecycles

LEMMA DuckPageKind ==
  ASSUME PagesTypeOK, page.kind = "duck"
  PROVE  page \in DuckPages
  BY DEF PagesTypeOK, Blank, MePage, DuckPages, FlockPages

LEMMA FlockPageKind ==
  ASSUME PagesTypeOK, page.kind = "flocks"
  PROVE  page \in FlockPages
  BY DEF PagesTypeOK, Blank, MePage, DuckPages, FlockPages

\* A page read anew offers what is accepted now; what later statements add, the
\* row read first has allowed.
LEMMA ReadOffers ==
  ASSUME TypeOK, PagesTypeOK, OffersInv, Read, UNCHANGED vars
  PROVE  OffersInv'
<1>0. /\ \A u, op, d : Stands(u, op, d) => Stands(u, op, d)'
      /\ \A d : ResolveSailing(d) => ResolveSailing(d)'
  BY StandsByRow DEF vars, tables, ResolveSailing, Resolve, ResolveAny, Exists
<1>1. CASE page' = Blank
  BY <1>1 DEF OffersInv, OfferStands, Showing, Blank
<1>2. ASSUME NEW u \in Visitors \cap Users, MeNav(u)
      PROVE  OffersInv'
  BY <1>2 DEF MeNav, OffersInv, OfferStands, Showing
<1>3. ASSUME NEW u \in Visitors \cap Users, FlocksPage(u)
      PROVE  OffersInv'
  BY <1>3 DEF FlocksPage, OffersInv, OfferStands, Showing
<1>4. ASSUME NEW u \in Visitors, NEW d \in Ducks, DuckPage(u, d)
      PROVE  OffersInv'
  <2>1. \A op \in DuckForms(u, d) : Stands(u, op, d)'
    BY <1>0, <1>4, DuckFormsPass DEF DuckPage, Stands, Accepts
  <2>2. duck[d].life = "Sailing" => ResolveSailing(d)'
    BY <1>0, <1>4 DEF DuckPage, DuckPageOpens, ResolveSailing
  <2>3. /\ page'.kind = "duck" /\ page'.viewer = u /\ page'.duck = d
        /\ page'.forms = DuckForms(u, d) \X {d}
        /\ page'.pc = "history" => duck[d].life = "Sailing"
    BY <1>4 DEF DuckPage
  <2>4. QED
    BY <2>1, <2>2, <2>3 DEF OffersInv, OfferStands, Showing
<1>5. CASE DuckHistory
  <2>1. page \in DuckPages
    BY <1>5, DuckPageKind DEF DuckHistory, Showing
  <2>2. /\ page'.kind = "duck" /\ page'.pc = "rendered" /\ page'.viewer = page.viewer
        /\ page'.duck = page.duck /\ page'.changed = page.changed
    BY <1>5, <2>1 DEF DuckHistory, DuckPages
  <2>3. ASSUME NEW f \in page'.forms, f \notin page.forms
        PROVE  /\ f[1] \in {"delete_sighting", "delete_comment"} /\ f[2] = page.duck
               /\ CanModerate(page.viewer, page.duck)
    BY <1>5, <2>1, <2>3 DEF DuckHistory, DuckPages
  <2>4. page.duck \in page.changed \/ ResolveSailing(page.duck)
    BY <1>5 DEF OffersInv, DuckHistory
  <2>5. ASSUME NEW f \in page'.forms
        PROVE  f[2] \in page'.changed \/ Stands(page.viewer, f[1], f[2])'
    <3>1. CASE f \in page.forms
      BY <1>0, <2>1, <2>2, <3>1 DEF OffersInv, OfferStands, DuckPages
    <3>2. CASE f \notin page.forms
      <4>1. page.duck \in page.changed \/ Stands(page.viewer, f[1], f[2])
        BY <2>3, <2>4, <3>2 DEF Stands, Accepts, DuckAccepts, Signed
      <4>2. QED
        BY <1>0, <2>2, <2>3, <3>2, <4>1
    <3>3. QED
      BY <3>1, <3>2
  <2>6. QED
    BY <2>2, <2>5 DEF OffersInv, OfferStands, Showing
<1>6. CASE FlocksRendered
  <2>1. page \in FlockPages
    BY <1>6, FlockPageKind DEF FlocksRendered, Showing
  <2>2. QED
    BY <1>0, <1>6, <2>1 DEF FlocksRendered, FlockPages, OffersInv, OfferStands, Showing
<1>7. ASSUME NEW f \in Flocks, FlocksRows(f)
      PROVE  OffersInv'
  <2>1. page \in FlockPages
    BY <1>7, FlockPageKind DEF FlocksRows, Showing
  <2>2. /\ page'.kind = "flocks" /\ page'.viewer = page.viewer
        /\ page'.todo = page.todo \ {f} /\ page'.changed = page.changed \ DucksOfFlock(f)
    BY <1>7, <2>1 DEF FlocksRows, FlockPages
  <2>3. ASSUME NEW g \in page'.forms, g \notin page.forms
        PROVE  g[1] = "restore_duck" /\ g[2] \in DucksOfFlock(f) /\ Exists(g[2])
    BY <1>7, <2>1, <2>3 DEF FlocksRows, FlockPages
  <2>4. f \in page.todo /\ OwnerOf[f] = page.viewer
    BY <1>7 DEF FlocksRows, Showing, OffersInv
  <2>5. ASSUME NEW g \in page'.forms
        PROVE  /\ g[2] \in page'.changed \/ Stands(page.viewer, g[1], g[2])'
               /\ \A e \in page'.todo : FlockOf[g[2]] # e
    <3>1. CASE g \in page.forms
      <4>1. FlockOf[g[2]] # f
        BY <2>1, <2>4, <3>1 DEF OffersInv, FlockPages
      <4>2. g[2] \in page.changed => g[2] \in page'.changed
        BY <2>2, <4>1 DEF DucksOfFlock
      <4>3. QED
        BY <1>0, <2>1, <2>2, <3>1, <4>2 DEF OffersInv, OfferStands, FlockPages
    <3>2. CASE g \notin page.forms
      <4>1. FlockOf[g[2]] = f /\ CanModerate(page.viewer, g[2]) /\ ResolveAny(g[2])
        BY <2>3, <2>4, <3>2 DEF DucksOfFlock, CanModerate, Owner, ResolveAny
      <4>2. Stands(page.viewer, g[1], g[2])
        BY <2>3, <3>2, <4>1 DEF Stands, Accepts, DuckAccepts, Signed
      <4>3. QED
        BY <1>0, <2>2, <4>1, <4>2
    <3>3. QED
      BY <3>1, <3>2
  <2>6. \A e \in page'.todo : OwnerOf[e] = page'.viewer
    BY <2>1, <2>2 DEF OffersInv, FlockPages
  <2>7. QED
    BY <2>2, <2>5, <2>6 DEF OffersInv, OfferStands, Showing
<1>8. QED
  BY <1>1, <1>2, <1>3, <1>4, <1>5, <1>6, <1>7 DEF Read, MeFeed, Leave

\* A write under a page is entered into the page's history if it touches a duck.
LEMMA WriteOffers ==
  ASSUME PagesTypeOK, OffersInv, page' = Watched, userRows' \subseteq userRows
  PROVE  OffersInv'
<1>1. CASE page.kind \notin {"duck", "flocks"}
  <2>1. page'.kind \notin {"duck", "flocks"}
    BY <1>1 DEF PagesTypeOK, Blank, MePage, DuckPages, FlockPages, Watched
  <2>2. QED
    BY <2>1 DEF OffersInv, OfferStands, Showing
<1>2. CASE page.kind \in {"duck", "flocks"}
  <2>1. page' = [page EXCEPT !.changed = @ \cup {d \in Ducks : duck'[d] # duck[d]}]
    BY <1>2 DEF Watched
  <2>2. page \in DuckPages \/ page \in FlockPages
    BY <1>2, DuckPageKind, FlockPageKind
  <2>3. ASSUME NEW f \in page.forms
        PROVE  f[2] \in page'.changed \/ Stands(page.viewer, f[1], f[2])'
    <3>1. f[2] \in Ducks /\ (f[2] \in page.changed \/ Stands(page.viewer, f[1], f[2]))
      BY <1>2, <2>2 DEF OffersInv, OfferStands, DuckPages, FlockPages
    <3>2. QED
      BY <2>1, <2>2, <3>1, StandsByRow DEF DuckPages, FlockPages
  <2>4. CASE page \in DuckPages
    <3>1. /\ page'.kind = "duck" /\ page'.viewer = page.viewer /\ page'.forms = page.forms
          /\ page'.pc = page.pc /\ page'.duck = page.duck
          /\ page'.changed = page.changed \cup {d \in Ducks : duck'[d] # duck[d]}
      BY <2>1, <2>4 DEF DuckPages
    <3>2. Showing("duck", "history") => page.duck \in page'.changed \/ ResolveSailing(page.duck)'
      BY <2>4, <3>1 DEF DuckPages, OffersInv, ResolveSailing, Resolve, ResolveAny, Exists
    <3>3. QED
      BY <2>3, <2>4, <3>1, <3>2 DEF OffersInv, OfferStands, Showing, DuckPages
  <2>5. CASE page \in FlockPages
    <3>1. /\ page'.kind = "flocks" /\ page'.viewer = page.viewer /\ page'.forms = page.forms
          /\ page'.todo = page.todo
      BY <2>1, <2>5 DEF FlockPages
    <3>2. QED
      BY <2>3, <2>5, <3>1 DEF OffersInv, OfferStands, Showing, FlockPages
  <2>6. QED
    BY <2>2, <2>4, <2>5
<1>3. QED
  BY <1>1, <1>2

\* The inductive invariant of the forms.
THEOREM OffersInvariant == PagesSpec => []OffersInv
<1>1. PagesInit => OffersInv
  BY DEF PagesInit, OffersInv, OfferStands, Showing, Blank
<1>2. TypeOK /\ PagesTypeOK /\ OffersInv /\ [PagesNext]_pvars => OffersInv'
  <2>1. SUFFICES ASSUME TypeOK, PagesTypeOK, OffersInv, [PagesNext]_pvars
                 PROVE  OffersInv'
    OBVIOUS
  <2>2. CASE Read /\ UNCHANGED vars
    BY <2>1, <2>2, ReadOffers
  <2>3. CASE Next /\ page' = Watched
    BY <2>1, <2>3, AccountsGo, WriteOffers
  <2>4. CASE UNCHANGED pvars
    <3>1. \A u, op, d : Stands(u, op, d) => Stands(u, op, d)'
      BY <2>4, StandsByRow DEF pvars, vars, tables
    <3>2. \A d : ResolveSailing(d) => ResolveSailing(d)'
      BY <2>4 DEF pvars, vars, tables, ResolveSailing, Resolve, ResolveAny, Exists
    <3>3. QED
      BY <2>1, <2>4, <3>1, <3>2 DEF pvars, OffersInv, OfferStands, Showing
  <2>5. QED
    BY <2>1, <2>2, <2>3, <2>4 DEF PagesNext
<1>3. QED
  BY <1>1, <1>2, PagesWriteNothing, TypeCorrect, PagesTypeCorrect, PTL DEF PagesSpec

\* What the pages offer about a duck and what the handlers check agree: such a
\* form is refused only if the duck changed after the page read it, or for want
\* of the account in whose name it writes.
THEOREM OffersStand == PagesSpec => []OfferStands
<1>1. OffersInv => OfferStands
  BY DEF OffersInv
<1>2. QED
  BY <1>1, OffersInvariant, PTL
-----------------------------------------------------------------------------
\* The counter and the feed

LEMMA MePageKind ==
  ASSUME PagesTypeOK, page.kind = "me"
  PROVE  page \in MePage
  BY DEF PagesTypeOK, Blank, MePage, DuckPages, FlockPages

\* The page's history records every row that goes or comes unread.
LEMMA WriteBadge ==
  ASSUME PagesTypeOK, BadgeInv, page' = Watched
  PROVE  BadgeInv'
<1>1. CASE page.kind # "me"
  BY <1>1 DEF PagesTypeOK, Blank, MePage, DuckPages, FlockPages, Watched, BadgeInv
<1>2. CASE page.kind = "me"
  <2>1. page \in MePage
    BY <1>2, MePageKind
  <2>2. /\ page'.kind = "me" /\ page'.viewer = page.viewer /\ page'.counted = page.counted
        /\ page'.lost = (page.lost \/ \E n \in notifications \ notifications' : n.user = page.viewer)
        /\ page'.came = (page.came \/ \E n \in notifications' \ notifications :
                                        n.user = page.viewer /\ ~n.read)
    BY <1>2, <2>1 DEF Watched, MePage
  <2>3. ASSUME Unread(page.viewer)' # {}, ~page.counted
        PROVE  page'.came
    <3>1. PICK n \in notifications' : n.user = page'.viewer /\ ~n.read
      BY <2>3 DEF Unread
    <3>2. CASE n \in notifications
      BY <1>2, <2>2, <2>3, <3>1, <3>2 DEF BadgeInv, Unread
    <3>3. CASE n \notin notifications
      BY <2>2, <3>1, <3>3
    <3>4. QED
      BY <3>2, <3>3
  <2>4. ASSUME Unread(page.viewer)' = {}, page.counted
        PROVE  page'.lost
    <3>1. CASE Unread(page.viewer) = {}
      BY <1>2, <2>2, <2>4, <3>1 DEF BadgeInv
    <3>2. CASE Unread(page.viewer) # {}
      <4>1. PICK n \in notifications : n.user = page.viewer /\ ~n.read
        BY <3>2 DEF Unread
      <4>2. n \notin notifications'
        BY <2>2, <2>4, <4>1 DEF Unread
      <4>3. QED
        BY <2>2, <4>1, <4>2
    <3>3. QED
      BY <3>1, <3>2
  <2>5. QED
    BY <2>2, <2>3, <2>4 DEF BadgeInv
<1>3. QED
  BY <1>1, <1>2

\* The inductive invariant of the counter.
THEOREM BadgeInvariant == PagesSpec => []BadgeInv
<1>1. PagesInit => BadgeInv
  BY DEF PagesInit, BadgeInv, Blank
<1>2. PagesTypeOK /\ BadgeInv /\ [PagesNext]_pvars => BadgeInv'
  <2>1. SUFFICES ASSUME PagesTypeOK, BadgeInv, [PagesNext]_pvars
                 PROVE  BadgeInv'
    OBVIOUS
  <2>2. CASE Read /\ UNCHANGED vars
    <3>1. CASE \E u \in Visitors \cap Users : MeNav(u)
      <4>1. PICK u \in Visitors \cap Users : MeNav(u)
        BY <3>1
      <4>2. page'.viewer = u /\ page'.counted = (Unread(u) # {})
        BY <4>1 DEF MeNav
      <4>3. notifications' = notifications
        BY <2>2 DEF vars, tables
      <4>4. Unread(page.viewer)' = Unread(u)
        BY <4>2, <4>3 DEF Unread
      <4>5. QED
        BY <4>2, <4>4 DEF BadgeInv
    <3>2. CASE page'.kind # "me"
      BY <3>2 DEF BadgeInv
    <3>3. CASE MeFeed \/ Leave
      BY <3>2, <3>3 DEF MeFeed, Leave, Blank
    <3>4. CASE DuckHistory
      BY <2>1, <3>2, <3>4, DuckPageKind DEF DuckHistory, Showing, DuckPages
    <3>5. CASE FlocksRendered
      BY <2>1, <3>2, <3>5, FlockPageKind DEF FlocksRendered, Showing, FlockPages
    <3>6. CASE \E f \in Flocks : FlocksRows(f)
      BY <2>1, <3>2, <3>6, FlockPageKind DEF FlocksRows, Showing, FlockPages
    <3>7. CASE \E u \in Visitors, d \in Ducks : DuckPage(u, d)
      BY <3>2, <3>7 DEF DuckPage
    <3>8. CASE \E u \in Visitors \cap Users : FlocksPage(u)
      BY <3>2, <3>8 DEF FlocksPage
    <3>9. QED
      BY <2>2, <3>1, <3>3, <3>4, <3>5, <3>6, <3>7, <3>8 DEF Read
  <2>3. CASE Next /\ page' = Watched
    BY <2>1, <2>3, WriteBadge
  <2>4. CASE UNCHANGED pvars
    BY <2>1, <2>4 DEF pvars, vars, tables, BadgeInv, Unread
  <2>5. QED
    BY <2>1, <2>2, <2>3, <2>4 DEF PagesNext
<1>3. QED
  BY <1>1, <1>2, PagesTypeCorrect, PTL DEF PagesSpec

\* Counter and feed of the activity page contradict each other only if rows
\* came, were marked or went in between, or if the feed leaves unread rows out.
THEOREM BadgesExplained == PagesSpec => []BadgeExplained
<1>1. ASSUME NEW u, ShowsNew(u)
      PROVE  Unread(u) # {}
  BY <1>1 DEF ShowsNew, feed, Unread
<1>2. ASSUME NEW u, ~ShowsNew(u), Unread(u) # {}
      PROVE  Unread(u) \ feed(u, FeedLimit) # {}
  BY <1>2 DEF ShowsNew, Unread
<1>3. BadgeInv => BadgeExplained
  BY <1>1, <1>2 DEF BadgeInv, BadgeExplained
<1>4. QED
  BY <1>3, BadgeInvariant, PTL
=============================================================================

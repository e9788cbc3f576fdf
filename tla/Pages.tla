------------------------------- MODULE Pages --------------------------------
(***************************************************************************)
(* A visitor of duck.voyage while requests run: the pages that are put     *)
(* together from several statements, each of which sees the tables as they *)
(* are by then: the activity page, and the duck page and the flock         *)
(* dashboard with the forms they offer about a duck.  Pages write nothing, *)
(* so one visitor stands for all of them.                                  *)
(*                                                                         *)
(* What happens under a page is recorded in the page: changed, lost and    *)
(* came are history, the program does not keep them.                       *)
(***************************************************************************)
EXTENDS DuckVoyage

CONSTANTS
  Anonymous,         \* a visitor who is not logged in
  Visitors,          \* bound: whose pages are watched
  FeedLimit          \* rows of the activity feed (50)

ASSUME PagesAssumption ==
  /\ Anonymous \notin Users
  /\ Visitors \subseteq Users \cup {Anonymous}
  /\ FeedLimit \in Nat

VARIABLE page        \* what the visitor's browser waits for or shows

pvars == <<vars, page>>

Blank == [kind |-> "blank"]

\* The forms about one duck, on its page and on the flock dashboard.  The other
\* two of the dashboard, "Grab a new flock" and each flock's "mint codes", are not
\* among them: they are offered whatever the caps say, and the handlers of
\* FlockMint refuse them at a cap or for a flock that is full.
Forms == {"originate", "set_sail", "follow", "log_sighting", "comment", "lock_comments",
          "delete_duck", "restore_duck", "delete_sighting", "delete_comment"}

\* pc is the statement that comes next; a rendered page waits for the visitor.
MePage == [kind : {"me"}, viewer : Visitors \cap Users, counted : BOOLEAN,
           lost : BOOLEAN, came : BOOLEAN]
DuckPages == [kind : {"duck"}, viewer : Visitors, pc : {"history", "rendered"}, duck : Ducks,
              forms : SUBSET (Forms \X Ducks), changed : SUBSET Ducks]
FlockPages == [kind : {"flocks"}, viewer : Visitors, pc : {"rows", "rendered"},
               todo : SUBSET Flocks, forms : SUBSET (Forms \X Ducks), changed : SUBSET Ducks]

\* Every page keeps what its statements have read so far.
PagesTypeOK == page \in {Blank} \cup MePage \cup DuckPages \cup FlockPages

PagesInit == Init /\ page = Blank

Showing(kind, pc) == page.kind = kind /\ page.pc = pc

-----------------------------------------------------------------------------
\* The activity page: nav counts the unread rows, then feed lists the newest.

\* Fault: notifications about deleted ducks are not counted.
UnreadListed(u) == {n \in notifications : n.user = u /\ ~n.read /\ ~duck[n.duck].deleted}

\* What unread_count counts.
Unread(u) == {n \in notifications : n.user = u /\ ~n.read}

\* ORDER BY created_at DESC LIMIT n.  created_at is when the transaction began,
\* not when it committed.  The order of the sighting ids, drawn one await later,
\* stands for it; two finds entered at once may really be dated the other way
\* round, and the properties hold for either order.
feed(u, n) ==
  LET mine == {x \in notifications : x.user = u} IN
    {x \in mine : Cardinality({y \in mine : y.sighting > x.sighting}) < n}

MeNav(u) ==
  /\ page = Blank
  /\ page' = [kind |-> "me", viewer |-> u, counted |-> Unread(u) # {},
              lost |-> FALSE, came |-> FALSE]

\* An unread row of the feed is shown as "new"; "mark all read" is offered if
\* nav counted any.  The finds and follows listed below are not told apart.
ShowsNew(u) == \E n \in feed(u, FeedLimit) : ~n.read

MeFeed == page.kind = "me" /\ page' = Blank

-----------------------------------------------------------------------------
\* The duck page and the flock dashboard, and the forms on them

IsOwner(u, d) == u = Owner(d)

\* Who gets the page at all, and not a 404.
DuckPageOpens(u, d) == Resolve(d) /\ (duck[d].life = "Sailing" \/ IsOwner(u, d))

\* Fault: the comment form is shown although the comments are closed.
DuckFormsUnlocked(u, d) ==
  CASE duck[d].life = "Allocated" -> {"originate"}
    [] duck[d].life = "Staged" -> {"set_sail"}
    [] OTHER -> (IF u \in Users THEN {"follow", "log_sighting", "comment"} ELSE {})
                \cup (IF CanModerate(u, d) THEN {"lock_comments", "delete_duck"} ELSE {})

\* origination_form, staged and duck of views.rs: what the row decides.
DuckForms(u, d) ==
  CASE duck[d].life = "Allocated" -> {"originate"}
    [] duck[d].life = "Staged" -> {"set_sail"}
    [] OTHER -> (IF u \in Users THEN {"follow", "log_sighting"} ELSE {})
                \cup (IF u \in Users /\ ~duck[d].locked THEN {"comment"} ELSE {})
                \cup (IF CanModerate(u, d) THEN {"lock_comments", "delete_duck"} ELSE {})

DuckPage(u, d) ==
  /\ page = Blank
  /\ DuckPageOpens(u, d)
  /\ page' = [kind |-> "duck", viewer |-> u, duck |-> d,
              pc |-> IF duck[d].life = "Sailing" THEN "history" ELSE "rendered",
              forms |-> DuckForms(u, d) \X {d}, changed |-> {}]

\* Finds and comments, read after the row, with a form each for moderators.
DuckHistory ==
  /\ Showing("duck", "history")
  /\ LET d == page.duck
         removals == (IF \E s \in sightings : s.duck = d THEN {"delete_sighting"} ELSE {})
                     \cup (IF \E c \in comments : c.duck = d THEN {"delete_comment"} ELSE {})
     IN page' = [page EXCEPT !.pc = "rendered",
                   !.forms = @ \cup (IF CanModerate(page.viewer, d) THEN removals \X {d} ELSE {})]

\* for_owner, then one for_flock per flock.
FlocksPage(u) ==
  /\ page = Blank
  /\ page' = [kind |-> "flocks", viewer |-> u, pc |-> "rows",
              todo |-> {f \in Flocks : f \in flockRows /\ OwnerOf[f] = u}, forms |-> {}, changed |-> {}]

\* Deleted ducks are listed with a restore button.
FlocksRows(f) ==
  /\ Showing("flocks", "rows") /\ f \in page.todo
  /\ page' = [page EXCEPT !.todo = @ \ {f},
                !.forms = @ \cup ({"restore_duck"} \X {d \in DucksOfFlock(f) : Exists(d) /\ duck[d].deleted}),
                !.changed = @ \ DucksOfFlock(f)]

FlocksRendered ==
  /\ Showing("flocks", "rows") /\ page.todo = {}
  /\ page' = [page EXCEPT !.pc = "rendered"]

\* The conditions of the handlers the forms are posted to.
DuckAccepts(u, op, d) ==
  CASE op = "originate" -> Resolve(d) /\ IsOwner(u, d) /\ duck[d].life = "Allocated"
    [] op = "set_sail" -> Resolve(d) /\ IsOwner(u, d)
    [] op \in {"follow", "log_sighting"} -> ResolveSailing(d)
    [] op = "comment" -> ResolveSailing(d) /\ ~duck[d].locked
    [] op = "lock_comments" -> Resolve(d) /\ CanModerate(u, d)
    [] op \in {"delete_sighting", "delete_comment"} -> ResolveSailing(d) /\ CanModerate(u, d)
    [] op \in {"delete_duck", "restore_duck"} -> ResolveAny(d) /\ CanModerate(u, d)

\* The forms that write a row in the visitor's name (an unfollow, offered in the
\* place of a follow, only deletes one).  A session outlives its
\* account: then the foreign key refuses the row, and an error page answers.
Signed == {"follow", "log_sighting", "comment"}

\* With the foreign keys behind them: what passes is a request of DuckVoyage that
\* can get through, the rest is answered with an error page.
Accepts(u, op, d) ==
  /\ DuckAccepts(u, op, d)
  /\ op \in Signed => u \in userRows

\* Accepted, or refused for want of the visitor's account.
Stands(u, op, d) == Accepts(u, op, d) \/ (op \in Signed /\ u \notin userRows)

-----------------------------------------------------------------------------

\* The visitor goes on, or gives up waiting.
Leave == page # Blank /\ page' = Blank

Read ==
  \/ \E u \in Visitors \cap Users : MeNav(u) \/ FlocksPage(u)
  \/ \E u \in Visitors, d \in Ducks : DuckPage(u, d)
  \/ MeFeed \/ DuckHistory \/ FlocksRendered \/ Leave
  \/ \E f \in Flocks : FlocksRows(f)

\* What a write adds to the history of the page it happens under.
Watched ==
  CASE page.kind = "me" ->
         [page EXCEPT
            !.lost = @ \/ \E n \in notifications \ notifications' : n.user = page.viewer,
            !.came = @ \/ \E n \in notifications' \ notifications : n.user = page.viewer /\ ~n.read]
    [] page.kind \in {"duck", "flocks"} ->
         [page EXCEPT !.changed = @ \cup {d \in Ducks : duck'[d] # duck[d]}]
    [] OTHER -> page

PagesNext ==
  \/ Read /\ UNCHANGED vars
  \/ Next /\ page' = Watched

PagesSpec == PagesInit /\ [][PagesNext]_pvars

-----------------------------------------------------------------------------
\* Properties

\* What the pages offer about a duck and what the handlers check agree: such a
\* form is refused only if the duck changed after the page read it, or, if it is
\* one that writes in the visitor's name, because their account was deleted.
OfferStands ==
  page.kind \in {"duck", "flocks"} =>
    \A f \in page.forms : f[2] \in page.changed \/ Stands(page.viewer, f[1], f[2])

\* The counter and the feed of the activity page are two statements.  Whenever
\* the second runs, a "new" row without the button to mark it came in between;
\* a counter without a "new" row means that rows were marked or deleted in
\* between, or that the feed leaves some out: a find that began early and
\* committed late is dated behind others.
BadgeExplained ==
  page.kind = "me" =>
    /\ ShowsNew(page.viewer) /\ ~page.counted => page.came
    /\ page.counted /\ ~ShowsNew(page.viewer) =>
         page.lost \/ Unread(page.viewer) \ feed(page.viewer, FeedLimit) # {}

-----------------------------------------------------------------------------
\* Inductive strengthening

\* Why offers stand: a history is read of a duck that sailed, a flock is read
\* once, and only by its owner.
OffersInv ==
  /\ OfferStands
  /\ Showing("duck", "history") => page.duck \in page.changed \/ ResolveSailing(page.duck)
  /\ page.kind = "flocks" =>
       \A f \in page.todo :
         /\ OwnerOf[f] = page.viewer
         /\ \A g \in page.forms : FlockOf[g[2]] # f

\* Unread rows appear and go only as the page's history says.
BadgeInv ==
  page.kind = "me" =>
    /\ Unread(page.viewer) # {} /\ ~page.counted => page.came
    /\ Unread(page.viewer) = {} /\ page.counted => page.lost
=============================================================================

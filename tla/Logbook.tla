------------------------------- MODULE Logbook ------------------------------
(***************************************************************************)
(* What the handlers promise together, without requests, awaits or an      *)
(* object store: one book with a page for every duck, in which whatever    *)
(* has a picture shows it.  Every write is one step, and what it needs of  *)
(* the duck and of the user holds at that step.  A soft delete and a       *)
(* comment lock do not appear: a write admitted before one may follow it.  *)
(* DuckVoyage implements it.                                               *)
(***************************************************************************)
EXTENDS Naturals

CONSTANTS Users, Admins, Flocks, Ducks, FlockOf, OwnerOf, NoPicture

VARIABLES
  accounts,          \* the users there are
  pages,             \* the lifecycle and the picture of every duck
  finds,             \* the finds: id, duck, user and picture
  comments,          \* the comments: id, duck and user
  follows,           \* who follows which duck
  news,              \* the news: user, duck, find and whether it was read
  pictures,          \* the pictures that can be seen
  left               \* finders who unfollowed while their find was being entered

book == <<accounts, pages, finds, comments, follows, news, pictures>>

Init ==
  /\ accounts = Users
  /\ pages = [d \in Ducks |-> [life |-> "Allocated", photo |-> NoPicture]]
  /\ finds = {} /\ comments = {} /\ follows = {} /\ news = {} /\ pictures = {}
  /\ left = {}

Sailing(d) == pages[d].life = "Sailing"

\* A picture that nothing shows yet.
Fresh(k) == k \notin pictures

-----------------------------------------------------------------------------

\* A duck is described once, with a picture of its own.
Define(d, k) ==
  /\ pages[d].life = "Allocated"
  /\ k # NoPicture /\ Fresh(k)
  /\ pages' = [pages EXCEPT ![d] = [life |-> "Staged", photo |-> k]]
  /\ pictures' = pictures \cup {k}
  /\ UNCHANGED <<accounts, finds, comments, follows, news>>

Launch(d) ==
  /\ pages[d].life = "Staged"
  /\ pages' = [pages EXCEPT ![d].life = "Sailing"]
  /\ UNCHANGED <<accounts, finds, comments, follows, news, pictures>>

\* A find s of a sailing duck, by a user there is: the picture and the news of it
\* to some other users N there are come with it, and its finder follows the duck
\* unless they left it in the meantime.
Find(s, N) ==
  /\ s.user \in accounts /\ Sailing(s.duck)
  /\ \A t \in finds : t.id # s.id
  /\ s.photo = NoPicture \/ Fresh(s.photo)
  /\ N \subseteq accounts \ {s.user}
  /\ finds' = finds \cup {s}
  /\ news' = news \cup {[user |-> u, duck |-> s.duck, sighting |-> s.id, read |-> FALSE] : u \in N}
  /\ follows' \in {follows, follows \cup {<<s.user, s.duck>>}}
  /\ <<s.user, s.duck>> \in follows' \cup left
  /\ pictures' = pictures \cup ({s.photo} \ {NoPicture})
  /\ UNCHANGED <<accounts, pages, comments>>

Comment(c) ==
  /\ c.user \in accounts /\ Sailing(c.duck)
  /\ \A b \in comments : b.id # c.id
  /\ comments' = comments \cup {c}
  /\ UNCHANGED <<accounts, pages, finds, follows, news, pictures>>

Follow(u, d) ==
  /\ u \in accounts /\ Sailing(d)
  /\ follows' = follows \cup {<<u, d>>}
  /\ UNCHANGED <<accounts, pages, finds, comments, news, pictures>>

Unfollow(u, d) ==
  /\ follows' = follows \ {<<u, d>>}
  /\ UNCHANGED <<accounts, pages, finds, comments, news, pictures>>

ReadNews(u) ==
  /\ news' = {[n EXCEPT !.read = @ \/ n.user = u] : n \in news}
  /\ UNCHANGED <<accounts, pages, finds, comments, follows, pictures>>

RemoveComment(c) ==
  /\ comments' = comments \ {c}
  /\ UNCHANGED <<accounts, pages, finds, follows, news, pictures>>

\* The pictures go with the finds S and with the pages of the ducks D.
Lose(S, D) ==
  /\ finds' = finds \ S
  /\ pages' = [d \in Ducks |-> IF d \in D THEN [life |-> "Gone", photo |-> NoPicture] ELSE pages[d]]
  /\ pictures' = pictures \ ({s.photo : s \in S} \cup {pages[d].photo : d \in D})

\* A find is taken off one duck; news of its id go whatever duck they are about.
RemoveFind(id, d) ==
  /\ Lose({s \in finds : s.id = id /\ s.duck = d}, {})
  /\ news' = {n \in news : n.sighting # id}
  /\ UNCHANGED <<accounts, comments, follows>>

\* A flock goes with all that was written about its ducks.
EraseFlock(f) ==
  /\ Lose({s \in finds : FlockOf[s.duck] = f}, {d \in Ducks : FlockOf[d] = f})
  /\ comments' = {c \in comments : FlockOf[c.duck] # f}
  /\ follows' = {p \in follows : FlockOf[p[2]] # f}
  /\ news' = {n \in news : FlockOf[n.duck] # f}
  /\ UNCHANGED accounts

\* A user who is no admin goes with their ducks, all that was written about
\* those, and all that they wrote or that was written to them.
EraseUser(u) ==
  LET Own(d) == OwnerOf[FlockOf[d]] = u IN
  /\ u \in accounts \ Admins
  /\ accounts' = accounts \ {u}
  /\ Lose({s \in finds : s.user = u \/ Own(s.duck)}, {d \in Ducks : Own(d)})
  /\ comments' = {c \in comments : c.user # u /\ ~Own(c.duck)}
  /\ follows' = {p \in follows : p[1] # u /\ ~Own(p[2])}
  /\ news' = {n \in news : /\ n.user # u /\ ~Own(n.duck)
                           /\ \A s \in finds : s.id = n.sighting => s.user # u}

-----------------------------------------------------------------------------

Write ==
  \/ \E d \in Ducks : Launch(d) \/ \E k \in pictures' : Define(d, k)
  \/ \E s \in finds', N \in SUBSET Users : Find(s, N)
  \/ \E c \in comments' : Comment(c)
  \/ \E c \in comments : RemoveComment(c)
  \/ \E u \in Users, d \in Ducks : Follow(u, d) \/ Unfollow(u, d)
  \/ \E u \in Users : ReadNews(u) \/ EraseUser(u)
  \/ \E s \in finds, d \in Ducks : RemoveFind(s.id, d)
  \/ \E f \in Flocks : EraseFlock(f)

\* Nobody is counted as having left who was not following until this step.
Next ==
  /\ Write \/ UNCHANGED book
  /\ left' \ left \subseteq follows \ follows'

Spec == Init /\ [][Next]_<<book, left>>
=============================================================================

------------------------------ MODULE Listings ------------------------------
(***************************************************************************)
(* The front page and the missing page: the queries of DuckRepo and        *)
(* SightingRepo that rank ducks by their finds, and the writes that change *)
(* what they return.  A find is dated by its finder, within a window, so   *)
(* finds arrive in any order of the times they were seen at.               *)
(*                                                                         *)
(* A listing is the set of its rows: a cut of the order the query asks     *)
(* for, any one of them where the order leaves a tie.  A write is one step *)
(* (DuckHandlers cuts the handlers at their awaits); hard deletes, which   *)
(* take finds and ducks away together, are left out.                       *)
(***************************************************************************)
EXTENDS Integers, FiniteSets

CONSTANTS
  Ducks,             \* minted codes
  Vessels,           \* the vessels to choose from
  FrontPageLimit,    \* front_page_limit
  MissingAfter,      \* missing_after_days
  Backdate, Ahead,   \* how far back (60 days) and ahead (18 h) a find may lie
  MaxNow,            \* bound: the clock
  MaxSightings       \* bound: finds logged

ASSUME ListingsAssumption ==
  /\ {FrontPageLimit, MissingAfter, Backdate, Ahead, MaxSightings} \subseteq Nat
  /\ MaxNow \in Nat \ {0}

VARIABLES
  now,               \* the clock
  duck,              \* the duck table
  sightings,         \* the sighting table
  nextId             \* the identity sequence of sighting

vars == <<now, duck, sightings, nextId>>

DuckRow == [life : {"Allocated", "Staged", "Sailing"}, deleted : BOOLEAN]
SightingRow == [id : 1..MaxSightings, duck : Ducks, vessel : Vessels,
                seen : (1 - Backdate)..(MaxNow + Ahead)]

TypeOK ==
  /\ now \in 1..MaxNow
  /\ duck \in [Ducks -> DuckRow]
  /\ sightings \subseteq SightingRow
  /\ nextId \in 1..(MaxSightings + 1)

Init ==
  /\ now = 1
  /\ duck = [d \in Ducks |-> [life |-> "Allocated", deleted |-> FALSE]]
  /\ sightings = {} /\ nextId = 1

\* resolve, and what a visitor may open who does not own the duck.
Resolve(d) == ~duck[d].deleted
ResolveSailing(d) == Resolve(d) /\ duck[d].life = "Sailing"

-----------------------------------------------------------------------------
\* Queries

Finds(d) == {s \in sightings : s.duck = d}

Latest(T) == CHOOSE t \in T : \A x \in T : x <= t

\* Fault: the find that was logged last, not the one that was seen last.
LastLogged(d) ==
  LET s == CHOOSE s \in Finds(d) : \A t \in Finds(d) : t.id <= s.id IN s.seen

\* The LATERAL join: a duck's newest find by the time it was seen.
LastSeen(d) == Latest({s.seen : s \in Finds(d)})

\* Fault: without the condition on deleted_at.
AfloatDeletedToo == {d \in Ducks : Finds(d) # {}}

\* The ducks the join and WHERE deleted_at IS NULL leave over.
Afloat == {d \in Ducks : Finds(d) # {} /\ ~duck[d].deleted}

SightingCount(d) == Cardinality(Finds(d))
UniqueVessels(d) == Cardinality({s.vessel : s \in Finds(d)})

\* ORDER BY ... LIMIT n: n rows, or all, and none that comes before them left out.
Top(S, Before(_, _), n) ==
  {T \in SUBSET S :
     /\ Cardinality(T) = IF Cardinality(S) < n THEN Cardinality(S) ELSE n
     /\ \A x \in T, y \in S \ T : ~Before(y, x)}

recent(n) ==
  LET Before(s, t) == s.seen > t.seen IN
    Top({s \in sightings : ~duck[s.duck].deleted}, Before, n)

most_traveled(n) ==
  LET Before(d, e) == \/ UniqueVessels(d) > UniqueVessels(e)
                      \/ UniqueVessels(d) = UniqueVessels(e) /\ LastSeen(d) > LastSeen(e)
  IN Top(Afloat, Before, n)

most_sighted(n) ==
  LET Before(d, e) == \/ SightingCount(d) > SightingCount(e)
                      \/ SightingCount(d) = SightingCount(e) /\ LastSeen(d) > LastSeen(e)
  IN Top(Afloat, Before, n)

longest_since_sighting(n) ==
  LET Before(d, e) == LastSeen(d) < LastSeen(e) IN Top(Afloat, Before, n)

\* Fault: the first find counts, not the last.
missing_since_first(cutoff) == {d \in Afloat : \E s \in Finds(d) : s.seen < cutoff}

missing_since(cutoff) == {d \in Afloat : LastSeen(d) < cutoff}

Cutoff == now - MissingAfter

\* The ducks the two pages link to, whichever way ties are broken.
front ==
  LET n == FrontPageLimit IN
    {s.duck : s \in UNION recent(n)} \cup
      UNION (most_traveled(n) \cup most_sighted(n) \cup longest_since_sighting(n))

missing == missing_since(Cutoff)

-----------------------------------------------------------------------------
\* Writes

\* The owner defines the duck and sets it sailing.
Originate(d) ==
  /\ Resolve(d) /\ duck[d].life = "Allocated"
  /\ duck' = [duck EXCEPT ![d].life = "Staged"]
  /\ UNCHANGED <<now, sightings, nextId>>

SetSail(d) ==
  /\ Resolve(d) /\ duck[d].life = "Staged"
  /\ duck' = [duck EXCEPT ![d].life = "Sailing"]
  /\ UNCHANGED <<now, sightings, nextId>>

\* A moderator deletes the duck or restores it.
SetDeleted(d) ==
  /\ duck' = [duck EXCEPT ![d].deleted = ~@]
  /\ UNCHANGED <<now, sightings, nextId>>

\* The times log_sighting accepts; a blank field is now.
Window == (now - Backdate)..(now + Ahead)

Log(d, v, seen) ==
  /\ ResolveSailing(d)
  /\ nextId <= MaxSightings
  /\ sightings' = sightings \cup {[id |-> nextId, duck |-> d, vessel |-> v, seen |-> seen]}
  /\ nextId' = nextId + 1
  /\ UNCHANGED <<now, duck>>

DeleteSighting(s) ==
  /\ ResolveSailing(s.duck)
  /\ sightings' = sightings \ {s}
  /\ UNCHANGED <<now, duck, nextId>>

Tick ==
  /\ now < MaxNow
  /\ now' = now + 1
  /\ UNCHANGED <<duck, sightings, nextId>>

Next ==
  \/ \E d \in Ducks : Originate(d) \/ SetSail(d) \/ SetDeleted(d)
  \/ \E d \in Ducks, v \in Vessels, seen \in Window : Log(d, v, seen)
  \/ \E s \in sightings : DeleteSighting(s)
  \/ Tick

Spec == Init /\ [][Next]_vars

-----------------------------------------------------------------------------
\* Properties

\* Whatever the front page or the missing page links to, anybody can open.
ListedDucksOpen ==
  \A d \in front \cup missing : ResolveSailing(d)

\* "The missing page is this with a one-year threshold": the longest adrift are
\* the missing ones first, so of the two lists one always contains the other.
MissingIsAdrift ==
  \A n \in 0..Cardinality(Ducks) : \A adrift \in longest_since_sighting(n) :
    adrift \subseteq missing \/ missing \subseteq adrift

Found(d) == Finds(d)' \ Finds(d) # {}

\* A find, however far it was dated back, never takes a duck to the missing
\* page: one that was listed goes missing by time or the removal of a find.
FindKeepsAfloat ==
  [][\A d \in Afloat \ missing :
       d \in missing' => now' > now \/ Finds(d) \ Finds(d)' # {}]_vars

\* A find never costs a duck its place among the most traveled or most sighted,
\* as long as nothing but order of ties can.
FindNeverDemotes ==
  [][\A d \in Ducks : Found(d) =>
       /\ (\A T \in most_sighted(FrontPageLimit) : d \in T) =>
            \A T \in most_sighted(FrontPageLimit)' : d \in T
       /\ (\A T \in most_traveled(FrontPageLimit) : d \in T) =>
            \A T \in most_traveled(FrontPageLimit)' : d \in T]_vars

-----------------------------------------------------------------------------
\* The inductive invariant

\* Who has been found has sailed: log_sighting asks, and no duck comes back.
FindsSailed == \A s \in sightings : duck[s.duck].life = "Sailing"

\* Rows keep their types, there are finitely many finds, all of ducks that sailed.
ListingsInv == TypeOK /\ IsFiniteSet(sightings) /\ FindsSailed
=============================================================================

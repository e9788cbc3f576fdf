--------------------------- MODULE ListingsProofs ---------------------------
(***************************************************************************)
(* The front page and the missing page, for any number of ducks, vessels   *)
(* and finds, any page size and any window for the date of a find.         *)
(***************************************************************************)
EXTENDS Listings, TLAPS, FiniteSetTheorems, WellFoundedInduction

-----------------------------------------------------------------------------
\* Types and sailed ducks

\* Every write keeps the inductive invariant.
LEMMA ListingsStep ==
  ASSUME ListingsInv, [Next]_vars
  PROVE  ListingsInv'
<1> USE ListingsAssumption DEF ListingsInv, TypeOK, FindsSailed
<1>1. ASSUME NEW d \in Ducks, Originate(d) \/ SetSail(d) \/ SetDeleted(d)
      PROVE  ListingsInv'
  <2>1. UNCHANGED <<now, sightings, nextId>>
    BY <1>1 DEF Originate, SetSail, SetDeleted
  <2>2. /\ duck' \in [Ducks -> DuckRow]
        /\ \A e \in Ducks : duck[e].life = "Sailing" => duck'[e].life = "Sailing"
    <3>1. CASE Originate(d)
      BY <3>1 DEF Originate, DuckRow
    <3>2. CASE SetSail(d)
      BY <3>2 DEF SetSail, DuckRow
    <3>3. CASE SetDeleted(d)
      BY <3>3 DEF SetDeleted, DuckRow
    <3> QED BY <1>1, <3>1, <3>2, <3>3
  <2>3. \A s \in sightings : s.duck \in Ducks
    BY DEF SightingRow
  <2> QED BY <2>1, <2>2, <2>3
<1>2. ASSUME NEW d \in Ducks, NEW v \in Vessels, NEW seen \in Window, Log(d, v, seen)
      PROVE  ListingsInv'
  <2> DEFINE s == [id |-> nextId, duck |-> d, vessel |-> v, seen |-> seen]
  <2>1. s \in SightingRow
    BY <1>2 DEF Log, Window, SightingRow
  <2>2. IsFiniteSet(sightings')
    BY <1>2, FS_AddElement DEF Log
  <2> QED BY <1>2, <2>1, <2>2 DEF Log, ResolveSailing
<1>3. ASSUME NEW s \in sightings, DeleteSighting(s)
      PROVE  ListingsInv'
  <2>1. IsFiniteSet(sightings')
    BY <1>3, FS_RemoveElement DEF DeleteSighting
  <2> QED BY <1>3, <2>1 DEF DeleteSighting
<1>4. CASE Tick
  BY <1>4 DEF Tick
<1>5. CASE UNCHANGED vars
  BY <1>5 DEF vars
<1> QED BY <1>1, <1>2, <1>3, <1>4, <1>5 DEF Next

\* Rows stay well-typed, and whatever is deleted or restored, only ducks that
\* sailed are found.
THEOREM ListingsInvariant == Spec => []ListingsInv
<1>1. Init => ListingsInv
  BY ListingsAssumption, FS_EmptySet DEF Init, ListingsInv, TypeOK, FindsSailed, DuckRow
<1> QED BY <1>1, ListingsStep, PTL DEF Spec

\* The queries return ducks, or finds of ducks, that are not deleted.
LEMMA QueriesListAfloat ==
  ASSUME TypeOK, NEW n
  PROVE  /\ \A T \in recent(n) : \A s \in T : s.duck \in Afloat
         /\ \A T \in most_traveled(n) \cup most_sighted(n) \cup longest_since_sighting(n) :
              T \subseteq Afloat
<1>1. \A T \in recent(n) : T \subseteq {s \in sightings : ~duck[s.duck].deleted}
  BY DEF recent, Top
<1>2. \A s \in sightings : s.duck \in Ducks /\ s \in Finds(s.duck)
  BY DEF TypeOK, SightingRow, Finds
<1>3. \A T \in recent(n) : \A s \in T : s.duck \in Afloat
  BY <1>1, <1>2 DEF Afloat
<1>4. \A T \in most_traveled(n) : T \subseteq Afloat
  BY DEF most_traveled, Top
<1>5. \A T \in most_sighted(n) : T \subseteq Afloat
  BY DEF most_sighted, Top
<1>6. \A T \in longest_since_sighting(n) : T \subseteq Afloat
  BY DEF longest_since_sighting, Top
<1> QED BY <1>3, <1>4, <1>5, <1>6

\* Every duck that the front page or the missing page links to opens for anybody.
THEOREM ListedDucksDoOpen == Spec => []ListedDucksOpen
<1>1. ASSUME ListingsInv
      PROVE  ListedDucksOpen
  <2>1. front \cup missing \subseteq Afloat
    BY <1>1, QueriesListAfloat DEF ListingsInv, front, missing, missing_since
  <2>2. \A d \in Afloat : ResolveSailing(d)
    BY <1>1 DEF ListingsInv, FindsSailed, Afloat, Finds, ResolveSailing, Resolve
  <2> QED BY <2>1, <2>2 DEF ListedDucksOpen
<1> QED BY <1>1, ListingsInvariant, PTL

-----------------------------------------------------------------------------
\* The last time a duck was seen

\* A bounded set of times has a latest one.
LEMMA LatestExists ==
  ASSUME NEW T \in SUBSET Int, NEW b \in Int, \A t \in T : t <= b, T # {}
  PROVE  Latest(T) \in T /\ \A t \in T : t <= Latest(T)
<1> DEFINE D == {b - t : t \in T}
<1>1. \A t \in T : b - t \in Nat /\ b - t \in D
  OBVIOUS
<1>2. D \subseteq Nat /\ D # {}
  BY <1>1
<1> HIDE DEF D
<1>3. PICK m \in D : \A n \in D : <<n, m>> \notin OpToRel(<, Nat)
  BY <1>2, NatLessThanWellFounded, WFMin
<1>4. \A n \in D : m <= n
  <2> SUFFICES ASSUME NEW n \in D, n < m
               PROVE  FALSE
    BY <1>2
  <2>1. <<n, m>> \in OpToRel(<, Nat)
    BY <1>2 DEF OpToRel
  <2> QED BY <1>3, <2>1
<1>5. PICK u \in T : m = b - u
  BY DEF D
<1>6. \A t \in T : t <= u
  BY <1>1, <1>4, <1>5
<1> QED BY <1>6 DEF Latest

\* Of some finds there is one that was seen last.
LEMMA SomeFindIsLatest ==
  ASSUME NEW S \in SUBSET SightingRow, S # {}
  PROVE  LET t == Latest({s.seen : s \in S})
         IN t \in Int /\ (\E s \in S : s.seen = t) /\ \A s \in S : s.seen <= t
<1> DEFINE T == {s.seen : s \in S}
<1>1. \A s \in S : s.seen \in Int /\ s.seen <= MaxNow + Ahead
  BY ListingsAssumption DEF SightingRow
<1>2. T \in SUBSET Int /\ MaxNow + Ahead \in Int /\ T # {} /\ \A t \in T : t <= MaxNow + Ahead
  BY <1>1, ListingsAssumption
<1>3. Latest(T) \in T /\ \A t \in T : t <= Latest(T)
  <2> HIDE DEF T
  <2> QED BY <1>2, LatestExists
<1> QED BY <1>1, <1>3

\* A duck that was ever found has a find it was last seen by.
LEMMA LastSeenIsLatest ==
  ASSUME TypeOK, NEW d \in Ducks, Finds(d) # {}
  PROVE  /\ LastSeen(d) \in Int
         /\ \E s \in Finds(d) : s.seen = LastSeen(d)
         /\ \A s \in Finds(d) : s.seen <= LastSeen(d)
<1>1. Finds(d) \in SUBSET SightingRow
  BY DEF TypeOK, Finds
<1> QED BY <1>1, SomeFindIsLatest DEF LastSeen

\* More finds, whatever their dates, never make a duck seen less recently.
LEMMA LastSeenGrows ==
  ASSUME TypeOK, TypeOK', NEW d \in Ducks, Finds(d) # {}, Finds(d) \subseteq Finds(d)'
  PROVE  LastSeen(d)' \in Int /\ LastSeen(d) \in Int /\ LastSeen(d) <= LastSeen(d)'
<1>1. PICK s \in Finds(d) : s.seen = LastSeen(d)
  BY LastSeenIsLatest
<1>2. Finds(d)' \in SUBSET SightingRow /\ Finds(d)' # {}
  BY DEF TypeOK, Finds
<1>3. LastSeen(d)' \in Int /\ \A t \in Finds(d)' : t.seen <= LastSeen(d)'
  BY <1>2, SomeFindIsLatest DEF LastSeen
<1> QED BY <1>1, <1>3, LastSeenIsLatest

\* The longest adrift and the missing are cuts of one order: every cut of the
\* front page's query contains the missing page or is contained in it.
THEOREM MissingAreAdrift == Spec => []MissingIsAdrift
<1>1. ASSUME TypeOK
      PROVE  MissingIsAdrift
  <2> SUFFICES ASSUME NEW n, NEW adrift \in longest_since_sighting(n),
                      NEW x \in adrift, x \notin missing,
                      NEW y \in missing, y \notin adrift
               PROVE  FALSE
    BY DEF MissingIsAdrift
  <2>1. adrift \subseteq Afloat /\ \A d \in adrift, e \in Afloat \ adrift : ~(LastSeen(e) < LastSeen(d))
    BY DEF longest_since_sighting, Top
  <2>2. y \in Afloat /\ LastSeen(y) < Cutoff /\ ~(LastSeen(x) < Cutoff)
    BY <2>1 DEF missing, missing_since
  <2>3. LastSeen(x) \in Int /\ LastSeen(y) \in Int /\ Cutoff \in Int
    BY <1>1, <2>1, <2>2, LastSeenIsLatest, ListingsAssumption DEF Afloat, Cutoff, TypeOK
  <2> QED BY <2>1, <2>2, <2>3
<1>2. ListingsInv => TypeOK
  BY DEF ListingsInv
<1> QED BY <1>1, <1>2, ListingsInvariant, PTL

\* A find, however far dated back, takes no duck to the missing page: only time
\* and the removal of a find do.
THEOREM FindsKeepAfloat == Spec => FindKeepsAfloat
<1> DEFINE A == \A d \in Afloat \ missing :
                  d \in missing' => now' > now \/ Finds(d) \ Finds(d)' # {}
<1>1. ASSUME ListingsInv, ListingsInv', [Next]_vars
      PROVE  A
  <2>0. TypeOK /\ TypeOK'
    BY <1>1 DEF ListingsInv
  <2> SUFFICES ASSUME NEW d \in Afloat \ missing, d \in missing',
                      ~(now' > now), Finds(d) \subseteq Finds(d)'
               PROVE  FALSE
    OBVIOUS
  <2>1. now' = now
    <3>1. now \in Int /\ (now' = now \/ now' = now + 1)
      BY <1>1, <2>0, ListingsAssumption
      DEF Next, Originate, SetSail, SetDeleted, Log, DeleteSighting, Tick, vars, TypeOK
    <3> QED BY <3>1
  <2>2. d \in Ducks /\ Finds(d) # {} /\ ~(LastSeen(d) < Cutoff) /\ LastSeen(d)' < Cutoff'
    BY DEF Afloat, missing, missing_since
  <2>3. Cutoff' = Cutoff /\ Cutoff \in Int
    BY <2>0, <2>1, ListingsAssumption DEF Cutoff, TypeOK
  <2>4. LastSeen(d)' \in Int /\ LastSeen(d) \in Int /\ LastSeen(d) <= LastSeen(d)'
    BY <2>0, <2>2, LastSeenGrows
  <2> QED BY <2>2, <2>3, <2>4
<1>2. ListingsInv /\ ListingsInv' /\ [Next]_vars => [A]_vars
  BY <1>1
<1> QED BY <1>2, ListingsInvariant, PTL DEF Spec, FindKeepsAfloat

-----------------------------------------------------------------------------
\* Rankings

\* What one column of finitely many finds holds is finite.
LEMMA ColumnsFinite ==
  ASSUME NEW S, IsFiniteSet(S)
  PROVE  IsFiniteSet({s.duck : s \in S}) /\ IsFiniteSet({s.vessel : s \in S})
<1>1. [s \in S |-> s.duck] \in Surjection(S, {s.duck : s \in S})
  BY DEF Surjection
<1>2. [s \in S |-> s.vessel] \in Surjection(S, {s.vessel : s \in S})
  BY DEF Surjection
<1> QED BY <1>1, <1>2, FS_Surjection

\* Finitely many ducks are afloat.
LEMMA AfloatFinite ==
  ASSUME IsFiniteSet(sightings)
  PROVE  IsFiniteSet(Afloat)
<1>1. Afloat \in SUBSET {s.duck : s \in sightings}
  BY DEF Afloat, Finds
<1> QED BY <1>1, ColumnsFinite, FS_Subset

\* A cut that leaves out a duck is a cut without that duck.
LEMMA CutWithout ==
  ASSUME NEW S, IsFiniteSet(S), NEW d, NEW n \in Nat, NEW T \in SUBSET (S \cup {d}), d \notin T,
         Cardinality(T) = IF Cardinality(S \cup {d}) < n THEN Cardinality(S \cup {d}) ELSE n
  PROVE  T \subseteq S /\ Cardinality(T) = IF Cardinality(S) < n THEN Cardinality(S) ELSE n
<1>1. T \in SUBSET S
  OBVIOUS
<1>2. /\ IsFiniteSet(S \cup {d})
      /\ Cardinality(S \cup {d}) = IF d \in S THEN Cardinality(S) ELSE Cardinality(S) + 1
  BY FS_AddElement
<1>3. Cardinality(T) <= Cardinality(S)
  BY <1>1, FS_Subset
<1>4. Cardinality(S) \in Nat /\ Cardinality(T) \in Nat /\ Cardinality(S \cup {d}) \in Nat
  BY <1>1, <1>2, FS_Subset, FS_CardinalityType
<1>5. Cardinality(T) # Cardinality(S \cup {d})
  BY <1>2, FS_Subset
<1> QED BY <1>1, <1>2, <1>3, <1>4, <1>5

\* A find changes the standing of its own duck only.
LEMMA FindIsOwn ==
  ASSUME ListingsInv, [Next]_vars, NEW d \in Ducks, Found(d)
  PROVE  /\ \A e \in Ducks \ {d} : Finds(e)' = Finds(e)
         /\ Finds(d) \subseteq Finds(d)'
         /\ Afloat' = Afloat \cup {d}
<1>1. PICK c \in Ducks, v \in Vessels, seen \in Window : Log(c, v, seen)
  BY DEF Found, Finds, Next, Originate, SetSail, SetDeleted, DeleteSighting, Tick, vars
<1> DEFINE s == [id |-> nextId, duck |-> c, vessel |-> v, seen |-> seen]
<1>2. \A e \in Ducks : Finds(e)' = IF e = c THEN Finds(e) \cup {s} ELSE Finds(e)
  BY <1>1 DEF Log, Finds
<1>3. c = d
  BY <1>2 DEF Found
<1>4. duck' = duck /\ ~duck[d].deleted
  BY <1>1, <1>3 DEF Log, ResolveSailing, Resolve
<1>5. Afloat' = Afloat \cup {d}
  BY <1>2, <1>3, <1>4 DEF Afloat
<1> QED BY <1>2, <1>3, <1>5

\* More finds never lower the counts a duck is ranked by.
LEMMA CountsGrow ==
  ASSUME ListingsInv, ListingsInv', NEW d \in Ducks, Finds(d) \subseteq Finds(d)'
  PROVE  /\ SightingCount(d) \in Nat /\ SightingCount(d)' \in Nat
         /\ SightingCount(d) <= SightingCount(d)'
         /\ UniqueVessels(d) \in Nat /\ UniqueVessels(d)' \in Nat
         /\ UniqueVessels(d) <= UniqueVessels(d)'
<1>1. IsFiniteSet(Finds(d)) /\ IsFiniteSet(Finds(d)')
  <2>1. Finds(d) \in SUBSET sightings /\ Finds(d)' \in SUBSET sightings'
    BY DEF Finds
  <2>2. IsFiniteSet(sightings) /\ IsFiniteSet(sightings')
    BY DEF ListingsInv
  <2> QED BY <2>1, <2>2, FS_Subset
<1> DEFINE V == {s.vessel : s \in Finds(d)}
           W == {s.vessel : s \in Finds(d)'}
<1>2. IsFiniteSet(V) /\ IsFiniteSet(W) /\ V \in SUBSET W
  BY <1>1, ColumnsFinite
<1>3. UniqueVessels(d) = Cardinality(V) /\ UniqueVessels(d)' = Cardinality(W)
  BY DEF UniqueVessels
<1> HIDE DEF V, W
<1>4. Cardinality(V) \in Nat /\ Cardinality(W) \in Nat /\ Cardinality(V) <= Cardinality(W)
  BY <1>2, FS_Subset, FS_CardinalityType
<1>5. /\ SightingCount(d) \in Nat /\ SightingCount(d)' \in Nat
      /\ SightingCount(d) <= SightingCount(d)'
  BY <1>1, FS_Subset, FS_CardinalityType DEF SightingCount
<1> QED BY <1>3, <1>4, <1>5

\* Leaving a duck out of a ranking after a find of it was possible before the find.
LEMMA CutStays ==
  ASSUME ListingsInv, ListingsInv', [Next]_vars, NEW d \in Ducks, Found(d), NEW n \in Nat
  PROVE  /\ \A T \in most_sighted(n)' : d \notin T => T \in most_sighted(n)
         /\ \A T \in most_traveled(n)' : d \notin T => T \in most_traveled(n)
<1>1. /\ \A e \in Ducks \ {d} : Finds(e)' = Finds(e)
      /\ Finds(d) \subseteq Finds(d)'
      /\ Afloat' = Afloat \cup {d}
  BY FindIsOwn
<1>2. \A e \in Ducks \ {d} : /\ SightingCount(e)' = SightingCount(e)
                             /\ UniqueVessels(e)' = UniqueVessels(e)
                             /\ LastSeen(e)' = LastSeen(e)
  BY <1>1 DEF SightingCount, UniqueVessels, LastSeen
<1>3. IsFiniteSet(Afloat) /\ Afloat \subseteq Ducks
  BY AfloatFinite DEF ListingsInv, Afloat
<1>4. \A e \in Ducks : Finds(e) \subseteq Finds(e)'
  BY <1>1
<1>5. \A e \in Ducks : /\ SightingCount(e) \in Nat /\ SightingCount(e)' \in Nat
                      /\ SightingCount(e) <= SightingCount(e)'
                      /\ UniqueVessels(e) \in Nat /\ UniqueVessels(e)' \in Nat
                      /\ UniqueVessels(e) <= UniqueVessels(e)'
  BY <1>4, CountsGrow
<1>6. \A e \in Afloat : LastSeen(e) \in Int /\ LastSeen(e)' \in Int /\ LastSeen(e) <= LastSeen(e)'
  BY <1>4, LastSeenGrows DEF ListingsInv, Afloat
<1>7. ASSUME NEW T \in most_sighted(n)', d \notin T
      PROVE  T \in most_sighted(n)
  <2>1. /\ T \in SUBSET (Afloat \cup {d})
        /\ Cardinality(T) = IF Cardinality(Afloat \cup {d}) < n THEN Cardinality(Afloat \cup {d}) ELSE n
        /\ \A x \in T, y \in (Afloat \cup {d}) \ T :
             ~(\/ SightingCount(y)' > SightingCount(x)'
               \/ SightingCount(y)' = SightingCount(x)' /\ LastSeen(y)' > LastSeen(x)')
    BY <1>1, <1>7 DEF most_sighted, Top
  <2>2. T \subseteq Afloat /\ Cardinality(T) = IF Cardinality(Afloat) < n THEN Cardinality(Afloat) ELSE n
    BY <1>3, <1>7, <2>1, CutWithout
  <2>3. ASSUME NEW x \in T, NEW y \in Afloat \ T
        PROVE  ~(\/ SightingCount(y) > SightingCount(x)
                 \/ SightingCount(y) = SightingCount(x) /\ LastSeen(y) > LastSeen(x))
    <3>1. /\ SightingCount(x)' = SightingCount(x) /\ LastSeen(x)' = LastSeen(x)
          /\ x \in Ducks /\ x \in Afloat /\ y \in Ducks
      BY <1>2, <1>3, <1>7, <2>2
    <3> QED BY <1>5, <1>6, <2>1, <3>1
  <2> QED BY <2>2, <2>3 DEF most_sighted, Top
<1>8. ASSUME NEW T \in most_traveled(n)', d \notin T
      PROVE  T \in most_traveled(n)
  <2>1. /\ T \in SUBSET (Afloat \cup {d})
        /\ Cardinality(T) = IF Cardinality(Afloat \cup {d}) < n THEN Cardinality(Afloat \cup {d}) ELSE n
        /\ \A x \in T, y \in (Afloat \cup {d}) \ T :
             ~(\/ UniqueVessels(y)' > UniqueVessels(x)'
               \/ UniqueVessels(y)' = UniqueVessels(x)' /\ LastSeen(y)' > LastSeen(x)')
    BY <1>1, <1>8 DEF most_traveled, Top
  <2>2. T \subseteq Afloat /\ Cardinality(T) = IF Cardinality(Afloat) < n THEN Cardinality(Afloat) ELSE n
    BY <1>3, <1>8, <2>1, CutWithout
  <2>3. ASSUME NEW x \in T, NEW y \in Afloat \ T
        PROVE  ~(\/ UniqueVessels(y) > UniqueVessels(x)
                 \/ UniqueVessels(y) = UniqueVessels(x) /\ LastSeen(y) > LastSeen(x))
    <3>1. /\ UniqueVessels(x)' = UniqueVessels(x) /\ LastSeen(x)' = LastSeen(x)
          /\ x \in Ducks /\ x \in Afloat /\ y \in Ducks
      BY <1>2, <1>3, <1>8, <2>2
    <3> QED BY <1>5, <1>6, <2>1, <3>1
  <2> QED BY <2>2, <2>3 DEF most_traveled, Top
<1> QED BY <1>7, <1>8

\* A duck that is sure of its place among the most sighted or the most traveled
\* is as sure of it after one more find, whatever date and vessel the find has.
THEOREM FindsNeverDemote == Spec => FindNeverDemotes
<1> DEFINE A == \A d \in Ducks : Found(d) =>
                  /\ (\A T \in most_sighted(FrontPageLimit) : d \in T) =>
                       \A T \in most_sighted(FrontPageLimit)' : d \in T
                  /\ (\A T \in most_traveled(FrontPageLimit) : d \in T) =>
                       \A T \in most_traveled(FrontPageLimit)' : d \in T
<1>1. ASSUME ListingsInv, ListingsInv', [Next]_vars
      PROVE  A
  BY <1>1, CutStays, ListingsAssumption
<1>2. ListingsInv /\ ListingsInv' /\ [Next]_vars => [A]_vars
  BY <1>1
<1> QED BY <1>2, ListingsInvariant, PTL DEF Spec, FindNeverDemotes
=============================================================================

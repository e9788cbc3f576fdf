----------------------------- MODULE FlockMint ------------------------------
(***************************************************************************)
(* Flocks and the codes minted into them: create and mint of               *)
(* crates/web/src/handlers/flock.rs, FlockRepo::create and                 *)
(* DuckRepo::mint_batch of repos.rs, with what else changes the counts     *)
(* they check (origination, soft delete and restore, the admin's hard      *)
(* delete).  Requests of any number of instances interleave at every       *)
(* await; a mint holds the flock's advisory lock from pg_advisory_xact_    *)
(* lock to the end of its transaction.                                     *)
(*                                                                         *)
(* A printed code is the pair <<prefix, seq>>: under one key generation    *)
(* the codec is a bijection between the two (see DuckCode).                *)
(***************************************************************************)
EXTENDS Naturals, FiniteSets

CONSTANTS
  Users,             \* flock owners
  Workers,           \* concurrent requests
  Prefixes,          \* the 36^3 flock prefixes
  RudePrefixes,      \* those Profanity::matches
  RudeSeqs,          \* per prefix, the seqs whose code Profanity::matches
  MaxSeq,            \* FlockSeq::MAX, 10000
  BatchMax,          \* caps.mint_batch_max
  FlocksPerUser,     \* caps.flocks_per_user
  UnoriginatedMax,   \* caps.unoriginated_max
  DrawAttempts,      \* the 64 draws of create
  MaxFlocks,         \* bound: no create starts past this flock id
  Ops                \* the operations in use

ASSUME MintAssumption ==
  /\ RudePrefixes \subseteq Prefixes
  /\ RudeSeqs \in [Prefixes -> SUBSET (1..MaxSeq)]
  /\ MaxSeq \in Nat /\ BatchMax \in Nat \ {0}
  /\ FlocksPerUser \in Nat /\ UnoriginatedMax \in Nat
  /\ DrawAttempts \in Nat \ {0} /\ MaxFlocks \in Nat
  /\ IsFiniteSet(Workers) /\ Workers # {}

VARIABLES
  flocks,            \* the flock table
  ducks,             \* the duck table
  nextFlock,         \* the identity sequence of flock
  printed,           \* history: every code ever minted, with its flock
  req                \* what each worker is doing

vars == <<flocks, ducks, nextFlock, printed, req>>

FlockRow == [id : Nat, prefix : Prefixes, owner : Users]
\* A duck row is known by its flock and seq; its code is <<prefix, seq>>.
DuckRow == [flock : Nat, prefix : Prefixes, seq : 1..MaxSeq,
            originated : BOOLEAN, deleted : BOOLEAN]

Idle == [pc |-> "idle"]
CreateReq == [pc : {"draw"}, user : Users, tries : Nat \ {0}]
MintReq == [pc : {"lock", "max", "insert"}, flock : Nat, prefix : Prefixes,
            count : Nat, entries : SUBSET (1..MaxSeq)]
Requests == {Idle} \cup CreateReq \cup MintReq

TypeOK ==
  /\ flocks \subseteq FlockRow
  /\ ducks \subseteq DuckRow
  /\ nextFlock \in Nat
  /\ printed \subseteq [prefix : Prefixes, seq : 1..MaxSeq, flock : Nat]
  /\ req \in [Workers -> Requests]

Init ==
  /\ flocks = {} /\ ducks = {} /\ printed = {}
  /\ nextFlock = 1
  /\ req = [w \in Workers |-> Idle]

At(w, pc) == req[w].pc = pc
Reply(w) == req' = [req EXCEPT ![w] = Idle]

-----------------------------------------------------------------------------
\* create: count, then draw prefixes until an insert succeeds

FlocksOf(u) == {f \in flocks : f.owner = u}
PrefixTaken(p) == \E f \in flocks : f.prefix = p

\* Fault: the flocks are not counted.
CreateUncounted(w, u) ==
  /\ "create" \in Ops /\ At(w, "idle")
  /\ nextFlock <= MaxFlocks
  /\ req' = [req EXCEPT ![w] = [pc |-> "draw", user |-> u, tries |-> DrawAttempts]]
  /\ UNCHANGED <<flocks, ducks, nextFlock, printed>>

CreateCheck(w, u) ==
  /\ "create" \in Ops /\ At(w, "idle")
  /\ nextFlock <= MaxFlocks
  /\ Cardinality(FlocksOf(u)) < FlocksPerUser
  /\ req' = [req EXCEPT ![w] = [pc |-> "draw", user |-> u, tries |-> DrawAttempts]]
  /\ UNCHANGED <<flocks, ducks, nextFlock, printed>>

\* A profane or taken prefix costs an attempt; after the last one create fails.
\* A profane one is not inserted; an insert that conflicts has drawn its id.
DrawPrefix(w, p) ==
  /\ At(w, "draw")
  /\ IF p \in RudePrefixes \/ PrefixTaken(p)
     THEN /\ IF req[w].tries = 1 THEN Reply(w)
             ELSE req' = [req EXCEPT ![w].tries = @ - 1]
          /\ UNCHANGED flocks
     ELSE /\ flocks' = flocks \cup {[id |-> nextFlock, prefix |-> p, owner |-> req[w].user]}
          /\ Reply(w)
  /\ nextFlock' = IF p \in RudePrefixes THEN nextFlock ELSE nextFlock + 1
  /\ UNCHANGED <<ducks, printed>>

-----------------------------------------------------------------------------
\* mint: check the caps, then one transaction under the flock's advisory lock

DucksIn(f) == {d \in ducks : d.flock = f}

Unoriginated(u) ==
  {d \in ducks : ~d.originated /\ ~d.deleted /\ \E f \in FlocksOf(u) : f.id = d.flock}

\* form.count.clamp(1, mint_batch_max)
ClampCount(n) == IF n < 1 THEN 1 ELSE IF n > BatchMax THEN BatchMax ELSE n

MintCheck(w, f, n) ==
  /\ "mint" \in Ops /\ At(w, "idle")
  /\ Cardinality(Unoriginated(f.owner)) + ClampCount(n) <= UnoriginatedMax
  /\ req' = [req EXCEPT ![w] = [pc |-> "lock", flock |-> f.id, prefix |-> f.prefix,
                                count |-> ClampCount(n), entries |-> {}]]
  /\ UNCHANGED <<flocks, ducks, nextFlock, printed>>

HoldsLock(w, f) == req[w].pc \in {"max", "insert"} /\ req[w].flock = f

\* Fault: the mint does not take the lock.
MintUnlocked(w) ==
  /\ At(w, "lock")
  /\ req' = [req EXCEPT ![w].pc = "max"]
  /\ UNCHANGED <<flocks, ducks, nextFlock, printed>>

\* BEGIN; SELECT pg_advisory_xact_lock(1, flock)
AdvisoryLock(w) ==
  /\ At(w, "lock")
  /\ \A v \in Workers : ~HoldsLock(v, req[w].flock)
  /\ req' = [req EXCEPT ![w].pc = "max"]
  /\ UNCHANGED <<flocks, ducks, nextFlock, printed>>

\* Fault: one seq past FlockSeq::MAX.
PastHighWaterAndMax(f) == {s \in 1..(MaxSeq + 1) : \A d \in DucksIn(f) : d.seq < s}

\* The candidates: past COALESCE(MAX(flock_seq), 0), soft-deleted ducks counted,
\* up to FlockSeq::MAX.
PastHighWater(f) == {s \in 1..MaxSeq : \A d \in DucksIn(f) : d.seq < s}

\* Fault: rude codes are not skipped.
MintableRude(f, p) == PastHighWater(f)

\* Those whose code is presentable.
Mintable(f, p) == PastHighWater(f) \ RudeSeqs[p]

\* Fault: the loop starts at max + 2 (the first of all candidates is passed over).
BatchFromSecond(f, p, n) ==
  {s \in Mintable(f, p) : Cardinality({t \in Mintable(f, p) : t < s}) \in 1..n}

\* The loop of mint_batch: the first n of them.
Batch(f, p, n) ==
  {s \in Mintable(f, p) : Cardinality({t \in Mintable(f, p) : t < s}) < n}

\* Fault: a nearly full flock gives what it has left.
SelectSome(w) ==
  LET f == req[w].flock
      p == req[w].prefix IN
  /\ At(w, "max")
  /\ req' = [req EXCEPT ![w].pc = "insert", ![w].entries = Batch(f, p, req[w].count)]
  /\ UNCHANGED <<flocks, ducks, nextFlock, printed>>

SelectMax(w) ==
  LET f == req[w].flock
      p == req[w].prefix
      n == req[w].count IN
  /\ At(w, "max")
  /\ IF Cardinality(Mintable(f, p)) < n
     THEN Reply(w)                               \* FlockFull: rolled back
     ELSE req' = [req EXCEPT ![w].pc = "insert", ![w].entries = Batch(f, p, n)]
  /\ UNCHANGED <<flocks, ducks, nextFlock, printed>>

NewDucks(w) ==
  {[flock |-> req[w].flock, prefix |-> req[w].prefix, seq |-> s,
    originated |-> FALSE, deleted |-> FALSE] : s \in req[w].entries}

\* Fault: a failed insert leaves the transaction open.
InsertOnlyIfFlock(w) ==
  /\ At(w, "insert")
  /\ \E f \in flocks : f.id = req[w].flock
  /\ ducks' = ducks \cup NewDucks(w)
  /\ printed' = printed \cup
       {[prefix |-> req[w].prefix, seq |-> s, flock |-> req[w].flock] :
          s \in req[w].entries}
  /\ Reply(w)
  /\ UNCHANGED <<flocks, nextFlock>>

\* Fault: no foreign key, the batch lands in a flock that is gone.
InsertAnyway(w) ==
  /\ At(w, "insert")
  /\ ducks' = ducks \cup NewDucks(w)
  /\ printed' = printed \cup
       {[prefix |-> req[w].prefix, seq |-> s, flock |-> req[w].flock] :
          s \in req[w].entries}
  /\ Reply(w)
  /\ UNCHANGED <<flocks, nextFlock>>

\* INSERT and COMMIT.  The foreign key fails if the flock is gone by now.  The
\* UNIQUE constraints are not consulted: MintedOnce says they never have to be.
InsertBatch(w) ==
  /\ At(w, "insert")
  /\ IF \E f \in flocks : f.id = req[w].flock
     THEN /\ ducks' = ducks \cup NewDucks(w)
          /\ printed' = printed \cup
               {[prefix |-> req[w].prefix, seq |-> s, flock |-> req[w].flock] :
                  s \in req[w].entries}
     ELSE UNCHANGED <<ducks, printed>>
  /\ Reply(w)
  /\ UNCHANGED <<flocks, nextFlock>>

-----------------------------------------------------------------------------
\* The other writers of the two tables, one statement each (DuckHandlers and
\* AdminHandlers have their requests)

Originate(d) ==
  /\ "originate" \in Ops
  /\ ~d.originated
  /\ ducks' = (ducks \ {d}) \cup {[d EXCEPT !.originated = TRUE]}
  /\ UNCHANGED <<flocks, nextFlock, printed, req>>

SetDeleted(d, deleted) ==
  /\ "delete_duck" \in Ops
  /\ ducks' = (ducks \ {d}) \cup {[d EXCEPT !.deleted = deleted]}
  /\ UNCHANGED <<flocks, nextFlock, printed, req>>

DeleteFlock(f) ==
  /\ "delete_flock" \in Ops
  /\ ducks' = ducks \ DucksIn(f.id)
  /\ flocks' = flocks \ {f}
  /\ UNCHANGED <<nextFlock, printed, req>>

\* A crash, a disconnect or a database error: the transaction rolls back and
\* its lock is released, but an insert has drawn its id for good.
Abandon(w) ==
  /\ "abandon" \in Ops
  /\ ~At(w, "idle")
  /\ nextFlock' \in IF At(w, "draw") THEN {nextFlock, nextFlock + 1} ELSE {nextFlock}
  /\ Reply(w)
  /\ UNCHANGED <<flocks, ducks, printed>>

-----------------------------------------------------------------------------

Step(w) == (\E p \in Prefixes : DrawPrefix(w, p)) \/ SelectMax(w) \/ InsertBatch(w)

Next ==
  \/ \E w \in Workers :
       \/ \E u \in Users : CreateCheck(w, u)
       \/ \E f \in flocks, n \in 0..(BatchMax + 1) : MintCheck(w, f, n)
       \/ Step(w)
       \/ AdvisoryLock(w)
       \/ Abandon(w)
  \/ \E d \in ducks : Originate(d) \/ \E flag \in BOOLEAN : SetDeleted(d, flag)
  \/ \E f \in flocks : DeleteFlock(f)

Spec == Init /\ [][Next]_vars

\* A running request is polled again, and Postgres serves the waiters of an
\* advisory lock in order, so none waits while the lock is released again and
\* again.
Fairness == \A w \in Workers : WF_vars(Step(w)) /\ SF_vars(AdvisoryLock(w))

FairSpec == Spec /\ Fairness

-----------------------------------------------------------------------------
\* Properties

\* Concurrent mints never produce the same code or the same place in a flock
\* twice: the advisory lock does the work, not the UNIQUE constraints.
MintedOnce ==
  \A d, e \in ducks : (d.flock = e.flock \/ d.prefix = e.prefix) /\ d.seq = e.seq => d = e

\* "Seqs are dense": up to a flock's high-water mark every seq has its duck or
\* a rude code, whatever was abandoned, soft-deleted or minted concurrently.
SeqsDense ==
  \A d \in ducks : \A s \in 1..d.seq :
    s \in RudeSeqs[d.prefix] \/ \E e \in DucksIn(d.flock) : e.seq = s

\* No rude code or prefix is ever printed.
NothingRude ==
  /\ \A f \in flocks : f.prefix \notin RudePrefixes
  /\ \A c \in printed : c.seq \notin RudeSeqs[c.prefix]

Creating(u) == {w \in Workers : At(w, "draw") /\ req[w].user = u}

\* create counts in one statement and inserts in another, so concurrent creates
\* pass the cap together; but not by more than the other requests in flight,
\* however long the users go on.
CapOvershoot ==
  \A u \in Users :
    Cardinality(FlocksOf(u)) + Cardinality(Creating(u)) < FlocksPerUser + Cardinality(Workers)

\* A batch is minted whole or not at all, into a flock that exists.
BatchAtomic ==
  [][\A w \in Workers : At(w, "insert") /\ req'[w] # req[w] =>
       LET new == ducks' \ ducks IN
       new = {} \/ /\ Cardinality(new) = req[w].count
                   /\ \A d \in new : \E f \in flocks : f.id = d.flock /\ f.prefix = d.prefix]_vars

\* create and mint implement CodeRegistry: whatever requests interleave, what
\* the tables show is a batch at a time, each the lowest codes still free.
Registry == INSTANCE CodeRegistry WITH
  open <- {[id |-> f.id, prefix |-> f.prefix] : f \in flocks},
  handed <- {[flock |-> d.flock, prefix |-> d.prefix, seq |-> d.seq] : d \in ducks},
  nextId <- nextFlock

\* Requests that mint and create concurrently look like the atomic register.
ImplementsRegistry == Registry!Spec

\* Every create and every mint is answered: no mint waits for ever on the lock.
MintsAnswered == \A w \in Workers : ~At(w, "idle") ~> At(w, "idle")

-----------------------------------------------------------------------------
\* Inductive strengthening

\* The flock table's keys: an id names one flock, a prefix belongs to one.
FlockKeys ==
  /\ \A f, g \in flocks : f.id = g.id \/ f.prefix = g.prefix => f = g
  /\ \A f \in flocks : f.id < nextFlock

\* Every duck is in a flock and carries its prefix.
DucksInFlocks == \A d \in ducks : \E f \in flocks : f.id = d.flock /\ f.prefix = d.prefix

Minting(w) == req[w].pc \in {"lock", "max", "insert"}

\* The flock a mint has read is the one its id still names, if any: ids are not
\* used twice.
MintsNameFlocks ==
  \A w \in Workers : Minting(w) =>
    /\ req[w].flock < nextFlock
    /\ \A f \in flocks : f.id = req[w].flock => f.prefix = req[w].prefix

\* The advisory lock has one holder.
LockExclusive ==
  \A v, w \in Workers :
    HoldsLock(v, req[v].flock) /\ HoldsLock(w, req[w].flock) /\ req[v].flock = req[w].flock
      => v = w

\* What a mint is about to insert is still, while its flock exists, what comes
\* next: it skips no code that could be minted before one of its own.
EntriesComeNext ==
  \A w \in Workers : At(w, "insert") =>
    \A f \in flocks : f.id = req[w].flock =>
      /\ req[w].entries \subseteq Mintable(f.id, f.prefix)
      /\ \A s \in req[w].entries : \A t \in Mintable(f.id, f.prefix) :
           t < s => t \in req[w].entries

\* A batch on its way has the size that was asked for, and it was in bounds.
BatchSized ==
  \A w \in Workers :
    /\ Minting(w) => req[w].count \in 1..BatchMax
    /\ At(w, "insert") => Cardinality(req[w].entries) = req[w].count

\* Why mints never collide: one at a time per flock, each past all before it.
MintInv ==
  /\ MintedOnce
  /\ SeqsDense
  /\ NothingRude
  /\ FlockKeys
  /\ DucksInFlocks
  /\ MintsNameFlocks
  /\ LockExclusive
  /\ EntriesComeNext
  /\ BatchSized

-----------------------------------------------------------------------------
\* What the repository says of itself and the code does not do

\* "Randomly assigned from the unused pool, never reused"; "a printed code can
\* never be re-minted as a different duck".
CodeNeverReused ==
  \A c, e \in printed : c.prefix = e.prefix /\ c.seq = e.seq => c.flock = e.flock
=============================================================================

--------------------------- MODULE FlockMintProofs --------------------------
(***************************************************************************)
(* Minting for any number of flocks, requests and codes.  The inductive    *)
(* invariant is MintInv: the advisory lock lets one request at a time hold *)
(* a batch for a flock, and what it holds lies past every minted seq.      *)
(***************************************************************************)
EXTENDS FlockMint, TLAPS, FiniteSetTheorems

\* A request's pc tells which arguments it carries.
LEMMA MintShape ==
  ASSUME NEW r \in Requests
  PROVE  /\ r.pc = "draw" => r \in CreateReq
         /\ r.pc \in {"lock", "max", "insert"} => r \in MintReq
  BY DEF Requests, Idle, CreateReq, MintReq

\* A mint that moves on is still a request.
LEMMA MintAdvance ==
  ASSUME NEW r \in Requests
  PROVE  /\ r.pc = "lock" => [r EXCEPT !.pc = "max"] \in Requests
         /\ \A E \in SUBSET (1..MaxSeq) :
              r.pc = "max" => [r EXCEPT !.pc = "insert", !.entries = E] \in Requests
         /\ r.pc = "draw" /\ r.tries # 1 => [r EXCEPT !.tries = r.tries - 1] \in Requests
<1>1. r.pc = "lock" => [r EXCEPT !.pc = "max"] \in MintReq
  BY MintShape DEF MintReq
<1>2. ASSUME NEW E \in SUBSET (1..MaxSeq), r.pc = "max"
      PROVE  [r EXCEPT !.pc = "insert", !.entries = E] \in MintReq
  BY <1>2, MintShape DEF MintReq
<1>3. ASSUME r.pc = "draw", r.tries # 1
      PROVE  [r EXCEPT !.tries = r.tries - 1] \in CreateReq
  <2>1. r \in CreateReq
    BY <1>3, MintShape
  <2>2. r.tries - 1 \in Nat \ {0}
    BY <1>3, <2>1 DEF CreateReq
  <2> QED BY <2>1, <2>2 DEF CreateReq
<1> QED BY <1>1, <1>2, <1>3 DEF Requests

\* One worker's request changes.
LEMMA ReqUpdate ==
  ASSUME req \in [Workers -> Requests], NEW w \in Workers, NEW r \in Requests,
         req' = [req EXCEPT ![w] = r]
  PROVE  req' \in [Workers -> Requests]
  OBVIOUS

\* The requests of the other workers stay.
LEMMA ReqStep ==
  ASSUME TypeOK, NEW w \in Workers, NEW r, req' = [req EXCEPT ![w] = r]
  PROVE  req'[w] = r /\ \A v \in Workers \ {w} : req'[v] = req[v]
  BY DEF TypeOK

\* form.count.clamp gives a count in bounds.
LEMMA ClampIsCount ==
  ASSUME NEW n \in Nat
  PROVE  ClampCount(n) \in Nat /\ ClampCount(n) \in 1..BatchMax
  BY MintAssumption DEF ClampCount

-----------------------------------------------------------------------------

\* No step of create, mint or the other writers stores an ill-typed value.
LEMMA TypeStep ==
  ASSUME TypeOK, [Next]_vars
  PROVE  TypeOK'
<1> USE MintAssumption
<1>0. CASE UNCHANGED vars
  BY <1>0 DEF TypeOK, vars
<1>i. Idle \in Requests
  BY DEF Requests
<1>1. ASSUME NEW w \in Workers, NEW u \in Users, CreateCheck(w, u)
      PROVE  TypeOK'
  <2>1. [pc |-> "draw", user |-> u, tries |-> DrawAttempts] \in Requests
    BY DEF Requests, CreateReq
  <2> QED BY <1>1, <2>1, ReqUpdate DEF CreateCheck, TypeOK
<1>2. ASSUME NEW w \in Workers, NEW p \in Prefixes, DrawPrefix(w, p)
      PROVE  TypeOK'
  <2>1. req[w] \in CreateReq
    BY <1>2, MintShape DEF DrawPrefix, At, TypeOK
  <2>2. req[w].tries # 1 => [req[w] EXCEPT !.tries = req[w].tries - 1] \in Requests
    BY <1>2, MintAdvance DEF DrawPrefix, At, TypeOK
  <2>3. [id |-> nextFlock, prefix |-> p, owner |-> req[w].user] \in FlockRow
    BY <2>1 DEF CreateReq, FlockRow, TypeOK
  <2>4. req' \in [Workers -> Requests]
    BY <1>2, <1>i, <2>2, ReqUpdate DEF DrawPrefix, Reply, TypeOK
  <2> QED BY <1>2, <2>3, <2>4 DEF DrawPrefix, TypeOK
<1>3. ASSUME NEW w \in Workers, NEW f \in flocks, NEW n \in Nat, MintCheck(w, f, n)
      PROVE  TypeOK'
  <2>1. [pc |-> "lock", flock |-> f.id, prefix |-> f.prefix,
         count |-> ClampCount(n), entries |-> {}] \in Requests
    BY ClampIsCount DEF TypeOK, FlockRow, Requests, MintReq
  <2> QED BY <1>3, <2>1, ReqUpdate DEF MintCheck, TypeOK
<1>4. ASSUME NEW w \in Workers, AdvisoryLock(w)
      PROVE  TypeOK'
  <2>1. [req[w] EXCEPT !.pc = "max"] \in Requests
    BY <1>4, MintAdvance DEF AdvisoryLock, At, TypeOK
  <2> QED BY <1>4, <2>1, ReqUpdate DEF AdvisoryLock, TypeOK
<1>5. ASSUME NEW w \in Workers, SelectMax(w)
      PROVE  TypeOK'
  <2> DEFINE B == Batch(req[w].flock, req[w].prefix, req[w].count)
  <2>1. B \in SUBSET (1..MaxSeq)
    BY DEF Batch, Mintable, PastHighWater
  <2>2. [req[w] EXCEPT !.pc = "insert", !.entries = B] \in Requests
    <3> HIDE DEF B
    <3> QED BY <1>5, <2>1, MintAdvance DEF SelectMax, At, TypeOK
  <2>3. req' \in [Workers -> Requests]
    BY <1>5, <1>i, <2>2, ReqUpdate DEF SelectMax, Reply, TypeOK
  <2> QED BY <1>5, <2>3 DEF SelectMax, TypeOK
<1>6. ASSUME NEW w \in Workers, InsertBatch(w)
      PROVE  TypeOK'
  <2>1. req[w] \in MintReq
    BY <1>6, MintShape DEF InsertBatch, At, TypeOK
  <2>2. NewDucks(w) \subseteq DuckRow
    <3>1. ASSUME NEW s \in req[w].entries
          PROVE  [flock |-> req[w].flock, prefix |-> req[w].prefix, seq |-> s,
                  originated |-> FALSE, deleted |-> FALSE] \in DuckRow
      BY <2>1 DEF MintReq, DuckRow
    <3> QED BY <3>1 DEF NewDucks
  <2>3. \A s \in req[w].entries :
          [prefix |-> req[w].prefix, seq |-> s, flock |-> req[w].flock]
            \in [prefix : Prefixes, seq : 1..MaxSeq, flock : Nat]
    BY <2>1 DEF MintReq
  <2> QED BY <1>6, <1>i, <2>2, <2>3, ReqUpdate DEF InsertBatch, Reply, TypeOK
<1>7. ASSUME NEW d \in ducks, Originate(d) \/ \E flag \in BOOLEAN : SetDeleted(d, flag)
      PROVE  TypeOK'
  BY <1>7 DEF Originate, SetDeleted, TypeOK, DuckRow
<1>8. ASSUME NEW f \in flocks, DeleteFlock(f)
      PROVE  TypeOK'
  BY <1>8 DEF DeleteFlock, TypeOK
<1>9. ASSUME NEW w \in Workers, Abandon(w)
      PROVE  TypeOK'
  BY <1>9, <1>i, ReqUpdate DEF Abandon, Reply, TypeOK
<1> QED
  BY <1>0, <1>1, <1>2, <1>3, <1>4, <1>5, <1>6, <1>7, <1>8, <1>9 DEF Next, Step

\* create and mint keep every column and every request well-typed.
THEOREM MintTypeCorrect == Spec => []TypeOK
<1>1. Init => TypeOK
  BY DEF Init, TypeOK, Requests
<1>2. TypeOK /\ [Next]_vars => TypeOK'
  BY TypeStep
<1> QED BY <1>1, <1>2, PTL DEF Spec

-----------------------------------------------------------------------------

\* The loop of mint_batch takes presentable codes past the high-water mark and
\* leaves none out before its last.
LEMMA BatchComesNext ==
  ASSUME NEW f, NEW p, NEW n \in Nat
  PROVE  /\ Batch(f, p, n) \subseteq Mintable(f, p)
         /\ \A s \in Batch(f, p, n) : \A t \in Mintable(f, p) : t < s => t \in Batch(f, p, n)
<1> DEFINE M == Mintable(f, p)
           Below(s) == {x \in M : x < s}
<1>1. IsFiniteSet(1..MaxSeq) /\ M \subseteq 1..MaxSeq
  BY FS_Interval, MintAssumption DEF Mintable, PastHighWater
<1>2. ASSUME NEW s \in Batch(f, p, n), NEW t \in M, t < s
      PROVE  t \in Batch(f, p, n)
  <2>1. s \in M /\ Cardinality(Below(s)) < n
    BY DEF Batch
  <2>2. Below(t) \subseteq Below(s)
    BY <1>1, <1>2, <2>1
  <2>3. IsFiniteSet(Below(s)) /\ IsFiniteSet(Below(t))
    BY <1>1, FS_Subset
  <2>4. Cardinality(Below(t)) <= Cardinality(Below(s))
    BY <2>2, <2>3, FS_Subset
  <2>5. Cardinality(Below(t)) \in Nat /\ Cardinality(Below(s)) \in Nat
    BY <2>3, FS_CardinalityType
  <2>6. Cardinality(Below(t)) < n
    BY <2>1, <2>4, <2>5
  <2> QED BY <2>6 DEF Batch
<1> QED BY <1>2 DEF Batch

\* Ranking the codes: seqs of one flock are told apart by how many come before.
LEMMA BatchIsFull ==
  ASSUME NEW f, NEW p, NEW n \in Nat, n <= Cardinality(Mintable(f, p))
  PROVE  Cardinality(Batch(f, p, n)) = n
<1> DEFINE M == Mintable(f, p)
           Below(s) == {x \in M : x < s}
           k == Cardinality(M)
           rank == [s \in M |-> Cardinality(Below(s))]
<1>1. M \subseteq 1..MaxSeq /\ IsFiniteSet(1..MaxSeq) /\ M \subseteq Nat
  BY FS_Interval, MintAssumption DEF Mintable, PastHighWater
<1>2. IsFiniteSet(M) /\ k \in Nat
  BY <1>1, FS_Subset, FS_CardinalityType
<1> HIDE DEF M
<1>3. \A s : IsFiniteSet(Below(s)) /\ Cardinality(Below(s)) \in Nat
  BY <1>2, FS_Subset, FS_CardinalityType
<1>4. ASSUME NEW s \in M
      PROVE  Cardinality(Below(s)) < k
  <2>1. Below(s) \subseteq M \ {s}
    BY <1>1
  <2>2. IsFiniteSet(M \ {s}) /\ Cardinality(M \ {s}) = k - 1
    BY <1>2, FS_RemoveElement
  <2>3. Cardinality(Below(s)) <= k - 1
    BY <2>1, <2>2, FS_Subset
  <2>4. Cardinality(Below(s)) \in Nat
    BY <1>3
  <2> HIDE DEF Below, k
  <2> QED BY <1>2, <2>3, <2>4
<1>5. ASSUME NEW s \in M, NEW t \in M, s < t
      PROVE  Cardinality(Below(s)) < Cardinality(Below(t))
  <2>1. Below(s) \cup {s} \subseteq Below(t)
    <3>1. \A x \in M : x < s => x < t
      BY <1>1, <1>5
    <3>2. \A x \in Below(s) : x \in M /\ x < t
      BY <3>1
    <3> QED BY <1>5, <3>2
  <2>2. s \notin Below(s)
    BY <1>1
  <2>3. Cardinality(Below(s) \cup {s}) = Cardinality(Below(s)) + 1
    BY <1>3, <2>2, FS_AddElement
  <2>4. Cardinality(Below(s) \cup {s}) <= Cardinality(Below(t))
    BY <1>3, <2>1, FS_Subset
  <2> QED BY <1>3, <2>3, <2>4
<1>6. rank \in [M -> 0..(k - 1)] /\ \A s \in M : rank[s] = Cardinality(Below(s))
  BY <1>2, <1>3, <1>4
<1>7. ASSUME NEW s \in M, NEW t \in M, rank[s] = rank[t]
      PROVE  s = t
  <2>1. rank[s] \in Nat /\ ~(s < t) /\ ~(t < s)
    BY <1>3, <1>5, <1>6, <1>7
  <2> QED BY <1>1, <2>1
<1>8. IsFiniteSet(0..(k - 1)) /\ Cardinality(0..(k - 1)) = k
  <2> HIDE DEF k
  <2>1. k - 1 \in Int /\ 0 \in Int /\ (0 > k - 1 => k = 0) /\ (k - 1) - 0 + 1 = k
    BY <1>2
  <2> QED BY <2>1, FS_Interval
<1> HIDE DEF rank, k
<1>9. rank \in Injection(M, 0..(k - 1))
  BY <1>6, <1>7 DEF Injection, IsInjective
<1>10. rank \in Surjection(M, 0..(k - 1))
  BY <1>8, <1>9, FS_Injection DEF k
<1> DEFINE B == Batch(f, p, n)
           low == [s \in B |-> rank[s]]
<1>11. \A s : s \in B <=> s \in M /\ rank[s] < n
  BY <1>6 DEF Batch, M
<1> HIDE DEF B
<1>12. low \in [B -> 0..(n - 1)]
  BY <1>2, <1>6, <1>11
<1>13. \A i \in 0..(n - 1) : \E s \in B : low[s] = i
  <2>1. TAKE i \in 0..(n - 1)
  <2>2. i \in 0..(k - 1) /\ i < n
    BY <1>2, <2>1 DEF k, M
  <2>3. PICK s \in M : rank[s] = i
    BY <1>10, <2>2 DEF Surjection
  <2> QED BY <1>11, <2>2, <2>3
<1>14. \A s, t \in B : low[s] = low[t] => s = t
  BY <1>7, <1>11
<1> HIDE DEF low
<1>15. low \in Bijection(B, 0..(n - 1))
  BY <1>12, <1>13, <1>14 DEF Bijection, Injection, IsInjective, Surjection
<1>16. IsFiniteSet(B)
  <2>1. B \subseteq M
    BY <1>11
  <2> QED BY <1>2, <2>1, FS_Subset
<1>17. Cardinality(0..(n - 1)) = Cardinality(B)
  BY <1>15, <1>16, FS_Bijection DEF ExistsBijection
<1> QED BY <1>17, FS_Interval DEF B

\* A step of one request that writes no table keeps MintInv, if the request is
\* left naming its flock, holding a lock nobody else holds and the entries that
\* come next; a flock id may be lost by it.
LEMMA RequestMoves ==
  ASSUME TypeOK, MintInv, NEW w \in Workers, NEW r,
         UNCHANGED <<flocks, ducks, printed>>, nextFlock' \in {nextFlock, nextFlock + 1},
         req' = [req EXCEPT ![w] = r],
         r.pc \in {"lock", "max", "insert"} =>
           /\ r.flock \in Nat /\ r.flock < nextFlock
           /\ \A f \in flocks : f.id = r.flock => f.prefix = r.prefix,
         r.pc \in {"max", "insert"} => \A v \in Workers \ {w} : ~HoldsLock(v, r.flock),
         r.pc = "insert" =>
           \A f \in flocks : f.id = r.flock =>
             /\ r.entries \subseteq Mintable(f.id, f.prefix)
             /\ \A s \in r.entries : \A t \in Mintable(f.id, f.prefix) : t < s => t \in r.entries,
         r.pc \in {"lock", "max", "insert"} => r.count \in 1..BatchMax,
         r.pc = "insert" => Cardinality(r.entries) = r.count
  PROVE  MintInv'
<1>1. req'[w] = r /\ \A v \in Workers \ {w} : req'[v] = req[v]
  BY ReqStep
<1>a. \A i \in Nat : i < nextFlock => i < nextFlock'
  BY DEF TypeOK
<1>2. MintedOnce' /\ SeqsDense' /\ NothingRude' /\ DucksInFlocks'
  BY DEF MintInv, MintedOnce, SeqsDense, DucksIn, NothingRude, DucksInFlocks
<1>b. FlockKeys'
  BY <1>a DEF MintInv, FlockKeys, TypeOK, FlockRow
<1>3. MintsNameFlocks'
  <2>1. \A v \in Workers : Minting(v)' =>
          /\ req'[v].flock \in Nat /\ req'[v].flock < nextFlock
          /\ \A f \in flocks : f.id = req'[v].flock => f.prefix = req'[v].prefix
    BY <1>1, MintShape DEF MintInv, MintsNameFlocks, Minting, TypeOK, MintReq
  <2> QED BY <1>a, <2>1 DEF MintsNameFlocks
<1>4. LockExclusive'
  BY <1>1 DEF MintInv, LockExclusive, HoldsLock
<1>5. \A g, p : Mintable(g, p)' = Mintable(g, p)
  BY DEF Mintable, PastHighWater, DucksIn
<1>6. EntriesComeNext'
  BY <1>1, <1>5 DEF MintInv, EntriesComeNext, At
<1>7. BatchSized'
  BY <1>1 DEF MintInv, BatchSized, Minting, At
<1> QED BY <1>2, <1>b, <1>3, <1>4, <1>6, <1>7 DEF MintInv

\* A request that ends takes nothing with it.
LEMMA ReplyKeeps ==
  ASSUME TypeOK, MintInv, NEW w \in Workers,
         UNCHANGED <<flocks, ducks, printed>>, nextFlock' \in {nextFlock, nextFlock + 1}, Reply(w)
  PROVE  MintInv'
<1>1. Idle.pc = "idle"
  BY DEF Idle
<1> QED BY <1>1, RequestMoves DEF Reply

\* A drawn prefix was nobody's and its flock has a new id.
LEMMA NewFlockKeeps ==
  ASSUME TypeOK, MintInv, NEW w \in Workers, NEW p \in Prefixes,
         p \notin RudePrefixes, ~PrefixTaken(p),
         flocks' = flocks \cup {[id |-> nextFlock, prefix |-> p, owner |-> req[w].user]},
         nextFlock' = nextFlock + 1, Reply(w), UNCHANGED <<ducks, printed>>
  PROVE  MintInv'
<1> DEFINE new == [id |-> nextFlock, prefix |-> p, owner |-> req[w].user]
<1>a. new.id = nextFlock /\ new.prefix = p /\ flocks' = flocks \cup {new} /\ nextFlock \in Nat
  BY DEF TypeOK
<1>b. \A f \in flocks : f.id < nextFlock /\ f.id \in Nat /\ f.prefix # p
  BY DEF MintInv, FlockKeys, PrefixTaken, TypeOK, FlockRow
<1>c. req'[w].pc = "idle" /\ \A v \in Workers \ {w} : req'[v] = req[v]
  <2>1. Idle.pc = "idle"
    BY DEF Idle
  <2> QED BY <2>1, ReqStep DEF Reply
<1>d. \A v \in Workers : Minting(v) => req[v].flock \in Nat
  BY MintShape DEF TypeOK, Minting, MintReq
<1> HIDE DEF new
<1>1. MintedOnce' /\ SeqsDense'
  BY DEF MintInv, MintedOnce, SeqsDense, DucksIn
<1>2. NothingRude'
  BY <1>a DEF MintInv, NothingRude
<1>3. FlockKeys'
  BY <1>a, <1>b DEF MintInv, FlockKeys
<1>4. DucksInFlocks'
  BY <1>a DEF MintInv, DucksInFlocks
<1>5. MintsNameFlocks'
  BY <1>a, <1>c, <1>d DEF MintInv, MintsNameFlocks, Minting
<1>6. LockExclusive'
  BY <1>c DEF MintInv, LockExclusive, HoldsLock
<1>7. EntriesComeNext'
  <2>1. \A g, q : Mintable(g, q)' = Mintable(g, q)
    BY DEF Mintable, PastHighWater, DucksIn
  <2>2. ASSUME NEW v \in Workers, At(v, "insert")'
        PROVE  At(v, "insert") /\ req'[v] = req[v] /\ req[v].flock < nextFlock
    BY <1>c, <2>2 DEF At, MintInv, MintsNameFlocks, Minting
  <2>3. \A v \in Workers : At(v, "insert") => req[v].flock \in Nat
    BY <1>d DEF At, Minting
  <2> QED BY <1>a, <2>1, <2>2, <2>3 DEF MintInv, EntriesComeNext
<1>8. BatchSized'
  BY <1>c DEF MintInv, BatchSized, Minting, At
<1> QED BY <1>1, <1>2, <1>3, <1>4, <1>5, <1>6, <1>7, <1>8 DEF MintInv

\* Rows that keep their flock, prefix and seq keep MintInv: origination, soft
\* delete and restore.
LEMMA SameSeqsKeep ==
  ASSUME TypeOK, MintInv, NEW d \in ducks, NEW e,
         e.flock = d.flock, e.prefix = d.prefix, e.seq = d.seq,
         ducks' = (ducks \ {d}) \cup {e}, UNCHANGED <<flocks, nextFlock, printed, req>>
  PROVE  MintInv'
<1>1. MintedOnce'
  BY DEF MintInv, MintedOnce
<1>2. \A x \in ducks : \E y \in ducks' : y.flock = x.flock /\ y.prefix = x.prefix /\ y.seq = x.seq
  OBVIOUS
<1>3. \A y \in ducks' : \E x \in ducks : y.flock = x.flock /\ y.prefix = x.prefix /\ y.seq = x.seq
  OBVIOUS
<1> HIDE <1>1
<1>4. SeqsDense'
  <2>1. SUFFICES ASSUME NEW y \in ducks', NEW s \in 1..y.seq, s \notin RudeSeqs[y.prefix]
                 PROVE  \E z \in ducks' : z.flock = y.flock /\ z.seq = s
    BY DEF SeqsDense, DucksIn
  <2>2. PICK x \in ducks : y.flock = x.flock /\ y.prefix = x.prefix /\ y.seq = x.seq
    BY <1>3
  <2>3. PICK z \in ducks : z.flock = x.flock /\ z.seq = s
    BY <2>1, <2>2 DEF MintInv, SeqsDense, DucksIn
  <2> QED BY <1>2, <2>2, <2>3
<1>5. NothingRude' /\ FlockKeys' /\ MintsNameFlocks' /\ LockExclusive'
  BY DEF MintInv, NothingRude, FlockKeys, MintsNameFlocks, Minting, LockExclusive, HoldsLock
<1>6. DucksInFlocks'
  BY <1>3 DEF MintInv, DucksInFlocks
<1>7. \A g, p : Mintable(g, p)' = Mintable(g, p)
  <2>1. ASSUME NEW g, NEW s
        PROVE  (\A x \in DucksIn(g) : x.seq < s) <=> (\A y \in DucksIn(g)' : y.seq < s)
    BY <1>2, <1>3 DEF DucksIn
  <2> QED BY <2>1 DEF Mintable, PastHighWater
<1>8. EntriesComeNext' /\ BatchSized'
  BY <1>7 DEF MintInv, EntriesComeNext, BatchSized, Minting, At
<1> QED BY <1>1, <1>4, <1>5, <1>6, <1>8 DEF MintInv

\* A hard-deleted flock goes with all its ducks; its id is not used again, so a
\* mint that was under way into it can only fail.
LEMMA DeleteFlockKeeps ==
  ASSUME TypeOK, MintInv, NEW f \in flocks, DeleteFlock(f)
  PROVE  MintInv'
<1>1. /\ flocks' = flocks \ {f} /\ ducks' = {d \in ducks : d.flock # f.id}
      /\ UNCHANGED <<nextFlock, printed, req>>
  BY DEF DeleteFlock, DucksIn
<1>2. MintedOnce'
  BY <1>1 DEF MintInv, MintedOnce
<1>3. SeqsDense'
  BY <1>1 DEF MintInv, SeqsDense, DucksIn
<1>4. NothingRude' /\ FlockKeys'
  BY <1>1 DEF MintInv, NothingRude, FlockKeys
<1>5. DucksInFlocks'
  BY <1>1 DEF MintInv, DucksInFlocks
<1>6. MintsNameFlocks' /\ LockExclusive'
  BY <1>1 DEF MintInv, MintsNameFlocks, Minting, LockExclusive, HoldsLock
<1>7. ASSUME NEW g \in flocks'
      PROVE  g \in flocks /\ \A p : Mintable(g.id, p)' = Mintable(g.id, p)
  <2>1. g \in flocks /\ g.id # f.id
    BY <1>1 DEF MintInv, FlockKeys
  <2> QED BY <1>1, <2>1 DEF Mintable, PastHighWater, DucksIn
<1>8. EntriesComeNext' /\ BatchSized'
  BY <1>1, <1>7 DEF MintInv, EntriesComeNext, BatchSized, Minting, At
<1> QED BY <1>2, <1>3, <1>4, <1>5, <1>6, <1>8 DEF MintInv

\* A batch lands in a flock whose lock its request holds: past every seq of the
\* flock, without leaving a gap, and out of reach of every other batch.
LEMMA InsertKeeps ==
  ASSUME TypeOK, MintInv, NEW w \in Workers, At(w, "insert"),
         NEW f \in flocks, f.id = req[w].flock,
         ducks' = ducks \cup NewDucks(w),
         printed' = printed \cup
           {[prefix |-> req[w].prefix, seq |-> s, flock |-> req[w].flock] :
              s \in req[w].entries},
         Reply(w), UNCHANGED <<flocks, nextFlock>>
  PROVE  MintInv'
<1> DEFINE E == req[w].entries
           M == Mintable(f.id, f.prefix)
<1>a. /\ f.prefix = req[w].prefix
      /\ E \subseteq M /\ \A s \in E : \A t \in M : t < s => t \in E
  BY DEF MintInv, MintsNameFlocks, Minting, At, EntriesComeNext
<1>b. M = {s \in 1..MaxSeq : s \notin RudeSeqs[f.prefix] /\ \A d \in DucksIn(f.id) : d.seq < s}
  BY DEF Mintable, PastHighWater
<1>c. \A d \in ducks : d.seq \in Nat
  BY MintAssumption DEF TypeOK, DuckRow
<1> DEFINE row(s) == [flock |-> req[w].flock, prefix |-> req[w].prefix, seq |-> s,
                      originated |-> FALSE, deleted |-> FALSE]
<1>r. /\ ducks' = ducks \cup {row(s) : s \in E}
      /\ \A s : row(s).flock = f.id /\ row(s).prefix = f.prefix /\ row(s).seq = s
  BY <1>a DEF NewDucks
<1> HIDE DEF row
<1>d. \A d \in ducks' \ ducks : d.flock = f.id /\ d.prefix = f.prefix /\ d.seq \in E
  BY <1>r
<1>e. \A s \in E : \E d \in ducks' : d.flock = f.id /\ d.seq = s
  BY <1>r
<1>f. \A d, e \in ducks' \ ducks : d.seq = e.seq => d = e
  BY <1>r
<1>g. ducks \subseteq ducks'
  OBVIOUS
<1>h. \A d \in ducks : d.flock = f.id \/ d.prefix = f.prefix => d \in DucksIn(f.id)
  BY DEF MintInv, DucksInFlocks, FlockKeys, DucksIn
<1>i. req'[w].pc = "idle" /\ \A v \in Workers \ {w} : req'[v] = req[v]
  <2>1. Idle.pc = "idle"
    BY DEF Idle
  <2> QED BY <2>1, ReqStep DEF Reply
<1>j. \A d \in ducks, s \in E : d.flock = f.id \/ d.prefix = f.prefix => d.seq # s
  BY <1>a, <1>b, <1>c, <1>h
<1> HIDE DEF E, M
<1>1. MintedOnce'
  <2>1. SUFFICES ASSUME NEW d \in ducks', NEW e \in ducks',
                        d.flock = e.flock \/ d.prefix = e.prefix, d.seq = e.seq
                 PROVE  d = e
    BY DEF MintedOnce
  <2>2. CASE d \in ducks /\ e \in ducks
    BY <2>1, <2>2 DEF MintInv, MintedOnce
  <2>3. CASE d \in ducks /\ e \notin ducks
    BY <2>1, <2>3, <1>d, <1>j
  <2>4. CASE d \notin ducks /\ e \in ducks
    BY <2>1, <2>4, <1>d, <1>j
  <2>5. CASE d \notin ducks /\ e \notin ducks
    BY <2>1, <2>5, <1>f
  <2> QED BY <2>2, <2>3, <2>4, <2>5
<1>2. SeqsDense'
  <2>1. SUFFICES ASSUME NEW d \in ducks', NEW s \in 1..d.seq, s \notin RudeSeqs[d.prefix]
                 PROVE  \E e \in ducks' : e.flock = d.flock /\ e.seq = s
    BY DEF SeqsDense, DucksIn
  <2>2. CASE d \in ducks
    BY <1>g, <2>1, <2>2 DEF MintInv, SeqsDense, DucksIn
  <2>3. CASE d \notin ducks
    <3>1. d.flock = f.id /\ d.prefix = f.prefix /\ d.seq \in E /\ d.seq \in 1..MaxSeq
      BY <2>3, <1>a, <1>b, <1>d
    <3>2. CASE s = d.seq
      BY <3>2
    <3>3. CASE s # d.seq /\ s \in M
      BY <3>1, <3>3, <1>a, <1>e, MintAssumption
    <3>4. CASE s \notin M
      <4>1. s \in 1..MaxSeq
        BY <2>1, <3>1, MintAssumption
      <4>2. PICK x \in DucksIn(f.id) : ~(x.seq < s)
        BY <1>b, <2>1, <3>1, <3>4, <4>1
      <4>3. x \in ducks /\ x.flock = f.id /\ s \in 1..x.seq
        BY <1>c, <4>1, <4>2 DEF DucksIn
      <4>4. x.prefix = f.prefix
        BY <4>3 DEF MintInv, DucksInFlocks, FlockKeys
      <4> QED BY <1>g, <2>1, <3>1, <4>3, <4>4 DEF MintInv, SeqsDense, DucksIn
    <3> QED BY <3>2, <3>3, <3>4
  <2> QED BY <2>2, <2>3
<1>3. NothingRude'
  <2>1. \A c \in printed' \ printed : c.prefix = f.prefix /\ c.seq \in E
    BY <1>a DEF E
  <2>2. \A s \in E : s \notin RudeSeqs[f.prefix]
    BY <1>a, <1>b
  <2> QED BY <2>1, <2>2 DEF MintInv, NothingRude
<1>4. FlockKeys'
  BY DEF MintInv, FlockKeys
<1>5. DucksInFlocks'
  BY <1>d DEF MintInv, DucksInFlocks
<1>6. MintsNameFlocks' /\ LockExclusive'
  BY <1>i DEF MintInv, MintsNameFlocks, Minting, LockExclusive, HoldsLock
<1>7. EntriesComeNext'
  <2>1. ASSUME NEW v \in Workers, At(v, "insert")'
        PROVE  v # w /\ req'[v] = req[v] /\ At(v, "insert")
    BY <1>i, <2>1 DEF At
  <2>2. ASSUME NEW v \in Workers, At(v, "insert"), v # w
        PROVE  req[v].flock # f.id
    BY <2>2 DEF MintInv, LockExclusive, HoldsLock, At
  <2>3. ASSUME NEW g, g # f.id
        PROVE  \A p : Mintable(g, p)' = Mintable(g, p)
    BY <1>d, <1>g, <2>3 DEF Mintable, PastHighWater, DucksIn
  <2>4. SUFFICES ASSUME NEW v \in Workers, At(v, "insert")', NEW g \in flocks, g.id = req[v].flock
                 PROVE  /\ req[v].entries \subseteq Mintable(g.id, g.prefix)'
                        /\ \A s \in req[v].entries : \A t \in Mintable(g.id, g.prefix)' :
                             t < s => t \in req[v].entries
    BY <2>1 DEF EntriesComeNext
  <2>5. Mintable(g.id, g.prefix)' = Mintable(g.id, g.prefix)
    BY <2>1, <2>2, <2>3, <2>4
  <2> QED BY <2>1, <2>4, <2>5 DEF MintInv, EntriesComeNext
<1>8. BatchSized'
  BY <1>i DEF MintInv, BatchSized, Minting, At
<1> QED BY <1>1, <1>2, <1>3, <1>4, <1>5, <1>6, <1>7, <1>8 DEF MintInv

-----------------------------------------------------------------------------

\* Every step of create, mint and the other writers keeps MintInv.
LEMMA MintStep ==
  ASSUME TypeOK, MintInv, [Next]_vars
  PROVE  MintInv'
<1>0. CASE UNCHANGED vars
  BY <1>0
  DEF vars, MintInv, MintedOnce, SeqsDense, DucksIn, NothingRude, FlockKeys, DucksInFlocks,
      MintsNameFlocks, Minting, LockExclusive, HoldsLock, EntriesComeNext, BatchSized,
      Mintable, PastHighWater, At
<1>1. ASSUME NEW w \in Workers, NEW u \in Users, CreateCheck(w, u)
      PROVE  MintInv'
  <2> DEFINE r == [pc |-> "draw", user |-> u, tries |-> DrawAttempts]
  <2>1. r.pc = "draw" /\ req' = [req EXCEPT ![w] = r]
    BY <1>1 DEF CreateCheck
  <2> HIDE DEF r
  <2> QED BY <1>1, <2>1, RequestMoves DEF CreateCheck
<1>2. ASSUME NEW w \in Workers, NEW p \in Prefixes, DrawPrefix(w, p)
      PROVE  MintInv'
  <2>1. CASE p \in RudePrefixes \/ PrefixTaken(p)
    <3> DEFINE r == [req[w] EXCEPT !.tries = req[w].tries - 1]
    <3>1. req[w] \in CreateReq
      BY <1>2, MintShape DEF DrawPrefix, At, TypeOK
    <3>2. r.pc = "draw"
      BY <3>1 DEF CreateReq
    <3>3. UNCHANGED <<flocks, ducks, printed>> /\ nextFlock' \in {nextFlock, nextFlock + 1}
      BY <1>2, <2>1 DEF DrawPrefix
    <3>4. Reply(w) \/ req' = [req EXCEPT ![w] = r]
      BY <1>2, <2>1 DEF DrawPrefix
    <3> HIDE DEF r
    <3> QED BY <3>2, <3>3, <3>4, ReplyKeeps, RequestMoves
  <2>2. CASE ~(p \in RudePrefixes \/ PrefixTaken(p))
    BY <1>2, <2>2, NewFlockKeeps DEF DrawPrefix
  <2> QED BY <2>1, <2>2
<1>3. ASSUME NEW w \in Workers, NEW f \in flocks, NEW n \in Nat, MintCheck(w, f, n)
      PROVE  MintInv'
  <2> DEFINE r == [pc |-> "lock", flock |-> f.id, prefix |-> f.prefix,
                   count |-> ClampCount(n), entries |-> {}]
  <2>1. r.pc = "lock" /\ r.flock = f.id /\ r.prefix = f.prefix /\ req' = [req EXCEPT ![w] = r]
    BY <1>3 DEF MintCheck
  <2>c. r.count \in 1..BatchMax
    <3>1. r.count = ClampCount(n)
      OBVIOUS
    <3> QED BY <3>1, ClampIsCount
  <2>2. f.id \in Nat /\ f.id < nextFlock /\ \A g \in flocks : g.id = f.id => g.prefix = f.prefix
    BY DEF MintInv, FlockKeys, TypeOK, FlockRow
  <2> HIDE DEF r
  <2>3. UNCHANGED <<flocks, ducks, nextFlock, printed>>
    BY <1>3 DEF MintCheck
  <2>4. r.pc \notin {"max", "insert"} /\ r.pc # "insert"
    BY <2>1
  <2> QED BY <2>1, <2>c, <2>2, <2>3, <2>4, RequestMoves
<1>4. ASSUME NEW w \in Workers, AdvisoryLock(w)
      PROVE  MintInv'
  <2> DEFINE r == [req[w] EXCEPT !.pc = "max"]
  <2>1. req[w] \in MintReq
    BY <1>4, MintShape DEF AdvisoryLock, At, TypeOK
  <2>2. /\ r.pc = "max" /\ r.flock = req[w].flock /\ r.prefix = req[w].prefix
        /\ r.count = req[w].count /\ req' = [req EXCEPT ![w] = r]
    BY <1>4, <2>1 DEF AdvisoryLock, MintReq
  <2>3. /\ req[w].flock \in Nat /\ req[w].flock < nextFlock
        /\ \A g \in flocks : g.id = req[w].flock => g.prefix = req[w].prefix
        /\ req[w].count \in 1..BatchMax
    BY <1>4, <2>1 DEF AdvisoryLock, At, MintInv, MintsNameFlocks, BatchSized, Minting, MintReq
  <2> HIDE DEF r
  <2> QED BY <1>4, <2>2, <2>3, RequestMoves DEF AdvisoryLock
<1>5. ASSUME NEW w \in Workers, SelectMax(w)
      PROVE  MintInv'
  <2> DEFINE B == Batch(req[w].flock, req[w].prefix, req[w].count)
             r == [req[w] EXCEPT !.pc = "insert", !.entries = B]
  <2>1. req[w] \in MintReq
    BY <1>5, MintShape DEF SelectMax, At, TypeOK
  <2>2. /\ B \subseteq Mintable(req[w].flock, req[w].prefix)
        /\ \A s \in B : \A t \in Mintable(req[w].flock, req[w].prefix) : t < s => t \in B
    BY <2>1, BatchComesNext DEF MintReq
  <2>3. Reply(w) \/ (req' = [req EXCEPT ![w] = r] /\ Cardinality(B) = req[w].count)
    <3>1. CASE Cardinality(Mintable(req[w].flock, req[w].prefix)) < req[w].count
      BY <1>5, <3>1 DEF SelectMax
    <3>2. CASE ~(Cardinality(Mintable(req[w].flock, req[w].prefix)) < req[w].count)
      <4> DEFINE M == Mintable(req[w].flock, req[w].prefix)
      <4>1. req[w].count \in Nat /\ Cardinality(M) \in Nat
        <5>1. M \subseteq 1..MaxSeq /\ IsFiniteSet(1..MaxSeq)
          BY FS_Interval, MintAssumption DEF Mintable, PastHighWater
        <5> QED BY <2>1, <5>1, FS_Subset, FS_CardinalityType DEF MintReq
      <4>2. Cardinality(B) = req[w].count
        BY <3>2, <4>1, BatchIsFull
      <4> QED BY <1>5, <3>2, <4>2 DEF SelectMax
    <3> QED BY <3>1, <3>2
  <2> HIDE DEF B
  <2>4. /\ r.pc = "insert" /\ r.flock = req[w].flock /\ r.prefix = req[w].prefix
        /\ r.entries = B /\ r.count = req[w].count
    BY <2>1 DEF MintReq
  <2>5. /\ req[w].flock \in Nat /\ req[w].flock < nextFlock
        /\ \A g \in flocks : g.id = req[w].flock => g.prefix = req[w].prefix
        /\ req[w].count \in 1..BatchMax
    BY <1>5, <2>1 DEF SelectMax, At, MintInv, MintsNameFlocks, BatchSized, Minting, MintReq
  <2>6. \A v \in Workers \ {w} : ~HoldsLock(v, req[w].flock)
    BY <1>5 DEF SelectMax, At, MintInv, LockExclusive, HoldsLock
  <2>7. UNCHANGED <<flocks, ducks, nextFlock, printed>>
    BY <1>5 DEF SelectMax
  <2> HIDE DEF r
  <2> QED BY <2>2, <2>3, <2>4, <2>5, <2>6, <2>7, ReplyKeeps, RequestMoves
<1>6. ASSUME NEW w \in Workers, InsertBatch(w)
      PROVE  MintInv'
  <2>1. CASE \E f \in flocks : f.id = req[w].flock
    BY <1>6, <2>1, InsertKeeps DEF InsertBatch
  <2>2. CASE ~ \E f \in flocks : f.id = req[w].flock
    BY <1>6, <2>2, ReplyKeeps DEF InsertBatch
  <2> QED BY <2>1, <2>2
<1>7. ASSUME NEW d \in ducks, Originate(d) \/ \E flag \in BOOLEAN : SetDeleted(d, flag)
      PROVE  MintInv'
  <2>1. PICK e : /\ e.flock = d.flock /\ e.prefix = d.prefix /\ e.seq = d.seq
                 /\ ducks' = (ducks \ {d}) \cup {e}
    <3>1. d \in DuckRow
      BY DEF TypeOK
    <3>2. ASSUME Originate(d)
          PROVE  ducks' = (ducks \ {d}) \cup {[d EXCEPT !.originated = TRUE]}
      BY <3>2 DEF Originate
    <3>3. ASSUME NEW flag \in BOOLEAN, SetDeleted(d, flag)
          PROVE  ducks' = (ducks \ {d}) \cup {[d EXCEPT !.deleted = flag]}
      BY <3>3 DEF SetDeleted
    <3> QED BY <1>7, <3>1, <3>2, <3>3 DEF DuckRow
  <2>2. UNCHANGED <<flocks, nextFlock, printed, req>>
    BY <1>7 DEF Originate, SetDeleted
  <2> QED BY <2>1, <2>2, SameSeqsKeep
<1>8. ASSUME NEW f \in flocks, DeleteFlock(f)
      PROVE  MintInv'
  BY <1>8, DeleteFlockKeeps
<1>9. ASSUME NEW w \in Workers, Abandon(w)
      PROVE  MintInv'
  BY <1>9, ReplyKeeps DEF Abandon
<1> QED
  BY <1>0, <1>1, <1>2, <1>3, <1>4, <1>5, <1>6, <1>7, <1>8, <1>9 DEF Next, Step

\* MintInv, the inductive invariant, holds in every reachable state.
THEOREM MintInvariant == Spec => []MintInv
<1>1. Init => MintInv
  BY DEF Init, Idle, MintInv, MintedOnce, SeqsDense, NothingRude, FlockKeys, DucksInFlocks,
         MintsNameFlocks, Minting, LockExclusive, HoldsLock, EntriesComeNext, BatchSized, At
<1>2. TypeOK /\ MintInv /\ [Next]_vars => MintInv'
  BY MintStep
<1> QED BY <1>1, <1>2, MintTypeCorrect, PTL DEF Spec

\* A batch on its way that lands is whole and new, and its flock is there.
LEMMA BatchLands ==
  ASSUME TypeOK, MintInv, NEW w \in Workers, InsertBatch(w)
  PROVE  LET new == ducks' \ ducks IN
         new = {} \/ /\ Cardinality(new) = req[w].count
                     /\ \A d \in new : \E f \in flocks : f.id = d.flock /\ f.prefix = d.prefix
<1>1. CASE ~ \E f \in flocks : f.id = req[w].flock
  BY <1>1 DEF InsertBatch
<1>2. ASSUME NEW f \in flocks, f.id = req[w].flock
      PROVE  /\ Cardinality(ducks' \ ducks) = req[w].count
             /\ \A d \in ducks' \ ducks : \E g \in flocks : g.id = d.flock /\ g.prefix = d.prefix
  <2> DEFINE E == req[w].entries
             row(s) == [flock |-> req[w].flock, prefix |-> req[w].prefix, seq |-> s,
                        originated |-> FALSE, deleted |-> FALSE]
             new == {row(s) : s \in E}
             place == [s \in E |-> row(s)]
  <2>1. /\ f.prefix = req[w].prefix /\ E \subseteq Mintable(f.id, f.prefix)
        /\ Cardinality(E) = req[w].count
    BY <1>2 DEF InsertBatch, At, MintInv, MintsNameFlocks, Minting, EntriesComeNext, BatchSized
  <2>2. ducks' = ducks \cup new
    BY <1>2 DEF InsertBatch, NewDucks
  <2>3. \A s : row(s).flock = f.id /\ row(s).prefix = f.prefix /\ row(s).seq = s
    BY <1>2, <2>1
  <2>4. \A d \in ducks : d.seq \in Nat
    BY MintAssumption DEF TypeOK, DuckRow
  <2> HIDE DEF row
  <2>5. \A s \in E : s \in Nat /\ row(s) \notin ducks
    BY <2>1, <2>3, <2>4, MintAssumption DEF Mintable, PastHighWater, DucksIn
  <2>6. ducks' \ ducks = new
    BY <2>2, <2>5
  <2>7. place \in Bijection(E, new)
    <3>1. place \in [E -> new] /\ \A d \in new : \E s \in E : place[s] = d
      OBVIOUS
    <3>2. \A s, t \in E : place[s] = place[t] => s = t
      BY <2>3
    <3> HIDE DEF place, new
    <3> QED BY <3>1, <3>2 DEF Bijection, Injection, IsInjective, Surjection
  <2>8. IsFiniteSet(E)
    <3>1. E \subseteq 1..MaxSeq /\ IsFiniteSet(1..MaxSeq)
      BY <2>1, FS_Interval, MintAssumption DEF Mintable, PastHighWater
    <3> QED BY <3>1, FS_Subset
  <2>9. Cardinality(new) = Cardinality(E)
    <3> HIDE DEF place, new
    <3> QED BY <2>7, <2>8, FS_Bijection DEF ExistsBijection
  <2>10. \A d \in new : d.flock = f.id /\ d.prefix = f.prefix
    BY <2>3
  <2> HIDE DEF new
  <2> QED BY <2>1, <2>6, <2>9, <2>10
<1> QED BY <1>1, <1>2

\* No request sees half a batch: it is inserted whole or not at all.
THEOREM BatchesWhole == Spec => BatchAtomic
<1> DEFINE Whole(w) ==
      At(w, "insert") /\ req'[w] # req[w] =>
        LET new == ducks' \ ducks IN
        new = {} \/ /\ Cardinality(new) = req[w].count
                    /\ \A d \in new : \E f \in flocks : f.id = d.flock /\ f.prefix = d.prefix
<1>1. ASSUME TypeOK, MintInv, [Next]_vars, NEW w \in Workers, At(w, "insert"), req'[w] # req[w]
      PROVE  InsertBatch(w) \/ ducks' = ducks \/ ducks' \ ducks = {}
  <2>1. ASSUME NEW v \in Workers, v # w
        PROVE  ~InsertBatch(v)
    BY <1>1, <2>1, ReqStep DEF InsertBatch, Reply
  <2>2. UNCHANGED vars => req'[w] = req[w]
    BY DEF vars
  <2>3. \A d \in ducks : Originate(d) \/ (\E flag \in BOOLEAN : SetDeleted(d, flag)) => req' = req
    BY DEF Originate, SetDeleted
  <2>4. \A f \in flocks : DeleteFlock(f) => req' = req
    BY DEF DeleteFlock
  <2> QED
    BY <1>1, <2>1, <2>2, <2>3, <2>4
    DEF Next, Step, CreateCheck, DrawPrefix, MintCheck, AdvisoryLock, SelectMax, Abandon
<1>2. TypeOK /\ MintInv /\ [Next]_vars => [\A w \in Workers : Whole(w)]_vars
  <2>1. SUFFICES ASSUME TypeOK, MintInv, [Next]_vars, NEW w \in Workers,
                        At(w, "insert"), req'[w] # req[w]
                 PROVE  LET new == ducks' \ ducks IN
                        new = {} \/ /\ Cardinality(new) = req[w].count
                                    /\ \A d \in new : \E f \in flocks :
                                         f.id = d.flock /\ f.prefix = d.prefix
    OBVIOUS
  <2> QED BY <1>1, <2>1, BatchLands
<1> QED BY <1>2, MintTypeCorrect, MintInvariant, PTL DEF Spec, BatchAtomic

-----------------------------------------------------------------------------

\* What the register calls free is what mint_batch would mint: below the
\* high-water mark nothing presentable is left.
LEMMA FreeIsMintable ==
  ASSUME TypeOK, MintInv, NEW f \in flocks
  PROVE  Registry!Free([id |-> f.id, prefix |-> f.prefix]) = Mintable(f.id, f.prefix)
<1> DEFINE F == {s \in 1..MaxSeq : s \notin RudeSeqs[f.prefix] /\
                  ~ \E d \in ducks : d.flock = f.id /\ d.seq = s}
<1>1. Registry!Free([id |-> f.id, prefix |-> f.prefix]) = F
  <2> DEFINE g == [id |-> f.id, prefix |-> f.prefix]
             code(d) == [flock |-> d.flock, prefix |-> d.prefix, seq |-> d.seq]
             H == {code(d) : d \in ducks}
  <2>1. g.id = f.id /\ g.prefix = f.prefix
    OBVIOUS
  <2>2. \A s : (\E c \in H : c.flock = f.id /\ c.seq = s)
                <=> (\E d \in ducks : d.flock = f.id /\ d.seq = s)
    <3>1. \A d : code(d).flock = d.flock /\ code(d).seq = d.seq
      OBVIOUS
    <3> HIDE DEF code
    <3> QED BY <3>1
  <2>3. Registry!Free(g) =
          {s \in 1..MaxSeq : s \notin RudeSeqs[g.prefix] /\
             ~ \E c \in H : c.flock = g.id /\ c.seq = s}
    BY DEF Registry!Free
  <2> HIDE DEF g, H
  <2>4. Registry!Free(g) = F
    BY <2>1, <2>2, <2>3
  <2> QED BY <2>4 DEF g
<1>2. ASSUME NEW s \in 1..MaxSeq, s \notin RudeSeqs[f.prefix]
      PROVE  (\E d \in ducks : d.flock = f.id /\ d.seq = s)
               <=> ~(\A d \in DucksIn(f.id) : d.seq < s)
  <2>1. \A d \in ducks : d.seq \in 1..MaxSeq
    BY DEF TypeOK, DuckRow
  <2>2. ASSUME NEW d \in DucksIn(f.id), ~(d.seq < s)
        PROVE  \E e \in ducks : e.flock = f.id /\ e.seq = s
    <3>1. d \in ducks /\ d.flock = f.id /\ s \in 1..d.seq
      BY <2>1, <2>2, MintAssumption DEF DucksIn
    <3>2. d.prefix = f.prefix
      BY <3>1 DEF MintInv, DucksInFlocks, FlockKeys
    <3> QED BY <1>2, <3>1, <3>2 DEF MintInv, SeqsDense, DucksIn
  <2> QED BY <2>1, <2>2, MintAssumption DEF DucksIn
<1>3. F = Mintable(f.id, f.prefix)
  BY <1>2 DEF Mintable, PastHighWater
<1> QED BY <1>1, <1>3

\* A new flock is opened in the register under its prefix.
LEMMA DrawOpens ==
  ASSUME TypeOK, MintInv, NEW w \in Workers, NEW p \in Prefixes, DrawPrefix(w, p),
         ~(p \in RudePrefixes \/ PrefixTaken(p))
  PROVE  Registry!Open(p)
<1> DEFINE new == [id |-> nextFlock, prefix |-> p, owner |-> req[w].user]
           reg(f) == [id |-> f.id, prefix |-> f.prefix]
           code(d) == [flock |-> d.flock, prefix |-> d.prefix, seq |-> d.seq]
<1>1. flocks' = flocks \cup {new} /\ nextFlock' = nextFlock + 1 /\ ducks' = ducks
  BY DEF DrawPrefix
<1>2. reg(new) = [id |-> nextFlock, prefix |-> p]
  OBVIOUS
<1>3. {reg(f) : f \in flocks'} = {reg(f) : f \in flocks} \cup {[id |-> nextFlock, prefix |-> p]}
  <2> HIDE DEF new
  <2>1. \A f : f \in flocks' <=> f \in flocks \/ f = new
    BY <1>1
  <2> HIDE DEF reg
  <2> QED BY <1>2, <2>1
<1>4. \A g \in {reg(f) : f \in flocks} : g.prefix # p
  BY DEF PrefixTaken
<1>5. {code(d) : d \in ducks'} = {code(d) : d \in ducks}
  BY <1>1
<1> QED BY <1>1, <1>3, <1>4, <1>5 DEF Registry!Open

\* A hard-deleted flock is closed with its codes.
LEMMA DeleteCloses ==
  ASSUME TypeOK, MintInv, NEW f \in flocks, DeleteFlock(f)
  PROVE  Registry!Close([id |-> f.id, prefix |-> f.prefix])
<1> DEFINE reg(g) == [id |-> g.id, prefix |-> g.prefix]
           code(d) == [flock |-> d.flock, prefix |-> d.prefix, seq |-> d.seq]
<1>1. /\ flocks' = flocks \ {f} /\ ducks' = {d \in ducks : d.flock # f.id}
      /\ nextFlock' = nextFlock
  BY DEF DeleteFlock, DucksIn
<1>2. \A g \in flocks : reg(g) = reg(f) => g = f
  <2>1. \A g \in flocks : reg(g).id = g.id
    OBVIOUS
  <2> QED BY <2>1 DEF MintInv, FlockKeys
<1>3. {reg(g) : g \in flocks'} = {reg(g) : g \in flocks} \ {reg(f)}
  <2> HIDE DEF reg
  <2> QED BY <1>1, <1>2
<1>4. \A d : code(d).flock = d.flock
  OBVIOUS
<1>5. {code(d) : d \in ducks'} = {c \in {code(d) : d \in ducks} : c.flock # f.id}
  <2> HIDE DEF code
  <2> QED BY <1>1, <1>4
<1>6. reg(f).id = f.id
  OBVIOUS
<1> QED BY <1>1, <1>3, <1>5, <1>6 DEF Registry!Close

\* A committed batch is handed out: the lowest free seqs of its flock.
LEMMA InsertHands ==
  ASSUME TypeOK, MintInv, NEW w \in Workers, InsertBatch(w),
         NEW f \in flocks, f.id = req[w].flock, NEW E, E = req[w].entries
  PROVE  Registry!Hand([id |-> f.id, prefix |-> f.prefix], E)
<1> DEFINE g == [id |-> f.id, prefix |-> f.prefix]
           code(d) == [flock |-> d.flock, prefix |-> d.prefix, seq |-> d.seq]
           row(s) == [flock |-> req[w].flock, prefix |-> req[w].prefix, seq |-> s,
                      originated |-> FALSE, deleted |-> FALSE]
           H == {code(d) : d \in ducks}
<1>1. /\ f.prefix = req[w].prefix
      /\ E \subseteq Mintable(f.id, f.prefix)
      /\ \A s \in E : \A t \in Mintable(f.id, f.prefix) : t < s => t \in E
      /\ Cardinality(E) \in 1..BatchMax
  BY DEF InsertBatch, At, MintInv, MintsNameFlocks, Minting, EntriesComeNext, BatchSized
<1>2. ducks' = ducks \cup {row(s) : s \in E} /\ UNCHANGED <<flocks, nextFlock>>
  BY DEF InsertBatch, NewDucks
<1>3. \A s : code(row(s)) = [flock |-> f.id, prefix |-> f.prefix, seq |-> s]
  BY <1>1
<1>4. {code(d) : d \in ducks'} =
        {code(d) : d \in ducks} \cup {[flock |-> f.id, prefix |-> f.prefix, seq |-> s] : s \in E}
  <2> HIDE DEF row, code
  <2>1. \A d : d \in ducks' <=> d \in ducks \/ \E s \in E : d = row(s)
    BY <1>2
  <2> QED BY <1>3, <2>1
<1>5. Registry!Free(g) = Mintable(f.id, f.prefix)
  BY FreeIsMintable
<1>6. g.id = f.id /\ g.prefix = f.prefix
  OBVIOUS
<1> HIDE DEF g
<1>7. /\ E \subseteq Registry!Free(g)
      /\ \A s \in E, t \in Registry!Free(g) : t < s => t \in E
  BY <1>1, <1>5
<1>8. Registry!Hand(g, E)
  <2>1. {code(d) : d \in ducks'} =
          {code(d) : d \in ducks} \cup {[flock |-> g.id, prefix |-> g.prefix, seq |-> s] : s \in E}
    BY <1>4, <1>6
  <2>2. {[id |-> x.id, prefix |-> x.prefix] : x \in flocks'}
          = {[id |-> x.id, prefix |-> x.prefix] : x \in flocks} /\ nextFlock' = nextFlock
    BY <1>2
  <2>3. Cardinality(E) \in 1..BatchMax
    BY <1>1
  <2>c. Registry!Cardinality(E) = Cardinality(E)
    BY DEF Registry!Cardinality, Cardinality
  <2> DEFINE F == Registry!Free(g)
             N == {[flock |-> g.id, prefix |-> g.prefix, seq |-> s] : s \in E}
  <2>4. E \subseteq F /\ \A s \in E, t \in F : t < s => t \in E
    BY <1>7
  <2>5. ({code(d) : d \in ducks})' = {code(d) : d \in ducks} \cup N
    BY <2>1
  <2> SUFFICES /\ E \subseteq F /\ Cardinality(E) \in 1..BatchMax
               /\ \A s \in E, t \in F : t < s => t \in E
               /\ ({code(d) : d \in ducks})' = {code(d) : d \in ducks} \cup N
               /\ {[id |-> x.id, prefix |-> x.prefix] : x \in flocks'}
                    = {[id |-> x.id, prefix |-> x.prefix] : x \in flocks}
               /\ nextFlock' = nextFlock
    BY <2>c DEF Registry!Hand
  <2> HIDE DEF F, N, code
  <2> QED BY <2>2, <2>3, <2>4, <2>5
<1> QED BY <1>8 DEF g

\* A row that keeps its flock, prefix and seq is the same code.
LEMMA SameCodes ==
  ASSUME NEW d \in ducks, NEW e, e.flock = d.flock, e.prefix = d.prefix, e.seq = d.seq,
         ducks' = (ducks \ {d}) \cup {e}, UNCHANGED <<flocks, nextFlock>>
  PROVE  UNCHANGED Registry!regVars
<1> DEFINE code(x) == [flock |-> x.flock, prefix |-> x.prefix, seq |-> x.seq]
<1>1. code(d) = code(e)
  OBVIOUS
<1>2. {code(x) : x \in ducks'} = {code(x) : x \in ducks}
  <2> HIDE DEF code
  <2> QED BY <1>1
<1> QED BY <1>2 DEF Registry!regVars

\* Every step of a request is a step of the register or invisible in it.
LEMMA RegistryStep ==
  ASSUME TypeOK, MintInv, [Next]_vars
  PROVE  [Registry!Next]_Registry!regVars
<1>0. ASSUME UNCHANGED <<flocks, ducks, nextFlock>>
      PROVE  UNCHANGED Registry!regVars
  BY <1>0 DEF Registry!regVars
<1>m. ASSUME UNCHANGED <<flocks, ducks>>, nextFlock' \in {nextFlock, nextFlock + 1}
      PROVE  [Registry!Next]_Registry!regVars
  <2>1. CASE nextFlock' = nextFlock + 1
    BY <1>m, <2>1 DEF Registry!Next, Registry!SkipId
  <2> QED BY <1>0, <1>m, <2>1
<1>1. ASSUME NEW w \in Workers, NEW u \in Users, CreateCheck(w, u)
      PROVE  UNCHANGED Registry!regVars
  BY <1>0, <1>1 DEF CreateCheck
<1>2. ASSUME NEW w \in Workers, NEW p \in Prefixes, DrawPrefix(w, p)
      PROVE  [Registry!Next]_Registry!regVars
  <2>1. CASE p \in RudePrefixes \/ PrefixTaken(p)
    <3>1. UNCHANGED <<flocks, ducks>> /\ nextFlock' \in {nextFlock, nextFlock + 1}
      BY <1>2, <2>1 DEF DrawPrefix
    <3> QED BY <1>m, <3>1
  <2>2. CASE ~(p \in RudePrefixes \/ PrefixTaken(p))
    BY <1>2, <2>2, DrawOpens DEF Registry!Next
  <2> QED BY <2>1, <2>2
<1>3. ASSUME NEW w \in Workers, NEW f \in flocks, NEW n \in Nat, MintCheck(w, f, n)
      PROVE  UNCHANGED Registry!regVars
  BY <1>0, <1>3 DEF MintCheck
<1>4. ASSUME NEW w \in Workers, AdvisoryLock(w) \/ SelectMax(w)
      PROVE  UNCHANGED Registry!regVars
  BY <1>0, <1>4 DEF AdvisoryLock, SelectMax
<1>5. ASSUME NEW w \in Workers, InsertBatch(w)
      PROVE  [Registry!Next]_Registry!regVars
  <2>1. CASE ~ \E f \in flocks : f.id = req[w].flock
    BY <1>0, <1>5, <2>1 DEF InsertBatch
  <2>2. ASSUME NEW f \in flocks, f.id = req[w].flock
        PROVE  Registry!Next
    <3> DEFINE g == [id |-> f.id, prefix |-> f.prefix]
    <3>1. PICK E : E = req[w].entries
      OBVIOUS
    <3>2. E \in SUBSET (1..MaxSeq)
      BY <1>5, <3>1, MintShape DEF InsertBatch, At, TypeOK, MintReq
    <3>h. Registry!Hand(g, E)
      BY <1>5, <2>2, <3>1, InsertHands
    <3>3. g \in {[id |-> x.id, prefix |-> x.prefix] : x \in flocks}
      OBVIOUS
    <3> HIDE DEF g
    <3>4. \E batch \in SUBSET (1..MaxSeq) : Registry!Hand(g, batch)
      BY <3>h, <3>2
    <3> QED BY <3>3, <3>4 DEF Registry!Next
  <2> QED BY <2>1, <2>2
<1>6. ASSUME NEW d \in ducks, Originate(d) \/ \E flag \in BOOLEAN : SetDeleted(d, flag)
      PROVE  UNCHANGED Registry!regVars
  <2>1. d \in DuckRow
    BY DEF TypeOK
  <2>2. ASSUME Originate(d)
        PROVE  UNCHANGED Registry!regVars
    <3> DEFINE e == [d EXCEPT !.originated = TRUE]
    <3>1. e.flock = d.flock /\ e.prefix = d.prefix /\ e.seq = d.seq
      BY <2>1 DEF DuckRow
    <3>2. ducks' = (ducks \ {d}) \cup {e} /\ UNCHANGED <<flocks, nextFlock>>
      BY <2>2 DEF Originate
    <3> HIDE DEF e
    <3> QED BY <3>1, <3>2, SameCodes
  <2>3. ASSUME NEW flag \in BOOLEAN, SetDeleted(d, flag)
        PROVE  UNCHANGED Registry!regVars
    <3> DEFINE e == [d EXCEPT !.deleted = flag]
    <3>1. e.flock = d.flock /\ e.prefix = d.prefix /\ e.seq = d.seq
      BY <2>1 DEF DuckRow
    <3>2. ducks' = (ducks \ {d}) \cup {e} /\ UNCHANGED <<flocks, nextFlock>>
      BY <2>3 DEF SetDeleted
    <3> HIDE DEF e
    <3> QED BY <3>1, <3>2, SameCodes
  <2> QED BY <1>6, <2>2, <2>3
<1>7. ASSUME NEW f \in flocks, DeleteFlock(f)
      PROVE  Registry!Next
  BY <1>7, DeleteCloses DEF Registry!Next
<1>8. CASE UNCHANGED vars
  BY <1>0, <1>8 DEF vars
<1>9. ASSUME NEW w \in Workers, Abandon(w)
      PROVE  [Registry!Next]_Registry!regVars
  BY <1>m, <1>9 DEF Abandon
<1> QED
  BY <1>1, <1>2, <1>3, <1>4, <1>5, <1>6, <1>7, <1>8, <1>9 DEF Next, Step

\* Concurrent creates and mints implement the register: what anyone sees in the
\* tables is one batch at a time, each the lowest codes that were still free.
THEOREM MintImplementsRegistry == Spec => ImplementsRegistry
<1>1. Init => Registry!Init
  BY DEF Init, Registry!Init
<1>2. TypeOK /\ MintInv /\ [Next]_vars => [Registry!Next]_Registry!regVars
  BY RegistryStep
<1> QED
  BY <1>1, <1>2, MintTypeCorrect, MintInvariant, PTL DEF Spec, ImplementsRegistry, Registry!Spec

\* However many requests mint at once, no code and no place in a flock is given
\* out twice, no seq is skipped but for rude codes, and nothing rude is printed.
THEOREM MintsAreSound == Spec => [](MintedOnce /\ SeqsDense /\ NothingRude)
<1>1. MintInv => MintedOnce /\ SeqsDense /\ NothingRude
  BY DEF MintInv
<1> QED BY <1>1, MintInvariant, PTL
-----------------------------------------------------------------------------
\* The flock cap

\* With finitely many flocks, the counts of the cap are numbers.
LEMMA CapCounts ==
  ASSUME IsFiniteSet(flocks), NEW u
  PROVE  /\ IsFiniteSet(FlocksOf(u)) /\ Cardinality(FlocksOf(u)) \in Nat
         /\ IsFiniteSet(Creating(u)) /\ Cardinality(Creating(u)) \in Nat
         /\ Cardinality(Creating(u)) <= Cardinality(Workers) /\ Cardinality(Workers) \in Nat
<1>1. FlocksOf(u) \in SUBSET flocks /\ Creating(u) \in SUBSET Workers
  BY DEF FlocksOf, Creating
<1>2. QED
  BY <1>1, MintAssumption, FS_Subset, FS_CardinalityType

\* Fewer flocks and fewer creates in flight keep to the bound.
LEMMA CapShrinks ==
  ASSUME IsFiniteSet(flocks), CapOvershoot, flocks' \subseteq flocks,
         \A u \in Users : Creating(u)' \subseteq Creating(u)
  PROVE  CapOvershoot' /\ IsFiniteSet(flocks')
<1>1. IsFiniteSet(flocks')
  BY FS_Subset
<1>2. ASSUME NEW u \in Users
      PROVE  (Cardinality(FlocksOf(u)) + Cardinality(Creating(u)))'
               < FlocksPerUser + Cardinality(Workers)
  <2> DEFINE F == FlocksOf(u)
             C == Creating(u)
             G == FlocksOf(u)'
             B == Creating(u)'
  <2>1. /\ IsFiniteSet(F) /\ Cardinality(F) \in Nat
        /\ IsFiniteSet(C) /\ Cardinality(C) \in Nat /\ Cardinality(Workers) \in Nat
    BY CapCounts
  <2>2. G \in SUBSET F /\ B \in SUBSET C
    BY DEF FlocksOf
  <2>3. Cardinality(F) + Cardinality(C) < FlocksPerUser + Cardinality(Workers)
    BY DEF CapOvershoot
  <2> HIDE DEF F, C, G, B
  <2>4. /\ IsFiniteSet(G) /\ Cardinality(G) <= Cardinality(F)
        /\ IsFiniteSet(B) /\ Cardinality(B) <= Cardinality(C)
    BY <2>1, <2>2, FS_Subset
  <2>5. Cardinality(G) \in Nat /\ Cardinality(B) \in Nat
    BY <2>4, FS_CardinalityType
  <2>6. Cardinality(G) + Cardinality(B) < FlocksPerUser + Cardinality(Workers)
    BY <2>1, <2>3, <2>4, <2>5, MintAssumption
  <2> QED BY <2>6 DEF G, B
<1> QED BY <1>1, <1>2 DEF CapOvershoot

\* A request that is no create afterwards adds to no user's creates.
LEMMA NoNewCreate ==
  ASSUME TypeOK, NEW w \in Workers, NEW r, req' = [req EXCEPT ![w] = r],
         r.pc = "draw" => At(w, "draw") /\ r.user = req[w].user
  PROVE  \A u \in Users : Creating(u)' \subseteq Creating(u)
  BY DEF TypeOK, Creating, At

\* The cap and the creates in flight bound what a user gets.
LEMMA CapStep ==
  ASSUME TypeOK, IsFiniteSet(flocks), CapOvershoot, [Next]_vars
  PROVE  CapOvershoot' /\ IsFiniteSet(flocks')
<1>1. ASSUME NEW w \in Workers, NEW u \in Users, CreateCheck(w, u)
      PROVE  CapOvershoot' /\ IsFiniteSet(flocks')
  <2>1. flocks' = flocks /\ Cardinality(FlocksOf(u)) < FlocksPerUser
    BY <1>1 DEF CreateCheck
  <2>2. ASSUME NEW x \in Users
        PROVE  (Cardinality(FlocksOf(x)) + Cardinality(Creating(x)))'
                 < FlocksPerUser + Cardinality(Workers)
    <3>1. FlocksOf(x)' = FlocksOf(x)
      BY <2>1 DEF FlocksOf
    <3>2. /\ Cardinality(FlocksOf(x)) \in Nat /\ Cardinality(Workers) \in Nat
      BY CapCounts
    <3>3. CASE x = u
      <4>1. Creating(x)' \in SUBSET Workers
        BY DEF Creating
      <4>2. /\ Cardinality(Creating(x)') <= Cardinality(Workers)
            /\ Cardinality(Creating(x)') \in Nat
        BY <4>1, MintAssumption, FS_Subset, FS_CardinalityType
      <4> QED BY <2>1, <3>1, <3>2, <3>3, <4>2, MintAssumption
    <3>4. CASE x # u
      <4>1. Creating(x)' = Creating(x)
        BY <1>1, <3>4 DEF CreateCheck, Creating, At, TypeOK
      <4> QED BY <3>1, <4>1 DEF CapOvershoot
    <3> QED BY <3>3, <3>4
  <2> QED BY <2>1, <2>2 DEF CapOvershoot
<1>2. ASSUME NEW w \in Workers, NEW p \in Prefixes, DrawPrefix(w, p)
      PROVE  CapOvershoot' /\ IsFiniteSet(flocks')
  <2>1. At(w, "draw") /\ req[w] \in CreateReq
    BY <1>2, MintShape DEF DrawPrefix, At, TypeOK
  <2>2. CASE p \in RudePrefixes \/ PrefixTaken(p)
    <3> DEFINE r == [req[w] EXCEPT !.tries = req[w].tries - 1]
    <3>1. r.user = req[w].user
      BY <2>1 DEF CreateReq
    <3>2. flocks' = flocks /\ (Reply(w) \/ req' = [req EXCEPT ![w] = r])
      BY <1>2, <2>2 DEF DrawPrefix
    <3> HIDE DEF r
    <3>3. \A u \in Users : Creating(u)' \subseteq Creating(u)
      BY <2>1, <3>1, <3>2, NoNewCreate DEF Reply, Idle
    <3> QED BY <3>2, <3>3, CapShrinks
  <2>3. CASE ~(p \in RudePrefixes \/ PrefixTaken(p))
    <3> DEFINE n == [id |-> nextFlock, prefix |-> p, owner |-> req[w].user]
    <3>1. flocks' = flocks \cup {n} /\ Reply(w)
      BY <1>2, <2>3 DEF DrawPrefix
    <3>2. n.owner = req[w].user
      OBVIOUS
    <3> HIDE DEF n
    <3>3. IsFiniteSet(flocks')
      BY <3>1, FS_AddElement
    <3>4. ASSUME NEW u \in Users
          PROVE  (Cardinality(FlocksOf(u)) + Cardinality(Creating(u)))'
                   < FlocksPerUser + Cardinality(Workers)
      <4>1. Creating(u)' = Creating(u) \ {w}
        BY <3>1 DEF Reply, Idle, Creating, At, TypeOK
      <4>2. /\ IsFiniteSet(FlocksOf(u)) /\ Cardinality(FlocksOf(u)) \in Nat
            /\ IsFiniteSet(Creating(u)) /\ Cardinality(Creating(u)) \in Nat
            /\ Cardinality(Workers) \in Nat
        BY CapCounts
      <4>3. Cardinality(FlocksOf(u)) + Cardinality(Creating(u)) < FlocksPerUser + Cardinality(Workers)
        BY DEF CapOvershoot
      <4>4. CASE u = req[w].user
        <5>1. w \in Creating(u) /\ FlocksOf(u)' = FlocksOf(u) \cup {n}
          BY <2>1, <3>1, <3>2, <4>4 DEF Creating, FlocksOf
        <5>2. Cardinality(Creating(u)') = Cardinality(Creating(u)) - 1
          BY <4>1, <4>2, <5>1, FS_RemoveElement
        <5>3. /\ Cardinality(FlocksOf(u)') <= Cardinality(FlocksOf(u)) + 1
              /\ Cardinality(FlocksOf(u)') \in Nat
          <6>1. Cardinality(FlocksOf(u) \cup {n}) =
                  IF n \in FlocksOf(u) THEN Cardinality(FlocksOf(u))
                                       ELSE Cardinality(FlocksOf(u)) + 1
            BY <4>2, FS_AddElement
          <6> QED BY <4>2, <5>1, <6>1
        <5> QED BY <4>2, <4>3, <5>2, <5>3, MintAssumption
      <4>5. CASE u # req[w].user
        <5>1. w \notin Creating(u) /\ FlocksOf(u)' = FlocksOf(u)
          BY <3>1, <3>2, <4>5 DEF Creating, FlocksOf
        <5>2. Creating(u)' = Creating(u)
          BY <4>1, <5>1
        <5> QED BY <4>3, <5>1, <5>2
      <4> QED BY <4>4, <4>5
    <3> QED BY <3>3, <3>4 DEF CapOvershoot
  <2> QED BY <2>2, <2>3
<1>3. ASSUME NEW w \in Workers, NEW f \in flocks, NEW n \in Nat, MintCheck(w, f, n)
      PROVE  CapOvershoot' /\ IsFiniteSet(flocks')
  <2> DEFINE r == [pc |-> "lock", flock |-> f.id, prefix |-> f.prefix,
                   count |-> ClampCount(n), entries |-> {}]
  <2>1. r.pc = "lock" /\ req' = [req EXCEPT ![w] = r] /\ flocks' = flocks
    BY <1>3 DEF MintCheck
  <2> HIDE DEF r
  <2> QED BY <2>1, NoNewCreate, CapShrinks
<1>4. ASSUME NEW w \in Workers, Reply(w), flocks' = flocks
      PROVE  CapOvershoot' /\ IsFiniteSet(flocks')
  BY <1>4, NoNewCreate, CapShrinks DEF Reply, Idle
<1>5. ASSUME NEW w \in Workers, AdvisoryLock(w)
      PROVE  CapOvershoot' /\ IsFiniteSet(flocks')
  <2>1. req[w] \in MintReq
    BY <1>5, MintShape DEF AdvisoryLock, At, TypeOK
  <2> DEFINE r == [req[w] EXCEPT !.pc = "max"]
  <2>2. r.pc = "max" /\ req' = [req EXCEPT ![w] = r] /\ flocks' = flocks
    BY <1>5, <2>1 DEF AdvisoryLock, MintReq
  <2> HIDE DEF r
  <2> QED BY <2>2, NoNewCreate, CapShrinks
<1>6. ASSUME NEW w \in Workers, SelectMax(w)
      PROVE  CapOvershoot' /\ IsFiniteSet(flocks')
  <2>1. req[w] \in MintReq
    BY <1>6, MintShape DEF SelectMax, At, TypeOK
  <2> DEFINE r == [req[w] EXCEPT !.pc = "insert",
                     !.entries = Batch(req[w].flock, req[w].prefix, req[w].count)]
  <2>2. r.pc = "insert" /\ (Reply(w) \/ req' = [req EXCEPT ![w] = r]) /\ flocks' = flocks
    BY <1>6, <2>1 DEF SelectMax, MintReq
  <2> HIDE DEF r
  <2>3. CASE Reply(w)
    BY <1>4, <2>2, <2>3
  <2>4. CASE req' = [req EXCEPT ![w] = r]
    <3>1. \A u \in Users : Creating(u)' \subseteq Creating(u)
      BY <2>2, <2>4, NoNewCreate
    <3> QED BY <2>2, <3>1, CapShrinks
  <2> QED BY <2>2, <2>3, <2>4
<1>7. ASSUME NEW w \in Workers, InsertBatch(w) \/ Abandon(w)
      PROVE  CapOvershoot' /\ IsFiniteSet(flocks')
  BY <1>4, <1>7 DEF InsertBatch, Abandon
<1>8. ASSUME req' = req, flocks' \subseteq flocks
      PROVE  CapOvershoot' /\ IsFiniteSet(flocks')
  BY <1>8, CapShrinks DEF Creating, At
<1>9. ASSUME NEW d \in ducks, Originate(d) \/ \E flag \in BOOLEAN : SetDeleted(d, flag)
      PROVE  CapOvershoot' /\ IsFiniteSet(flocks')
  BY <1>8, <1>9 DEF Originate, SetDeleted
<1>10. ASSUME NEW f \in flocks, DeleteFlock(f)
       PROVE  CapOvershoot' /\ IsFiniteSet(flocks')
  BY <1>8, <1>10 DEF DeleteFlock
<1>11. CASE UNCHANGED vars
  BY <1>8, <1>11 DEF vars
<1> QED
  BY <1>1, <1>2, <1>3, <1>5, <1>6, <1>7, <1>9, <1>10, <1>11 DEF Next, Step

\* For any cap and any number of concurrent requests: a user's flocks exceed the
\* cap by less than the number of requests that can be in flight.
THEOREM CapsBounded == Spec => []CapOvershoot
<1>1. Init => CapOvershoot /\ IsFiniteSet(flocks)
  <2>1. SUFFICES ASSUME Init
                 PROVE  CapOvershoot /\ IsFiniteSet(flocks)
    OBVIOUS
  <2>2. flocks = {} /\ IsFiniteSet(flocks)
    BY <2>1, FS_EmptySet DEF Init
  <2>3. \A u \in Users : FlocksOf(u) = {} /\ Creating(u) = {}
    BY <2>1 DEF Init, Idle, FlocksOf, Creating, At
  <2>4. Cardinality(Workers) \in Nat /\ Cardinality(Workers) # 0
    BY MintAssumption, FS_EmptySet, FS_CardinalityType
  <2> QED BY <2>2, <2>3, <2>4, FS_EmptySet, MintAssumption DEF CapOvershoot
<1>2. TypeOK /\ CapOvershoot /\ IsFiniteSet(flocks) /\ [Next]_vars
        => CapOvershoot' /\ IsFiniteSet(flocks)'
  BY CapStep
<1> QED BY <1>1, <1>2, MintTypeCorrect, PTL DEF Spec
=============================================================================

---------------------------- MODULE CodeRegistry ----------------------------
(***************************************************************************)
(* What minting promises, without requests, locks or transactions: a       *)
(* register of flocks and of the seqs handed out in them.  A batch is one  *)
(* atomic step and always takes the lowest presentable seqs not yet handed *)
(* out; a flock leaves with all of its codes.  FlockMint implements it.    *)
(***************************************************************************)
EXTENDS Naturals, FiniteSets

CONSTANTS Prefixes, RudePrefixes, RudeSeqs, MaxSeq, BatchMax

VARIABLES
  open,              \* the flocks there are: id and prefix
  handed,            \* the codes handed out: flock, prefix and seq
  nextId             \* the next flock id; none is used twice, not all are used

regVars == <<open, handed, nextId>>

Init == open = {} /\ handed = {} /\ nextId = 1

\* A flock gets a presentable prefix that no other flock has.
Open(p) ==
  /\ p \notin RudePrefixes
  /\ \A f \in open : f.prefix # p
  /\ open' = open \cup {[id |-> nextId, prefix |-> p]}
  /\ nextId' = nextId + 1
  /\ UNCHANGED handed

\* An id is drawn and no flock gets it.
SkipId ==
  /\ nextId' = nextId + 1
  /\ UNCHANGED <<open, handed>>

\* The presentable seqs of a flock not handed out.
Free(f) ==
  {s \in 1..MaxSeq : s \notin RudeSeqs[f.prefix] /\ ~ \E c \in handed : c.flock = f.id /\ c.seq = s}

\* A batch: at most BatchMax of them, from the lowest on, none left out.
Hand(f, batch) ==
  /\ batch \subseteq Free(f)
  /\ Cardinality(batch) \in 1..BatchMax
  /\ \A s \in batch, t \in Free(f) : t < s => t \in batch
  /\ handed' = handed \cup {[flock |-> f.id, prefix |-> f.prefix, seq |-> s] : s \in batch}
  /\ UNCHANGED <<open, nextId>>

\* A flock is deleted for good.
Close(f) ==
  /\ open' = open \ {f}
  /\ handed' = {c \in handed : c.flock # f.id}
  /\ UNCHANGED nextId

Next ==
  \/ SkipId
  \/ \E p \in Prefixes : Open(p)
  \/ \E f \in open : Close(f) \/ \E batch \in SUBSET (1..MaxSeq) : Hand(f, batch)

Spec == Init /\ [][Next]_regVars
=============================================================================

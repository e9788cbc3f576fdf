----------------------------- MODULE PhotoStore -----------------------------
(***************************************************************************)
(* The object store behind crates/storage/src/photos.rs: a set of keys     *)
(* that hold an object.  A key is 32 random hex digits, modelled as the    *)
(* next unused number, so no two calls of new_key return the same key.     *)
(***************************************************************************)
EXTENDS Naturals

CONSTANT MaxKeys       \* bound: photo keys drawn in one behaviour

ASSUME MaxKeysAssumption == MaxKeys \in Nat

VARIABLES
  objects,             \* the keys under which an object is stored
  nextKey              \* the next fresh key

store == <<objects, nextKey>>

StoreTypeOK == objects \subseteq Nat /\ nextKey \in Nat \ {0}
StoreInit == objects = {} /\ nextKey = 1

\* Fault: the same key is handed out again.
SameKey == nextKey <= MaxKeys /\ UNCHANGED nextKey

\* Draw a fresh key; nothing is stored yet.
NewKey == nextKey <= MaxKeys /\ nextKey' = nextKey + 1

Put(key) == objects \cup {key}

\* Absence is the goal: a missing object is not an error.
Remove(key) == objects \ {key}
=============================================================================

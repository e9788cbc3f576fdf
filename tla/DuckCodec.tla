------------------------------ MODULE DuckCodec -----------------------------
(***************************************************************************)
(* From a printed code back to its duck: DuckCodec (crates/domain/src/     *)
(* codec.rs) and the scan funnel resolve_any (handlers/duck.rs), across    *)
(* instances that are deployed with different keys.  Every flock remembers *)
(* the key generation it was created under; an instance has the keys its   *)
(* environment gave it when it started, which may lack a generation or     *)
(* give it the wrong key.                                                  *)
(*                                                                         *)
(* A code is a flock prefix and a payload; its check character follows     *)
(* from the two (Checksum).  Codes are minted one by one, none is rude and *)
(* no flock is deleted here: FlockMint has all three.                      *)
(***************************************************************************)
EXTENDS Naturals

CONSTANTS
  Instances,         \* application instances over one database
  MaxGeneration,     \* bound: the last key generation configured anywhere
  Keys,              \* AES keys
  Prefixes,          \* flock prefixes
  Payloads,          \* 0..36^3 - 1
  MaxSeq,            \* FlockSeq::MAX
  FF1                \* the cipher: per key and prefix (tweak), a permutation

ASSUME CodecAssumption ==
  /\ MaxGeneration \in Nat
  /\ MaxSeq \in Nat /\ 1..MaxSeq \subseteq Payloads
  /\ FF1 \in [Keys \X Prefixes -> [Payloads -> Payloads]]
  /\ \A kp \in Keys \X Prefixes : \A x, y \in Payloads : FF1[kp][x] = FF1[kp][y] => x = y

VARIABLES
  codec,             \* the DuckCodec of each instance, or Down
  flocks,            \* the flock table
  ducks              \* the duck table, each duck with the key it was minted under

vars == <<codec, flocks, ducks>>

Down == [keys |-> << >>]

\* What the environment may hold: DUCK_KEY_GEN_0 onwards up to the first one
\* missing, with any keys, and any DUCK_KEY_CURRENT.
Generations == 0..MaxGeneration
KeyMaps == UNION {[0..n -> Keys] : n \in Generations}
Codecs == [keys : KeyMaps, current : Generations]

FlockRow == [prefix : Prefixes, generation : Generations]
DuckRow == [prefix : Prefixes, seq : 1..MaxSeq, payload : Payloads, key : Keys]

TypeOK ==
  /\ codec \in [Instances -> Codecs \cup {Down}]
  /\ flocks \subseteq FlockRow
  /\ ducks \subseteq DuckRow

Init == codec = [i \in Instances |-> Down] /\ flocks = {} /\ ducks = {}

-----------------------------------------------------------------------------
\* DuckCodec

\* Not CurrentKeyMissing: the instance starts (from_env has made sure of a key).
new(c) == c.current \in DOMAIN c.keys

HasKey(i, g) == g \in DOMAIN codec[i].keys

encode(key, p, seq) == FF1[<<key, p>>][seq]

\* The sequence number, or none when it is out of range: the set of results.
decode(key, p, payload) == {s \in 1..MaxSeq : FF1[<<key, p>>][s] = payload}

\* Fault: the key of the current generation for every flock.
resolve_current(i, p, payload) ==
  {d \in ducks :
     /\ d.prefix = p /\ d.payload = payload
     /\ \E f \in flocks :
          /\ f.prefix = p /\ HasKey(i, f.generation)
          /\ d.seq \in decode(codec[i].keys[codec[i].current], p, payload)}

\* Fault: the stored code is not compared with the scanned one.
resolve_unchecked(i, p, payload) ==
  {d \in ducks :
     /\ d.prefix = p
     /\ \E f \in flocks :
          /\ f.prefix = p /\ HasKey(i, f.generation)
          /\ d.seq \in decode(codec[i].keys[f.generation], p, payload)}

\* resolve_any: by_code, decode under the flock's generation, by_flock_and_seq,
\* and the comparison with the stored code.  Empty: NotFound.
resolve_any(i, p, payload) ==
  {d \in ducks :
     /\ d.prefix = p /\ d.payload = payload
     /\ \E f \in flocks :
          /\ f.prefix = p /\ HasKey(i, f.generation)
          /\ d.seq \in decode(codec[i].keys[f.generation], p, payload)}

-----------------------------------------------------------------------------

Boot(i, c) ==
  /\ new(c)
  /\ codec' = [codec EXCEPT ![i] = c]
  /\ UNCHANGED <<flocks, ducks>>

Stop(i) ==
  /\ codec[i] # Down
  /\ codec' = [codec EXCEPT ![i] = Down]
  /\ UNCHANGED <<flocks, ducks>>

\* FlockRepo::create under current_generation.
CreateFlock(i, p) ==
  /\ codec[i] # Down
  /\ \A f \in flocks : f.prefix # p
  /\ flocks' = flocks \cup {[prefix |-> p, generation |-> codec[i].current]}
  /\ UNCHANGED <<codec, ducks>>

\* The next seq, encoded under the flock's generation (refused without its key);
\* UNIQUE (code) fails the insert if the code is taken.
Mint(i, f, seq) ==
  LET key == codec[i].keys[f.generation] IN
  /\ HasKey(i, f.generation)
  /\ \A d \in ducks : d.prefix = f.prefix => d.seq < seq
  /\ \A t \in 1..(seq - 1) : \E d \in ducks : d.prefix = f.prefix /\ d.seq = t
  /\ \A d \in ducks : ~(d.prefix = f.prefix /\ d.payload = encode(key, f.prefix, seq))
  /\ ducks' = ducks \cup {[prefix |-> f.prefix, seq |-> seq,
                           payload |-> encode(key, f.prefix, seq), key |-> key]}
  /\ UNCHANGED <<codec, flocks>>

Next ==
  \E i \in Instances :
    \/ \E c \in Codecs : Boot(i, c)
    \/ Stop(i)
    \/ \E p \in Prefixes : CreateFlock(i, p)
    \/ \E f \in flocks, seq \in 1..MaxSeq : Mint(i, f, seq)

Spec == Init /\ [][Next]_vars

-----------------------------------------------------------------------------

\* Whatever keys an instance was started with, a scan of a printed code gives
\* the duck it is printed on or nothing: never another duck.
OwnDuckOrNone ==
  \A i \in Instances, d \in ducks : resolve_any(i, d.prefix, d.payload) \subseteq {d}

\* An instance that still has, under its generation, the key a duck was minted
\* with finds the duck, however the current generation has moved on.
KeptKeyFinds ==
  \A i \in Instances, d \in ducks, f \in flocks :
    f.prefix = d.prefix /\ HasKey(i, f.generation) /\ codec[i].keys[f.generation] = d.key
      => d \in resolve_any(i, d.prefix, d.payload)

-----------------------------------------------------------------------------
\* Inductive strengthening

\* A code is one duck's, and its payload is the seq under the key it was minted
\* with.
CodecInv ==
  /\ \A d, e \in ducks : d.prefix = e.prefix /\ d.payload = e.payload => d = e
  /\ \A d \in ducks : d.payload = encode(d.key, d.prefix, d.seq)
=============================================================================

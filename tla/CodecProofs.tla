---------------------------- MODULE CodecProofs -----------------------------
(***************************************************************************)
(* The scan funnel for any cipher, any keys and any number of instances.   *)
(***************************************************************************)
EXTENDS DuckCodec, TLAPS

\* An instance that starts or stops, a flock created and a duck minted are all
\* well-typed.
LEMMA TypeStep ==
  ASSUME TypeOK, [Next]_vars
  PROVE  TypeOK'
<1>0. CASE UNCHANGED vars
  BY <1>0 DEF TypeOK, vars
<1>1. ASSUME NEW i \in Instances, NEW c \in Codecs, Boot(i, c)
      PROVE  TypeOK'
  BY <1>1 DEF Boot, TypeOK
<1>2. ASSUME NEW i \in Instances, Stop(i)
      PROVE  TypeOK'
  BY <1>2 DEF Stop, TypeOK
<1>3. ASSUME NEW i \in Instances, NEW p \in Prefixes, CreateFlock(i, p)
      PROVE  TypeOK'
  <2>1. codec[i] \in Codecs
    BY <1>3 DEF CreateFlock, TypeOK
  <2>2. [prefix |-> p, generation |-> codec[i].current] \in FlockRow
    BY <2>1 DEF Codecs, FlockRow
  <2> QED BY <1>3, <2>2 DEF CreateFlock, TypeOK
<1>4. ASSUME NEW i \in Instances, NEW f \in flocks, NEW seq \in 1..MaxSeq, Mint(i, f, seq)
      PROVE  TypeOK'
  <2> DEFINE key == codec[i].keys[f.generation]
  <2>1. codec[i] \in Codecs
    <3>1. Down.keys = << >> /\ DOMAIN << >> = {}
      BY DEF Down
    <3> QED BY <1>4, <3>1 DEF Mint, HasKey, TypeOK
  <2>2. key \in Keys /\ f.prefix \in Prefixes
    <3>1. codec[i].keys \in KeyMaps
      BY <2>1 DEF Codecs
    <3>2. PICK n \in Generations : codec[i].keys \in [0..n -> Keys]
      BY <3>1 DEF KeyMaps
    <3>3. f.generation \in DOMAIN codec[i].keys
      BY <1>4 DEF Mint, HasKey
    <3>4. f.prefix \in Prefixes
      BY <1>4 DEF TypeOK, FlockRow
    <3> QED BY <3>2, <3>3, <3>4
  <2>3. encode(key, f.prefix, seq) \in Payloads
    <3>1. seq \in Payloads /\ <<key, f.prefix>> \in Keys \X Prefixes
      BY <2>2, CodecAssumption
    <3> HIDE DEF key
    <3> QED BY <3>1, CodecAssumption DEF encode
  <2>4. [prefix |-> f.prefix, seq |-> seq,
         payload |-> encode(key, f.prefix, seq), key |-> key] \in DuckRow
    BY <2>2, <2>3 DEF DuckRow
  <2> QED BY <1>4, <2>4 DEF Mint, TypeOK
<1> QED BY <1>0, <1>1, <1>2, <1>3, <1>4 DEF Next

\* Instances, flocks and ducks stay well-typed under every deployment.
THEOREM CodecTypeCorrect == Spec => []TypeOK
<1>1. Init => TypeOK
  BY DEF Init, TypeOK
<1>2. TypeOK /\ [Next]_vars => TypeOK'
  BY TypeStep
<1> QED BY <1>1, <1>2, PTL DEF Spec

\* Only a mint writes the duck table, and it encodes the seq and finds the code
\* unused.
LEMMA CodecStep ==
  ASSUME CodecInv, [Next]_vars
  PROVE  CodecInv'
<1>1. ASSUME UNCHANGED ducks
      PROVE  CodecInv'
  BY <1>1 DEF CodecInv, encode
<1>2. ASSUME NEW i \in Instances, NEW f \in flocks, NEW seq \in 1..MaxSeq, Mint(i, f, seq)
      PROVE  CodecInv'
  <2> DEFINE key == codec[i].keys[f.generation]
             pay == encode(key, f.prefix, seq)
             new0 == [prefix |-> f.prefix, seq |-> seq, payload |-> pay, key |-> key]
  <2>1. /\ ducks' = ducks \cup {new0}
        /\ new0.prefix = f.prefix /\ new0.payload = pay /\ new0.key = key /\ new0.seq = seq
        /\ \A d \in ducks : ~(d.prefix = f.prefix /\ d.payload = pay)
    BY <1>2 DEF Mint
  <2>2. new0.payload = encode(new0.key, new0.prefix, new0.seq)
    BY <2>1
  <2> HIDE DEF new0, pay, key
  <2>3. \A d, e \in ducks' : d.prefix = e.prefix /\ d.payload = e.payload => d = e
    BY <2>1 DEF CodecInv
  <2>4. \A d \in ducks' : d.payload = encode(d.key, d.prefix, d.seq)
    BY <2>1, <2>2 DEF CodecInv
  <2> QED BY <2>3, <2>4 DEF CodecInv, encode
<1>3. CASE UNCHANGED vars
  BY <1>1, <1>3 DEF vars
<1>4. CASE Next
  BY <1>1, <1>2, <1>4 DEF Next, Boot, Stop, CreateFlock
<1> QED BY <1>3, <1>4

\* For every cipher, key arrangement and deployment: a scan gives the duck the
\* code is printed on or nothing, and gives it wherever its key was kept.
THEOREM ScansAreSound == Spec => [](OwnDuckOrNone /\ KeptKeyFinds)
<1>1. Init => CodecInv
  BY DEF Init, CodecInv
<1>2. CodecInv /\ [Next]_vars => CodecInv'
  BY CodecStep
<1>3. TypeOK /\ CodecInv => OwnDuckOrNone /\ KeptKeyFinds
  <2> SUFFICES ASSUME TypeOK, CodecInv PROVE OwnDuckOrNone /\ KeptKeyFinds
    OBVIOUS
  <2>1. OwnDuckOrNone
    BY DEF CodecInv, OwnDuckOrNone, resolve_any
  <2>2. KeptKeyFinds
    <3>1. SUFFICES ASSUME NEW i \in Instances, NEW d \in ducks, NEW f \in flocks,
                          f.prefix = d.prefix, HasKey(i, f.generation),
                          codec[i].keys[f.generation] = d.key
                   PROVE  d \in resolve_any(i, d.prefix, d.payload)
      BY DEF KeptKeyFinds
    <3>2. d.seq \in 1..MaxSeq
      BY DEF TypeOK, DuckRow
    <3>3. d.seq \in decode(d.key, d.prefix, d.payload)
      BY <3>2 DEF CodecInv, decode, encode
    <3> QED BY <3>1, <3>3 DEF resolve_any
  <2> QED BY <2>1, <2>2
<1> QED BY <1>1, <1>2, <1>3, CodecTypeCorrect, PTL DEF Spec
=============================================================================

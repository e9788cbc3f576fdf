---------------------------- MODULE StartupProofs ---------------------------
(***************************************************************************)
(* Starting any number of instances.  StartupInv is inductive: each lock   *)
(* is held by the process that is past it, an uncommitted session table    *)
(* belongs to that process or to one that died, and what a process has     *)
(* passed stays done.                                                      *)
(***************************************************************************)
EXTENDS Startup, TLAPS

\* One process moves, the others stay where they are.
LEMMA Moves ==
  ASSUME pc \in [Instances -> PCs], NEW i \in Instances, NEW here \in PCs, Goto(i, here)
  PROVE  /\ pc' \in [Instances -> PCs]
         /\ pc'[i] = here /\ \A j \in Instances \ {i} : pc'[j] = pc[j]
  BY DEF Goto

\* A connection is a connection before and after its process ends.
LEMMA ConnTypes ==
  ASSUME NEW i \in Instances, NEW c \in Conn
  PROVE  /\ Nobody \in Conn /\ ConnOf(i) \in Conn /\ Orphan(c, i) \in Conn
         /\ c = ConnOf(i) => [c EXCEPT !.committing = TRUE] \in Conn
<1> DEFINE R == [of : Instances, ghost : BOOLEAN, committing : BOOLEAN]
<1>1. ConnOf(i) \in R
  BY DEF ConnOf
<1>2. \A d \in R : [d EXCEPT !.ghost = TRUE] \in R /\ [d EXCEPT !.committing = TRUE] \in R
  OBVIOUS
<1>3. c # Nobody => c \in R
  BY DEF Conn
<1>4. R \subseteq Conn /\ Nobody \in Conn
  BY DEF Conn
<1> HIDE DEF R
<1> QED BY <1>1, <1>2, <1>3, <1>4 DEF Orphan

\* A live connection of a process is none, and nobody else's.
LEMMA ConnFacts ==
  ASSUME NEW i \in Instances
  PROVE  /\ ConnOf(i) # Nobody /\ ConnOf(i).of = i /\ ConnOf(i).ghost = FALSE
         /\ \A j \in Instances : ConnOf(j) = ConnOf(i) => j = i
<1>1. ConnOf(i) \in [of : Instances, ghost : BOOLEAN, committing : BOOLEAN]
  BY DEF ConnOf
<1>2. \A j \in Instances : ConnOf(j).of = j /\ ConnOf(j).ghost = FALSE
  BY DEF ConnOf
<1> QED BY <1>1, <1>2, StartupAssumption

\* The end of a process makes ghosts of its connections and leaves the others.
LEMMA OrphanFacts ==
  ASSUME NEW i \in Instances, NEW c \in Conn
  PROVE  /\ Orphan(c, i) = Nobody <=> c = Nobody
         /\ c # Nobody => Orphan(c, i).of = c.of
         /\ c # Nobody /\ c.of = i => Orphan(c, i).ghost = TRUE
         /\ c # Nobody /\ c.of # i => Orphan(c, i) = c
<1> DEFINE R == [of : Instances, ghost : BOOLEAN, committing : BOOLEAN]
<1>1. \A d \in R : /\ [d EXCEPT !.ghost = TRUE] \in R
                   /\ [d EXCEPT !.ghost = TRUE].of = d.of /\ [d EXCEPT !.ghost = TRUE].ghost = TRUE
  OBVIOUS
<1>2. c # Nobody => c \in R
  BY DEF Conn
<1>3. Nobody \notin R
  BY StartupAssumption
<1> HIDE DEF R
<1> QED BY <1>1, <1>2, <1>3 DEF Orphan

\* No step of main or of the server stores an ill-typed value.
LEMMA StartupTypeStep ==
  ASSUME TypeOK, [Next]_vars
  PROVE  TypeOK'
<1> USE StartupAssumption
<1>0. CASE UNCHANGED vars
  BY <1>0 DEF TypeOK, vars
<1>1. ASSUME NEW i \in Instances, Step(i)
      PROVE  TypeOK'
  <2>1. CASE Boot(i)
    BY <2>1, Moves DEF Boot, TypeOK, PCs
  <2>2. CASE Migrate(i)
    <3>1. CASE applied < Migrations
      BY <2>2, <3>1 DEF Migrate, TypeOK
    <3>2. CASE ~(applied < Migrations)
      BY <2>2, <3>2, Moves, ConnTypes DEF Migrate, TypeOK, PCs
    <3> QED BY <3>1, <3>2
  <2>3. CASE AcquireSecond(i)
    BY <2>3, Moves DEF AcquireSecond, TypeOK, PCs
  <2>4. CASE CreateTable(i)
    BY <2>4, Moves, ConnTypes DEF CreateTable, TypeOK, PCs
  <2>5. CASE Unblocked(i)
    BY <2>5, Moves, ConnTypes DEF Unblocked, TypeOK, PCs
  <2>6. CASE SendCommit(i)
    BY <2>6, ConnTypes DEF SendCommit, TypeOK
  <2>7. CASE Committed(i)
    BY <2>7, Moves, ConnTypes DEF Committed, TypeOK, PCs
  <2>8. CASE Unlock(i)
    BY <2>8, Moves, ConnTypes DEF Unlock, TypeOK, PCs
  <2>9. CASE Abort(i)
    BY <2>9, Moves, ConnTypes DEF Abort, TypeOK, PCs
  <2> QED BY <1>1, <2>1, <2>2, <2>3, <2>4, <2>5, <2>6, <2>7, <2>8, <2>9 DEF Step
<1>2. ASSUME NEW i \in Instances, MigrateLock(i)
      PROVE  TypeOK'
  BY <1>2, Moves, ConnTypes DEF MigrateLock, TypeOK, PCs
<1>3. ASSUME NEW i \in Instances, StartupLock(i)
      PROVE  TypeOK'
  BY <1>3, Moves, ConnTypes DEF StartupLock, TypeOK, PCs
<1>4. ASSUME NEW i \in Instances, Shutdown(i)
      PROVE  TypeOK'
  BY <1>4, Moves DEF Shutdown, TypeOK, PCs
<1>5. ASSUME NEW i \in Instances, Crash(i)
      PROVE  TypeOK'
  <2>1. migrator' \in Conn /\ starter' \in Conn /\ creator' \in Conn
    BY <1>5, ConnTypes DEF Crash, Orphaned, TypeOK
  <2> QED BY <1>5, <2>1, Moves DEF Crash, TypeOK, PCs
<1>6. CASE ReapMigrator \/ ReapStarter
  BY <1>6 DEF ReapMigrator, ReapStarter, TypeOK, Conn
<1>7. CASE ReapCreator
  <2>1. creator.committing \in BOOLEAN
    BY <1>7 DEF ReapCreator, Dead, TypeOK, Conn
  <2> QED BY <1>7, <2>1 DEF ReapCreator, TypeOK, Conn
<1> QED BY <1>0, <1>1, <1>2, <1>3, <1>4, <1>5, <1>6, <1>7 DEF Next

\* Locks, schema and program counters stay well-typed.
THEOREM StartupTypeCorrect == Spec => []TypeOK
<1>1. Init => TypeOK
  <2>1. Nobody \in Conn /\ "down" \in PCs /\ 0 \in 0..Migrations /\ 0 \in 0..MaxCrashes
    BY StartupAssumption DEF PCs, Conn
  <2> QED BY <2>1 DEF Init, TypeOK
<1>2. TypeOK /\ [Next]_vars => TypeOK'
  BY StartupTypeStep
<1> QED BY <1>1, <1>2, PTL DEF Spec

-----------------------------------------------------------------------------

\* A step of one process that leaves locks, tables and crashes alone keeps
\* StartupInv if the process may be where it arrives.
LEMMA InvByMove ==
  ASSUME TypeOK, StartupInv, NEW i \in Instances, NEW here \in PCs, Goto(i, here),
         UNCHANGED <<migrator, starter, creator, applied, table, crashes>>,
         here = "migrating" => migrator = ConnOf(i),
         here \in {"create", "exists", "blocked", "commit", "unlock", "abort"}
           => starter = ConnOf(i) /\ applied = Migrations,
         here \in {"lock", "serve"} => applied = Migrations,
         here \in {"unlock", "serve"} => table,
         here = "commit" => table \/ (creator # Nobody /\ creator.of = i /\ ~creator.ghost),
         At(i, "commit") => creator = Nobody \/ creator.of # i \/ creator.ghost,
         here = "blocked" => crashes > 0,
         here = "abort" /\ Pool[i] > 1 => crashes > 0
  PROVE  StartupInv'
<1>1. pc'[i] = here /\ \A j \in Instances \ {i} : pc'[j] = pc[j]
  BY Moves DEF TypeOK
<1>t. creator # Nobody => creator.of \in Instances
  BY DEF TypeOK, Conn
<1>2. LockHolders'
  BY <1>1 DEF StartupInv, LockHolders, At, Working
<1>3. CreatorKnown'
  BY <1>1, <1>t DEF StartupInv, CreatorKnown, At
<1>4. SchemaReady'
  BY <1>1 DEF StartupInv, SchemaReady, At, Working
<1>5. ColdStartsFine'
  BY <1>1 DEF StartupInv, ColdStartsFine, At
<1> QED BY <1>2, <1>3, <1>4, <1>5 DEF StartupInv

\* Every step of main and of the server keeps StartupInv.
LEMMA StartupStep ==
  ASSUME TypeOK, StartupInv, [Next]_vars
  PROVE  StartupInv'
<1> USE StartupAssumption
<1>t. creator # Nobody => creator.of \in Instances
  BY DEF TypeOK, Conn
<1>0. CASE UNCHANGED vars
  BY <1>0 DEF vars, StartupInv, LockHolders, CreatorKnown, SchemaReady, ColdStartsFine, At, Working
<1>1. ASSUME NEW i \in Instances, Boot(i)
      PROVE  StartupInv'
  BY <1>1, InvByMove DEF Boot, PCs, At
<1>2. ASSUME NEW i \in Instances, Migrate(i)
      PROVE  StartupInv'
  <2>1. CASE applied < Migrations
    <3>1. /\ applied # Migrations /\ pc' = pc
          /\ UNCHANGED <<migrator, starter, creator, table, crashes>>
      BY <1>2, <2>1 DEF Migrate, TypeOK
    <3>2. \A j \in Instances : ~Working(j) /\ pc[j] \notin {"lock", "serve"}
      BY <3>1 DEF StartupInv, SchemaReady
    <3> QED BY <3>1, <3>2
          DEF StartupInv, LockHolders, CreatorKnown, SchemaReady, ColdStartsFine, At, Working
  <2>2. CASE ~(applied < Migrations)
    <3>1. /\ pc'[i] = "lock" /\ \A j \in Instances \ {i} : pc'[j] = pc[j]
          /\ applied = Migrations /\ pc[i] = "migrating"
          /\ UNCHANGED <<starter, creator, applied, table, crashes>>
      BY <1>2, <2>2, Moves DEF Migrate, TypeOK, PCs, At
    <3>2. ASSUME NEW j \in Instances \ {i}
          PROVE  pc[j] # "migrating"
      <4>1. migrator = ConnOf(i) /\ (pc[j] = "migrating" => migrator = ConnOf(j))
        BY <3>1 DEF StartupInv, LockHolders, At
      <4>2. ConnOf(j) # ConnOf(i)
        BY ConnFacts
      <4> QED BY <4>1, <4>2
    <3>3. LockHolders' /\ SchemaReady' /\ ColdStartsFine'
      BY <3>1, <3>2 DEF StartupInv, LockHolders, SchemaReady, ColdStartsFine, At, Working
    <3>4. CreatorKnown'
      BY <1>t, <3>1 DEF StartupInv, CreatorKnown, At
    <3> QED BY <3>3, <3>4 DEF StartupInv
  <2> QED BY <2>1, <2>2
<1>3. ASSUME NEW i \in Instances, AcquireSecond(i)
      PROVE  StartupInv'
  <2>1. starter = ConnOf(i) /\ applied = Migrations
    BY <1>3 DEF AcquireSecond, At, StartupInv, LockHolders, SchemaReady, Working
  <2>2. CASE Pool[i] > 1
    BY <1>3, <2>1, <2>2, InvByMove DEF AcquireSecond, PCs, At
  <2>3. CASE ~(Pool[i] > 1)
    BY <1>3, <2>1, <2>3, InvByMove DEF AcquireSecond, PCs, At
  <2> QED BY <2>2, <2>3
<1>4. ASSUME NEW i \in Instances, CreateTable(i)
      PROVE  StartupInv'
  <2>1. starter = ConnOf(i) /\ applied = Migrations /\ pc[i] = "exists"
    BY <1>4 DEF CreateTable, At, StartupInv, LockHolders, SchemaReady, Working
  <2>2. CASE table
    BY <1>4, <2>1, <2>2, InvByMove DEF CreateTable, PCs, At
  <2>3. CASE ~table /\ creator # Nobody
    <3>1. creator.ghost
      BY <2>1, <2>3, <1>t, ConnFacts DEF StartupInv, CreatorKnown, LockHolders, At, Working
    <3>2. crashes > 0
      BY <2>3, <3>1 DEF StartupInv, CreatorKnown
    <3> QED BY <1>4, <2>1, <2>3, <3>2, InvByMove DEF CreateTable, PCs, At
  <2>4. CASE ~table /\ creator = Nobody
    <3>1. /\ pc'[i] = "commit" /\ \A j \in Instances \ {i} : pc'[j] = pc[j]
          /\ creator' = ConnOf(i) /\ UNCHANGED <<migrator, starter, applied, table, crashes>>
      BY <1>4, <2>4, Moves DEF CreateTable, TypeOK, PCs
    <3>2. ConnOf(i) # Nobody /\ ConnOf(i).of = i /\ ConnOf(i).ghost = FALSE
      BY ConnFacts
    <3>3. LockHolders' /\ ColdStartsFine' /\ CreatorKnown'
      BY <2>1, <3>1, <3>2
      DEF StartupInv, LockHolders, ColdStartsFine, CreatorKnown, At, Working
    <3>4. SchemaReady'
      BY <2>1, <2>4, <3>1, <3>2 DEF StartupInv, SchemaReady, At, Working
    <3> QED BY <3>3, <3>4 DEF StartupInv
  <2> QED BY <2>2, <2>3, <2>4
<1>5. ASSUME NEW i \in Instances, Unblocked(i)
      PROVE  StartupInv'
  <2>1. starter = ConnOf(i) /\ applied = Migrations /\ pc[i] = "blocked" /\ crashes > 0
    BY <1>5 DEF Unblocked, At, StartupInv, LockHolders, SchemaReady, CreatorKnown, Working
  <2>2. CASE table
    BY <1>5, <2>1, <2>2, InvByMove DEF Unblocked, PCs, At
  <2>3. CASE ~table
    <3>1. /\ pc'[i] = "commit" /\ \A j \in Instances \ {i} : pc'[j] = pc[j]
          /\ creator = Nobody /\ creator' = ConnOf(i)
          /\ UNCHANGED <<migrator, starter, applied, table, crashes>>
      BY <1>5, <2>3, Moves DEF Unblocked, TypeOK, PCs
    <3>2. ConnOf(i) # Nobody /\ ConnOf(i).of = i /\ ConnOf(i).ghost = FALSE
      BY ConnFacts
    <3>3. LockHolders' /\ ColdStartsFine' /\ CreatorKnown'
      BY <2>1, <3>1, <3>2
      DEF StartupInv, LockHolders, ColdStartsFine, CreatorKnown, At, Working
    <3>4. SchemaReady'
      BY <2>1, <2>3, <3>1, <3>2 DEF StartupInv, SchemaReady, At, Working
    <3> QED BY <3>3, <3>4 DEF StartupInv
  <2> QED BY <2>2, <2>3
<1>6. ASSUME NEW i \in Instances, SendCommit(i)
      PROVE  StartupInv'
  <2>1. creator \in [of : Instances, ghost : BOOLEAN, committing : BOOLEAN]
    BY <1>6, ConnFacts DEF SendCommit, TypeOK, Conn
  <2>2. /\ creator'.of = creator.of /\ creator'.ghost = creator.ghost
        /\ creator' \in [of : Instances, ghost : BOOLEAN, committing : BOOLEAN]
    BY <1>6, <2>1 DEF SendCommit
  <2>3. creator # Nobody /\ creator' # Nobody
    BY <2>1, <2>2
  <2>4. UNCHANGED <<pc, migrator, starter, applied, table, crashes>>
    BY <1>6 DEF SendCommit
  <2> QED BY <2>2, <2>3, <2>4
        DEF StartupInv, LockHolders, CreatorKnown, SchemaReady, ColdStartsFine, At, Working
<1>7. ASSUME NEW i \in Instances, Committed(i)
      PROVE  StartupInv'
  <2>1. starter = ConnOf(i) /\ applied = Migrations /\ pc[i] = "commit"
    BY <1>7 DEF Committed, At, StartupInv, LockHolders, SchemaReady, Working
  <2>2. \A j \in Instances \ {i} : ~Working(j)
    BY <2>1, ConnFacts DEF StartupInv, LockHolders
  <2>3. CASE creator # Nobody /\ creator.of = i /\ ~creator.ghost
    <3>1. /\ pc'[i] = "unlock" /\ \A j \in Instances \ {i} : pc'[j] = pc[j]
          /\ creator' = Nobody /\ table' = TRUE /\ UNCHANGED <<migrator, starter, applied, crashes>>
      BY <1>7, <2>3, Moves DEF Committed, TypeOK, PCs
    <3> QED BY <2>1, <3>1
          DEF StartupInv, LockHolders, CreatorKnown, SchemaReady, ColdStartsFine, At, Working
  <2>4. CASE ~(creator # Nobody /\ creator.of = i /\ ~creator.ghost)
    <3>1. table
      BY <2>1, <2>4 DEF StartupInv, SchemaReady, At
    <3> QED BY <1>7, <2>1, <2>4, <3>1, InvByMove DEF Committed, PCs, At
  <2> QED BY <2>3, <2>4
<1>8. ASSUME NEW i \in Instances, Unlock(i) \/ Abort(i)
      PROVE  StartupInv'
  <2>1. /\ pc[i] \in {"unlock", "abort"} /\ starter = ConnOf(i) /\ applied = Migrations
        /\ pc[i] = "unlock" => table
    BY <1>8 DEF Unlock, Abort, At, StartupInv, LockHolders, SchemaReady, Working
  <2>2. \A j \in Instances \ {i} : ~Working(j)
    BY <2>1, ConnFacts DEF StartupInv, LockHolders
  <2>3. /\ (pc'[i] = "serve" /\ pc[i] = "unlock") \/ pc'[i] = "down"
        /\ \A j \in Instances \ {i} : pc'[j] = pc[j]
        /\ UNCHANGED <<migrator, creator, applied, table, crashes>>
    BY <1>8, Moves DEF Unlock, Abort, At, TypeOK, PCs
  <2>4. LockHolders' /\ SchemaReady' /\ ColdStartsFine'
    BY <2>1, <2>2, <2>3
    DEF StartupInv, LockHolders, SchemaReady, ColdStartsFine, At, Working
  <2>5. CreatorKnown'
    BY <1>t, <2>1, <2>3 DEF StartupInv, CreatorKnown, At
  <2> QED BY <2>4, <2>5 DEF StartupInv
<1>9. ASSUME NEW i \in Instances, MigrateLock(i)
      PROVE  StartupInv'
  <2>1. /\ pc[i] = "migrate" /\ pc'[i] = "migrating" /\ \A j \in Instances \ {i} : pc'[j] = pc[j]
        /\ migrator = Nobody /\ migrator' = ConnOf(i)
        /\ UNCHANGED <<starter, creator, applied, table, crashes>>
    BY <1>9, Moves DEF MigrateLock, At, TypeOK, PCs
  <2>2. \A j \in Instances : pc[j] # "migrating"
    BY <2>1, ConnFacts DEF StartupInv, LockHolders, At
  <2>3. LockHolders' /\ SchemaReady' /\ ColdStartsFine'
    BY <2>1, <2>2 DEF StartupInv, LockHolders, SchemaReady, ColdStartsFine, At, Working
  <2>4. CreatorKnown'
    BY <1>t, <2>1 DEF StartupInv, CreatorKnown, At
  <2> QED BY <2>3, <2>4 DEF StartupInv
<1>10. ASSUME NEW i \in Instances, StartupLock(i)
       PROVE  StartupInv'
  <2>1. /\ pc[i] = "lock" /\ pc'[i] = "create" /\ \A j \in Instances \ {i} : pc'[j] = pc[j]
        /\ starter = Nobody /\ starter' = ConnOf(i)
        /\ UNCHANGED <<migrator, creator, applied, table, crashes>>
    BY <1>10, Moves DEF StartupLock, At, TypeOK, PCs
  <2>2. \A j \in Instances : ~Working(j)
    BY <2>1, ConnFacts DEF StartupInv, LockHolders
  <2>3. LockHolders' /\ SchemaReady' /\ ColdStartsFine'
    BY <2>1, <2>2 DEF StartupInv, LockHolders, SchemaReady, ColdStartsFine, At, Working
  <2>4. CreatorKnown'
    BY <1>t, <2>1 DEF StartupInv, CreatorKnown, At
  <2> QED BY <2>3, <2>4 DEF StartupInv
<1>11. ASSUME NEW i \in Instances, Shutdown(i)
       PROVE  StartupInv'
  BY <1>11, InvByMove DEF Shutdown, PCs, At
<1>12. ASSUME NEW i \in Instances, Crash(i)
       PROVE  StartupInv'
  <2>1. /\ pc'[i] = "down" /\ \A j \in Instances \ {i} : pc'[j] = pc[j]
        /\ crashes' > 0 /\ applied' = applied /\ table' = table
    BY <1>12, Moves DEF Crash, TypeOK, PCs
  <2>2. /\ migrator' = Orphan(migrator, i) /\ starter' = Orphan(starter, i)
        /\ creator' = Orphan(creator, i)
        /\ migrator \in Conn /\ starter \in Conn /\ creator \in Conn
    BY <1>12 DEF Crash, Orphaned, TypeOK
  <2>3. LockHolders'
    <3>1. ASSUME NEW j \in Instances \ {i}, NEW c \in Conn, c = ConnOf(j)
          PROVE  Orphan(c, i) = ConnOf(j)
      <4>1. c # Nobody /\ c.of = j /\ j # i
        BY <3>1, ConnFacts
      <4> QED BY <3>1, <4>1, OrphanFacts
    <3>2. ASSUME NEW j \in Instances \ {i}
          PROVE  /\ migrator = ConnOf(j) => migrator' = ConnOf(j)
                 /\ starter = ConnOf(j) => starter' = ConnOf(j)
      BY <2>2, <3>1
    <3> QED BY <2>1, <3>2 DEF StartupInv, LockHolders, At, Working
  <2>4. CreatorKnown'
    BY <1>t, <2>1, <2>2, OrphanFacts DEF StartupInv, CreatorKnown, At
  <2>5. SchemaReady'
    BY <2>1, <2>2, OrphanFacts DEF StartupInv, SchemaReady, At, Working
  <2>6. ColdStartsFine'
    BY <2>1 DEF ColdStartsFine
  <2> QED BY <2>3, <2>4, <2>5, <2>6 DEF StartupInv
<1>13. CASE ReapMigrator \/ ReapStarter
  <2>1. /\ UNCHANGED <<pc, creator, applied, table, crashes>>
        /\ \A i \in Instances : /\ migrator = ConnOf(i) => migrator' = ConnOf(i)
                                /\ starter = ConnOf(i) => starter' = ConnOf(i)
    BY <1>13, ConnFacts DEF ReapMigrator, ReapStarter, Dead
  <2>2. LockHolders'
    BY <2>1 DEF StartupInv, LockHolders, At, Working
  <2>3. CreatorKnown' /\ SchemaReady' /\ ColdStartsFine'
    BY <2>1 DEF StartupInv, CreatorKnown, SchemaReady, ColdStartsFine, At, Working
  <2> QED BY <2>2, <2>3 DEF StartupInv
<1>14. CASE ReapCreator
  <2>1. /\ UNCHANGED <<pc, migrator, starter, applied, crashes>>
        /\ creator # Nobody /\ creator.ghost /\ creator' = Nobody /\ (table => table')
    BY <1>14 DEF ReapCreator, Dead
  <2> QED BY <2>1
        DEF StartupInv, LockHolders, CreatorKnown, SchemaReady, ColdStartsFine, At, Working
<1> QED
  BY <1>0, <1>1, <1>2, <1>3, <1>4, <1>5, <1>6, <1>7, <1>8, <1>9, <1>10, <1>11, <1>12, <1>13,
     <1>14 DEF Next, Step

\* StartupInv, the inductive invariant, holds in every reachable state.
THEOREM StartupInvariant == Spec => []StartupInv
<1>1. Init => StartupInv
  BY DEF Init, StartupInv, LockHolders, CreatorKnown, SchemaReady, ColdStartsFine, At, Working
<1>2. TypeOK /\ StartupInv /\ [Next]_vars => StartupInv'
  BY StartupStep
<1> QED BY <1>1, <1>2, StartupTypeCorrect, PTL DEF Spec

\* However many instances start, stop and die: one at a time is in the startup
\* work, none serves before the schema is complete, and without a crash no
\* start fails.
THEOREM StartsAreSafe == Spec => [](OneStarter /\ ServesMigrated /\ ColdStartsFine)
<1>1. StartupInv => OneStarter /\ ServesMigrated /\ ColdStartsFine
  <2>1. StartupInv => OneStarter
    BY ConnFacts DEF StartupInv, LockHolders, OneStarter
  <2> QED BY <2>1 DEF StartupInv, SchemaReady, ServesMigrated, At
<1> QED BY <1>1, StartupInvariant, PTL
=============================================================================

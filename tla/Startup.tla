------------------------------- MODULE Startup ------------------------------
(***************************************************************************)
(* Instances that start against one database: main of crates/web/src/      *)
(* main.rs up to the listener, Db::migrate and Db::with_startup_lock of    *)
(* crates/storage/src/db.rs.  The schema migrations run under sqlx's own   *)
(* lock; the session table is created under the startup lock, which is     *)
(* held on one connection of the pool while the work runs on another.      *)
(*                                                                         *)
(* Both locks belong to connections.  When a process ends the server only  *)
(* finds out in time: until then its connections are ghosts that hold      *)
(* their lock, and one that was committing may still commit.  The two      *)
(* connections of one process end in any order.                            *)
(***************************************************************************)
EXTENDS Naturals

CONSTANTS
  Instances,         \* the processes of a deployment
  Pool,              \* database_max_connections of each
  Migrations,        \* the number of files in migrations/
  MaxCrashes,        \* bound: crashes
  Nobody             \* no connection

ASSUME StartupAssumption ==
  /\ Pool \in [Instances -> Nat \ {0}]
  /\ Migrations \in Nat /\ MaxCrashes \in Nat
  /\ Nobody \notin [of : Instances, ghost : BOOLEAN, committing : BOOLEAN]

VARIABLES
  pc,                \* where main is, per instance
  migrator,          \* the connection that holds the lock of sqlx::migrate!
  starter,           \* the connection that holds STARTUP_LOCK_KEY
  creator,           \* the connection with an uncommitted CREATE TABLE
  applied,           \* the schema migrations committed
  table,             \* the session table is committed
  crashes            \* processes lost so far

vars == <<pc, migrator, starter, creator, applied, table, crashes>>

Conn == [of : Instances, ghost : BOOLEAN, committing : BOOLEAN] \cup {Nobody}

\* "create" waits for the second connection, "exists" is the statement itself,
\* "blocked" its wait for another connection's uncommitted table.
PCs == {"down", "migrate", "migrating", "lock", "create", "exists", "blocked",
        "commit", "unlock", "abort", "serve"}

TypeOK ==
  /\ pc \in [Instances -> PCs]
  /\ migrator \in Conn /\ starter \in Conn /\ creator \in Conn
  /\ applied \in 0..Migrations
  /\ table \in BOOLEAN
  /\ crashes \in 0..MaxCrashes

Init ==
  /\ pc = [i \in Instances |-> "down"]
  /\ migrator = Nobody /\ starter = Nobody /\ creator = Nobody
  /\ applied = 0 /\ table = FALSE /\ crashes = 0

At(i, here) == pc[i] = here
Goto(i, here) == pc' = [pc EXCEPT ![i] = here]

ConnOf(i) == [of |-> i, ghost |-> FALSE, committing |-> FALSE]

\* A connection whose process is gone, if it was the process's.
Orphan(c, i) == IF c # Nobody /\ c.of = i THEN [c EXCEPT !.ghost = TRUE] ELSE c
Orphaned(i) ==
  /\ migrator' = Orphan(migrator, i)
  /\ starter' = Orphan(starter, i)
  /\ creator' = Orphan(creator, i)

-----------------------------------------------------------------------------

\* Db::connect
Boot(i) ==
  /\ At(i, "down")
  /\ Goto(i, "migrate")
  /\ UNCHANGED <<migrator, starter, creator, applied, table, crashes>>

\* sqlx::migrate! waits for its lock ...
MigrateLock(i) ==
  /\ At(i, "migrate")
  /\ migrator = Nobody
  /\ migrator' = ConnOf(i)
  /\ Goto(i, "migrating")
  /\ UNCHANGED <<starter, creator, applied, table, crashes>>

\* Fault: the lock is given back before the last migration ran.
MigrateOnce(i) ==
  /\ At(i, "migrating")
  /\ IF applied < Migrations THEN applied' = applied + 1 ELSE UNCHANGED applied
  /\ migrator' = Nobody
  /\ Goto(i, "lock")
  /\ UNCHANGED <<starter, creator, table, crashes>>

\* ... applies what is missing, each file in a transaction, and gives it back.
Migrate(i) ==
  /\ At(i, "migrating")
  /\ IF applied < Migrations
     THEN applied' = applied + 1 /\ UNCHANGED <<pc, migrator>>
     ELSE Goto(i, "lock") /\ migrator' = Nobody /\ UNCHANGED applied
  /\ UNCHANGED <<starter, creator, table, crashes>>

-----------------------------------------------------------------------------
\* with_startup_lock(session_store.migrate())

\* Fault: pg_advisory_lock is not called.
StartupUnlocked(i) ==
  /\ At(i, "lock")
  /\ starter' = ConnOf(i)
  /\ Goto(i, "create")
  /\ UNCHANGED <<migrator, creator, applied, table, crashes>>

\* acquire a connection, SELECT pg_advisory_lock(STARTUP_LOCK_KEY)
StartupLock(i) ==
  /\ At(i, "lock")
  /\ starter = Nobody
  /\ starter' = ConnOf(i)
  /\ Goto(i, "create")
  /\ UNCHANGED <<migrator, creator, applied, table, crashes>>

\* The work begins its transaction on a connection of its own; a pool of one
\* has none left, and waiting for it times out.
AcquireSecond(i) ==
  /\ At(i, "create")
  /\ Goto(i, IF Pool[i] > 1 THEN "exists" ELSE "abort")
  /\ UNCHANGED <<migrator, starter, creator, applied, table, crashes>>

\* CREATE TABLE IF NOT EXISTS sees committed tables only: one that is being
\* created has to be waited for.  The library creates the schema of the table
\* before, in the same way, and forgives a duplicate there: that is left out.
CreateTable(i) ==
  /\ At(i, "exists")
  /\ IF ~table /\ creator # Nobody
     THEN Goto(i, "blocked") /\ UNCHANGED creator
     ELSE /\ Goto(i, "commit")
          /\ IF table THEN UNCHANGED creator ELSE creator' = ConnOf(i)
  /\ UNCHANGED <<migrator, starter, applied, table, crashes>>

\* If that one commits after all, the statement fails on a duplicate key.
Unblocked(i) ==
  /\ At(i, "blocked")
  /\ creator = Nobody
  /\ IF table THEN Goto(i, "abort") /\ UNCHANGED creator
     ELSE Goto(i, "commit") /\ creator' = ConnOf(i)
  /\ UNCHANGED <<migrator, starter, applied, table, crashes>>

\* COMMIT reaches the server, and is answered
SendCommit(i) ==
  /\ At(i, "commit")
  /\ creator = ConnOf(i)
  /\ creator' = [creator EXCEPT !.committing = TRUE]
  /\ UNCHANGED <<pc, migrator, starter, applied, table, crashes>>

Committed(i) ==
  /\ At(i, "commit")
  /\ creator # ConnOf(i)
  /\ Goto(i, "unlock")
  /\ IF creator # Nobody /\ creator.of = i /\ ~creator.ghost
     THEN table' = TRUE /\ creator' = Nobody
     ELSE UNCHANGED <<table, creator>>
  /\ UNCHANGED <<migrator, starter, applied, crashes>>

\* SELECT pg_advisory_unlock; then codec, photo store, providers and listener
Unlock(i) ==
  /\ At(i, "unlock")
  /\ starter' = Nobody
  /\ Goto(i, "serve")
  /\ UNCHANGED <<migrator, creator, applied, table, crashes>>

\* Fault: failed work is tried again under the lock.
AbortRetries(i) ==
  /\ At(i, "abort")
  /\ Goto(i, "create")
  /\ UNCHANGED <<migrator, starter, creator, applied, table, crashes>>

\* The lock is given back before main returns the work's error.
Abort(i) ==
  /\ At(i, "abort")
  /\ starter' = Nobody
  /\ Goto(i, "down")
  /\ UNCHANGED <<migrator, creator, applied, table, crashes>>

-----------------------------------------------------------------------------

\* SIGTERM: in-flight requests are finished, the process ends.
Shutdown(i) ==
  /\ At(i, "serve")
  /\ Goto(i, "down")
  /\ UNCHANGED <<migrator, starter, creator, applied, table, crashes>>

\* The process is killed, or a step of its start fails.
Crash(i) ==
  /\ ~At(i, "down")
  /\ crashes < MaxCrashes
  /\ crashes' = crashes + 1
  /\ Goto(i, "down")
  /\ Orphaned(i)
  /\ UNCHANGED <<applied, table>>

Dead(c) == c # Nobody /\ c.ghost

\* The server ends a connection whose process is gone: its lock is free, its
\* transaction is rolled back unless the COMMIT had arrived.
ReapMigrator ==
  /\ Dead(migrator) /\ migrator' = Nobody
  /\ UNCHANGED <<pc, starter, creator, applied, table, crashes>>

ReapStarter ==
  /\ Dead(starter) /\ starter' = Nobody
  /\ UNCHANGED <<pc, migrator, creator, applied, table, crashes>>

ReapCreator ==
  /\ Dead(creator) /\ creator' = Nobody
  /\ table' = (table \/ creator.committing)
  /\ UNCHANGED <<pc, migrator, starter, applied, crashes>>

-----------------------------------------------------------------------------

Step(i) ==
  \/ Boot(i) \/ Migrate(i) \/ AcquireSecond(i) \/ CreateTable(i) \/ Unblocked(i)
  \/ SendCommit(i) \/ Committed(i) \/ Unlock(i) \/ Abort(i)

Next ==
  \/ \E i \in Instances :
       Step(i) \/ MigrateLock(i) \/ StartupLock(i) \/ Shutdown(i) \/ Crash(i)
  \/ ReapMigrator \/ ReapStarter \/ ReapCreator

Spec == Init /\ [][Next]_vars

\* A platform restarts what it stopped and main runs on; Postgres serves the
\* waiters of an advisory lock in turn and ends connections that are gone.
Fairness ==
  /\ \A i \in Instances : WF_vars(Step(i)) /\ SF_vars(MigrateLock(i)) /\ SF_vars(StartupLock(i))
  /\ WF_vars(ReapMigrator) /\ WF_vars(ReapStarter) /\ WF_vars(ReapCreator)

FairSpec == Spec /\ Fairness

-----------------------------------------------------------------------------
\* Properties

\* No instance serves before the schema is complete and the session table is
\* there, whoever migrated and whoever died on the way.
ServesMigrated ==
  \A i \in Instances : At(i, "serve") => applied = Migrations /\ table

\* "Simultaneous cold starts are fine": a start with two connections fails only
\* if a process died with its transaction open.  The lock's connection may end
\* before the transaction's, so a crash can cost another instance one start.
ColdStartsFine ==
  \A i \in Instances : At(i, "abort") /\ Pool[i] > 1 => crashes > 0

Working(i) == pc[i] \in {"create", "exists", "blocked", "commit", "unlock", "abort"}

\* The startup lock serializes the work: two processes that live are never both
\* in it, whatever connections are still ending.
OneStarter == \A i, j \in Instances : Working(i) /\ Working(j) => i = j

\* Every instance with two connections comes up, again and again if it is
\* stopped, although one with a single connection starts in vain beside it.
EveryInstanceServes ==
  \A i \in Instances : Pool[i] > 1 => At(i, "down") ~> At(i, "serve")

-----------------------------------------------------------------------------
\* Inductive strengthening

\* A lock is held by the process that is past it, or by a ghost of it.
LockHolders ==
  \A i \in Instances :
    /\ At(i, "migrating") => migrator = ConnOf(i)
    /\ Working(i) => starter = ConnOf(i)

\* An uncommitted table belongs to a process about to commit it or to a ghost,
\* and ghosts take a crash.
CreatorKnown ==
  /\ creator # Nobody /\ ~creator.ghost => At(creator.of, "commit")
  /\ creator # Nobody /\ creator.ghost => crashes > 0
  /\ \A i \in Instances : At(i, "blocked") => crashes > 0

\* Past the migrations the schema is complete; past the commit the table is there.
SchemaReady ==
  \A i \in Instances :
    /\ Working(i) \/ pc[i] \in {"lock", "serve"} => applied = Migrations
    /\ pc[i] \in {"unlock", "serve"} => table
    /\ At(i, "commit") => table \/ (creator # Nobody /\ creator.of = i /\ ~creator.ghost)

\* Why starts do not disturb each other.
StartupInv ==
  /\ LockHolders
  /\ CreatorKnown
  /\ SchemaReady
  /\ ColdStartsFine
=============================================================================

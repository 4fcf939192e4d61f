------------------------------ MODULE Connections ------------------------------
(***************************************************************************)
(* One SQLite database of the application and the threads that open it     *)
(* (app/storage/migrations.py): the migrations that every opening runs, in *)
(* whatever state earlier openings, failures and process ends have left    *)
(* them; the write lock; and what becomes of a connection when it is       *)
(* closed.  Every module above takes for granted what is checked here: an  *)
(* open connection sees the whole schema, and a write gets through.        *)
(*                                                                         *)
(* SQLite is modelled from how the code uses it: DDL commits by itself,    *)
(* the first INSERT or UPDATE opens a transaction and takes the lock,      *)
(* commit and the end of the connection give it up.  A statement that      *)
(* waits longer than busy_timeout raises; here it waits on.                *)
(***************************************************************************)
EXTENDS Naturals, FiniteSets

CONSTANTS
  Threads,      \* the web thread, the worker thread, those of the tools
  Web,          \* the web thread
  Nobody,
  Latest,       \* the last version of the schema
  Statements,   \* [versions -> number of statements of the script]
  Altered,      \* the versions of _GUARDED_ALTERS
  MaxPool,      \* _MAX_POOL_SIZE
  MaxExits,     \* bound: ends of the process
  MaxFaults     \* bound: statements that raise

Versions == 1 .. Latest

ASSUME ThreadsAssumption == Web \in Threads /\ Nobody \notin Threads
ASSUME SchemaAssumption ==
  /\ Latest \in Nat \ {0}
  /\ Statements \in [Versions -> Nat] /\ Altered \subseteq Versions
ASSUME BoundsAssumption ==
  MaxPool \in Nat /\ MaxExits \in Nat /\ MaxFaults \in Nat

VARIABLES
  kind,     \* the shared database or a user's
  schema,   \* the tables, indexes and columns that exist, as parts of versions
  versions, \* the rows that hold the schema's version, as committed
  pending,  \* those rows as the open transaction leaves them
  writer,   \* the thread whose connection holds the write lock
  leaked,   \* that connection is in a pool, closed by the code
  at,       \* where each thread is with its connection
  goal,     \* the version of the migration it is at
  pooled,   \* how many connections its pool holds
  exits,
  faults

dbVars == <<kind, schema, versions>>
lockVars == <<pending, writer, leaked>>
vars == <<dbVars, lockVars, at, goal, pooled, exits, faults>>

\* The statements of version v's script, the column of its guarded ALTER, and
\* what there is in a database of kind k after version v.
Script(v) == {v} \X (1 .. Statements[v])
Column(v) == <<v, 0>>
Parts(k, v) ==
  Script(v) \cup (IF k = "shared" /\ v \in Altered THEN {Column(v)} ELSE {})
UpTo(k, v) == UNION {Parts(k, u) : u \in 1 .. v}

\* "ensure" and "seed" are the two halves of _ensure_user_version_table.
Opening == {"read", "script", "alter", "ensure", "seed", "set", "commit"}
Using == {"ready", "write", "written", "failed"}

TypeOK ==
  /\ kind \in {"shared", "user"}
  /\ schema \subseteq UpTo(kind, Latest)
  /\ versions \subseteq 0 .. Latest /\ pending \subseteq 0 .. Latest
  /\ writer \in Threads \cup {Nobody}
  /\ leaked \in BOOLEAN
  /\ at \in [Threads -> {"idle"} \cup Opening \cup Using]
  /\ goal \in [Threads -> 0 .. Latest + 1]
  /\ pooled \in [Threads -> 0 .. MaxPool]
  /\ exits \in 0 .. MaxExits
  /\ faults \in 0 .. MaxFaults

\* A new database, or one that an earlier release of the program left.
Init ==
  /\ kind \in {"shared", "user"}
  /\ \E v \in 0 .. Latest :
       /\ versions = IF v = 0 THEN {} ELSE {v}
       /\ schema = UpTo(kind, v)
  /\ pending = {}
  /\ writer = Nobody
  /\ leaked = FALSE
  /\ at = [t \in Threads |-> "idle"]
  /\ goal = [t \in Threads |-> 0]
  /\ pooled = [t \in Threads |-> 0]
  /\ exits = 0
  /\ faults = 0

Goto(t, step) == at' = [at EXCEPT ![t] = step]
Holds(t) == writer = t /\ ~leaked
MayWrite(t) == writer = Nobody \/ Holds(t)

\* The thread's transaction, if it has one, is undone or made to last.
Rollback(t) ==
  IF Holds(t) THEN pending' = {} /\ writer' = Nobody
              ELSE UNCHANGED <<pending, writer>>

-------------------------------------------------------------------------------
(* Opening: init_shared_db_with_migrations, init_user_db_with_migrations.  *)

\* A user's database is created by a request of that user, in the web thread:
\* the jobs and the tools come after the collection they are about.
Open(t) ==
  /\ at[t] = "idle"
  /\ kind = "user" /\ versions = {} => t = Web
  /\ Goto(t, "read")
  /\ UNCHANGED <<dbVars, lockVars, goal, pooled, exits, faults>>

\* _get_shared_version, _get_user_version: no row is version 0.
Current == IF versions = {} THEN 0
           ELSE CHOOSE v \in versions : \A u \in versions : v <= u

\* Mistakes, as in module JobQueue, precede the definition they mistake.
\* Mistake: the version is set before the script is run.
ReadVersionEagerly(t) ==
  /\ at[t] = "read"
  /\ goal' = [goal EXCEPT ![t] = Current + 1]
  /\ Goto(t, IF Current < Latest THEN "set" ELSE "ready")
  /\ UNCHANGED <<dbVars, lockVars, pooled, exits, faults>>

ReadVersion(t) ==
  /\ at[t] = "read"
  /\ goal' = [goal EXCEPT ![t] = Current + 1]
  /\ Goto(t, IF Current < Latest THEN "script" ELSE "ready")
  /\ UNCHANGED <<dbVars, lockVars, pooled, exits, faults>>

\* executescript: CREATE ... IF NOT EXISTS, one statement after the other.
Missing(v) == {p \in Script(v) : p \notin schema}

RunStatement(t) ==
  /\ at[t] = "script" /\ MayWrite(t)
  /\ \E p \in Missing(goal[t]) :
       /\ \A q \in Missing(goal[t]) : p[2] <= q[2]
       /\ schema' = schema \cup {p}
  /\ UNCHANGED <<kind, versions, lockVars, at, goal, pooled, exits, faults>>

EndScript(t) ==
  /\ at[t] = "script" /\ Missing(goal[t]) = {}
  /\ Goto(t, IF kind = "user" THEN "ensure"
             ELSE IF goal[t] \in Altered THEN "alter" ELSE "set")
  /\ UNCHANGED <<dbVars, lockVars, goal, pooled, exits, faults>>

\* Mistake: a column that exists makes the ALTER raise.
AddColumnOnce(t) ==
  /\ at[t] = "alter"
  /\ \/ /\ Column(goal[t]) \in schema
        /\ Goto(t, "idle")
        /\ UNCHANGED schema
     \/ /\ Column(goal[t]) \notin schema /\ MayWrite(t)
        /\ schema' = schema \cup {Column(goal[t])}
        /\ Goto(t, "set")
  /\ UNCHANGED <<kind, versions, lockVars, goal, pooled, exits, faults>>

\* Mistake: an ALTER that raises is tried again.
AddColumnAgain(t) ==
  /\ at[t] = "alter"
  /\ Column(goal[t]) \notin schema /\ MayWrite(t)
  /\ schema' = schema \cup {Column(goal[t])}
  /\ Goto(t, "set")
  /\ UNCHANGED <<kind, versions, lockVars, goal, pooled, exits, faults>>

\* _add_column: an ALTER that finds the column there raises at once, and that
\* is swallowed.
AddColumn(t) ==
  /\ at[t] = "alter"
  /\ \/ /\ Column(goal[t]) \in schema
        /\ UNCHANGED schema
     \/ /\ Column(goal[t]) \notin schema /\ MayWrite(t)
        /\ schema' = schema \cup {Column(goal[t])}
  /\ Goto(t, "set")
  /\ UNCHANGED <<kind, versions, lockVars, goal, pooled, exits, faults>>

\* _ensure_user_version_table looks for a row, ...
EnsureVersion(t) ==
  /\ at[t] = "ensure"
  /\ Goto(t, IF versions = {} THEN "seed" ELSE "set")
  /\ UNCHANGED <<dbVars, lockVars, goal, pooled, exits, faults>>

\* ... and inserts one if there was none.
SeedVersion(t) ==
  /\ at[t] = "seed" /\ MayWrite(t)
  /\ writer' = t
  /\ pending' = versions \cup {0}
  /\ Goto(t, "set")
  /\ UNCHANGED <<dbVars, leaked, goal, pooled, exits, faults>>

\* _set_shared_version replaces the row; _set_user_version updates all rows,
\* and raises on the primary key if there are two.
SetVersion(t) ==
  /\ at[t] = "set" /\ MayWrite(t)
  /\ LET rows == IF Holds(t) THEN pending ELSE versions
     IN  \/ /\ kind = "shared" \/ Cardinality(rows) <= 1
            /\ writer' = t
            /\ pending' = {goal[t]}
            /\ Goto(t, "commit")
         \/ /\ kind = "user" /\ Cardinality(rows) > 1
            /\ Rollback(t)
            /\ Goto(t, "idle")
  /\ UNCHANGED <<dbVars, leaked, goal, pooled, exits, faults>>

\* The next script commits what is pending before it runs, and so does the
\* end of the migrations.
CommitVersion(t) ==
  /\ at[t] = "commit"
  /\ versions' = pending
  /\ pending' = {} /\ writer' = Nobody
  /\ goal' = [goal EXCEPT ![t] = @ + 1]
  /\ Goto(t, IF goal[t] < Latest THEN "script" ELSE "ready")
  /\ UNCHANGED <<kind, schema, leaked, pooled, exits, faults>>

\* A statement raises, a full disk being one reason: the connection is dropped.
InitFails(t) ==
  /\ at[t] \in Opening /\ faults < MaxFaults
  /\ faults' = faults + 1
  /\ Rollback(t)
  /\ Goto(t, "idle")
  /\ UNCHANGED <<dbVars, leaked, goal, pooled, exits>>

Initialise(t) ==
  \/ ReadVersion(t) \/ RunStatement(t) \/ EndScript(t) \/ AddColumn(t)
  \/ EnsureVersion(t) \/ SeedVersion(t) \/ SetVersion(t) \/ CommitVersion(t)

-------------------------------------------------------------------------------
(* Using a connection and closing it.                                      *)

StartWrite(t) ==
  /\ at[t] = "ready"
  /\ Goto(t, "write")
  /\ UNCHANGED <<dbVars, lockVars, goal, pooled, exits, faults>>

\* The first INSERT or UPDATE of a handler gets the lock.
Write(t) ==
  /\ at[t] = "write" /\ writer = Nobody
  /\ writer' = t /\ pending' = versions
  /\ Goto(t, "written")
  /\ UNCHANGED <<dbVars, leaked, goal, pooled, exits, faults>>

Commit(t) ==
  /\ at[t] = "written"
  /\ writer' = Nobody /\ pending' = {}
  /\ Goto(t, "ready")
  /\ UNCHANGED <<dbVars, leaked, goal, pooled, exits, faults>>

\* A statement violates a constraint (a name that is taken) or raises for any
\* other reason, with its transaction open.
WriteFails(t) ==
  /\ at[t] = "written" /\ faults < MaxFaults
  /\ faults' = faults + 1
  /\ Goto(t, "failed")
  /\ UNCHANGED <<dbVars, lockVars, goal, pooled, exits>>

\* PoolConn.close, from the finally of a handler: the connection goes to the
\* thread's pool as it is, transaction included, and nothing takes it out
\* again; only when the pool is full is it really closed.
Close(t) ==
  /\ at[t] \in {"ready", "failed"}
  /\ \/ /\ pooled[t] < MaxPool
        /\ pooled' = [pooled EXCEPT ![t] = @ + 1]
        /\ leaked' = (leaked \/ Holds(t))
        /\ UNCHANGED <<pending, writer>>
     \/ /\ pooled[t] = MaxPool
        /\ Rollback(t)
        /\ UNCHANGED <<pooled, leaked>>
  /\ Goto(t, "idle")
  /\ UNCHANGED <<dbVars, goal, exits, faults>>

\* A handler without a finally loses its connection when it raises: the last
\* reference to it is gone, and SQLite ends its transaction.
Drop(t) ==
  /\ at[t] = "failed"
  /\ Rollback(t)
  /\ Goto(t, "idle")
  /\ UNCHANGED <<dbVars, leaked, goal, pooled, exits, faults>>

\* The process ends, at any moment; what was not committed is gone.
Exit ==
  /\ exits < MaxExits
  /\ exits' = exits + 1
  /\ pending' = {} /\ writer' = Nobody /\ leaked' = FALSE
  /\ at' = [t \in Threads |-> "idle"]
  /\ pooled' = [t \in Threads |-> 0]
  /\ UNCHANGED <<dbVars, goal, faults>>

-------------------------------------------------------------------------------
Next ==
  \/ \E t \in Threads :
       \/ Open(t) \/ Initialise(t) \/ InitFails(t)
       \/ StartWrite(t) \/ Write(t) \/ Commit(t) \/ WriteFails(t)
       \/ Close(t) \/ Drop(t)
  \/ Exit

Spec == Init /\ [][Next]_vars

\* A thread goes on with what it has begun.  SQLite's busy handler asks for
\* the lock again and again for 30 seconds, and a transaction of the code is
\* over in a few milliseconds: a lock that is free time and again is got.
Fairness ==
  \A t \in Threads :
    /\ SF_vars(Initialise(t)) /\ SF_vars(Write(t))
    /\ WF_vars(Commit(t)) /\ WF_vars(Close(t))

FairSpec == Spec /\ Fairness

-------------------------------------------------------------------------------
(* Properties.                                                             *)

\* migrate_user_db: a failed migration must never advance the version, or the
\* schema drifts silently.  The committed version never claims a part of the
\* schema that is not there, whoever migrates beside whom and whatever failed
\* in the middle.
VersionHonest == \A v \in versions \cup pending : UpTo(kind, v) \subseteq schema

\* A thread that got its connection works on the whole schema, even when
\* another thread or an earlier process did a part of the migrations.
UsersSeeSchema == \A t \in Threads : at[t] \in Using => schema = UpTo(kind, Latest)

\* The version is one row.  _set_user_version would raise on the second, and
\* every opening of that user's database after it.
OneVersion == Cardinality(versions) <= 1 /\ Cardinality(pending) <= 1

\* An opening raises only because a statement failed or the process ended: a
\* migration that an earlier one left half done can be retried safely.
RetrySafe ==
  [][\A t \in Threads :
       at[t] \in Opening /\ at'[t] = "idle" =>
         faults' > faults \/ exits' > exits]_vars

\* Whoever opens the database gets it, and whoever writes gets through, as long
\* as no connection went to a pool in the middle of a transaction.
NobodyWaitsForEver ==
  \A t \in Threads :
    at[t] \in Opening \cup {"write"} ~>
      at[t] \notin Opening \cup {"write"} \/ leaked

\* migrations.py:338: the web loop and worker thread can write concurrently
\* without 'database is locked'.
WritersGetThrough ==
  \A t \in Threads : at[t] = "write" ~> at[t] # "write"
===============================================================================

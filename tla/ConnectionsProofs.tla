--------------------------- MODULE ConnectionsProofs ---------------------------
(***************************************************************************)
(* Theorems about Connections, for any number of threads, any schema and   *)
(* any number of failures and process ends.                                *)
(***************************************************************************)
EXTENDS Connections, FiniteSetTheorems, TLAPS

USE ThreadsAssumption, SchemaAssumption, BoundsAssumption DEF Versions

-------------------------------------------------------------------------------
(* The parts of the schema.                                                *)

LEMMA NothingYet ==
  ASSUME NEW k
  PROVE  UpTo(k, 0) = {}
  BY DEF UpTo

LEMMA OneMore ==
  ASSUME NEW k, NEW v \in Nat \ {0}
  PROVE  UpTo(k, v) = UpTo(k, v - 1) \cup Parts(k, v)
<1>1. 1 .. v = (1 .. (v - 1)) \cup {v}
  OBVIOUS
<1> QED
  BY <1>1 DEF UpTo

LEMMA Grows ==
  ASSUME NEW k, NEW u \in Nat, NEW v \in Nat, u <= v
  PROVE  UpTo(k, u) \subseteq UpTo(k, v)
<1>1. 1 .. u \subseteq 1 .. v
  OBVIOUS
<1> QED
  BY <1>1 DEF UpTo

LEMMA PartOfAll ==
  ASSUME NEW k, NEW v \in Versions
  PROVE  Parts(k, v) \subseteq UpTo(k, Latest)
  BY DEF UpTo

-------------------------------------------------------------------------------
(* The steps: each is of one thread, but for the end of the process.       *)

StepOf(t) ==
  \/ Open(t) \/ Initialise(t) \/ InitFails(t)
  \/ StartWrite(t) \/ Write(t) \/ Commit(t) \/ WriteFails(t)
  \/ Close(t) \/ Drop(t)

Alone(t) ==
  \A s \in Threads \ {t} : at'[s] = at[s] /\ goal'[s] = goal[s]

LEMMA NextCases ==
  ASSUME Next
  PROVE  Exit \/ \E t \in Threads : StepOf(t)
  BY DEF Next, StepOf

\* What the proofs need of the types: the Boolean variable is left out.
StateOK ==
  /\ kind \in {"shared", "user"}
  /\ schema \subseteq UpTo(kind, Latest)
  /\ versions \subseteq 0 .. Latest /\ pending \subseteq 0 .. Latest
  /\ writer \in Threads \cup {Nobody}
  /\ at \in [Threads -> {"idle"} \cup Opening \cup Using]
  /\ goal \in [Threads -> 0 .. Latest + 1]
  /\ pooled \in [Threads -> 0 .. MaxPool]
  /\ exits \in 0 .. MaxExits
  /\ faults \in 0 .. MaxFaults

LEMMA StepIsAlone ==
  ASSUME StateOK, NEW t \in Threads, StepOf(t)
  PROVE  Alone(t)
<1>1. DOMAIN at = Threads /\ DOMAIN goal = Threads
  BY DEF StateOK
<1>2. \A step : Goto(t, step) => \A s \in Threads \ {t} : at'[s] = at[s]
  BY <1>1 DEF Goto
<1>3. \E step : Goto(t, step)
  <2>1. CASE RunStatement(t)
    <3>1. at' = [at EXCEPT ![t] = at[t]]
      BY <2>1 DEF RunStatement, StateOK
    <3> QED
      BY <3>1 DEF Goto
  <2>2. CASE AddColumn(t)
    BY <2>2 DEF AddColumn
  <2>3. CASE SetVersion(t)
    BY <2>3 DEF SetVersion
  <2>4. CASE ReadVersion(t) \/ EndScript(t) \/ EnsureVersion(t)
             \/ SeedVersion(t) \/ CommitVersion(t)
    BY <2>4
    DEF ReadVersion, EndScript, EnsureVersion, SeedVersion, CommitVersion
  <2>5. CASE Open(t) \/ InitFails(t) \/ StartWrite(t) \/ Write(t) \/ Commit(t)
             \/ WriteFails(t) \/ Close(t) \/ Drop(t)
    BY <2>5 DEF Open, InitFails, StartWrite, Write, Commit, WriteFails, Close,
                Drop
  <2> QED
    BY <2>1, <2>2, <2>3, <2>4, <2>5 DEF StepOf, Initialise
<1>4. \A s \in Threads \ {t} : goal'[s] = goal[s]
  BY <1>1 DEF StepOf, Initialise, Open, ReadVersion, RunStatement, EndScript,
              AddColumn, EnsureVersion, SeedVersion, SetVersion, CommitVersion,
              InitFails, StartWrite, Write, Commit, WriteFails, Close, Drop
<1> QED
  BY <1>2, <1>3, <1>4 DEF Alone

\* Parts are added to the schema, and none is taken away.
LEMMA SchemaGrows ==
  ASSUME [Next]_vars
  PROVE  kind' = kind /\ schema \subseteq schema'
  BY DEF Next, Initialise, Open, ReadVersion, RunStatement, EndScript,
         AddColumn, EnsureVersion, SeedVersion, SetVersion, CommitVersion,
         InitFails, StartWrite, Write, Commit, WriteFails, Close, Drop, Exit,
         dbVars, vars

-------------------------------------------------------------------------------
(* The inductive invariant.                                                *)

AtMostOne(S) == \A a, b \in S : a = b

\* Where each thread is with its migration: what its goal is, and what of the
\* schema is there by then.
DueAt(t) ==
  /\ at[t] \in Opening \ {"read"} => goal[t] \in Versions
  /\ at[t] \in {"script", "alter"} => UpTo(kind, goal[t] - 1) \subseteq schema
  /\ at[t] = "alter" => /\ kind = "shared" /\ goal[t] \in Altered
                        /\ Script(goal[t]) \subseteq schema
  /\ at[t] \in {"ensure", "seed"} => kind = "user"
  /\ at[t] \in {"ensure", "seed", "set", "commit"} =>
       UpTo(kind, goal[t]) \subseteq schema
  /\ at[t] \in Using => UpTo(kind, Latest) \subseteq schema

\* A thread in the middle of a transaction holds the lock.
HoldsAt(t) ==
  /\ at[t] \in {"commit", "written", "failed"} => Holds(t)
  /\ at[t] = "commit" => pending = {goal[t]}

\* Until the first version of a user's database is committed, the web thread
\* is alone with it.
First ==
  /\ kind = "user" /\ versions = {} =>
       \A t \in Threads : at[t] # "idle" => t = Web
  /\ \A t \in Threads : at[t] = "seed" => versions = {}

ConnInv ==
  /\ StateOK
  /\ VersionHonest
  /\ AtMostOne(versions) /\ AtMostOne(pending)
  /\ leaked => writer # Nobody
  /\ First
  /\ \A t \in Threads : DueAt(t) /\ HoldsAt(t)

LEMMA InvInit == Init => ConnInv
<1> SUFFICES ASSUME Init PROVE ConnInv
  OBVIOUS
<1>1. PICK v \in 0 .. Latest :
        versions = (IF v = 0 THEN {} ELSE {v}) /\ schema = UpTo(kind, v)
  BY DEF Init
<1>2. UpTo(kind, v) \subseteq UpTo(kind, Latest)
  BY Grows
<1>3. StateOK
  BY <1>1, <1>2 DEF Init, StateOK
<1>4. VersionHonest
  BY <1>1 DEF Init, VersionHonest
<1>5. AtMostOne(versions) /\ AtMostOne(pending)
  BY <1>1 DEF Init, AtMostOne
<1>6. First /\ \A t \in Threads : DueAt(t) /\ HoldsAt(t)
  BY DEF Init, First, DueAt, HoldsAt, Opening, Using
<1> QED
  BY <1>3, <1>4, <1>5, <1>6 DEF ConnInv, Init

\* One step for every action but Initialise, whose parts have steps of their
\* own: what a proof by cases of StepOf goes through.
LEMMA StepCases ==
  ASSUME NEW t, StepOf(t)
  PROVE  \/ Open(t) \/ ReadVersion(t) \/ RunStatement(t) \/ EndScript(t)
         \/ AddColumn(t) \/ EnsureVersion(t) \/ SeedVersion(t)
         \/ SetVersion(t) \/ CommitVersion(t) \/ InitFails(t)
         \/ StartWrite(t) \/ Write(t) \/ Commit(t) \/ WriteFails(t)
         \/ Close(t) \/ Drop(t)
  BY DEF StepOf, Initialise

\* The version a thread reads.
LEMMA CurrentIs ==
  ASSUME ConnInv
  PROVE  /\ Current \in 0 .. Latest
         /\ UpTo(kind, Current) \subseteq schema
<1>1. CASE versions = {}
  BY <1>1, NothingYet DEF Current
<1>2. CASE versions # {}
  <2>1. PICK v \in versions : versions = {v}
    BY <1>2 DEF ConnInv, AtMostOne
  <2>2. v \in 0 .. Latest
    BY DEF ConnInv, StateOK
  <2>3. \A u \in versions : v <= u
    BY <2>1, <2>2
  <2>4. Current \in versions
    BY <1>2, <2>1, <2>3 DEF Current
  <2> QED
    BY <2>4 DEF ConnInv, StateOK, VersionHonest
<1> QED
  BY <1>1, <1>2

\* What a thread may add to the schema is a part of it.
LEMMA PartsBelong ==
  ASSUME NEW v \in Versions
  PROVE  /\ Script(v) \subseteq Parts(kind, v)
         /\ kind = "shared" /\ v \in Altered => Column(v) \in Parts(kind, v)
  BY DEF Parts

LEMMA RolledBack ==
  ASSUME StateOK, NEW t, Rollback(t)
  PROVE  /\ pending' \subseteq 0 .. Latest
         /\ writer' \in Threads \cup {Nobody}
  BY DEF Rollback, StateOK

LEMMA StateNext ==
  ASSUME ConnInv, Next
  PROVE  StateOK'
<1> USE DEF Goto, Opening, Using
<1>0. StateOK
  BY DEF ConnInv
<1>1. CASE Exit
  BY <1>0, <1>1 DEF Exit, StateOK, dbVars
<1>2. ASSUME NEW t \in Threads, StepOf(t)
      PROVE  StateOK'
  <2>0. DueAt(t) /\ HoldsAt(t)
    BY DEF ConnInv
  <2>1. CASE Open(t) \/ EnsureVersion(t) \/ EndScript(t) \/ StartWrite(t)
    BY <1>0, <2>1 DEF Open, EnsureVersion, EndScript, StartWrite, StateOK,
                      dbVars, lockVars
  <2>2. CASE ReadVersion(t)
    BY <1>0, <2>2, CurrentIs DEF ReadVersion, StateOK, dbVars, lockVars
  <2>3. CASE RunStatement(t)
    <3>1. schema' \subseteq UpTo(kind, Latest)
      BY <1>0, <2>0, <2>3, PartOfAll, PartsBelong
      DEF RunStatement, Missing, DueAt, StateOK
    <3> QED
      BY <1>0, <2>3, <3>1 DEF RunStatement, StateOK, lockVars
  <2>4. CASE AddColumn(t)
    <3>1. schema' \subseteq UpTo(kind, Latest)
      <4>1. goal[t] \in Versions /\ kind = "shared"
        BY <2>0, <2>4 DEF AddColumn, DueAt
      <4>2. goal[t] \in Altered
        BY <2>0, <2>4 DEF AddColumn, DueAt
      <4> QED
        BY <1>0, <2>4, <4>1, <4>2, PartOfAll, PartsBelong
        DEF AddColumn, StateOK
    <3> QED
      BY <1>0, <2>4, <3>1 DEF AddColumn, StateOK, lockVars
  <2>5. CASE SeedVersion(t)
    BY <1>0, <2>5 DEF SeedVersion, StateOK, dbVars
  <2>6. CASE SetVersion(t)
    <3>1. goal[t] \in 0 .. Latest
      BY <2>0, <2>6 DEF SetVersion, DueAt
    <3> QED
      BY <1>0, <2>6, <3>1 DEF SetVersion, Rollback, StateOK, dbVars
  <2>7. CASE CommitVersion(t)
    <3>1. goal[t] \in Versions
      BY <2>0, <2>7 DEF CommitVersion, DueAt
    <3> QED
      BY <1>0, <2>7, <3>1 DEF CommitVersion, StateOK
  <2>8. CASE InitFails(t) \/ WriteFails(t) \/ Drop(t)
    <3>1. CASE WriteFails(t)
      BY <1>0, <3>1 DEF WriteFails, StateOK, dbVars, lockVars
    <3>2. CASE InitFails(t)
      BY <1>0, <3>2, RolledBack DEF InitFails, StateOK, dbVars
    <3>3. CASE Drop(t)
      BY <1>0, <3>3, RolledBack DEF Drop, StateOK, dbVars
    <3> QED
      BY <2>8, <3>1, <3>2, <3>3
  <2>9. CASE Write(t) \/ Commit(t)
    BY <1>0, <2>9 DEF Write, Commit, StateOK, dbVars
  <2>10. CASE Close(t)
    <3>1. /\ pending' \subseteq 0 .. Latest
          /\ writer' \in Threads \cup {Nobody}
      BY <1>0, <2>10, RolledBack DEF Close, StateOK
    <3>2. pooled' \in [Threads -> 0 .. MaxPool]
      <4>1. \/ pooled[t] < MaxPool /\ pooled' = [pooled EXCEPT ![t] = @ + 1]
            \/ pooled' = pooled
        BY <2>10 DEF Close
      <4>2. pooled \in [Threads -> 0 .. MaxPool]
        BY <1>0 DEF StateOK
      <4>3. pooled[t] < MaxPool => pooled[t] + 1 \in 0 .. MaxPool
        BY <4>2
      <4> QED
        BY <4>1, <4>2, <4>3
    <3>3. at' \in [Threads -> {"idle"} \cup Opening \cup Using]
      BY <1>0, <2>10 DEF Close, StateOK
    <3> QED
      BY <1>0, <2>10, <3>1, <3>2, <3>3 DEF Close, StateOK, dbVars
  <2> QED
    BY <1>2, StepCases, <2>1, <2>2, <2>3, <2>4, <2>5, <2>6, <2>7, <2>8, <2>9,
       <2>10
<1> QED
  BY <1>1, <1>2, NextCases

-------------------------------------------------------------------------------
(* What a thread has done of its migration is not undone by another.       *)

LEMMA DueKept ==
  ASSUME NEW s, DueAt(s), at'[s] = at[s], goal'[s] = goal[s],
         kind' = kind, schema \subseteq schema'
  PROVE  DueAt(s)'
  BY DEF DueAt

LEMMA DueNext ==
  ASSUME ConnInv, NEW t \in Threads, StepOf(t)
  PROVE  DueAt(t)'
<1> USE DEF Opening, Using
<1>0. /\ StateOK /\ DueAt(t)
      /\ kind' = kind /\ schema \subseteq schema'
  BY SchemaGrows DEF ConnInv, Next, StepOf
<1>1. \A step : Goto(t, step) => at'[t] = step
  BY <1>0 DEF Goto, StateOK
<1>2. CASE Open(t) \/ InitFails(t) \/ Close(t) \/ Drop(t)
  <2>1. at'[t] \in {"read", "idle"}
    BY <1>1, <1>2 DEF Open, InitFails, Close, Drop
  <2> QED
    BY <2>1 DEF DueAt
<1>3. CASE ReadVersion(t)
  <2>1. goal'[t] = Current + 1 /\ schema' = schema
    BY <1>0, <1>3 DEF ReadVersion, StateOK, dbVars
  <2>2. at'[t] = IF Current < Latest THEN "script" ELSE "ready"
    BY <1>1, <1>3 DEF ReadVersion
  <2>3. CASE Current < Latest
    BY <1>0, <2>1, <2>2, <2>3, CurrentIs DEF DueAt
  <2>4. CASE Current = Latest
    BY <1>0, <2>1, <2>2, <2>4, CurrentIs DEF DueAt
  <2> QED
    BY <2>3, <2>4, CurrentIs
<1>4. CASE RunStatement(t)
  BY <1>0, <1>4, DueKept DEF RunStatement
<1>5. CASE EndScript(t)
  <2>1. /\ goal[t] \in Versions /\ UpTo(kind, goal[t] - 1) \subseteq schema
        /\ Script(goal[t]) \subseteq schema
        /\ goal' = goal /\ schema' = schema
    BY <1>0, <1>5 DEF EndScript, DueAt, Missing, dbVars
  <2>2. UpTo(kind, goal[t]) = UpTo(kind, goal[t] - 1) \cup Parts(kind, goal[t])
    BY <2>1, OneMore
  <2>3. CASE kind = "user"
    <3>1. at'[t] = "ensure"
      BY <1>1, <1>5, <2>3 DEF EndScript
    <3>2. Parts(kind, goal[t]) = Script(goal[t])
      BY <2>3 DEF Parts
    <3> QED
      BY <1>0, <2>1, <2>2, <2>3, <3>1, <3>2 DEF DueAt
  <2>4. CASE kind = "shared" /\ goal[t] \in Altered
    <3>1. at'[t] = "alter"
      BY <1>1, <1>5, <2>4 DEF EndScript
    <3> QED
      BY <1>0, <2>1, <2>4, <3>1 DEF DueAt
  <2>5. CASE kind = "shared" /\ goal[t] \notin Altered
    <3>1. at'[t] = "set"
      BY <1>1, <1>5, <2>5 DEF EndScript
    <3>2. Parts(kind, goal[t]) = Script(goal[t])
      BY <2>5 DEF Parts
    <3> QED
      BY <1>0, <2>1, <2>2, <2>5, <3>1, <3>2 DEF DueAt
  <2> QED
    BY <1>0, <2>3, <2>4, <2>5 DEF StateOK
<1>6. CASE AddColumn(t)
  <2>1. /\ goal[t] \in Versions /\ UpTo(kind, goal[t] - 1) \subseteq schema
        /\ Script(goal[t]) \subseteq schema
        /\ goal' = goal /\ at'[t] = "set"
    BY <1>0, <1>1, <1>6 DEF AddColumn, DueAt
  <2>2. UpTo(kind, goal[t]) = UpTo(kind, goal[t] - 1) \cup Parts(kind, goal[t])
    BY <2>1, OneMore
  <2>3. Column(goal[t]) \in schema'
    BY <1>6 DEF AddColumn
  <2>4. Parts(kind, goal[t]) \subseteq schema'
    BY <1>0, <2>1, <2>3 DEF Parts
  <2> QED
    BY <1>0, <2>1, <2>2, <2>4 DEF DueAt
<1>7. CASE EnsureVersion(t)
  <2>1. at[t] = "ensure" /\ at'[t] \in {"seed", "set"} /\ goal' = goal
    BY <1>1, <1>7 DEF EnsureVersion
  <2> QED
    BY <1>0, <2>1 DEF DueAt
<1>8. CASE SeedVersion(t)
  <2>1. at[t] = "seed" /\ at'[t] = "set" /\ goal' = goal
    BY <1>1, <1>8 DEF SeedVersion
  <2> QED
    BY <1>0, <2>1 DEF DueAt
<1>9. CASE SetVersion(t)
  <2>1. at[t] = "set" /\ at'[t] \in {"commit", "idle"} /\ goal' = goal
    BY <1>1, <1>9 DEF SetVersion
  <2> QED
    BY <1>0, <2>1 DEF DueAt
<1>10. CASE CommitVersion(t)
  <2>1. /\ at[t] = "commit" /\ goal'[t] = goal[t] + 1
        /\ at'[t] = IF goal[t] < Latest THEN "script" ELSE "ready"
    BY <1>0, <1>1, <1>10 DEF CommitVersion, StateOK
  <2>2. goal[t] \in Versions /\ UpTo(kind, goal[t]) \subseteq schema
    BY <1>0, <2>1 DEF DueAt
  <2>3. CASE goal[t] < Latest
    BY <1>0, <2>1, <2>2, <2>3 DEF DueAt
  <2>4. CASE goal[t] = Latest
    BY <1>0, <2>1, <2>2, <2>4 DEF DueAt
  <2> QED
    BY <2>2, <2>3, <2>4
<1>11. CASE StartWrite(t) \/ Write(t) \/ Commit(t) \/ WriteFails(t)
  <2>1. at[t] \in Using /\ at'[t] \in Using
    BY <1>1, <1>11 DEF StartWrite, Write, Commit, WriteFails
  <2> QED
    BY <1>0, <2>1 DEF DueAt
<1> QED
  BY StepCases, <1>2, <1>3, <1>4, <1>5, <1>6, <1>7, <1>8, <1>9, <1>10, <1>11

-------------------------------------------------------------------------------
(* Who holds the lock keeps it, and with it what it has pending.           *)

LEMMA LockKept ==
  ASSUME ConnInv, NEW s \in Threads, Holds(s),
         NEW t \in Threads \ {s}, StepOf(t)
  PROVE  Holds(s)' /\ pending' = pending
<1>1. writer = s /\ ~leaked /\ writer # Nobody
  BY DEF Holds
<1>2. ~Holds(t) /\ ~MayWrite(t)
  BY <1>1 DEF Holds, MayWrite
<1>3. at[t] \notin {"commit", "written", "failed"}
  BY <1>2 DEF ConnInv, HoldsAt
<1>4. Rollback(t) => UNCHANGED <<pending, writer>>
  BY <1>2 DEF Rollback
<1>5. CASE Open(t) \/ ReadVersion(t) \/ RunStatement(t) \/ EndScript(t)
           \/ AddColumn(t) \/ EnsureVersion(t) \/ StartWrite(t)
  BY <1>1, <1>5 DEF Open, ReadVersion, RunStatement, EndScript, AddColumn,
                    EnsureVersion, StartWrite, lockVars, Holds
<1>6. CASE SeedVersion(t) \/ SetVersion(t) \/ Write(t)
  BY <1>1, <1>2, <1>6 DEF SeedVersion, SetVersion, Write
<1>7. CASE CommitVersion(t) \/ Commit(t) \/ WriteFails(t) \/ Drop(t)
  BY <1>3, <1>7 DEF CommitVersion, Commit, WriteFails, Drop
<1>8. CASE InitFails(t)
  BY <1>1, <1>4, <1>8 DEF InitFails, Holds
<1>9. CASE Close(t)
  <2>1. CASE leaked' = (leaked \/ Holds(t)) /\ UNCHANGED <<pending, writer>>
    <3>1. ~leaked'
      BY <1>1, <1>2, <2>1
    <3> QED
      BY <1>1, <2>1, <3>1 DEF Holds
  <2>2. CASE Rollback(t) /\ UNCHANGED leaked
    BY <1>1, <1>4, <2>2 DEF Holds
  <2> QED
    BY <1>9, <2>1, <2>2 DEF Close
<1> QED
  BY StepCases, <1>5, <1>6, <1>7, <1>8, <1>9

LEMMA HoldsNext ==
  ASSUME ConnInv, NEW t \in Threads, StepOf(t)
  PROVE  HoldsAt(t)'
<1>0. StateOK /\ HoldsAt(t)
  BY DEF ConnInv
<1>1. \A step : Goto(t, step) => at'[t] = step
  BY <1>0 DEF Goto, StateOK
<1>2. CASE Open(t) \/ ReadVersion(t) \/ EndScript(t) \/ EnsureVersion(t)
           \/ InitFails(t) \/ StartWrite(t) \/ Close(t) \/ Drop(t)
  <2>1. at'[t] \in {"read", "script", "ready", "ensure", "alter", "set", "seed",
                   "idle", "write"}
    BY <1>1, <1>2 DEF Open, ReadVersion, EndScript, EnsureVersion, InitFails,
                      StartWrite, Close, Drop
  <2> QED
    BY <2>1 DEF HoldsAt
<1>3. CASE RunStatement(t) \/ AddColumn(t) \/ SeedVersion(t)
           \/ CommitVersion(t) \/ Commit(t)
  <2>1. at'[t] \in {"script", "set", "ready"}
    BY <1>1, <1>3
    DEF RunStatement, AddColumn, SeedVersion, CommitVersion, Commit
  <2> QED
    BY <2>1 DEF HoldsAt
<1>4. CASE SetVersion(t)
  <2>1. goal' = goal /\ leaked' = leaked /\ MayWrite(t)
    BY <1>4 DEF SetVersion
  <2>2. ~leaked
    BY <2>1 DEF MayWrite, Holds, ConnInv
  <2>3. \/ writer' = t /\ pending' = {goal[t]}
        \/ at'[t] = "idle"
    BY <1>1, <1>4 DEF SetVersion
  <2> QED
    BY <2>1, <2>2, <2>3 DEF HoldsAt, Holds
<1>5. CASE Write(t)
  <2>1. ~leaked' /\ writer' = t /\ at'[t] = "written"
    BY <1>1, <1>5 DEF Write, ConnInv
  <2> QED
    BY <2>1 DEF HoldsAt, Holds
<1>6. CASE WriteFails(t)
  <2>1. Holds(t) /\ at'[t] = "failed"
    BY <1>0, <1>1, <1>6 DEF WriteFails, HoldsAt
  <2> QED
    BY <1>6, <2>1 DEF WriteFails, HoldsAt, Holds, lockVars
<1> QED
  BY StepCases, <1>2, <1>3, <1>4, <1>5, <1>6

\* A connection that is in a pool with a transaction keeps the lock.
LEMMA LeakNext ==
  ASSUME ConnInv, NEW t \in Threads, StepOf(t), leaked'
  PROVE  writer' # Nobody
<1>1. leaked => writer # Nobody
  BY DEF ConnInv
<1>2. leaked => ~Holds(t) /\ ~MayWrite(t)
  BY <1>1 DEF Holds, MayWrite
<1>3. HoldsAt(t)
  BY DEF ConnInv
<1>4. leaked /\ Rollback(t) => writer' = writer
  BY <1>2 DEF Rollback
<1>5. CASE Close(t)
  <2>1. CASE leaked
    BY <1>1, <1>4, <1>5, <2>1 DEF Close
  <2>2. CASE ~leaked
    <3>1. Holds(t) /\ writer' = writer
      BY <1>5, <2>2 DEF Close
    <3> QED
      BY <3>1 DEF Holds
  <2> QED
    BY <2>1, <2>2
<1>6. CASE ~Close(t)
  <2>1. leaked' = leaked
    BY <1>6, StepCases
    DEF Open, ReadVersion, RunStatement, EndScript, AddColumn, EnsureVersion,
        SeedVersion, SetVersion, CommitVersion, InitFails, StartWrite, Write,
        Commit, WriteFails, Drop, lockVars
  <2>2. leaked
    BY <2>1
  <2>3. writer' = writer
    BY <1>1, <1>2, <1>3, <1>4, <1>6, <2>2, StepCases
    DEF Open, ReadVersion, RunStatement, EndScript, AddColumn, EnsureVersion,
        SeedVersion, SetVersion, CommitVersion, InitFails, StartWrite, Write,
        Commit, WriteFails, Drop, lockVars, HoldsAt
  <2> QED
    BY <1>1, <2>2, <2>3
<1> QED
  BY <1>5, <1>6

-------------------------------------------------------------------------------
(* The rows of the version.                                                *)

\* Only the commit of a migration changes the version, and what it commits is
\* the version of that migration.
LEMMA VersionsChange ==
  ASSUME ConnInv, NEW t \in Threads, StepOf(t)
  PROVE  \/ versions' = versions
         \/ at[t] = "commit" /\ versions' = {goal[t]}
<1>1. CASE CommitVersion(t)
  BY <1>1 DEF CommitVersion, ConnInv, HoldsAt
<1>2. CASE ~CommitVersion(t)
  BY <1>2, StepCases
  DEF Open, ReadVersion, RunStatement, EndScript, AddColumn, EnsureVersion,
      SeedVersion, SetVersion, InitFails, StartWrite, Write, Commit, WriteFails,
      Close, Drop, dbVars
<1> QED
  BY <1>1, <1>2

\* What an action leaves pending is nothing, what was pending or committed
\* before, the row it inserts or the version of its migration.
LEMMA PendingChanges ==
  ASSUME ConnInv, NEW t \in Threads, StepOf(t)
  PROVE  \/ pending' \in {{}, pending, versions}
         \/ at[t] = "seed" /\ pending' = versions \cup {0}
         \/ at[t] = "set" /\ pending' = {goal[t]}
<1>1. Rollback(t) => pending' \in {{}, pending}
  BY DEF Rollback
<1> QED
  BY <1>1, StepCases
  DEF Open, ReadVersion, RunStatement, EndScript, AddColumn, EnsureVersion,
      SeedVersion, SetVersion, CommitVersion, InitFails, StartWrite, Write,
      Commit, WriteFails, Close, Drop, lockVars

LEMMA RowsNext ==
  ASSUME ConnInv, NEW t \in Threads, StepOf(t)
  PROVE  AtMostOne(versions)' /\ AtMostOne(pending)'
<1>1. AtMostOne(versions) /\ AtMostOne(pending)
  BY DEF ConnInv
<1>2. at[t] = "seed" => versions = {}
  BY DEF ConnInv, First
<1> QED
  BY <1>1, <1>2, VersionsChange, PendingChanges DEF AtMostOne

LEMMA HonestNext ==
  ASSUME ConnInv, NEW t \in Threads, StepOf(t)
  PROVE  VersionHonest'
<1>0. kind' = kind /\ schema \subseteq schema'
  BY SchemaGrows DEF Next, StepOf
<1>1. at[t] \in {"set", "commit"} => UpTo(kind, goal[t]) \subseteq schema
  BY DEF ConnInv, DueAt
<1>2. UpTo(kind, 0) \subseteq schema
  BY NothingYet
<1>3. \A v \in versions \cup pending : UpTo(kind, v) \subseteq schema
  BY DEF ConnInv, VersionHonest
<1>4. \A v \in versions' : UpTo(kind, v) \subseteq schema
  BY <1>1, <1>3, VersionsChange
<1>5. \A v \in pending' : UpTo(kind, v) \subseteq schema
  BY <1>1, <1>2, <1>3, PendingChanges
<1> QED
  BY <1>0, <1>4, <1>5 DEF VersionHonest

\* A thread that is idle begins with Open, and the web thread is the first.
LEMMA FirstNext ==
  ASSUME ConnInv, NEW t \in Threads, StepOf(t)
  PROVE  First'
<1>0. /\ StateOK /\ First /\ Alone(t)
      /\ kind' = kind
  BY StepIsAlone, SchemaGrows DEF ConnInv, Next, StepOf
<1>1. \A step : Goto(t, step) => at'[t] = step
  BY <1>0 DEF Goto, StateOK
<1>2. at[t] = "idle" => Open(t)
  BY StepCases
  DEF Open, ReadVersion, RunStatement, EndScript, AddColumn, EnsureVersion,
      SeedVersion, SetVersion, CommitVersion, InitFails, StartWrite, Write,
      Commit, WriteFails, Close, Drop, Opening
<1>3. versions' = {} => versions = {}
  BY VersionsChange
<1>4. ASSUME kind = "user", versions = {}
      PROVE  /\ t = Web
             /\ versions' = {} =>
                  \A s \in Threads : at'[s] # "idle" => s = Web
  <2>1. t = Web
    BY <1>0, <1>2, <1>4 DEF First, Open
  <2> QED
    BY <1>0, <1>4, <2>1 DEF First, Alone
<1>5. ASSUME NEW s \in Threads, at'[s] = "seed"
      PROVE  versions' = {}
  <2>1. CASE s # t
    <3>1. at[s] = "seed"
      BY <1>0, <1>5, <2>1 DEF Alone
    <3>2. versions = {} /\ kind = "user"
      BY <3>1 DEF ConnInv, First, DueAt
    <3>3. s = Web /\ t = Web
      BY <1>4, <3>1, <3>2 DEF ConnInv, First
    <3> QED
      BY <2>1, <3>3
  <2>2. CASE s = t
    <3>1. EnsureVersion(t)
      <4>1. CASE RunStatement(t)
        BY <1>5, <2>2, <4>1 DEF RunStatement
      <4>2. CASE AddColumn(t) \/ SetVersion(t)
        <5>1. at'[t] \in {"set", "commit", "idle"}
          BY <1>1, <4>2 DEF AddColumn, SetVersion
        <5> QED
          BY <1>5, <2>2, <5>1
      <4>3. CASE Open(t) \/ ReadVersion(t) \/ EndScript(t) \/ SeedVersion(t)
                 \/ CommitVersion(t) \/ InitFails(t) \/ StartWrite(t)
                 \/ Write(t) \/ Commit(t) \/ WriteFails(t) \/ Close(t)
                 \/ Drop(t)
        <5>1. at'[t] # "seed"
          BY <1>1, <4>3
          DEF Open, ReadVersion, EndScript, SeedVersion, CommitVersion,
              InitFails, StartWrite, Write, Commit, WriteFails, Close, Drop
        <5> QED
          BY <1>5, <2>2, <5>1
      <4> QED
        BY StepCases, <4>1, <4>2, <4>3
    <3>2. at'[t] = IF versions = {} THEN "seed" ELSE "set"
      BY <1>1, <3>1 DEF EnsureVersion
    <3> QED
      BY <1>5, <2>2, <3>1, <3>2 DEF EnsureVersion, dbVars
  <2> QED
    BY <2>1, <2>2
<1> QED
  BY <1>0, <1>3, <1>4, <1>5 DEF First

-------------------------------------------------------------------------------
(* The invariant, and what it says.                                        *)

LEMMA InvNext == ConnInv /\ [Next]_vars => ConnInv'
<1> SUFFICES ASSUME ConnInv, [Next]_vars PROVE ConnInv'
  OBVIOUS
<1>0. kind' = kind /\ schema \subseteq schema'
  BY SchemaGrows
<1>1. CASE UNCHANGED vars
  BY <1>1
  DEF vars, dbVars, lockVars, ConnInv, StateOK, VersionHonest, AtMostOne, First,
      DueAt, HoldsAt, Holds
<1>2. CASE Exit
  <2>1. StateOK'
    BY <1>2, StateNext DEF Next
  <2>2. /\ \A s \in Threads : at'[s] = "idle"
        /\ versions' = versions /\ pending' = {} /\ ~leaked'
    BY <1>2 DEF Exit, dbVars
  <2>3. VersionHonest' /\ AtMostOne(versions)' /\ AtMostOne(pending)'
    BY <1>0, <2>2 DEF ConnInv, VersionHonest, AtMostOne
  <2>4. First' /\ \A s \in Threads : DueAt(s)' /\ HoldsAt(s)'
    BY <2>2 DEF First, DueAt, HoldsAt, Opening, Using
  <2> QED
    BY <2>1, <2>2, <2>3, <2>4 DEF ConnInv
<1>3. ASSUME NEW t \in Threads, StepOf(t)
      PROVE  ConnInv'
  <2>0. StateOK' /\ Alone(t)
    BY <1>3, StateNext, StepIsAlone DEF ConnInv, Next, StepOf
  <2>1. \A s \in Threads : DueAt(s)'
    <3>1. ASSUME NEW s \in Threads \ {t}
          PROVE  DueAt(s)'
      <4>1. DueAt(s)
        BY DEF ConnInv
      <4> QED
        BY <1>0, <2>0, <4>1, DueKept DEF Alone
    <3> QED
      BY <1>3, <3>1, DueNext
  <2>2. \A s \in Threads : HoldsAt(s)'
    <3>1. ASSUME NEW s \in Threads \ {t}
          PROVE  HoldsAt(s)'
      <4>1. HoldsAt(s) /\ at'[s] = at[s] /\ goal'[s] = goal[s]
        BY <2>0 DEF ConnInv, Alone
      <4>2. Holds(s) => Holds(s)' /\ pending' = pending
        BY <1>3, LockKept
      <4> QED
        BY <4>1, <4>2 DEF HoldsAt
    <3> QED
      BY <1>3, <3>1, HoldsNext
  <2> QED
    BY <1>3, <2>0, <2>1, <2>2, RowsNext, HonestNext, FirstNext, LeakNext
    DEF ConnInv
<1> QED
  BY <1>1, <1>2, <1>3, NextCases DEF vars

LEMMA Invariant == Spec => []ConnInv
  BY InvInit, InvNext, PTL DEF Spec

LeakedOK == leaked \in BOOLEAN

\* Every variable keeps to its type, whoever migrates beside whom: the pool its
\* cap (release_connection), the versions their range.
THEOREM TypeCorrect == Spec => []TypeOK
<1>1. Init => LeakedOK
  BY DEF Init, LeakedOK
<1>2. LeakedOK /\ [Next]_vars => LeakedOK'
  BY DEF Next, Initialise, Open, ReadVersion, RunStatement, EndScript,
         AddColumn, EnsureVersion, SeedVersion, SetVersion, CommitVersion,
         InitFails, StartWrite, Write, Commit, WriteFails, Close, Drop, Exit,
         lockVars, vars, LeakedOK
<1>3. ConnInv /\ LeakedOK => TypeOK
  BY DEF ConnInv, StateOK, TypeOK, LeakedOK
<1> QED
  BY <1>1, <1>2, <1>3, Invariant, PTL DEF Spec

\* migrate_shared_db, migrate_user_db: no failure, process end or second opener
\* makes the version claim what the schema does not have.
THEOREM SchemaHonest == Spec => []VersionHonest
<1>1. ConnInv => VersionHonest
  BY DEF ConnInv
<1> QED
  BY <1>1, Invariant, PTL

\* init_shared_db_with_migrations, init_user_db_with_migrations: the connection
\* they return is to a database with the whole schema.
THEOREM UsersServed == Spec => []UsersSeeSchema
<1>1. ConnInv => UsersSeeSchema
  BY DEF ConnInv, StateOK, DueAt, UsersSeeSchema
<1> QED
  BY <1>1, Invariant, PTL

LEMMA FewRows ==
  ASSUME NEW S, AtMostOne(S)
  PROVE  Cardinality(S) <= 1
<1>1. CASE S = {}
  BY <1>1, FS_EmptySet
<1>2. CASE S # {}
  <2>1. PICK a \in S : S = {a}
    BY <1>2 DEF AtMostOne
  <2>2. Cardinality({a}) = 1
    BY FS_Singleton
  <2> QED
    BY <2>1, <2>2
<1> QED
  BY <1>1, <1>2

\* _ensure_user_version_table: two openings of a user's new database do not
\* insert a row each.
THEOREM VersionUnique == Spec => []OneVersion
<1>1. ConnInv => OneVersion
  BY FewRows DEF ConnInv, OneVersion
<1> QED
  BY <1>1, Invariant, PTL

\* migrate_shared_db, migrate_user_db: whatever an earlier opening left half
\* done, the next one meets no error of its own making.
THEOREM RetriesSafe == Spec => RetrySafe
<1> DEFINE Caused == \A t \in Threads :
                       at[t] \in Opening /\ at'[t] = "idle" =>
                         faults' > faults \/ exits' > exits
<1>1. ConnInv /\ Next => Caused
  <2> SUFFICES ASSUME ConnInv, Next, NEW s \in Threads,
                      at[s] \in Opening, at'[s] = "idle"
               PROVE  faults' > faults \/ exits' > exits
    OBVIOUS
  <2>0. StateOK
    BY DEF ConnInv
  <2>1. CASE Exit
    BY <2>0, <2>1 DEF Exit, StateOK
  <2>2. ASSUME NEW t \in Threads, StepOf(t)
        PROVE  faults' > faults
    <3>1. s = t
      BY <2>0, <2>2, StepIsAlone DEF Alone, Opening
    <3>2. \A step : Goto(t, step) => at'[t] = step
      BY <2>0 DEF Goto, StateOK
    <3>3. CASE InitFails(t)
      BY <2>0, <3>3 DEF InitFails, StateOK
    <3>4. CASE SetVersion(t)
      <4>1. Cardinality(IF Holds(t) THEN pending ELSE versions) <= 1
        BY FewRows DEF ConnInv
      <4>2. ~(Cardinality(IF Holds(t) THEN pending ELSE versions) > 1)
        <5>1. Cardinality(IF Holds(t) THEN pending ELSE versions) \in Nat
          <6>1. IsFiniteSet(0 .. Latest)
            BY FS_Interval
          <6> QED
            BY <2>0, <6>1, FS_Subset, FS_CardinalityType DEF StateOK
        <5> QED
          BY <4>1, <5>1
      <4>3. Goto(t, "commit")
        BY <3>4, <4>2 DEF SetVersion
      <4> QED
        BY <3>1, <3>2, <4>3
    <3>5. CASE RunStatement(t)
      BY <3>1, <3>5 DEF RunStatement
    <3>6. CASE Open(t) \/ StartWrite(t) \/ Write(t) \/ Commit(t)
               \/ WriteFails(t) \/ Close(t) \/ Drop(t)
      BY <3>1, <3>6 DEF Open, StartWrite, Write, Commit, WriteFails, Close,
                        Drop, Opening
    <3>7. CASE ReadVersion(t) \/ EndScript(t) \/ AddColumn(t)
               \/ EnsureVersion(t) \/ SeedVersion(t) \/ CommitVersion(t)
      <4>1. at'[t] # "idle"
        BY <3>2, <3>7 DEF ReadVersion, EndScript, AddColumn, EnsureVersion,
                          SeedVersion, CommitVersion
      <4> QED
        BY <3>1, <4>1
    <3> QED
      BY <2>2, StepCases, <3>3, <3>4, <3>5, <3>6, <3>7
  <2> QED
    BY <2>1, <2>2, NextCases
<1>2. ConnInv /\ [Next]_vars => [Caused]_vars
  BY <1>1
<1> QED
  BY <1>2, Invariant, PTL DEF Spec, RetrySafe
===============================================================================

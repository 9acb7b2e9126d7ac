--------------------------- MODULE ServerTheorems ---------------------------
(***************************************************************************)
(* For any number of processes, requests, migrations and crashes: the      *)
(* version in the database tells which migrations have taken effect, no    *)
(* process serves without all of them, and all of them together implement  *)
(* SchemaUpgrade.                                                          *)
(***************************************************************************)
EXTENDS Server, TLAPS

USE ServerAssumption
USE DEF Goto, RGoto, Fail, Release, schemaVars, requestVars, Migrating

\* Past the migrations and not failed since.
PastMigrations == {"pingingDB", "pingingRedis", "listening",
                   "serving", "stopping", "closing", "exited"}

\* Who is inside RunMigrations has the advisory lock.
MigratorOwnsLock == \A p \in Processes : pc[p] \in Migrating => mlock = p

\* Where a migrating process is in the loop of its migrations, and so what the
\* version and its flag mean.
LoopOK ==
  /\ ~ dirty => Applied(version)
  /\ \A p \in Processes :
       /\ pc[p] = "migrating" => ~ dirty /\ next[p] = version + 1
       /\ pc[p] \in {"applying", "marking"} => dirty /\ next[p] = version /\ Pending(p)
       /\ pc[p] = "applying" => Applied(version - 1)
       /\ pc[p] = "marking" => Applied(version)

\* A schema once complete and clean stays so.
CompleteOK == \A p \in Processes : pc[p] \in PastMigrations => Applied(Last) /\ ~ dirty

Inv == TypeOK /\ MigratorOwnsLock /\ VersionTellsTheTruth /\ LoopOK /\ CompleteOK

\* The initial state satisfies the invariant.
LEMMA InitInv ==
  ASSUME Init
  PROVE  Inv
<1>1. Applied(0)
  BY DEF Init, Applied
<1>2. applied \in Seq(1 .. Last)
  BY DEF Init
<1>3. TypeOK
  <2>. USE DEF Init, PC, Starting
  <2>1. pc \in [Processes -> PC]
    OBVIOUS
  <2>2. next \in [Processes -> 0 .. Last + 1]
    OBVIOUS
  <2>3. grace \in [Processes -> {"none", "running", "over"}]
    OBVIOUS
  <2>4. version \in 0 .. Last /\ mlock \in Processes \cup {Nobody}
    OBVIOUS
  <2>7. dirty \in BOOLEAN
    BY Zenon
  <2>5. rpc \in [Requests -> {"new", "handling", "querying", "answered"}]
    OBVIOUS
  <2>6. at \in [Requests -> Processes \cup {Nobody}] /\ crashes \in 0 .. MaxCrashes
    OBVIOUS
  <2>. QED  BY <1>2, <2>1, <2>2, <2>3, <2>4, <2>5, <2>6, <2>7 DEF TypeOK
<1>. QED  BY <1>1, <1>3 DEF Init, Inv, MigratorOwnsLock, VersionTellsTheTruth, LoopOK,
       CompleteOK, PastMigrations

\* Two numbers of migrations cannot both be the number applied, and the next
\* one makes one more.
LEMMA AppliedFacts ==
  ASSUME TypeOK, NEW n \in Int
  PROVE  /\ \A m \in Int : Applied(n) /\ Applied(m) => m = n
         /\ \A m \in Int : n = m + 1 /\ Applied(m) =>
              LET a == Append(applied, n) IN Len(a) = n /\ \A i \in 1 .. n : a[i] = i
<1>1. ASSUME NEW m \in Int, n = m + 1, Applied(m)
      PROVE  LET a == Append(applied, n) IN Len(a) = n /\ \A i \in 1 .. n : a[i] = i
  BY <1>1 DEF Applied, TypeOK
<1>. QED  BY <1>1 DEF Applied, TypeOK

\* Starting and the calls that change neither schema nor requests.
LEMMA StartKeeps ==
  ASSUME Inv, NEW p \in Processes,
         \/ \E e \in Environments : Boot(p, e)
         \/ OpenDriver(p) \/ TakeMigrationLock(p) \/ NoMigrationLock(p) \/ ReadVersion(p)
         \/ MigrationFails(p) \/ MigrationsDone(p) \/ Connect(p)
  PROVE  Inv'
<1>. USE DEF Inv
<1>1. applied' = applied /\ version' = version /\ dirty' = dirty
      /\ rpc' = rpc /\ at' = at
  BY DEF Boot, OpenDriver, TakeMigrationLock, NoMigrationLock, ReadVersion, MigrationFails,
     MigrationsDone, Connect
<1>2. \A n : Applied(n)' = Applied(n)
  BY <1>1 DEF Applied
<1>3. TypeOK'
  <2>. USE DEF TypeOK, PC, Starting
  <2>1. ASSUME NEW e \in Environments, Boot(p, e)
        PROVE  TypeOK'
    <3>1. CASE Loads(e)
      BY <2>1, <3>1 DEF Boot
    <3>2. CASE ~ Loads(e)
      BY <2>1, <3>2 DEF Boot
    <3>. QED  BY <3>1, <3>2
  <2>8. CASE OpenDriver(p)
    BY <2>8 DEF OpenDriver
  <2>2. CASE TakeMigrationLock(p)
    BY <2>2 DEF TakeMigrationLock
  <2>6. CASE NoMigrationLock(p)
    BY <2>6 DEF NoMigrationLock
  <2>7. CASE MigrationFails(p)
    BY <2>7 DEF MigrationFails
  <2>3. CASE ReadVersion(p)
    <3>1. version + 1 \in 0 .. Last + 1
      OBVIOUS
    <3>. QED  BY <2>3, <3>1 DEF ReadVersion
  <2>4. CASE MigrationsDone(p)
    BY <2>4 DEF MigrationsDone
  <2>5. CASE Connect(p)
    BY <2>5 DEF Connect, NewPool, NewClient, Listen, ConnectFails
  <2>. QED  BY <2>1, <2>2, <2>3, <2>4, <2>5, <2>6, <2>7, <2>8
<1>4. MigratorOwnsLock'
  BY DEF Boot, OpenDriver, TakeMigrationLock, NoMigrationLock, ReadVersion, MigrationFails,
     MigrationsDone, Connect, NewPool, NewClient, Listen, ConnectFails, TypeOK, MigratorOwnsLock
<1>5. VersionTellsTheTruth'
  BY <1>1, <1>2 DEF VersionTellsTheTruth
<1>6. LoopOK'
  BY <1>1, <1>2 DEF Boot, OpenDriver, TakeMigrationLock, NoMigrationLock, ReadVersion, MigrationFails,
     MigrationsDone, Connect, NewPool, NewClient, Listen, ConnectFails, TypeOK, LoopOK, Pending
<1>7. CompleteOK'
  <2>1. MigrationsDone(p) => Applied(Last) /\ ~ dirty
    BY DEF MigrationsDone, LoopOK, Pending, TypeOK
  <2>. QED  BY <1>1, <1>2, <2>1 DEF Boot, OpenDriver, TakeMigrationLock, NoMigrationLock, ReadVersion, MigrationFails,
     MigrationsDone, Connect, NewPool, NewClient, Listen, ConnectFails, TypeOK, CompleteOK, PastMigrations
<1>. QED  BY <1>3, <1>4, <1>5, <1>6, <1>7

\* The loop of the migrations: only the owner of the lock is in it, so nobody
\* else's place depends on the version.
LEMMA LoopKeeps ==
  ASSUME Inv, NEW p \in Processes, MarkDirty(p) \/ ApplyMigration(p) \/ MarkClean(p)
  PROVE  Inv'
<1>. USE DEF Inv
<1>1. \A q \in Processes : pc[q] \in Migrating => q = p
  BY DEF MarkDirty, ApplyMigration, MarkClean, MigratorOwnsLock, TypeOK
<1>3. MigratorOwnsLock'
  BY <1>1 DEF MarkDirty, ApplyMigration, MarkClean, TypeOK, MigratorOwnsLock
<1>4. CASE MarkDirty(p)
  <2>1. applied' = applied /\ Applied(version) /\ version' = version + 1 /\ dirty'
    BY <1>4 DEF MarkDirty, LoopOK
  <2>2. version' - 1 = version
    BY <2>1 DEF TypeOK
  <2>3. \A n : Applied(n)' = Applied(n)
    BY <2>1 DEF Applied
  <2>4. TypeOK'
    BY <1>4 DEF MarkDirty, TypeOK, PC, Starting, Pending
  <2>5. VersionTellsTheTruth'
    BY <2>1, <2>2, <2>3 DEF VersionTellsTheTruth
  <2>6. LoopOK'
    BY <1>1, <1>4, <2>1, <2>2, <2>3 DEF MarkDirty, TypeOK, LoopOK, Pending
  <2>7. CompleteOK'
    <3>1. version < Last /\ ~ Applied(Last)
      BY <1>4, <2>1, AppliedFacts DEF MarkDirty, LoopOK, Pending, TypeOK
    <3>2. \A q \in Processes : pc[q] \notin PastMigrations
      BY <3>1 DEF CompleteOK
    <3>. QED  BY <1>4, <3>2 DEF MarkDirty, TypeOK, CompleteOK, PastMigrations
  <2>. QED  BY <1>3, <2>4, <2>5, <2>6, <2>7
<1>5. CASE ApplyMigration(p)
  <2>1. /\ Applied(version - 1) /\ next[p] = version /\ version \in 1 .. Last /\ dirty
        /\ applied' = Append(applied, version) /\ version' = version /\ dirty' = dirty
        /\ next' = next
    BY <1>5 DEF ApplyMigration, LoopOK, Pending, TypeOK, Applied
  <2>2. Applied(version)'
    BY <2>1, AppliedFacts DEF Applied, TypeOK
  <2>3. TypeOK'
    <3>1. applied' \in Seq(1 .. Last)
      BY <2>1 DEF TypeOK
    <3>2. dirty' \in BOOLEAN
      BY <2>1
    <3>3. pc' \in [Processes -> PC]
      BY <1>5 DEF ApplyMigration, TypeOK, PC, Starting
    <3>4. /\ grace' = grace /\ mlock' = mlock /\ rpc' = rpc /\ at' = at
          /\ crashes' = crashes
      BY <1>5 DEF ApplyMigration
    <3>5. next' \in [Processes -> 0 .. Last + 1] /\ version' \in 0 .. Last
      BY <2>1 DEF TypeOK
    <3>. QED  BY <3>1, <3>2, <3>3, <3>4, <3>5, Zenon DEF TypeOK
  <2>4. VersionTellsTheTruth'
    BY <2>2 DEF VersionTellsTheTruth
  <2>5. LoopOK'
    BY <1>1, <1>5, <2>1, <2>2 DEF ApplyMigration, TypeOK, LoopOK, Pending
  <2>6. \A q \in Processes : pc[q] \notin PastMigrations
    BY <2>1, AppliedFacts DEF CompleteOK, TypeOK
  <2>7. CompleteOK'
    BY <1>5, <2>6 DEF ApplyMigration, TypeOK, CompleteOK, PastMigrations
  <2>. QED  BY <1>3, <2>3, <2>4, <2>5, <2>7
<1>6. CASE MarkClean(p)
  <2>1. /\ Applied(version) /\ next[p] = version /\ Pending(p) /\ version' = version /\ applied' = applied
        /\ dirty' = FALSE /\ next' = [next EXCEPT ![p] = version + 1]
    BY <1>6 DEF MarkClean, LoopOK
  <2>2. \A n : Applied(n)' = Applied(n)
    BY <2>1 DEF Applied
  <2>3. TypeOK'
    <3>1. version + 1 \in 0 .. Last + 1
      BY DEF TypeOK
    <3>2. dirty' \in BOOLEAN
      BY <2>1
    <3>3. pc' \in [Processes -> PC]
      BY <1>6 DEF MarkClean, TypeOK, PC, Starting
    <3>4. /\ grace' = grace /\ mlock' = mlock /\ rpc' = rpc /\ at' = at
          /\ crashes' = crashes
      BY <1>6 DEF MarkClean
    <3>5. next' \in [Processes -> 0 .. Last + 1]
      BY <2>1, <3>1 DEF TypeOK
    <3>. QED  BY <2>1, <3>2, <3>3, <3>4, <3>5, Zenon DEF TypeOK
  <2>4. VersionTellsTheTruth'
    BY <2>1, <2>2 DEF VersionTellsTheTruth
  <2>5. LoopOK'
    BY <1>1, <1>6, <2>1, <2>2 DEF MarkClean, TypeOK, LoopOK
  <2>6. CompleteOK'
    BY <1>6, <2>2 DEF MarkClean, TypeOK, CompleteOK, PastMigrations
  <2>. QED  BY <1>3, <2>3, <2>4, <2>5, <2>6
<1>. QED  BY <1>4, <1>5, <1>6

\* Requests, and the end of a process.
LEMMA ServeKeeps ==
  ASSUME Inv,
         \/ \E p \in Processes :
              \/ \E r \in Requests : Accept(p, r)
              \/ Stop(p) \/ GraceEnds(p) \/ CloseRedis(p) \/ Exit(p) \/ Crash(p)
         \/ \E r \in Requests : BeginQuery(r) \/ EndQuery(r) \/ Answer(r)
  PROVE  Inv'
<1>. USE DEF Inv
<1>. USE DEF Accept, Stop, GraceEnds, CloseRedis, Exit, Crash, BeginQuery, EndQuery, Answer
<1>1. applied' = applied /\ version' = version /\ dirty' = dirty /\ next' = next
  OBVIOUS
<1>2. \A n : Applied(n)' = Applied(n)
  BY <1>1 DEF Applied
<1>3. TypeOK'
  <2>. USE DEF TypeOK
  <2>1. pc' \in [Processes -> PC]
    <3>1. {"stopping", "closing", "exited", "crashed"} \subseteq PC
      BY DEF PC
    <3>. QED  BY <3>1
  <2>2. grace' \in [Processes -> {"none", "running", "over"}]
    OBVIOUS
  <2>3. rpc' \in [Requests -> {"new", "handling", "querying", "answered"}]
    OBVIOUS
  <2>4. at' \in [Requests -> Processes \cup {Nobody}]
    OBVIOUS
  <2>5. mlock' \in Processes \cup {Nobody} /\ crashes' \in 0 .. MaxCrashes
    OBVIOUS
  <2>. QED  BY <1>1, <2>1, <2>2, <2>3, <2>4, <2>5
<1>4. MigratorOwnsLock'
  BY DEF TypeOK, MigratorOwnsLock
<1>5. VersionTellsTheTruth'
  BY <1>1, <1>2 DEF VersionTellsTheTruth
<1>6. LoopOK'
  BY <1>1, <1>2 DEF TypeOK, LoopOK, Pending
<1>7. CompleteOK'
  BY <1>2 DEF TypeOK, CompleteOK, PastMigrations
<1>. QED  BY <1>3, <1>4, <1>5, <1>6, <1>7

\* The invariant holds in every reachable state.
LEMMA SpecInv == Spec => []Inv
<1>1. Inv /\ [Next]_vars => Inv'
  <2>. SUFFICES ASSUME Inv, [Next]_vars
                PROVE  Inv'
    OBVIOUS
  <2>1. CASE Next
    BY <2>1, StartKeeps, LoopKeeps, ServeKeeps DEF Next, StartStep
  <2>2. CASE UNCHANGED vars
    <3>1. \A n : Applied(n)' = Applied(n)
      BY <2>2 DEF vars, Applied
    <3>2. TypeOK'
      BY <2>2 DEF vars, Inv, TypeOK
    <3>3. MigratorOwnsLock' /\ VersionTellsTheTruth' /\ LoopOK' /\ CompleteOK'
      BY <2>2, <3>1 DEF vars, Inv, MigratorOwnsLock, VersionTellsTheTruth, LoopOK,
         CompleteOK, Pending
    <3>. QED  BY <3>2, <3>3 DEF Inv
  <2>. QED  BY <2>1, <2>2
<1>. QED  BY <1>1, InitInv, PTL DEF Spec

-----------------------------------------------------------------------------
\* Types are kept: in particular no version above the newest is ever set.
THEOREM SpecTypeOK == Spec => []TypeOK
<1>1. Inv => TypeOK
  BY DEF Inv
<1>. QED  BY <1>1, SpecInv, PTL

\* Whatever dies or fails, the version tells which migrations have taken
\* effect, each once and in order.
THEOREM SpecVersionTellsTheTruth == Spec => []VersionTellsTheTruth
<1>1. Inv => VersionTellsTheTruth
  BY DEF Inv
<1>. QED  BY <1>1, SpecInv, PTL

\* Nobody serves on half a schema.
THEOREM SpecServesCompleteSchema == Spec => []ServesCompleteSchema
<1>1. Inv => ServesCompleteSchema
  BY DEF Inv, CompleteOK, ServesCompleteSchema, Alive, PastMigrations
<1>. QED  BY <1>1, SpecInv, PTL

-----------------------------------------------------------------------------
(* The processes implement SchemaUpgrade. *)

\* As in the refinement mapping of Upgrade.
OpenNow == {p \in Processes : Alive(p)}

schemaSeen == <<version, dirty, applied, OpenNow>>

\* A start opens nothing before Listen, and Listen finds the schema complete.
LEMMA StartImplements ==
  ASSUME Inv, NEW p \in Processes,
         \/ \E e \in Environments : Boot(p, e)
         \/ OpenDriver(p) \/ TakeMigrationLock(p) \/ NoMigrationLock(p) \/ ReadVersion(p)
         \/ MigrationFails(p) \/ MigrationsDone(p) \/ Connect(p)
  PROVE  Upgrade!Open(p) \/ UNCHANGED schemaSeen
<1>. USE DEF Inv
<1>1. applied' = applied /\ version' = version /\ dirty' = dirty
  BY DEF Boot, OpenDriver, TakeMigrationLock, NoMigrationLock, ReadVersion, MigrationFails,
     MigrationsDone, Connect
<1>2. pc \in [Processes -> PC] /\ \A q \in Processes : q # p => pc'[q] = pc[q]
  BY DEF Boot, OpenDriver, TakeMigrationLock, NoMigrationLock, ReadVersion, MigrationFails,
     MigrationsDone, Connect, NewPool, NewClient, Listen, ConnectFails, TypeOK
<1>3. CASE Connect(p) /\ Listen(p)
  <2>1. Applied(Last) /\ ~ dirty
    BY <1>3 DEF Listen, CompleteOK, PastMigrations
  <2>2. OpenNow' = OpenNow \cup {p}
    BY <1>2, <1>3 DEF Listen, OpenNow, Alive
  <2>. QED  BY <1>1, <2>1, <2>2 DEF Upgrade!Open, OpenNow, Applied
<1>4. CASE ~ (Connect(p) /\ Listen(p))
  <2>1. ~ Alive(p) /\ ~ Alive(p)'
    BY <1>2, <1>4 DEF Alive, Boot, OpenDriver, TakeMigrationLock, NoMigrationLock, ReadVersion, MigrationFails,
       MigrationsDone, Connect, NewPool, NewClient, Listen, ConnectFails
  <2>2. OpenNow' = OpenNow
    BY <1>2, <2>1 DEF OpenNow, Alive
  <2>. QED  BY <1>1, <2>2 DEF schemaSeen
<1>. QED  BY <1>3, <1>4

\* The loop of the one process that has the lock is the abstract upgrade.
LEMMA LoopImplements ==
  ASSUME Inv, NEW p \in Processes, MarkDirty(p) \/ ApplyMigration(p) \/ MarkClean(p)
  PROVE  Upgrade!Announce \/ Upgrade!TakeEffect \/ Upgrade!Confirm
<1>. USE DEF Inv
<1>1. OpenNow' = OpenNow
  BY DEF MarkDirty, ApplyMigration, MarkClean, TypeOK, OpenNow, Alive
<1>2. version \in Nat
  BY DEF TypeOK
<1>3. CASE MarkDirty(p)
  <2>1. ~ dirty /\ version' = version + 1 /\ version < Last /\ dirty' = TRUE /\ applied' = applied
    BY <1>2, <1>3 DEF MarkDirty, LoopOK, Pending, TypeOK
  <2>. QED  BY <1>1, <2>1 DEF Upgrade!Announce, OpenNow
<1>4. CASE ApplyMigration(p)
  <2>1. /\ dirty /\ next[p] = version /\ Applied(version - 1)
        /\ applied' = Append(applied, version) /\ version' = version /\ dirty' = dirty
    BY <1>4 DEF ApplyMigration, LoopOK
  <2>2. Len(applied) + 1 = version
    BY <1>2, <2>1 DEF Applied
  <2>. QED  BY <1>1, <2>1, <2>2 DEF Upgrade!TakeEffect, OpenNow
<1>5. CASE MarkClean(p)
  <2>1. dirty /\ Applied(version) /\ dirty' = FALSE /\ version' = version /\ applied' = applied
    BY <1>5 DEF MarkClean, LoopOK
  <2>. QED  BY <1>1, <2>1 DEF Upgrade!Confirm, OpenNow, Applied
<1>. QED  BY <1>3, <1>4, <1>5

\* A process that serves is open until it exits or dies.
LEMMA ServeImplements ==
  ASSUME Inv,
         \/ \E p \in Processes :
              \/ \E r \in Requests : Accept(p, r)
              \/ Stop(p) \/ GraceEnds(p) \/ CloseRedis(p) \/ Exit(p) \/ Crash(p)
         \/ \E r \in Requests : BeginQuery(r) \/ EndQuery(r) \/ Answer(r)
  PROVE  (\E p \in Processes : Upgrade!Open(p) \/ Upgrade!Shut(p)) \/ UNCHANGED schemaSeen
<1>. USE DEF Inv
<1>1. applied' = applied /\ version' = version /\ dirty' = dirty /\ pc \in [Processes -> PC]
  BY DEF Accept, Stop, GraceEnds, CloseRedis, Exit, Crash, BeginQuery, EndQuery, Answer, TypeOK
<1>2. ASSUME pc' = pc
      PROVE  UNCHANGED schemaSeen
  BY <1>1, <1>2 DEF schemaSeen, OpenNow, Alive
<1>3. ASSUME NEW p \in Processes, Stop(p)
      PROVE  Upgrade!Open(p)
  <2>1. Applied(Last) /\ ~ dirty
    BY <1>3 DEF Stop, CompleteOK, PastMigrations
  <2>2. OpenNow' = OpenNow \cup {p}
    BY <1>1, <1>3 DEF Stop, OpenNow, Alive
  <2>. QED  BY <1>1, <2>1, <2>2 DEF Upgrade!Open, OpenNow, Applied
<1>4. ASSUME NEW p \in Processes, CloseRedis(p)
      PROVE  UNCHANGED schemaSeen
  <2>1. OpenNow' = OpenNow
    BY <1>1, <1>4 DEF CloseRedis, OpenNow, Alive
  <2>. QED  BY <1>1, <2>1 DEF schemaSeen
<1>5. ASSUME NEW p \in Processes, Exit(p) \/ Crash(p)
      PROVE  Upgrade!Shut(p) \/ UNCHANGED schemaSeen
  <2>1. OpenNow' = OpenNow \ {p}
    BY <1>1, <1>5 DEF Exit, Crash, OpenNow, Alive
  <2>2. CASE p \in OpenNow
    BY <1>1, <2>1, <2>2 DEF Upgrade!Shut, OpenNow
  <2>3. CASE p \notin OpenNow
    BY <1>1, <2>1, <2>3 DEF schemaSeen
  <2>. QED  BY <2>2, <2>3
<1>. QED  BY <1>2, <1>3, <1>4, <1>5 DEF Accept, GraceEnds, BeginQuery, EndQuery, Answer

\* Whatever processes start, fail or die, the database sees one upgrade and
\* requests are served after all of it: starts take turns by the lock, and a
\* start that ended half-way leaves the version dirty for every later one.
THEOREM SpecImplementsUpgrade == Spec => ImplementsUpgrade
<1>1. Init => Upgrade!UpgradeInit
  BY DEF Init, Upgrade!UpgradeInit, Alive
<1>2. Inv /\ [Next]_vars => [Upgrade!UpgradeNext]_<<version, dirty, applied, OpenNow>>
  <2>. SUFFICES ASSUME Inv, [Next]_vars
                PROVE  Upgrade!UpgradeNext \/ UNCHANGED schemaSeen
    BY DEF schemaSeen
  <2>1. CASE Next
    <3>1. ASSUME NEW p \in Processes,
                 \/ \E e \in Environments : Boot(p, e)
                 \/ OpenDriver(p) \/ TakeMigrationLock(p) \/ NoMigrationLock(p) \/ ReadVersion(p)
                 \/ MigrationFails(p) \/ MigrationsDone(p) \/ Connect(p)
          PROVE  Upgrade!UpgradeNext \/ UNCHANGED schemaSeen
      BY <3>1, StartImplements DEF Upgrade!UpgradeNext
    <3>2. ASSUME NEW p \in Processes, MarkDirty(p) \/ ApplyMigration(p) \/ MarkClean(p)
          PROVE  Upgrade!UpgradeNext
      BY <3>2, LoopImplements DEF Upgrade!UpgradeNext
    <3>3. ASSUME \/ \E p \in Processes :
                      \/ \E r \in Requests : Accept(p, r)
                      \/ Stop(p) \/ GraceEnds(p) \/ CloseRedis(p) \/ Exit(p) \/ Crash(p)
                 \/ \E r \in Requests : BeginQuery(r) \/ EndQuery(r) \/ Answer(r)
          PROVE  Upgrade!UpgradeNext \/ UNCHANGED schemaSeen
      BY <3>3, ServeImplements DEF Upgrade!UpgradeNext
    <3>. QED  BY <2>1, <3>1, <3>2, <3>3 DEF Next, StartStep
  <2>2. CASE UNCHANGED vars
    BY <2>2 DEF vars, schemaSeen, OpenNow, Alive
  <2>. QED  BY <2>1, <2>2
<1>3. ImplementsUpgrade <=> Upgrade!UpgradeInit /\ [][Upgrade!UpgradeNext]_<<version, dirty, applied, OpenNow>>
  BY DEF ImplementsUpgrade, Upgrade!UpgradeSpec, OpenNow
<1>. QED  BY <1>1, <1>2, <1>3, SpecInv, PTL DEF Spec
=============================================================================

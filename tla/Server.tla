-------------------------------- MODULE Server ------------------------------
(***************************************************************************)
(* The life of API processes over one database: load the configuration,    *)
(* run the migrations, connect, serve, and on SIGTERM stop.  A process     *)
(* starts once; starting the API again is another process.  The migrations *)
(* library and Postgres' advisory lock are modelled as RunMigrations uses  *)
(* them: the version is marked dirty before its migration runs and clean   *)
(* after it, and a dirty version is refused.                               *)
(***************************************************************************)
EXTENDS Integers, Sequences

CONSTANTS
  Processes, Requests,
  Environments,    \* what the environment may say, by the variables Load checks
  Last,            \* newest of the embedded migrations (5)
  MaxCrashes,      \* bound: processes that are killed or whose RunMigrations fails
  Nobody

Settings == [user : {"unset", "text"}, name : {"unset", "text"},
             rate : {"unset", "text", "number"}, fragmentation : {"unset", "text", "number"},
             ttl : {"unset", "text", "number"}]

ASSUME ServerAssumption == /\ Environments \subseteq Settings
                           /\ Last \in Nat \ {0} /\ MaxCrashes \in Nat
                           /\ Nobody \notin Processes

VARIABLES
  pc, next,        \* each process, and the migration it would run next
  grace,           \* the ten seconds of Shutdown: "none", "running", "over"
  version, dirty, mlock,   \* schema_migrations and the advisory lock
  applied,         \* the migrations that have taken effect, in order
  rpc, at,         \* each request, and the process that serves it
  crashes

schemaVars == <<version, dirty, mlock, applied>>
requestVars == <<rpc, at>>
vars == <<pc, next, grace, schemaVars, requestVars, crashes>>

Init == /\ pc = [p \in Processes |-> "down"]
        /\ next = [p \in Processes |-> 0]
        /\ grace = [p \in Processes |-> "none"]
        /\ version = 0 /\ dirty = FALSE /\ mlock = Nobody /\ applied = <<>>
        /\ rpc = [r \in Requests |-> "new"]
        /\ at = [r \in Requests |-> Nobody]
        /\ crashes = 0

\* Inside RunMigrations, with the advisory lock.
Migrating == {"reading", "migrating", "applying", "marking"}

Goto(p, there) == pc' = [pc EXCEPT ![p] = there]
Fail == crashes < MaxCrashes /\ crashes' = crashes + 1
Release(p) == mlock' = IF mlock = p THEN Nobody ELSE mlock

-----------------------------------------------------------------------------
(* main, up to ListenAndServe: log.Fatalf ends the process *)

\* An empty variable is an unset one, and only the numbers have defaults
\* that are usable.
Loads(e) == /\ e.user # "unset" /\ e.name # "unset"
            /\ "text" \notin {e.rate, e.fragmentation, e.ttl}

Boot(p, e) ==
  /\ pc[p] = "down"
  /\ Goto(p, IF Loads(e) THEN "opening" ELSE "failed")
  /\ UNCHANGED <<next, grace, schemaVars, requestVars, crashes>>

\* postgres.WithInstance: the table of versions is created under the advisory
\* lock, which is waited for however long it takes, and given back.
OpenDriver(p) ==
  /\ pc[p] = "opening" /\ mlock = Nobody
  /\ Goto(p, "locking")
  /\ UNCHANGED <<next, grace, schemaVars, requestVars, crashes>>

\* Mutant: no advisory lock.
GoAhead(p) ==
  /\ pc[p] = "locking"
  /\ mlock' = p
  /\ Goto(p, "reading")
  /\ UNCHANGED <<next, grace, version, dirty, applied, requestVars, crashes>>

TakeMigrationLock(p) ==
  /\ pc[p] = "locking" /\ mlock = Nobody
  /\ mlock' = p
  /\ Goto(p, "reading")
  /\ UNCHANGED <<next, grace, version, dirty, applied, requestVars, crashes>>

\* m.Up gives up when it has waited fifteen seconds for the same lock.
NoMigrationLock(p) ==
  /\ pc[p] = "locking"
  /\ Goto(p, "failed")
  /\ UNCHANGED <<next, grace, schemaVars, requestVars, crashes>>

\* Mutants: the dirty flag is not looked at; a dirty version is waited for.
ReadVersionOnly(p) ==
  /\ pc[p] = "reading"
  /\ Goto(p, "migrating") /\ next' = [next EXCEPT ![p] = version + 1]
  /\ UNCHANGED <<grace, schemaVars, requestVars, crashes>>

AwaitCleanVersion(p) ==
  /\ pc[p] = "reading" /\ ~ dirty
  /\ Goto(p, "migrating") /\ next' = [next EXCEPT ![p] = version + 1]
  /\ UNCHANGED <<grace, schemaVars, requestVars, crashes>>

ReadVersion(p) ==
  /\ pc[p] = "reading"
  /\ IF dirty THEN Goto(p, "failed") /\ Release(p) /\ UNCHANGED next
              ELSE Goto(p, "migrating") /\ next' = [next EXCEPT ![p] = version + 1] /\ UNCHANGED mlock
  /\ UNCHANGED <<grace, version, dirty, applied, requestVars, crashes>>

\* Mutant: one migration too many.
PendingOrOneMore(p) == next[p] <= Last + 1

Pending(p) == next[p] <= Last

MarkDirty(p) ==
  /\ pc[p] = "migrating" /\ Pending(p)
  /\ version' = next[p] /\ dirty' = TRUE
  /\ Goto(p, "applying")
  /\ UNCHANGED <<next, grace, mlock, applied, requestVars, crashes>>

\* The statements of one migration take effect together.
ApplyMigration(p) ==
  /\ pc[p] = "applying"
  /\ applied' = Append(applied, next[p])
  /\ Goto(p, "marking")
  /\ UNCHANGED <<next, grace, version, dirty, mlock, requestVars, crashes>>

\* Mutant: main forces the version clean before it gives up.
ForceCleanAndFail(p) ==
  /\ pc[p] \in {"opening"} \cup Migrating /\ Fail
  /\ dirty' = FALSE
  /\ Goto(p, "failed") /\ Release(p)
  /\ UNCHANGED <<next, grace, version, applied, requestVars>>

\* The database cannot be reached, a statement fails or the connection is lost:
\* main gives up at once.
MigrationFails(p) ==
  /\ pc[p] \in {"opening"} \cup Migrating /\ Fail
  /\ Goto(p, "failed") /\ Release(p)
  /\ UNCHANGED <<next, grace, version, dirty, applied, requestVars>>

MarkClean(p) ==
  /\ pc[p] = "marking"
  /\ dirty' = FALSE
  /\ next' = [next EXCEPT ![p] = @ + 1]
  /\ Goto(p, "migrating")
  /\ UNCHANGED <<grace, version, mlock, applied, requestVars, crashes>>

\* Whether migrations ran or there was no change.
MigrationsDone(p) ==
  /\ pc[p] = "migrating" /\ ~ Pending(p)
  /\ Goto(p, "pingingDB") /\ Release(p)
  /\ UNCHANGED <<next, grace, version, dirty, applied, requestVars, crashes>>

NewPool(p) == pc[p] = "pingingDB" /\ Goto(p, "pingingRedis")
NewClient(p) == pc[p] = "pingingRedis" /\ Goto(p, "listening")
Listen(p) == pc[p] = "listening" /\ Goto(p, "serving")
ConnectFails(p) == pc[p] \in {"pingingDB", "pingingRedis", "listening"} /\ Goto(p, "failed")

Connect(p) ==
  /\ NewPool(p) \/ NewClient(p) \/ Listen(p) \/ ConnectFails(p)
  /\ UNCHANGED <<next, grace, schemaVars, requestVars, crashes>>

StartStep(p) ==
  \/ OpenDriver(p) \/ TakeMigrationLock(p) \/ NoMigrationLock(p) \/ ReadVersion(p)
  \/ MarkDirty(p) \/ ApplyMigration(p) \/ MarkClean(p) \/ MigrationsDone(p) \/ Connect(p)

-----------------------------------------------------------------------------
(* Requests, and the end of a process *)

RGoto(r, there) == rpc' = [rpc EXCEPT ![r] = there]
Alive(p) == pc[p] \in {"serving", "stopping", "closing"}

Accept(p, r) ==
  /\ pc[p] = "serving" /\ rpc[r] = "new"
  /\ RGoto(r, "handling") /\ at' = [at EXCEPT ![r] = p]
  /\ UNCHANGED <<pc, next, grace, schemaVars, crashes>>

\* Mutant: a pool that gives connections while it is being closed.
BeginQueryAnyway(r) ==
  /\ rpc[r] = "handling" /\ Alive(at[r])
  /\ RGoto(r, "querying")
  /\ UNCHANGED <<pc, next, grace, schemaVars, at, crashes>>

\* A query has a connection of the pool, which gives none once it is closing.
BeginQuery(r) ==
  /\ rpc[r] = "handling" /\ pc[at[r]] \in {"serving", "stopping"}
  /\ RGoto(r, "querying")
  /\ UNCHANGED <<pc, next, grace, schemaVars, at, crashes>>

EndQuery(r) ==
  /\ rpc[r] = "querying" /\ Alive(at[r])
  /\ RGoto(r, "handling")
  /\ UNCHANGED <<pc, next, grace, schemaVars, at, crashes>>

Answer(r) ==
  /\ rpc[r] = "handling" /\ Alive(at[r])
  /\ RGoto(r, "answered")
  /\ UNCHANGED <<pc, next, grace, schemaVars, at, crashes>>

\* SIGTERM: Shutdown starts with its ten seconds, and ListenAndServe returns,
\* at once if it was not even called yet.
Stop(p) ==
  /\ pc[p] \in {"listening", "serving"}
  /\ Goto(p, "stopping") /\ grace' = [grace EXCEPT ![p] = "running"]
  /\ UNCHANGED <<next, schemaVars, requestVars, crashes>>

GraceEnds(p) ==
  /\ grace[p] = "running" /\ Alive(p)
  /\ grace' = [grace EXCEPT ![p] = "over"]
  /\ UNCHANGED <<pc, next, schemaVars, requestVars, crashes>>

\* main returns; its deferred calls run last to first, the Redis client's
\* Close and then the pool's.
CloseRedis(p) ==
  /\ pc[p] = "stopping"
  /\ Goto(p, "closing")
  /\ UNCHANGED <<next, grace, schemaVars, requestVars, crashes>>

\* pool.Close returns when every connection is back; nothing waits for Shutdown.
Exit(p) ==
  /\ pc[p] = "closing"
  /\ \A r \in Requests : at[r] = p => rpc[r] # "querying"
  /\ Goto(p, "exited")
  /\ UNCHANGED <<next, grace, schemaVars, requestVars, crashes>>

\* Its connections go with a process, and the advisory lock with them.
Crash(p) ==
  /\ pc[p] \notin {"down", "failed", "exited", "crashed"} /\ Fail
  /\ Goto(p, "crashed") /\ Release(p)
  /\ UNCHANGED <<next, grace, version, dirty, applied, requestVars>>

Next ==
  \/ \E p \in Processes : \/ \E e \in Environments : Boot(p, e)
                          \/ StartStep(p) \/ MigrationFails(p)
                          \/ \E r \in Requests : Accept(p, r)
                          \/ Stop(p) \/ GraceEnds(p) \/ CloseRedis(p) \/ Exit(p) \/ Crash(p)
  \/ \E r \in Requests : BeginQuery(r) \/ EndQuery(r) \/ Answer(r)

Spec == Init /\ [][Next]_vars

\* A process that is starting or stopping goes on when it can: its calls return,
\* Postgres grants a free lock and m.Up's wait for it is limited.  A query ends:
\* each is one statement.  Nobody has to die, fail or be told to stop.
FairSpec == /\ Spec
            /\ \A p \in Processes : /\ WF_vars(StartStep(p))
                                    /\ WF_vars(CloseRedis(p)) /\ WF_vars(Exit(p))
            /\ \A r \in Requests : WF_vars(EndQuery(r))

-----------------------------------------------------------------------------
(* Properties *)

Starting == {"opening", "locking", "pingingDB", "pingingRedis", "listening"} \cup Migrating
PC == {"down", "failed", "serving", "stopping", "closing", "exited", "crashed"} \cup Starting

TypeOK == /\ pc \in [Processes -> PC]
          /\ next \in [Processes -> 0 .. Last + 1]
          /\ grace \in [Processes -> {"none", "running", "over"}]
          /\ version \in 0 .. Last /\ dirty \in BOOLEAN
          /\ mlock \in Processes \cup {Nobody}
          /\ applied \in Seq(1 .. Last)
          /\ rpc \in [Requests -> {"new", "handling", "querying", "answered"}]
          /\ at \in [Requests -> Processes \cup {Nobody}]
          /\ crashes \in 0 .. MaxCrashes

Applied(n) == Len(applied) = n /\ \A i \in 1 .. n : applied[i] = i

\* Migrations take effect once each and in order, however many processes start
\* at once and wherever they die; a clean version says exactly which ones, and
\* after an interruption the version is left dirty (comment on RunMigrations:
\* "migrate tracks applied versions in the database itself").
VersionTellsTheTruth ==
  Applied(version) \/ (dirty /\ Applied(version - 1))

\* A process that serves finds the whole schema, the exclusion constraint of
\* the last migrations included.
ServesCompleteSchema ==
  \A p \in Processes : Alive(p) => Applied(Last)

\* Shutdown's ten seconds ("graceful shutdown failed" is logged when they are
\* exceeded): a request that is running when the process is told to stop is
\* dropped only when they are over.
RequestsGetTheirGrace ==
  \A r \in Requests : (rpc[r] = "handling" /\ pc[at[r]] = "exited") => grace[at[r]] = "over"

\* The upgrade this system implements: what the version says is announced, a
\* dirty one is unconfirmed, a process that takes or finishes requests is open.
Upgrade == INSTANCE SchemaUpgrade WITH
  Servers <- Processes, Newest <- Last,
  announced <- version, unconfirmed <- dirty, effects <- applied,
  open <- {p \in Processes : Alive(p)}

\* However many processes start, fail and die, the database and the requests
\* see one upgrade: no migration is begun before the last one is complete, a
\* dirty version is never cleaned by anyone but the process that applied it,
\* and requests are served after the whole of it and never before.
ImplementsUpgrade == Upgrade!UpgradeSpec

\* A process that starts ends up serving or failed; a database left dirty, or a
\* process in the middle of the migrations, makes nobody wait for ever, although
\* WithInstance sets no limit to its wait.
StartsComeToAnEnd == \A p \in Processes : pc[p] = "opening" ~> pc[p] \notin Starting

\* A process told to stop does stop: pool.Close waits for every query under way,
\* without a limit of its own, but handlers that are still running cannot keep it
\* waiting with new ones.
StopsComeToAnEnd == \A p \in Processes : pc[p] = "stopping" ~> pc[p] \in {"exited", "crashed"}
=============================================================================

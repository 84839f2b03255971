----------------------------- MODULE Deployment -----------------------------
(***************************************************************************)
(* How a container of this service comes up and says that it is ready.     *)
(* A "deploy" container runs db/migrate.py, then db/seed_securities.py     *)
(* --apply, then the server (railway.toml); a "serve" container runs the   *)
(* image's command, the server alone, and counts on someone else's         *)
(* migrator.  Both are restarted when they fail.  Containers of two        *)
(* releases overlap, so two migrators and two seeders may work on one      *)
(* database, and either may die between any two statements.                *)
(*                                                                         *)
(* The database is what is committed: applied, the rows of schema_version, *)
(* and master, for each row of security_master and security_relation the   *)
(* release whose payload it holds.  A payload is a release's               *)
(* securities_master.json; the seed inserts and updates its rows and       *)
(* deletes none, so the rows only an older release names stay.             *)
(* Migrations and the seed each run in a transaction; a row written by an  *)
(* open transaction is locked.                                             *)
(***************************************************************************)
EXTENDS Selection, SequencesExt, FiniteSets

CONSTANTS
  Containers,   \* the containers that run or restart during the deploy
  Release,      \* Release[d]: the newest migration of d's code (EXPECTED_SCHEMA_VERSION)
  MasterKeys,   \* primary keys of security_master and security_relation
  Rows,         \* Rows[r]: the keys of release r's payload in its order, securities first
  MaxFaults     \* bound: failures of a statement, a service or a container

None == 0
Versions == 1 .. 3

\* A release ships one to three of the migrations, and a payload.
ReleasesOk ==
  /\ Release \in [Containers -> Versions]
  /\ \A r \in Versions : Rows[r] \in Seq(MasterKeys)

VARIABLES applied, master, dbUp, redisUp, box, faults

vars == <<applied, master, dbUp, redisUp, box, faults>>

Stages == {"new", "start", "migrate", "seed", "boot", "connect", "serve", "pinged", "verify",
           "down"}
Answers == {"none", "ready", "not ready", "raised"}

\* Faulty variant: the files in the order the directory lists them.
DiscoverUnsorted(d) == [v \in 1 .. Release[d] |-> Release[d] + 1 - v]

\* discover: the migration files of d's release, by version.
Discover(d) == [v \in 1 .. Release[d] |-> v]

Commands == {"deploy", "serve"}

\* A container at the first step of its command.
Fresh(cmd) == [cmd |-> cmd, pc |-> IF cmd = "serve" THEN "boot" ELSE "start", plan |-> <<>>, wrote |-> 0,
               db |-> FALSE, redis |-> FALSE, answer |-> "none"]

Payload(r) == {Rows[r][i] : i \in 1 .. Len(Rows[r])}

\* The rows once release r's payload is upserted over those of m.
Upserted(m, r) == [k \in MasterKeys |-> IF k \in Payload(r) THEN r ELSE m[k]]

Unseeded == [k \in MasterKeys |-> None]

\* Some release is deployed, with its payload or without, or none is.
Init ==
  /\ \E n \in 0 .. 3 :
       /\ applied = 1 .. n
       /\ master \in {Unseeded} \cup {Upserted(Unseeded, r) : r \in 1 .. n}
  /\ dbUp = TRUE /\ redisUp = TRUE
  /\ box = [d \in Containers |-> [Fresh("none") EXCEPT !.pc = "new"]]
  /\ faults = 0

Become(d, r) == box' = [box EXCEPT ![d] = r]
Goto(d, pc) == box' = [box EXCEPT ![d].pc = pc]

\* The platform starts a container with one of the two commands.
Launch(d) ==
  /\ box[d].pc = "new"
  /\ \E cmd \in Commands : Become(d, Fresh(cmd))
  /\ UNCHANGED <<applied, master, dbUp, redisUp, faults>>

-----------------------------------------------------------------------------
\* python -m db.migrate

\* run: the applied versions are read once, before the first migration runs.
Plan(d) ==
  /\ box[d].cmd = "deploy" /\ box[d].pc = "start" /\ dbUp
  /\ Become(d, [box[d] EXCEPT !.pc = "migrate",
                  !.plan = Kept(Discover(d), Versions \ applied)])
  /\ UNCHANGED <<applied, master, dbUp, redisUp, faults>>

\* apply: one file in one transaction.  Every statement is IF NOT EXISTS and the version is
\* inserted ON CONFLICT DO NOTHING, so a version another migrator committed is no error.
Apply(d) ==
  /\ box[d].pc = "migrate" /\ box[d].plan # <<>> /\ dbUp
  /\ applied' = applied \cup {Head(box[d].plan)}
  /\ Become(d, [box[d] EXCEPT !.plan = Tail(@)])
  /\ UNCHANGED <<master, dbUp, redisUp, faults>>

Migrated(d) ==
  /\ box[d].pc = "migrate" /\ box[d].plan = <<>>
  /\ Goto(d, "seed")
  /\ UNCHANGED <<applied, master, dbUp, redisUp, faults>>

-----------------------------------------------------------------------------
\* python -m db.seed_securities --apply: upsert_seed writes row after row in one transaction.

\* The row d writes next, and whether it has one.
NextRow(d) == Rows[Release[d]][box[d].wrote + 1]
HasNext(d) == box[d].wrote < Len(Rows[Release[d]])

\* A row that another open transaction has written is locked until that transaction ends.
Locked(k, d) ==
  \E e \in Containers \ {d} :
    /\ box[e].pc = "seed"
    /\ \E i \in 1 .. box[e].wrote : Rows[Release[e]][i] = k

\* What a reader sees of the rows that d has written so far: nothing, before the commit.
Visible(d) == master

\* Faulty variant: no transaction around the loop, every row is committed as it is written.
VisibleRow(d) == [master EXCEPT ![NextRow(d)] = Release[d]]

SeedRow(d) ==
  /\ box[d].pc = "seed" /\ HasNext(d) /\ dbUp
  /\ ~ Locked(NextRow(d), d)
  /\ box' = [box EXCEPT ![d].wrote = @ + 1]
  /\ master' = Visible(d)
  /\ UNCHANGED <<applied, dbUp, redisUp, faults>>

\* The commit; the script ends and exec uvicorn follows.
SeedCommits(d) ==
  /\ box[d].pc = "seed" /\ ~ HasNext(d) /\ dbUp
  /\ master' = Upserted(master, Release[d])
  /\ Become(d, [Fresh(box[d].cmd) EXCEPT !.pc = "boot"])
  /\ UNCHANGED <<applied, dbUp, redisUp, faults>>

-----------------------------------------------------------------------------
\* The server's startup (main.py, lifespan), all that the image's CMD runs.

\* init_pool connects to the database.
PoolConnects(d) ==
  /\ box[d].pc = "boot" /\ dbUp
  /\ Goto(d, "connect")
  /\ UNCHANGED <<applied, master, dbUp, redisUp, faults>>

\* init_client pings Redis.  The check of the schema that follows is logged and holds
\* nothing up, and nothing looks at the master data: the server serves what it found.
ClientConnects(d) ==
  /\ box[d].pc = "connect" /\ redisUp
  /\ Goto(d, "serve")
  /\ UNCHANGED <<applied, master, dbUp, redisUp, faults>>

-----------------------------------------------------------------------------
\* GET /v1/readyz

PingDb(d) ==
  /\ box[d].pc = "serve"
  /\ Become(d, [box[d] EXCEPT !.pc = "pinged", !.db = dbUp, !.answer = "none"])
  /\ UNCHANGED <<applied, master, dbUp, redisUp, faults>>

PingRedis(d) ==
  /\ box[d].pc = "pinged"
  /\ Become(d, [box[d] EXCEPT !.pc = "verify", !.redis = redisUp])
  /\ UNCHANGED <<applied, master, dbUp, redisUp, faults>>

\* verify_schema: MAX(version) >= expected; no table, no row and a database error are not ok.
SchemaOk(d) == \E v \in applied : v >= Release[d]

\* The probe of the schema is skipped when the database did not answer the ping.
Answer(d) ==
  /\ box[d].pc = "verify"
  /\ Become(d, [box[d] EXCEPT !.pc = "serve", !.answer =
                  IF box[d].db /\ box[d].redis /\ dbUp /\ SchemaOk(d)
                  THEN "ready" ELSE "not ready"])
  /\ UNCHANGED <<applied, master, dbUp, redisUp, faults>>

\* The connection fails in a way verify_schema does not catch (asyncpg.InterfaceError).
AnswerRaises(d) ==
  /\ box[d].pc = "verify" /\ box[d].db /\ ~ dbUp
  /\ Become(d, [box[d] EXCEPT !.pc = "serve", !.answer = "raised"])
  /\ UNCHANGED <<applied, master, dbUp, redisUp, faults>>

-----------------------------------------------------------------------------
\* Faults

\* A statement fails, or the container is killed: an open transaction is rolled back, the
\* command exits, and && starts nothing after it.
Dies(d) ==
  /\ box[d].pc \notin {"new", "down"} /\ faults < MaxFaults
  /\ faults' = faults + 1
  /\ Become(d, [Fresh(box[d].cmd) EXCEPT !.pc = "down"])
  /\ UNCHANGED <<applied, master, dbUp, redisUp>>

\* A service that cannot be reached ends the command that needs it.
Unreachable(d) ==
  /\ \/ box[d].pc \in {"start", "migrate", "seed", "boot"} /\ ~ dbUp
     \/ box[d].pc = "connect" /\ ~ redisUp
  /\ Become(d, [Fresh(box[d].cmd) EXCEPT !.pc = "down"])
  /\ UNCHANGED <<applied, master, dbUp, redisUp, faults>>

\* restartPolicyType = "on_failure": the start command from its first step.
Restart(d) ==
  /\ box[d].pc = "down"
  /\ Become(d, Fresh(box[d].cmd))
  /\ UNCHANGED <<applied, master, dbUp, redisUp, faults>>

DbMoves ==
  /\ dbUp => faults < MaxFaults
  /\ dbUp' = ~ dbUp /\ faults' = IF dbUp THEN faults + 1 ELSE faults
  /\ UNCHANGED <<applied, master, redisUp, box>>

RedisMoves ==
  /\ redisUp => faults < MaxFaults
  /\ redisUp' = ~ redisUp /\ faults' = IF redisUp THEN faults + 1 ELSE faults
  /\ UNCHANGED <<applied, master, dbUp, box>>

Deploys(d) ==
  \/ Plan(d) \/ Apply(d) \/ Migrated(d) \/ SeedRow(d) \/ SeedCommits(d)
  \/ PoolConnects(d) \/ ClientConnects(d)
Probes(d) == PingDb(d) \/ PingRedis(d) \/ Answer(d) \/ AnswerRaises(d)

Next ==
  \/ \E d \in Containers :
       Launch(d) \/ Deploys(d) \/ Probes(d) \/ Dies(d) \/ Unreachable(d) \/ Restart(d)
  \/ DbMoves \/ RedisMoves

\* A command and the platform run on.  Faults are not fair, but a service that fails comes
\* back, before the platform has used up its restarts.
Fairness ==
  /\ \A d \in Containers :
       WF_vars(Deploys(d)) /\ WF_vars(Probes(d)) /\ WF_vars(Unreachable(d)) /\ WF_vars(Restart(d))
  /\ WF_vars(~ dbUp /\ DbMoves) /\ WF_vars(~ redisUp /\ RedisMoves)

Spec == Init /\ [][Next]_vars /\ Fairness

-----------------------------------------------------------------------------
\* Type correctness of the database and the containers.
TypeOK ==
  /\ applied \subseteq Versions
  /\ master \in [MasterKeys -> {None} \cup Versions]
  /\ dbUp \in BOOLEAN /\ redisUp \in BOOLEAN /\ faults \in 0 .. MaxFaults
  /\ \A d \in Containers :
       /\ box[d].cmd \in Commands \cup {"none"} /\ box[d].pc \in Stages /\ box[d].answer \in Answers
       /\ box[d].plan \in BoundedSeq(Versions, 3) /\ box[d].wrote \in 0 .. Len(Rows[Release[d]])

\* Every row of the payload is there, in this release's form or another's.
Present(r) == \A k \in Payload(r) : master[k] # None

\* The master data is made of whole payloads, one over the other: where a row of a release
\* is seen all its rows are there, and of two releases the same one wins every row they share.
WholePayloads ==
  LET seeded == {k \in MasterKeys : master[k] # None} IN
  /\ \A k \in seeded : Present(master[k])
  /\ \A k, l \in seeded :
       {k, l} \subseteq Payload(master[k]) \cap Payload(master[l]) => master[k] = master[l]

\* readyz says ok only when every migration this release needs is applied, the lower versions
\* as much as the highest one that verify_schema looks at (database.py:94), and, where the
\* start command came before the server (railway.toml:15), the release's rows are in the
\* master.  A server started alone may be ready with an empty master: readyz looks at no
\* master row.  Ready or not, no reader sees part of a payload (upsert_seed's transaction);
\* rows of several releases do mix.
ReadyMeansDeployed ==
  /\ \A d \in Containers : box[d].answer = "ready" =>
       /\ 1 .. Release[d] \subseteq applied
       /\ box[d].cmd = "deploy" => Present(Release[d])
  /\ WholePayloads

\* Every server becomes ready once some container deploys its release or a newer one: what a
\* failed migrator or seeder leaves behind stops no later run (migrate.py, railway.toml), and
\* "the next probe goes green - no restart needed" (main.py, the startup check).  Payloads
\* name the rows they share in one order; else Postgres ends one of two seeders that wait for
\* each other (Dies).
EveryServerIsReady ==
  \A d \in Containers :
    /\ box[d].cmd # "none"
    /\ \E e \in Containers : box[e].cmd = "deploy" /\ Release[e] >= Release[d]
    ~> box[d].answer = "ready"
=============================================================================

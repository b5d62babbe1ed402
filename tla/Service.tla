------------------------------ MODULE Service -------------------------------
(***************************************************************************)
(* Boot, database and deployment: how a checkout becomes a service that    *)
(* answers, and what its health report is worth.                           *)
(*   docker-compose.yml, Makefile     migrate, then api, then web          *)
(*   apps/api/src/index.ts            loadConfig, buildServer, listen      *)
(*   apps/api/src/db/sqlite.ts        the cached connection, ping          *)
(*   apps/api/src/db/migrate.ts, reset.ts    the two commands on the file  *)
(*   apps/api/src/modules/health/     GET /api/v1/health                   *)
(*                                                                         *)
(* A file is an inode: a process that opened it keeps it after it was      *)
(* deleted.  Its schema is the number of migrations applied to it, and an  *)
(* image brings as many migrations as its number.  Migrations only add.    *)
(***************************************************************************)
EXTENDS Config

CONSTANTS Environments, \* what the operator may write into .env
          Files,       \* inodes DB_PATH may come to name
          MaxImage,    \* bound on the images built
          MaxUps,      \* bound on `docker compose up -d`
          MaxFaults,   \* bound on outages, crashes and power losses
          MaxResets,   \* bound on `db:reset`
          None

ASSUME ServiceAssumption ==
    /\ \A env \in Environments :
         DOMAIN env = Variables /\ \A v \in Variables : env[v] \in FormsOf(v)
    /\ MaxImage \in Nat \ {0}
    /\ {MaxUps, MaxFaults, MaxResets} \subseteq Nat
    /\ None \notin Files

VARIABLES image,      \* the image built last
          path,       \* the file DB_PATH names
          schema,     \* file: migrations applied to it
          reachable,  \* the volume can be opened
          migrate,    \* the one-shot container
          api,        \* the API container
          web,        \* the web container was started
          reset,      \* a db:reset
          left,       \* what the bounds leave
          mishap      \* history: a reset took the file of a running API, or
                      \* did not get to its migrations

disk == <<path, schema, reachable>>
vars == <<image, path, schema, reachable, migrate, api, web, reset, left,
          mishap>>

OrNone(S) == S \cup {None}

\* compose answers nothing but port 3000: the health check and nginx.
OnPort3000(env) == env["PORT"] \in {"unset", "blank"}

NoApi == [st |-> "absent", env |-> None, image |-> 0, fd |-> None,
          access |-> FALSE, named |-> {}, health |-> "none"]
NoJob == [st |-> "absent", fd |-> None, image |-> 0]

Job == [st: {"absent", "start", "open", "done", "failed"},
        fd: OrNone(Files), image: 0 .. MaxImage]
ApiStates == {"absent", "waiting", "booting", "listening", "exited"}

\* Every variable holds a value of its kind, and only a process that runs has
\* a file open.
TypeOK ==
    /\ image \in 1 .. MaxImage
    /\ path \in OrNone(Files)
    /\ schema \in [Files -> 0 .. MaxImage]
    /\ reachable \in BOOLEAN
    /\ {migrate, reset} \subseteq Job
    /\ \A job \in {migrate, reset} : job.fd # None <=> job.st = "open"
    /\ api.st \in ApiStates
    /\ api.env \in OrNone(Environments)
    /\ api.image \in 0 .. image
    /\ api.fd \in OrNone(Files)
    /\ api.fd # None => api.st = "listening"
    /\ api.access \in BOOLEAN
    /\ api.named \subseteq Variables
    /\ api.health \in {"none", "ok", "unavailable"}
    /\ web \in BOOLEAN
    /\ left \in [ups: 0 .. MaxUps, faults: 0 .. MaxFaults,
                 resets: 0 .. MaxResets]
    /\ mishap \in BOOLEAN

Init ==
    /\ image = 1
    /\ path = None
    /\ schema = [f \in Files |-> 0]
    /\ reachable = TRUE
    /\ migrate = NoJob
    /\ api = NoApi
    /\ web = FALSE
    /\ reset = NoJob
    /\ left = [ups |-> MaxUps, faults |-> MaxFaults, resets |-> MaxResets]
    /\ mishap = FALSE

-----------------------------------------------------------------------------
(* The file.                                                               *)

\* Opening creates an empty file where there is none.
InUse == {path, migrate.fd, reset.fd, api.fd}
Opens(f) ==
    /\ reachable
    /\ f \in Files
    /\ IF path # None THEN f = path /\ UNCHANGED <<path, schema>>
       ELSE /\ f \notin InUse
            /\ path' = f
            /\ schema' = [schema EXCEPT ![f] = 0]

\* Drizzle applies what a file lacks, all of it or nothing.
Applied(f, n) == [schema EXCEPT ![f] = IF @ < n THEN n ELSE @]

\* openConnection and migrate, as the commands use them: a connection of their
\* own, closed on the way out.
JobOpens(job) ==
    \E f \in Files : Opens(f) /\ job' = [job EXCEPT !.st = "open", !.fd = f]
JobEnds(job, st) == job' = [job EXCEPT !.st = st, !.fd = None]

MigrateOpen ==
    /\ migrate.st = "start"
    /\ \/ JobOpens(migrate)
       \/ ~reachable /\ JobEnds(migrate, "failed") /\ UNCHANGED <<path, schema>>
    /\ UNCHANGED <<image, reachable, api, web, reset, left, mishap>>

MigrateApply ==
    /\ migrate.st = "open"
    /\ IF reachable
       THEN /\ schema' = Applied(migrate.fd, migrate.image)
            /\ JobEnds(migrate, "done")
       ELSE JobEnds(migrate, "failed") /\ UNCHANGED schema
    /\ UNCHANGED <<image, path, reachable, api, web, reset, left, mishap>>

\* reset(): the three files are removed, then the migrations run.
ResetDrop ==
    /\ left.resets > 0
    /\ reset.st \notin {"start", "open"}
    /\ reachable
    /\ path' = None
    /\ reset' = [st |-> "start", fd |-> None, image |-> image]
    /\ left' = [left EXCEPT !.resets = @ - 1]
    /\ mishap' = (mishap \/ api.fd # None)
    /\ UNCHANGED <<image, schema, reachable, migrate, api, web>>

ResetFails == ~reachable /\ JobEnds(reset, "failed") /\ mishap' = TRUE

ResetOpen ==
    /\ reset.st = "start"
    /\ \/ JobOpens(reset) /\ UNCHANGED mishap
       \/ ResetFails /\ UNCHANGED <<path, schema>>
    /\ UNCHANGED <<image, reachable, migrate, api, web, left>>

ResetApply ==
    /\ reset.st = "open"
    /\ \/ /\ reachable
          /\ schema' = Applied(reset.fd, reset.image)
          /\ JobEnds(reset, "done")
          /\ UNCHANGED mishap
       \/ ResetFails /\ UNCHANGED schema
    /\ UNCHANGED <<image, path, reachable, migrate, api, web, left>>

-----------------------------------------------------------------------------
(* The API process.                                                        *)

\* Mutant: the connection of a process that ended is not closed
Exited_Open(named) == [api EXCEPT !.st = "exited", !.access = FALSE,
                                  !.named = named, !.health = "none"]

Exited(named) == [api EXCEPT !.st = "exited", !.fd = None, !.access = FALSE,
                             !.named = named, !.health = "none"]

\* index.ts: an environment that is refused ends the process before it
\* binds, and so does a failed listen.  Nothing here opens the database.
Boot ==
    /\ api.st = "booting"
    /\ api' = IF Accepted(api.env)
              THEN [api EXCEPT !.st = "listening", !.named = {},
                               !.access = HasVerifier(api.env)]
              ELSE Exited(Offending(api.env))
    /\ UNCHANGED <<image, disk, migrate, web, reset, left, mishap>>

BindFails ==
    /\ api.st = "booting"
    /\ left.faults > 0
    /\ Accepted(api.env)
    /\ api' = Exited({})
    /\ left' = [left EXCEPT !.faults = @ - 1]
    /\ UNCHANGED <<image, disk, migrate, web, reset, mishap>>

\* Mutant: a failure to open is remembered
Connects_Remembered(fd) ==
    IF api.fd # None THEN fd = api.fd /\ UNCHANGED <<path, schema>>
    ELSE IF api.health = "unavailable"
         THEN fd = None /\ UNCHANGED <<path, schema>>
    ELSE \/ fd # None /\ Opens(fd)
         \/ fd = None /\ ~reachable /\ UNCHANGED <<path, schema>>

\* getConnection: the connection is opened once and kept; a failure to open
\* leaves nothing behind, so that the next call tries again.
Connects(fd) ==
    IF api.fd # None THEN fd = api.fd /\ UNCHANGED <<path, schema>>
    ELSE \/ fd # None /\ Opens(fd)
         \/ fd = None /\ ~reachable /\ UNCHANGED <<path, schema>>

\* GET /api/v1/health: SELECT 1 over that connection, which reads no table.
Report(fd) == IF fd \in Files THEN "ok" ELSE "unavailable"

Health ==
    /\ api.st = "listening"
    /\ \E fd \in OrNone(Files) :
         /\ Connects(fd)
         /\ api' = [api EXCEPT !.fd = fd, !.health = Report(fd)]
    /\ UNCHANGED <<image, reachable, migrate, web, reset, left, mishap>>

\* Any request that reads a table connects in the same way.
UseDb ==
    /\ api.st = "listening"
    /\ \E fd \in OrNone(Files) :
         Connects(fd) /\ api' = [api EXCEPT !.fd = fd]
    /\ UNCHANGED <<image, reachable, migrate, web, reset, left, mishap>>

-----------------------------------------------------------------------------
(* Docker and the operator.                                                *)

Build ==
    /\ image < MaxImage
    /\ image' = image + 1
    /\ UNCHANGED <<disk, migrate, api, web, reset, left, mishap>>

\* docker compose up -d: the API is replaced when its image or its environment
\* changed and waits for the migration; so does a new one.
Up ==
    /\ left.ups > 0
    /\ migrate.st \notin {"start", "open"}
    /\ \E env \in Environments :
         api' = IF api.st \notin {"absent", "waiting"}
                     /\ env = api.env /\ image = api.image
                THEN api
                ELSE [NoApi EXCEPT !.st = "waiting", !.env = env,
                                   !.image = image]
    /\ migrate' = [st |-> "start", fd |-> None, image |-> image]
    /\ left' = [left EXCEPT !.ups = @ - 1]
    /\ UNCHANGED <<image, disk, web, reset, mishap>>

\* Mutant: the API does not wait for the migration (service_started)
ApiStarts_Early ==
    /\ api.st = "waiting"
    /\ api' = [api EXCEPT !.st = "booting"]
    /\ UNCHANGED <<image, disk, migrate, web, reset, left, mishap>>

\* depends_on: the API starts once the migration exited with 0, the web server
\* once the API reports healthy on its port.
ApiStarts ==
    /\ api.st = "waiting"
    /\ migrate.st = "done"
    /\ api' = [api EXCEPT !.st = "booting"]
    /\ UNCHANGED <<image, disk, migrate, web, reset, left, mishap>>

\* Mutant: the web server waits for a started API only (service_started)
Healthy_Started == api.st \in {"booting", "listening"}

Healthy == /\ api.st = "listening"
           /\ api.health = "ok"
           /\ OnPort3000(api.env)

WebStarts ==
    /\ ~web
    /\ Healthy
    /\ web' = TRUE
    /\ UNCHANGED <<image, disk, migrate, api, reset, left, mishap>>

\* restart: unless-stopped.
ApiRestarts ==
    /\ api.st = "exited"
    /\ api' = [api EXCEPT !.st = "booting"]
    /\ UNCHANGED <<image, disk, migrate, web, reset, left, mishap>>

ApiCrashes ==
    /\ left.faults > 0
    /\ api.st = "listening"
    /\ api' = Exited({})
    /\ left' = [left EXCEPT !.faults = @ - 1]
    /\ UNCHANGED <<image, disk, migrate, web, reset, mishap>>

\* After a power loss Docker restarts what had been started, in no order; the
\* one-shot migration and the operator's command are not run again.
PowerLoss ==
    /\ left.faults > 0
    /\ left' = [left EXCEPT !.faults = @ - 1]
    /\ api' = IF api.st \in {"absent", "waiting"} THEN api ELSE Exited({})
    /\ IF migrate.st \in {"start", "open"} THEN JobEnds(migrate, "failed")
       ELSE UNCHANGED migrate
    /\ IF reset.st \in {"start", "open"}
       THEN JobEnds(reset, "failed") /\ mishap' = TRUE
       ELSE UNCHANGED <<reset, mishap>>
    /\ UNCHANGED <<image, disk, web>>

Outage ==
    /\ left.faults > 0
    /\ reachable
    /\ reachable' = FALSE
    /\ left' = [left EXCEPT !.faults = @ - 1]
    /\ UNCHANGED <<image, path, schema, migrate, api, web, reset, mishap>>

Mended ==
    /\ ~reachable
    /\ reachable' = TRUE
    /\ UNCHANGED <<image, path, schema, migrate, api, web, reset, left, mishap>>

Next ==
    \/ MigrateOpen \/ MigrateApply
    \/ ResetDrop \/ ResetOpen \/ ResetApply
    \/ Boot \/ BindFails \/ Health \/ UseDb
    \/ Build \/ Up \/ ApiStarts \/ WebStarts \/ ApiRestarts
    \/ ApiCrashes \/ PowerLoss \/ Outage \/ Mended

Spec == Init /\ [][Next]_vars

\* Docker restarts what exited, a process that was started goes on, and the
\* health check asks every 15 seconds.
FairSpec == Spec /\ WF_vars(Boot) /\ WF_vars(ApiRestarts) /\ WF_vars(Health)

-----------------------------------------------------------------------------
(* What the deployment promises.                                           *)

\* An API that accepts connections has every value it needs: it verifies
\* Access assertions exactly when the operator asked for that, never with half
\* of the values, and signs with a secret that was set (config.ts: "never a
\* silent downgrade").
FailsClosed ==
    api.st = "listening" =>
        /\ api.access <=> AccessAsked(api.env)
        /\ ~HalfConfigured(api.env)
        /\ api.env["JWT_SECRET"] = "fit"

\* A boot that was refused tells the operator enough: who repairs what it
\* names, and what the next attempt names, has a service that boots.  One
\* round is not enough, since Zod skips the cross-field rule after some faults.
Repaired(env, named) ==
    [v \in Variables |-> IF v \in named THEN "fit" ELSE env[v]]
TwoRepairsSuffice ==
    api.named # {} =>
        LET first == Repaired(api.env, api.named)
            second == Repaired(first, Offending(first))
        IN  Accepted(second)

\* When health would answer ok, the connection it asks is on the file DB_PATH
\* names and that file has the tables this image needs: docker-compose.yml
\* says "/api/v1/health really queries the database and answers 503 when it
\* cannot, so this is a genuine readiness check".  A reset that is still
\* running is left out.
HealthIsGenuine ==
    /\ api.st = "listening"
    /\ Report(api.fd) = "ok"
    /\ reset.st \notin {"start", "open"}
    => path = api.fd /\ schema[api.fd] >= api.image

\* It is, through upgrades, crashes, outages and resets of a stopped API, as
\* long as no reset had a mishap: what health reports as ok can be queried.
HealthMeansQueryable == ~mishap => HealthIsGenuine

\* The site is opened only over an API that nginx can reach and, unless a
\* reset is running or had a mishap, a database with that API's tables.
WebOpensOnService ==
    [][web' # web => /\ api.st = "listening"
                     /\ OnPort3000(api.env)
                     /\ ~mishap /\ reset.st \notin {"start", "open"}
                          => schema[path] >= api.image]_vars

\* Nothing but the disk keeps a well configured API, once started, from being
\* healthy: a crash, a power loss and a failed open are all recovered from.
Recovers ==
    (api.st \in {"exited", "booting", "listening"} /\ Accepted(api.env))
      ~> (api.health = "ok" \/ ~reachable \/ api.st = "waiting")
=============================================================================

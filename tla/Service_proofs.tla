--------------------------- MODULE Service_proofs ---------------------------
(***************************************************************************)
(* Proofs about Service, for any environments, files, images and bounds.   *)
(* The argument:                                                           *)
(*   Typed says what kind of value every variable holds;                   *)
(*   BootInv, that what a process knows of its environment is what Config  *)
(*   says of it;                                                           *)
(*   DiskInv, that short of a mishap the file DB_PATH names has the tables *)
(*   of every process that was started over it, or a reset under way is    *)
(*   going to give it those tables.                                        *)
(***************************************************************************)
EXTENDS Service, TLAPS

USE ServiceAssumption

Image == 0 .. MaxImage
Api == [st: ApiStates, env: OrNone(Environments), image: Image, fd: OrNone(Files),
        access: BOOLEAN, named: SUBSET Variables,
        health: {"none", "ok", "unavailable"}]

Typed ==
    /\ TypeOK
    /\ api \in Api
    /\ migrate.image <= image
    /\ reset.image <= image

BootInv ==
    /\ api.st # "absent" => api.env \in Environments
    /\ api.named # {} => /\ api.env \in Environments
                         /\ api.named = Offending(api.env)
    /\ api.st = "listening" => /\ Accepted(api.env)
                               /\ api.access <=> HasVerifier(api.env)

Resetting == reset.st \in {"start", "open"}

\* The database has, or a reset will give it, n migrations.
Serves(n) == \/ path # None /\ schema[path] >= n
             \/ Resetting /\ reset.image >= n

DiskInv ==
    /\ reset.st = "open" => reset.fd = path
    /\ ~mishap =>
         /\ api.fd # None => api.fd = path
         /\ migrate.st = "open" => migrate.fd = path \/ Serves(migrate.image)
         /\ migrate.st = "done" => Serves(migrate.image)
         /\ api.st = "waiting" => migrate.image = api.image
         /\ api.st \in {"booting", "listening", "exited"} => Serves(api.image)

Inv == Typed /\ BootInv /\ DiskInv

-----------------------------------------------------------------------------
(* Config.                                                                 *)

\* An environment that is accepted has a usable secret and, where Access is
\* asked for, both of its values.
LEMMA AcceptedMeansUsable ==
    ASSUME NEW env \in Environments, Accepted(env)
    PROVE  env["JWT_SECRET"] = "fit" /\ ~HalfConfigured(env)
<1>1. Misfits(env) = {} /\ Unmet(env) = {}
  BY DEF Accepted, Offending
<1>2. \A v \in Variables : env[v] \in FormsOf(v)
  BY DEF ServiceAssumption
<1>3. "JWT_SECRET" \in Variables /\ "JWT_SECRET" \notin FreeText
  BY DEF Variables, Patterned, FreeText
<1>4. "JWT_SECRET" \in Present(env) /\ env["JWT_SECRET"] \notin {"alien", "odd"}
  BY <1>1, <1>3 DEF Misfits, Required
<1>5. env["JWT_SECRET"] = "fit"
  BY <1>2, <1>3, <1>4 DEF FormsOf, Present
<1>6. ~Aborts(env)
  <2>1. Required \ Present(env) = {}
    BY <1>1 DEF Misfits
  <2>2. \A v \in Variables : env[v] = "alien" => v \in Misfits(env)
    BY DEF Misfits, Present
  <2>. QED
    BY <1>1, <2>1, <2>2 DEF Aborts
<1>. QED
  BY <1>1, <1>5, <1>6 DEF HalfConfigured, Unmet

\* After one repair the schema is content and the cross-field rule has had its
\* say; after two, nothing is left.
LEMMA RepairsSuffice ==
    ASSUME NEW env \in Environments
    PROVE  LET first == Repaired(env, Offending(env))
               second == Repaired(first, Offending(first))
           IN  Accepted(second)
<1>. DEFINE first == Repaired(env, Offending(env))
            second == Repaired(first, Offending(first))
<1>1. ASSUME NEW e, NEW named \in SUBSET Variables
      PROVE  \A v \in Variables :
               Repaired(e, named)[v] = IF v \in named THEN "fit" ELSE e[v]
  BY DEF Repaired
<1>2. ASSUME NEW e
      PROVE  Offending(e) \subseteq Variables
  BY DEF Offending, Misfits, Unmet, Present, Required, AccessRequired, Variables,
         Patterned
<1>3. ASSUME NEW e, NEW named \in SUBSET Variables, Misfits(e) \subseteq named
      PROVE  Misfits(Repaired(e, named)) = {}
  BY <1>1, <1>3 DEF Misfits, Present, Required, Variables, Patterned
<1>4. Misfits(first) = {}
  BY <1>2, <1>3 DEF Offending
<1>5. Misfits(second) = {}
  BY <1>2, <1>3 DEF Offending
<1>6. Unmet(second) = {}
  <2>1. ~Aborts(first)
    <3>1. Required \ Present(first) = {}
      BY <1>4 DEF Misfits
    <3>2. \A v \in Variables : first[v] = "alien" => v \in Misfits(first)
      BY DEF Misfits, Present
    <3>. QED
      BY <1>4, <3>1, <3>2 DEF Aborts
  <2>2. Offending(first) = Unmet(first)
    BY <1>4 DEF Offending
  <2>3. \A v \in Variables :
          second[v] = IF v \in Offending(first) THEN "fit" ELSE first[v]
    BY <1>1, <1>2
  <2>4. "CF_ACCESS_ENABLED" \notin Offending(first)
    BY <2>2 DEF Unmet, AccessRequired
  <2>5. "CF_ACCESS_ENABLED" \in Variables /\ AccessRequired \subseteq Variables
    BY DEF Variables, Enumerated, AccessRequired, Patterned
  <2>6. CASE ~AccessAsked(second)
    BY <2>6 DEF Unmet
  <2>7. CASE AccessAsked(second)
    <3>1. AccessAsked(first)
      BY <2>3, <2>4, <2>5, <2>7 DEF AccessAsked
    <3>2. AccessRequired \ Present(first) = Offending(first)
      BY <2>1, <2>2, <3>1 DEF Unmet
    <3>3. AccessRequired \ Present(second) = {}
      BY <2>3, <2>5, <3>2 DEF Present
    <3>. QED
      BY <3>3 DEF Unmet
  <2>. QED
    BY <2>6, <2>7
<1>. QED
  BY <1>5, <1>6 DEF Accepted, Offending

-----------------------------------------------------------------------------
(* Helpers.                                                                *)

LEMMA InitInv == Init => Inv
<1>. SUFFICES ASSUME Init PROVE Inv
  OBVIOUS
<1>1. Typed
  <2>1. NoApi \in Api /\ NoApi.st = "absent" /\ NoApi.fd = None /\ NoApi.named = {}
    BY DEF NoApi, Api, ApiStates, OrNone, Image
  <2>2. NoJob \in Job /\ NoJob.st = "absent" /\ NoJob.fd = None /\ NoJob.image = 0
    BY DEF NoJob, Job, OrNone
  <2>3. NoApi.image = 0 /\ NoApi.env = None /\ NoApi.access = FALSE
        /\ NoApi.health = "none"
    BY DEF NoApi
  <2>4. \A job \in {migrate, reset} : job.fd # None <=> job.st = "open"
    BY <2>2 DEF Init
  <2>5. left \in [ups: 0 .. MaxUps, faults: 0 .. MaxFaults, resets: 0 .. MaxResets]
    BY DEF Init
  <2>6. /\ image \in 1 .. MaxImage /\ path \in OrNone(Files)
        /\ schema \in [Files -> 0 .. MaxImage] /\ {migrate, reset} \subseteq Job
    BY <2>2 DEF Init, OrNone
  <2>7. TypeOK
    <3>1. /\ api = NoApi /\ image = 1
      BY DEF Init
    <3>3. /\ api.st \in ApiStates /\ api.env \in OrNone(Environments)
          /\ api.image \in 0 .. image
          /\ api.fd \in OrNone(Files) /\ api.fd = None
      BY <2>1, <2>3, <3>1 DEF OrNone, ApiStates
    <3>4. /\ api.access \in BOOLEAN /\ api.named \subseteq Variables
          /\ api.health \in {"none", "ok", "unavailable"}
      BY <2>1, <2>3, <3>1
    <3>2. reachable \in BOOLEAN /\ web \in BOOLEAN /\ mishap \in BOOLEAN
      BY DEF Init
    <3>. QED
      BY <2>4, <2>5, <2>6, <3>2, <3>3, <3>4 DEF TypeOK
  <2>. QED
    BY <2>1, <2>2, <2>6, <2>7 DEF Init, Typed
<1>2. BootInv
  BY DEF Init, BootInv, NoApi
<1>3. DiskInv
  BY DEF Init, DiskInv, NoApi, NoJob
<1>. QED
  BY <1>1, <1>2, <1>3 DEF Inv

\* Migrations are added, never taken away.
LEMMA AppliedFacts ==
    ASSUME Typed, NEW f \in Files, NEW n \in Image
    PROVE  /\ Applied(f, n) \in [Files -> 0 .. MaxImage]
           /\ Applied(f, n)[f] >= n
           /\ \A g \in Files : Applied(f, n)[g] >= schema[g]
<1>1. schema \in [Files -> 0 .. MaxImage]
  BY DEF Typed, TypeOK
<1>. QED
  BY <1>1 DEF Applied, Image

LEMMA OpensFacts ==
    ASSUME Typed, NEW f, Opens(f)
    PROVE  /\ f \in Files /\ path' = f
           /\ schema' \in [Files -> 0 .. MaxImage]
           /\ path # None => path' = path /\ schema' = schema
  BY DEF Opens, Typed, TypeOK

\* A file that is there stays and loses no tables, a reset goes on: what was
\* served still is.
LEMMA ServesKept ==
    ASSUME Typed,
           path # None => path' = path /\ schema'[path] >= schema[path],
           schema' \in [Files -> 0 .. MaxImage],
           Resetting => Resetting' /\ reset'.image = reset.image
    PROVE  \A n \in Image : Serves(n) => Serves(n)'
<1>1. path # None => schema[path] \in Nat /\ schema'[path] \in Nat
  BY DEF Typed, TypeOK, OrNone
<1>. QED
  BY <1>1 DEF Serves, Image

\* What a process that ends, or goes on, keeps.
LEMMA ApiFields ==
    ASSUME Typed, NEW named \in SUBSET Variables
    PROVE  /\ Exited(named) \in Api
           /\ Exited(named).st = "exited" /\ Exited(named).fd = None
           /\ Exited(named).env = api.env /\ Exited(named).image = api.image
           /\ Exited(named).named = named /\ Exited(named).access = FALSE
           /\ Exited(named).health = "none"
  BY DEF Typed, Api, Exited, ApiStates, OrNone

LEMMA LeftFacts ==
    ASSUME Typed
    PROVE  LET Left == [ups: 0 .. MaxUps, faults: 0 .. MaxFaults,
                        resets: 0 .. MaxResets]
           IN  /\ left.ups > 0 => [left EXCEPT !.ups = @ - 1] \in Left
               /\ left.faults > 0 => [left EXCEPT !.faults = @ - 1] \in Left
               /\ left.resets > 0 => [left EXCEPT !.resets = @ - 1] \in Left
  BY DEF Typed, TypeOK

LEMMA OffendingTypes == ASSUME NEW env PROVE Offending(env) \subseteq Variables
  BY DEF Offending, Misfits, Unmet, Present, Required, AccessRequired, Variables,
         Patterned

-----------------------------------------------------------------------------
(* The actions.                                                            *)

\* The migration command.
LEMMA MigrateInv ==
    ASSUME Inv, MigrateOpen \/ MigrateApply
    PROVE  Inv'
<1>1. Typed /\ BootInv /\ DiskInv /\ migrate \in Job
  BY DEF Inv, Typed, TypeOK
<1>2. UNCHANGED <<image, reachable, api, web, reset, left, mishap>>
  BY DEF MigrateOpen, MigrateApply
<1>3. /\ migrate' \in Job /\ migrate'.image = migrate.image
      /\ migrate'.fd # None <=> migrate'.st = "open"
      /\ path' \in OrNone(Files) /\ schema' \in [Files -> 0 .. MaxImage]
      /\ path # None => path' = path /\ schema'[path] >= schema[path]
      /\ migrate'.st = "open" => migrate'.fd = path'
      /\ migrate'.st = "done" =>
           /\ migrate.st = "open" /\ path' = path
           /\ migrate.fd = path => schema'[path] >= migrate.image
  <2>1. CASE MigrateOpen /\ JobOpens(migrate)
    <3>1. PICK f \in Files :
            Opens(f) /\ migrate' = [migrate EXCEPT !.st = "open", !.fd = f]
      BY <2>1 DEF JobOpens
    <3>2. /\ migrate' \in Job /\ migrate'.image = migrate.image
          /\ migrate'.st = "open" /\ migrate'.fd = f
      BY <1>1, <3>1 DEF Job, OrNone
    <3>3. /\ path' = f /\ schema' \in [Files -> 0 .. MaxImage]
          /\ path # None => path' = path /\ schema' = schema
      BY <1>1, <3>1, OpensFacts
    <3>4. path # None => schema[path] \in Nat
      BY <1>1 DEF Typed, TypeOK, OrNone
    <3>. QED
      BY <3>1, <3>2, <3>3, <3>4 DEF OrNone
  <2>2. CASE JobEnds(migrate, "failed") /\ path' = path /\ schema' = schema
    <3>1. /\ migrate' \in Job /\ migrate'.image = migrate.image
          /\ migrate'.st = "failed" /\ migrate'.fd = None
      BY <1>1, <2>2 DEF JobEnds, Job, OrNone
    <3>2. path # None => schema[path] \in Nat
      BY <1>1 DEF Typed, TypeOK, OrNone
    <3>. QED
      BY <1>1, <2>2, <3>1, <3>2 DEF Typed, TypeOK
  <2>3. CASE /\ migrate.st = "open" /\ path' = path
             /\ schema' = Applied(migrate.fd, migrate.image)
             /\ JobEnds(migrate, "done")
    <3>1. /\ migrate' \in Job /\ migrate'.image = migrate.image
          /\ migrate'.st = "done" /\ migrate'.fd = None
      BY <1>1, <2>3 DEF JobEnds, Job, OrNone
    <3>2. migrate.image \in Image /\ migrate.fd \in Files
      BY <1>1, <2>3 DEF Typed, TypeOK, Job, Image, OrNone
    <3>3. /\ schema' \in [Files -> 0 .. MaxImage]
          /\ schema'[migrate.fd] >= migrate.image
          /\ \A f \in Files : schema'[f] >= schema[f]
      BY <1>1, <2>3, <3>2, AppliedFacts
    <3>4. path # None => path \in Files
      BY <1>1 DEF Typed, TypeOK, OrNone
    <3>. QED
      BY <1>1, <2>3, <3>1, <3>3, <3>4 DEF Typed, TypeOK
  <2>. QED
    BY <2>1, <2>2, <2>3 DEF MigrateOpen, MigrateApply
<1>4. Typed'
  BY <1>1, <1>2, <1>3 DEF Typed, TypeOK, Api, ApiStates
<1>5. BootInv'
  BY <1>1, <1>2 DEF BootInv
<1>6. \A n \in Image : Serves(n) => Serves(n)'
  BY <1>1, <1>2, <1>3, ServesKept DEF Resetting
<1>7. migrate.image \in Image /\ api.image \in Image
  BY <1>1 DEF Typed, TypeOK, Job, Api, Image
<1>8. DiskInv'
  <2>1. reset'.st = "open" => reset'.fd = path'
    <3>1. reset.st = "open" => path # None
      BY <1>1 DEF DiskInv, Typed, TypeOK
    <3>. QED
      BY <1>1, <1>2, <1>3, <3>1 DEF DiskInv
  <2>2. ASSUME ~mishap
        PROVE  /\ api'.fd # None => api'.fd = path'
               /\ migrate'.st = "open" => migrate'.fd = path' \/ Serves(migrate.image)'
               /\ migrate'.st = "done" => Serves(migrate.image)'
               /\ api'.st = "waiting" => migrate'.image = api'.image
               /\ api'.st \in {"booting", "listening", "exited"} => Serves(api.image)'
    <3>1. migrate'.st = "done" => Serves(migrate.image)'
      <4>1. SUFFICES ASSUME migrate'.st = "done" PROVE Serves(migrate.image)'
        OBVIOUS
      <4>2. migrate.fd = path \/ Serves(migrate.image)
        BY <1>1, <1>3, <2>2, <4>1 DEF DiskInv
      <4>3. migrate.fd # None
        BY <1>1, <1>3, <4>1 DEF Typed, TypeOK
      <4>4. CASE migrate.fd = path
        BY <1>3, <4>1, <4>3, <4>4 DEF Serves
      <4>5. CASE Serves(migrate.image)
        BY <1>3, <1>6, <1>7, <4>5 DEF Serves
      <4>. QED
        BY <4>2, <4>4, <4>5
    <3>2. api'.st \in {"booting", "listening", "exited"} => Serves(api.image)'
      BY <1>1, <1>2, <1>6, <1>7, <2>2 DEF DiskInv, Serves
    <3>3. api'.fd # None => api'.fd = path'
      BY <1>1, <1>2, <1>3, <2>2 DEF DiskInv
    <3>. QED
      BY <1>1, <1>2, <1>3, <2>2, <3>1, <3>2, <3>3 DEF DiskInv
  <2>. QED
    BY <1>2, <1>3, <2>1, <2>2 DEF DiskInv
<1>. QED
  BY <1>4, <1>5, <1>8 DEF Inv

\* Steps that leave the file and the two commands alone: the API is started over
\* a migrated database, or was before.
LEMMA ApiMoves ==
    ASSUME Inv, UNCHANGED <<path, schema, migrate, reset, mishap>>,
           image' \in 1 .. MaxImage, image' >= image,
           reachable' \in BOOLEAN, web' \in BOOLEAN,
           left' \in [ups: 0 .. MaxUps, faults: 0 .. MaxFaults, resets: 0 .. MaxResets],
           api' \in Api, api'.image = api.image, api'.fd \in {None, api.fd},
           api'.fd # None => api'.st = "listening",
           BootInv',
           api'.st = "waiting" => api.st = "waiting",
           api'.st \in {"booting", "listening", "exited"} =>
             \/ api.st \in {"booting", "listening", "exited"}
             \/ api.st = "waiting" /\ migrate.st = "done"
    PROVE  Inv'
<1>1. Typed /\ DiskInv
  BY DEF Inv
<1>2. api.image \in Nat /\ migrate.image \in Nat /\ reset.image \in Nat
      /\ image \in Nat /\ image' \in Nat
  BY <1>1 DEF Typed, TypeOK, Api, Job, Image
<1>3. Typed'
  <2>1. api'.image \in 0 .. image'
    BY <1>1, <1>2 DEF Typed, TypeOK
  <2>2. /\ api'.st \in ApiStates /\ api'.env \in OrNone(Environments)
        /\ api'.fd \in OrNone(Files) /\ api'.access \in BOOLEAN
        /\ api'.named \subseteq Variables
        /\ api'.health \in {"none", "ok", "unavailable"}
    BY DEF Api
  <2>3. migrate'.image <= image' /\ reset'.image <= image'
    BY <1>1, <1>2 DEF Typed
  <2>4. TypeOK'
    BY <1>1, <2>1, <2>2 DEF Typed, TypeOK
  <2>. QED
    BY <2>3, <2>4 DEF Typed
<1>4. ASSUME NEW n \in Image PROVE Serves(n)' <=> Serves(n)
  BY DEF Serves, Resetting
<1>5. api.image \in Image /\ migrate.image \in Image
  BY <1>1 DEF Typed, TypeOK, Job, Api, Image
<1>6. DiskInv'
  <2>1. ASSUME ~mishap
        PROVE  /\ api'.fd # None => api'.fd = path
               /\ migrate.st = "open" => migrate.fd = path \/ Serves(migrate.image)
               /\ migrate.st = "done" => Serves(migrate.image)
               /\ api'.st = "waiting" => migrate.image = api.image
               /\ api'.st \in {"booting", "listening", "exited"} => Serves(api.image)
    BY <1>1, <2>1 DEF DiskInv
  <2>. QED
    BY <1>1, <1>4, <1>5, <2>1 DEF DiskInv, Serves, Resetting
<1>. QED
  BY <1>3, <1>6 DEF Inv

\* A boot, a failed one, a crash, a restart, a start.
LEMMA ProcessInv ==
    ASSUME Inv, Boot \/ BindFails \/ ApiCrashes \/ ApiRestarts \/ ApiStarts
    PROVE  Inv'
<1>1. Typed /\ BootInv /\ api \in Api
  BY DEF Inv, Typed
<1>2. UNCHANGED <<image, path, schema, reachable, migrate, reset, web, mishap>>
  BY DEF Boot, BindFails, ApiCrashes, ApiRestarts, ApiStarts, disk
<1>7. left' \in [ups: 0 .. MaxUps, faults: 0 .. MaxFaults, resets: 0 .. MaxResets]
  BY <1>1, LeftFacts
     DEF Boot, BindFails, ApiCrashes, ApiRestarts, ApiStarts, Typed, TypeOK
<1>3. /\ image' \in 1 .. MaxImage /\ image' >= image
      /\ reachable' \in BOOLEAN /\ web' \in BOOLEAN
  BY <1>1, <1>2 DEF Typed, TypeOK
<1>4. CASE \E named \in SUBSET Variables :
             /\ api' = Exited(named)
             /\ api.st \in {"booting", "listening"}
             /\ named # {} => named = Offending(api.env)
  <2>1. PICK named \in SUBSET Variables :
             /\ api' = Exited(named)
             /\ api.st \in {"booting", "listening"}
             /\ named # {} => named = Offending(api.env)
    BY <1>4
  <2>2. /\ api' \in Api /\ api'.st = "exited" /\ api'.fd = None
        /\ api'.env = api.env /\ api'.image = api.image /\ api'.named = named
    BY <1>1, <2>1, ApiFields
  <2>3. BootInv'
    BY <1>1, <2>1, <2>2 DEF BootInv
  <2>. QED
    BY <1>2, <1>3, <1>7, <2>1, <2>2, <2>3, ApiMoves
<1>5. CASE /\ api.st = "booting" /\ Accepted(api.env)
           /\ api' = [api EXCEPT !.st = "listening", !.named = {},
                                 !.access = HasVerifier(api.env)]
  <2>1. HasVerifier(api.env) \in BOOLEAN
    BY DEF HasVerifier, AccessAsked
  <2>2. /\ api' \in Api /\ api'.st = "listening" /\ api'.fd = api.fd
        /\ api'.env = api.env /\ api'.image = api.image /\ api'.named = {}
        /\ api'.access = HasVerifier(api.env)
    BY <1>1, <1>5, <2>1 DEF Api, ApiStates
  <2>3. BootInv'
    BY <1>1, <1>5, <2>2 DEF BootInv
  <2>. QED
    BY <1>2, <1>3, <1>5, <1>7, <2>2, <2>3, ApiMoves
<1>6. CASE /\ api' = [api EXCEPT !.st = "booting"]
           /\ \/ api.st = "exited"
              \/ api.st = "waiting" /\ migrate.st = "done"
  <2>1. /\ api' \in Api /\ api'.st = "booting" /\ api'.fd = api.fd
        /\ api'.env = api.env /\ api'.image = api.image /\ api'.named = api.named
    BY <1>1, <1>6 DEF Api, ApiStates
  <2>2. BootInv'
    BY <1>1, <1>6, <2>1 DEF BootInv
  <2>3. api.fd = None
    BY <1>1, <1>6 DEF Typed, TypeOK
  <2>. QED
    BY <1>2, <1>3, <1>6, <1>7, <2>1, <2>2, <2>3, ApiMoves
<1>. QED
  <2>1. CASE Boot
    BY <1>4, <1>5, <2>1, OffendingTypes DEF Boot, Accepted
  <2>2. CASE BindFails \/ ApiCrashes
    BY <1>4, <2>2 DEF BindFails, ApiCrashes
  <2>3. CASE ApiRestarts
    BY <1>6, <2>3 DEF ApiRestarts
  <2>4. CASE ApiStarts
    BY <1>6, <2>4 DEF ApiStarts
  <2>. QED
    BY <2>1, <2>2, <2>3, <2>4

\* What surrounds the processes.
LEMMA SurroundingsInv ==
    ASSUME Inv, Build \/ WebStarts \/ Outage \/ Mended
    PROVE  Inv'
<1>1. Typed /\ BootInv /\ api \in Api
  BY DEF Inv, Typed
<1>2. /\ UNCHANGED <<path, schema, migrate, api, reset, mishap>>
      /\ \/ image' = image
         \/ image < MaxImage /\ image' = image + 1
  BY DEF Build, WebStarts, Outage, Mended, disk
<1>3. reachable' \in BOOLEAN /\ web' \in BOOLEAN
  BY <1>1 DEF Build, WebStarts, Outage, Mended, disk, Typed, TypeOK
<1>7. left' \in [ups: 0 .. MaxUps, faults: 0 .. MaxFaults, resets: 0 .. MaxResets]
  BY <1>1, LeftFacts DEF Build, WebStarts, Outage, Mended, Typed, TypeOK
<1>4. image' \in 1 .. MaxImage /\ image' >= image
  BY <1>1, <1>2 DEF Typed, TypeOK
<1>5. BootInv'
  BY <1>1, <1>2 DEF BootInv
<1>6. api'.fd # None => api'.st = "listening"
  BY <1>1, <1>2 DEF Typed, TypeOK
<1>. QED
  BY <1>1, <1>2, <1>3, <1>4, <1>5, <1>6, <1>7, ApiMoves
     DEF Api, ApiStates

\* A request connects, or fails to.
LEMMA ConnectInv ==
    ASSUME Inv, Health \/ UseDb
    PROVE  Inv'
<1>1. Typed /\ BootInv /\ DiskInv /\ api \in Api
  BY DEF Inv, Typed
<1>2. UNCHANGED <<image, reachable, migrate, web, reset, left, mishap>>
  BY DEF Health, UseDb
<1>3. PICK fd \in OrNone(Files), health \in {"none", "ok", "unavailable"} :
        /\ Connects(fd) /\ api.st = "listening"
        /\ api' = [api EXCEPT !.fd = fd, !.health = health]
  <2>1. CASE Health
    BY <2>1 DEF Health, Report
  <2>2. CASE UseDb
    <3>1. PICK fd \in OrNone(Files) : Connects(fd) /\ api' = [api EXCEPT !.fd = fd]
      BY <2>2 DEF UseDb
    <3>2. api' = [api EXCEPT !.fd = fd, !.health = api.health]
      BY <1>1, <3>1 DEF Api
    <3>3. api.health \in {"none", "ok", "unavailable"}
      BY <1>1 DEF Api
    <3>. QED
      BY <2>2, <3>1, <3>2, <3>3 DEF UseDb
  <2>. QED
    BY <2>1, <2>2
<1>4. /\ api' \in Api /\ api'.st = "listening" /\ api'.fd = fd
      /\ api'.env = api.env /\ api'.image = api.image /\ api'.named = api.named
      /\ api'.access = api.access
  BY <1>1, <1>3 DEF Api
<1>5. /\ path' \in OrNone(Files) /\ schema' \in [Files -> 0 .. MaxImage]
      /\ path # None => path' = path /\ schema' = schema
      /\ \/ fd = api.fd /\ path' = path
         \/ fd = path'
         \/ fd = None
  <2>1. CASE Opens(fd)
    BY <1>1, <2>1, OpensFacts DEF OrNone
  <2>2. CASE UNCHANGED <<path, schema>> /\ (fd = api.fd \/ fd = None)
    BY <1>1, <2>2 DEF Typed, TypeOK
  <2>. QED
    BY <1>3, <2>1, <2>2 DEF Connects
<1>6. Typed'
  <2>1. /\ api'.st \in ApiStates /\ api'.env \in OrNone(Environments)
        /\ api'.fd \in OrNone(Files) /\ api'.access \in BOOLEAN
        /\ api'.named \subseteq Variables
        /\ api'.health \in {"none", "ok", "unavailable"}
    BY <1>4 DEF Api
  <2>2. TypeOK'
    BY <1>1, <1>2, <1>4, <1>5, <2>1 DEF Typed, TypeOK
  <2>. QED
    BY <1>1, <1>2, <1>4, <2>2 DEF Typed
<1>7. BootInv'
  BY <1>1, <1>3, <1>4 DEF BootInv
<1>8. \A n \in Image : Serves(n) => Serves(n)'
  <2>1. path # None => schema[path] \in Nat
    BY <1>1 DEF Typed, TypeOK, OrNone
  <2>. QED
    BY <1>1, <1>2, <1>5, <2>1, ServesKept DEF Resetting
<1>9. DiskInv'
  <2>1. reset'.st = "open" => reset'.fd = path'
    <3>1. reset.st = "open" => path # None
      BY <1>1 DEF DiskInv, Typed, TypeOK
    <3>. QED
      BY <1>1, <1>2, <1>5, <3>1 DEF DiskInv
  <2>2. api.image \in Image /\ migrate.image \in Image
    BY <1>1 DEF Typed, TypeOK, Job, Api, Image
  <2>3. ASSUME ~mishap
        PROVE  /\ api'.fd # None => api'.fd = path'
               /\ migrate.st = "open" => migrate.fd = path' \/ Serves(migrate.image)'
               /\ migrate.st = "done" => Serves(migrate.image)'
               /\ Serves(api.image)'
    <3>1. migrate.st = "open" => migrate.fd # None
      BY <1>1 DEF Typed, TypeOK
    <3>2. Serves(migrate.image) => Serves(migrate.image)'
      BY <1>2, <1>8, <2>2 DEF Serves
    <3>3. Serves(api.image) => Serves(api.image)'
      BY <1>4, <1>8, <2>2 DEF Serves
    <3>. QED
      BY <1>1, <1>3, <1>4, <1>5, <2>3, <3>1, <3>2, <3>3 DEF DiskInv
  <2>. QED
    BY <1>2, <1>4, <2>1, <2>3 DEF DiskInv, Serves
<1>. QED
  BY <1>6, <1>7, <1>9 DEF Inv

\* A reset takes the file away only in a state from which it will serve all that
\* was served; if it fails after that, it is a mishap.
LEMMA ResetInv ==
    ASSUME Inv, ResetDrop \/ ResetOpen \/ ResetApply
    PROVE  Inv'
<1>1. Typed /\ BootInv /\ DiskInv /\ reset \in Job
  BY DEF Inv, Typed, TypeOK
<1>2. UNCHANGED <<image, reachable, migrate, api, web>>
  BY DEF ResetDrop, ResetOpen, ResetApply
<1>3. BootInv'
  BY <1>1, <1>2 DEF BootInv
<1>4. /\ migrate.image \in Image /\ api.image \in Image /\ reset.image \in Image
      /\ image \in Image /\ api.image <= image
  BY <1>1 DEF Typed, TypeOK, Job, Api, Image
<1>5. path # None => schema[path] \in Nat
  BY <1>1 DEF Typed, TypeOK, OrNone
<1>6. ASSUME reset' \in Job, reset'.image <= image,
             reset'.fd # None <=> reset'.st = "open",
             path' \in OrNone(Files), schema' \in [Files -> 0 .. MaxImage],
             left' \in [ups: 0 .. MaxUps, faults: 0 .. MaxFaults,
                        resets: 0 .. MaxResets],
             mishap' \in BOOLEAN
      PROVE  Typed'
  BY <1>1, <1>2, <1>6 DEF Typed, TypeOK, Api, ApiStates
<1>7. CASE ResetDrop
  <2>1. /\ reset' = [st |-> "start", fd |-> None, image |-> image]
        /\ path' = None /\ schema' = schema /\ mishap' = (mishap \/ api.fd # None)
        /\ left.resets > 0 /\ left' = [left EXCEPT !.resets = @ - 1]
    BY <1>7 DEF ResetDrop
  <2>2. reset' \in Job /\ reset'.image = image /\ reset'.st = "start"
        /\ reset'.fd = None
    BY <1>4, <2>1 DEF Job, OrNone, Image
  <2>3. Typed'
    <3>1. left' \in [ups: 0 .. MaxUps, faults: 0 .. MaxFaults, resets: 0 .. MaxResets]
      BY <1>1, <2>1, LeftFacts
    <3>. QED
      BY <1>1, <1>4, <1>6, <2>1, <2>2, <3>1 DEF Typed, TypeOK, OrNone, Image
  <2>4. \A n \in Image : n <= image => Serves(n)'
    BY <1>4, <2>2 DEF Serves, Resetting, Image
  <2>5. Serves(migrate.image)' /\ Serves(api.image)'
    <3>1. migrate.image <= image
      BY <1>1 DEF Typed
    <3>. QED
      BY <1>2, <1>4, <2>4, <3>1 DEF Serves
  <2>6. DiskInv'
    BY <1>1, <1>2, <2>1, <2>2, <2>5 DEF DiskInv, Serves
  <2>. QED
    BY <1>3, <2>3, <2>6 DEF Inv
<1>8. CASE ResetFails /\ UNCHANGED <<path, schema, left>>
  <2>1. /\ reset' \in Job /\ reset'.image = reset.image /\ reset'.st = "failed"
        /\ reset'.fd = None /\ mishap'
    BY <1>1, <1>8 DEF ResetFails, JobEnds, Job, OrNone
  <2>2. Typed'
    BY <1>1, <1>6, <1>8, <2>1, <1>8 DEF Typed, TypeOK, ResetFails
  <2>3. DiskInv'
    BY <2>1 DEF DiskInv
  <2>. QED
    BY <1>3, <2>2, <2>3 DEF Inv
<1>9. CASE /\ reset.st = "start" /\ JobOpens(reset) /\ UNCHANGED <<mishap, left>>
  <2>1. PICK f \in Files : Opens(f) /\ reset' = [reset EXCEPT !.st = "open", !.fd = f]
    BY <1>9 DEF JobOpens
  <2>2. /\ reset' \in Job /\ reset'.image = reset.image
        /\ reset'.st = "open" /\ reset'.fd = f
    BY <1>1, <2>1 DEF Job, OrNone
  <2>3. /\ path' = f /\ schema' \in [Files -> 0 .. MaxImage]
        /\ path # None => path' = path /\ schema' = schema
    BY <1>1, <2>1, OpensFacts
  <2>4. Typed'
    BY <1>1, <1>6, <1>9, <2>1, <2>2, <2>3 DEF Typed, TypeOK, OrNone
  <2>5. \A n \in Image : Serves(n) => Serves(n)'
    BY <1>1, <1>5, <2>2, <2>3, ServesKept DEF Resetting
  <2>6. /\ Serves(migrate.image) => Serves(migrate.image)'
        /\ Serves(api.image) => Serves(api.image)'
    BY <1>2, <1>4, <2>5 DEF Serves
  <2>7. /\ api.fd # None /\ api.fd = path => api.fd = path'
        /\ migrate.st = "open" /\ migrate.fd = path => migrate.fd = path'
    BY <1>1, <2>3 DEF Typed, TypeOK
  <2>8. DiskInv'
    <3>1. ASSUME ~mishap
          PROVE  /\ api.fd # None => api.fd = path'
                 /\ migrate.st = "open" => migrate.fd = path' \/ Serves(migrate.image)'
                 /\ migrate.st = "done" => Serves(migrate.image)'
                 /\ api.st = "waiting" => migrate.image = api.image
                 /\ api.st \in {"booting", "listening", "exited"} => Serves(api.image)'
      BY <1>1, <2>6, <2>7, <3>1 DEF DiskInv
    <3>. QED
      BY <1>2, <1>9, <2>2, <2>3, <3>1 DEF DiskInv, Serves
  <2>. QED
    BY <1>3, <2>4, <2>8 DEF Inv
<1>10. CASE /\ reset.st = "open" /\ schema' = Applied(reset.fd, reset.image)
            /\ JobEnds(reset, "done") /\ UNCHANGED <<path, mishap, left>>
  <2>1. /\ reset' \in Job /\ reset'.image = reset.image
        /\ reset'.st = "done" /\ reset'.fd = None
    BY <1>1, <1>10 DEF JobEnds, Job, OrNone
  <2>2. reset.fd \in Files /\ reset.fd = path
    BY <1>1, <1>10 DEF Typed, TypeOK, Job, OrNone, DiskInv
  <2>3. /\ schema' \in [Files -> 0 .. MaxImage]
        /\ schema'[path] >= reset.image /\ schema'[path] >= schema[path]
    BY <1>1, <1>4, <1>10, <2>2, AppliedFacts
  <2>4. Typed'
    BY <1>1, <1>6, <1>10, <2>1, <2>3 DEF Typed, TypeOK
  <2>5. schema'[path] \in Nat /\ path # None /\ schema[path] \in Nat
    BY <1>5, <2>2, <2>3
  <2>6. ASSUME NEW n \in Image, Serves(n) PROVE Serves(n)'
    BY <1>4, <1>10, <2>3, <2>5, <2>6 DEF Serves, Image
  <2>7. /\ Serves(migrate.image) => Serves(migrate.image)'
        /\ Serves(api.image) => Serves(api.image)'
    BY <1>2, <1>4, <2>6 DEF Serves
  <2>8. DiskInv'
    <3>1. ASSUME ~mishap
          PROVE  /\ api.fd # None => api.fd = path'
                 /\ migrate.st = "open" => migrate.fd = path' \/ Serves(migrate.image)'
                 /\ migrate.st = "done" => Serves(migrate.image)'
                 /\ api.st = "waiting" => migrate.image = api.image
                 /\ api.st \in {"booting", "listening", "exited"} => Serves(api.image)'
      BY <1>1, <1>10, <2>7, <3>1 DEF DiskInv
    <3>. QED
      BY <1>2, <1>10, <2>1, <3>1 DEF DiskInv, Serves
  <2>. QED
    BY <1>3, <2>4, <2>8 DEF Inv
<1>. QED
  <2>1. CASE ResetOpen
    BY <1>8, <1>9, <2>1 DEF ResetOpen
  <2>2. CASE ResetApply
    BY <1>8, <1>10, <2>2 DEF ResetApply
  <2>. QED
    BY <1>7, <2>1, <2>2

LEMMA UpInv ==
    ASSUME Inv, Up
    PROVE  Inv'
<1>1. Typed /\ BootInv /\ DiskInv /\ api \in Api
  BY DEF Inv, Typed
<1>2. /\ UNCHANGED <<image, path, schema, reachable, web, reset, mishap>>
      /\ migrate' = [st |-> "start", fd |-> None, image |-> image]
      /\ left.ups > 0 /\ left' = [left EXCEPT !.ups = @ - 1]
  BY DEF Up, disk
<1>3. /\ migrate' \in Job /\ migrate'.st = "start" /\ migrate'.fd = None
      /\ migrate'.image = image
  BY <1>1, <1>2 DEF Typed, TypeOK, Job, OrNone
<1>4. left' \in [ups: 0 .. MaxUps, faults: 0 .. MaxFaults, resets: 0 .. MaxResets]
  BY <1>1, <1>2, LeftFacts
<1>5. image \in Image /\ api.image \in Image
  BY <1>1 DEF Typed, TypeOK, Api, Image
<1>6. PICK env \in Environments :
        \/ api' = api /\ api.st \notin {"absent", "waiting"}
        \/ api' = [NoApi EXCEPT !.st = "waiting", !.env = env, !.image = image]
  BY DEF Up
<1>7. CASE api' = api /\ api.st \notin {"absent", "waiting"}
  <2>1. Typed'
    BY <1>1, <1>2, <1>3, <1>4, <1>7 DEF Typed, TypeOK, ApiStates
  <2>2. BootInv'
    BY <1>1, <1>7 DEF BootInv
  <2>3. DiskInv'
    BY <1>1, <1>2, <1>3, <1>7 DEF DiskInv, Serves, Resetting
  <2>. QED
    BY <2>1, <2>2, <2>3 DEF Inv
<1>8. CASE api' = [NoApi EXCEPT !.st = "waiting", !.env = env, !.image = image]
  <2>1. api' = [st |-> "waiting", env |-> env, image |-> image, fd |-> None,
                access |-> FALSE, named |-> {}, health |-> "none"]
    BY <1>8 DEF NoApi
  <2>2. /\ api'.st = "waiting" /\ api'.env = env /\ api'.image = image
        /\ api'.fd = None /\ api'.access = FALSE /\ api'.named = {}
        /\ api'.health = "none"
    BY <2>1
  <2>3. api' \in Api
    BY <1>5, <2>1 DEF Api, ApiStates, OrNone
  <2>4. Typed'
    <3>1. /\ api'.st \in ApiStates /\ api'.env \in OrNone(Environments)
          /\ api'.fd \in OrNone(Files) /\ api'.access \in BOOLEAN
          /\ api'.named \subseteq Variables
          /\ api'.health \in {"none", "ok", "unavailable"}
      BY <2>3 DEF Api
    <3>2. api'.image \in 0 .. image'
      BY <1>2, <1>5, <2>2 DEF Image
    <3>3. TypeOK'
      BY <1>1, <1>2, <1>3, <1>4, <2>2, <3>1, <3>2 DEF Typed, TypeOK
    <3>. QED
      BY <1>1, <1>2, <1>3, <1>5, <2>3, <3>3 DEF Typed, Image
  <2>5. BootInv'
    BY <2>2 DEF BootInv
  <2>6. DiskInv'
    BY <1>1, <1>2, <1>3, <2>2 DEF DiskInv
  <2>. QED
    BY <2>4, <2>5, <2>6 DEF Inv
<1>. QED
  BY <1>6, <1>7, <1>8

LEMMA PowerLossInv ==
    ASSUME Inv, PowerLoss
    PROVE  Inv'
<1>1. Typed /\ BootInv /\ DiskInv /\ api \in Api
  BY DEF Inv, Typed
<1>2. /\ UNCHANGED <<image, path, schema, reachable, web>>
      /\ left.faults > 0 /\ left' = [left EXCEPT !.faults = @ - 1]
  BY DEF PowerLoss, disk
<1>3. left' \in [ups: 0 .. MaxUps, faults: 0 .. MaxFaults, resets: 0 .. MaxResets]
  BY <1>1, <1>2, LeftFacts
<1>4. /\ migrate' \in Job /\ migrate'.image = migrate.image
      /\ \/ migrate' = migrate /\ migrate.st # "open"
         \/ migrate'.st = "failed" /\ migrate'.fd = None
  <2>1. CASE migrate.st \in {"start", "open"}
    BY <1>1, <2>1 DEF PowerLoss, JobEnds, Job, OrNone, Typed, TypeOK
  <2>2. CASE migrate.st \notin {"start", "open"}
    BY <1>1, <2>2 DEF PowerLoss, Typed, TypeOK
  <2>. QED
    BY <2>1, <2>2
<1>5. /\ reset' \in Job /\ reset'.image = reset.image
      /\ \/ reset' = reset /\ ~Resetting /\ mishap' = mishap
         \/ reset'.st = "failed" /\ reset'.fd = None /\ mishap'
      /\ mishap' \in BOOLEAN
  <2>1. CASE Resetting
    <3>1. reset' = [reset EXCEPT !.st = "failed", !.fd = None] /\ mishap' = TRUE
      BY <2>1 DEF PowerLoss, JobEnds, Resetting
    <3>2. reset \in Job
      BY <1>1 DEF Typed, TypeOK
    <3>. QED
      BY <3>1, <3>2 DEF Job, OrNone
  <2>2. CASE ~Resetting
    BY <1>1, <2>2 DEF PowerLoss, Resetting, Typed, TypeOK
  <2>. QED
    BY <2>1, <2>2
<1>6. /\ api' \in Api /\ api'.image = api.image /\ api'.env = api.env
      /\ \/ api' = api /\ api.st \in {"absent", "waiting"}
         \/ /\ api'.st = "exited" /\ api.st \notin {"absent", "waiting"}
            /\ api'.named = {} /\ api'.fd = None
  <2>1. CASE api.st \in {"absent", "waiting"}
    BY <1>1, <2>1 DEF PowerLoss
  <2>2. CASE api.st \notin {"absent", "waiting"}
    <3>1. api' = Exited({})
      BY <2>2 DEF PowerLoss
    <3>. QED
      BY <1>1, <2>2, <3>1, ApiFields
  <2>. QED
    BY <2>1, <2>2
<1>7. Typed'
  <2>1. /\ api'.st \in ApiStates /\ api'.env \in OrNone(Environments)
        /\ api'.fd \in OrNone(Files) /\ api'.access \in BOOLEAN
        /\ api'.named \subseteq Variables
        /\ api'.health \in {"none", "ok", "unavailable"}
    BY <1>6 DEF Api
  <2>2. /\ migrate'.fd # None <=> migrate'.st = "open"
        /\ reset'.fd # None <=> reset'.st = "open"
    BY <1>1, <1>4, <1>5 DEF Typed, TypeOK
  <2>3. TypeOK'
    BY <1>1, <1>2, <1>3, <1>4, <1>5, <1>6, <2>1, <2>2 DEF Typed, TypeOK
  <2>. QED
    BY <1>1, <1>2, <1>4, <1>5, <1>6, <2>3 DEF Typed
<1>8. BootInv'
  BY <1>1, <1>6 DEF BootInv
<1>9. DiskInv'
  <2>1. reset'.st = "open" => reset'.fd = path'
    BY <1>1, <1>2, <1>5 DEF DiskInv
  <2>2. ASSUME ~mishap'
        PROVE  /\ api'.fd # None => api'.fd = path
               /\ migrate'.st # "open"
               /\ migrate'.st = "done" => Serves(migrate.image)
               /\ api'.st = "waiting" => migrate.image = api.image
               /\ api'.st \in {"booting", "listening", "exited"} => Serves(api.image)
    <3>1. ~mishap
      BY <1>5, <2>2
    <3>2. api.st \in ApiStates
      BY <1>1 DEF Api
    <3>. QED
      BY <1>1, <1>4, <1>6, <3>1, <3>2 DEF DiskInv, ApiStates
  <2>3. ~mishap' => reset' = reset
    BY <1>5
  <2>. QED
    BY <1>2, <1>4, <1>6, <2>1, <2>2, <2>3 DEF DiskInv, Serves, Resetting
<1>. QED
  BY <1>7, <1>8, <1>9 DEF Inv

LEMMA NextInv == ASSUME Inv, [Next]_vars PROVE Inv'
<1>1. CASE UNCHANGED vars
  BY <1>1 DEF vars, disk, Inv, Typed, TypeOK, BootInv, DiskInv, Serves, Resetting
<1>. QED
  BY <1>1, MigrateInv, ResetInv, ProcessInv, ConnectInv, SurroundingsInv, UpInv,
     PowerLossInv DEF Next

-----------------------------------------------------------------------------
(* The theorems.                                                           *)

\* What a process was booted with stays what it runs with, and short of a mishap
\* the file DB_PATH names serves every process started over it, for any
\* environments, files, images and bounds (docker-compose.yml, db/sqlite.ts).
THEOREM ServiceInvariant == Spec => []Inv
  BY InitInv, NextInv, PTL DEF Spec

\* Every variable keeps its type, and only a process that runs has a file open.
THEOREM ServiceTypeCorrect == Spec => []TypeOK
<1>1. Inv => TypeOK
  BY DEF Inv, Typed
<1>. QED
  BY <1>1, ServiceInvariant, PTL

\* An API that accepts connections verifies Access assertions exactly when the
\* operator asked for that, with both values, and has a secret (config.ts).
THEOREM BootFailsClosed == Spec => []FailsClosed
<1>1. Inv => FailsClosed
  BY AcceptedMeansUsable DEF Inv, BootInv, FailsClosed, HasVerifier
<1>. QED
  BY <1>1, ServiceInvariant, PTL

\* Whatever is wrong with an environment, what two refused boots name is all
\* there is to repair (config.ts: loadConfig, ConfigValidationError).
THEOREM BootNamesEveryFault == Spec => []TwoRepairsSuffice
<1>1. Inv => TwoRepairsSuffice
  BY RepairsSuffice DEF Inv, BootInv, TwoRepairsSuffice
<1>. QED
  BY <1>1, ServiceInvariant, PTL

\* Short of a mishap, what health reports as ok has this image's tables, for any
\* number of upgrades, crashes, outages and resets (docker-compose.yml,
\* health.service.ts).
THEOREM HealthIsTrue == Spec => []HealthMeansQueryable
<1>1. Inv => HealthMeansQueryable
  <2>. SUFFICES ASSUME Inv, ~mishap, api.st = "listening", Report(api.fd) = "ok",
                       reset.st \notin {"start", "open"}
                PROVE  path = api.fd /\ schema[api.fd] >= api.image
    BY DEF HealthMeansQueryable, HealthIsGenuine
  <2>1. api.fd \in Files
    BY DEF Report
  <2>2. path = api.fd
    BY <2>1 DEF Inv, DiskInv
  <2>. QED
    BY <2>2 DEF Inv, DiskInv, Serves, Resetting
<1>. QED
  BY <1>1, ServiceInvariant, PTL

\* What the comment of docker-compose.yml says of the health check, without any
\* proviso, holds of a deployment whose operator never runs db:reset: the run
\* service_health refutes it for one who does.
THEOREM HealthIsGenuineWithoutResets ==
    Spec /\ [][~ResetDrop]_vars => []HealthIsGenuine
<1>. DEFINE NoReset == reset = NoJob /\ ~mishap
<1>1. Init => NoReset
  BY DEF Init
<1>2. NoReset /\ [Next]_vars /\ [~ResetDrop]_vars => NoReset'
  <2>. SUFFICES ASSUME NoReset, [Next]_vars, [~ResetDrop]_vars
                PROVE  reset' = reset /\ mishap' = mishap
    OBVIOUS
  <2>1. reset.st = "absent"
    BY DEF NoJob
  <2>2. CASE UNCHANGED vars
    BY <2>2 DEF vars
  <2>3. CASE Next /\ ~ResetDrop
    <3>1. ~ResetOpen /\ ~ResetApply
      BY <2>1 DEF ResetOpen, ResetApply
    <3>2. CASE PowerLoss
      BY <2>1, <3>2 DEF PowerLoss
    <3>. QED
      BY <2>3, <3>1, <3>2
         DEF Next, MigrateOpen, MigrateApply, Boot, BindFails, Health, UseDb,
             Build, Up, ApiStarts, WebStarts, ApiRestarts, ApiCrashes, Outage,
             Mended
  <2>. QED
    BY <2>2, <2>3
<1>3. NoReset /\ HealthMeansQueryable => HealthIsGenuine
  BY DEF HealthMeansQueryable
<1>. QED
  BY <1>1, <1>2, <1>3, HealthIsTrue, PTL DEF Spec

\* The site is opened over an API nginx can reach and a database with that API's
\* tables (docker-compose.yml: depends_on).
THEOREM SiteOpensOverService == Spec => WebOpensOnService
<1>1. Inv /\ [Next]_vars =>
        [web' # web => /\ api.st = "listening"
                       /\ OnPort3000(api.env)
                       /\ ~mishap /\ reset.st \notin {"start", "open"}
                            => schema[path] >= api.image]_vars
  <2>. SUFFICES ASSUME Inv, Next, web' # web
                PROVE  /\ api.st = "listening" /\ OnPort3000(api.env)
                       /\ ~mishap /\ reset.st \notin {"start", "open"}
                            => schema[path] >= api.image
    BY DEF vars
  <2>1. WebStarts
    BY DEF Next, MigrateOpen, MigrateApply, ResetDrop, ResetOpen, ResetApply, Boot,
           BindFails, Health, UseDb, Build, Up, ApiStarts, ApiRestarts, ApiCrashes,
           PowerLoss, Outage, Mended
  <2>. QED
    BY <2>1 DEF WebStarts, Healthy, Inv, DiskInv, Serves, Resetting
<1>. QED
  BY <1>1, ServiceInvariant, PTL DEF Spec, WebOpensOnService
=============================================================================

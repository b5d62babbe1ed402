# A formal model of myPersonalFinance

TLA+ models of the API, the web client and the deployment of this repository, the TLC
runs that check them on small instances, and TLAPS proofs for every instance.
Paths below are relative to the repository (`apps/api/src` is written `api/`,
`apps/web/src` is written `web/`).

## 1. The system

A Fastify API (one Node process, `better-sqlite3`, which is synchronous) and a React
single-page app. Each component with its state, operations, difficulties and what
makes it correct:

| Component | State | Operations | What is hard | What makes it correct |
| --- | --- | --- | --- | --- |
| Auth service and repository (`api/modules/auth/`) | `refresh_tokens` rows; per request: the row and `now` it remembers across an `await` | login, refresh (rotation, replay detection), logout | requests interleave at `await verifyPassword` and `await signAccessToken`; a rotation is two statements without a transaction; retries after lost responses; expiry | a session is not lost by half a rotation, a revoked token stays revoked, an ended session stays ended, one user's compromise ends that user's sessions only |
| Token and password libraries (`api/lib/tokens.ts`, `password.ts`) | none | sign, verify, mint, hash, expiry, durations | boundary of expiry, malformed TTLs | a token is refused from the instant it expires |
| Authenticate hook, Access verifier (`api/plugins/authenticate.ts`, `api/lib/cloudflare-access.ts`) | the key cache of `jose` | verify an edge assertion and a bearer token, choose the principal | several credentials at once, verification that fails or times out | acts for its caller or refuses; refuses before it creates anything |
| Account provisioning, `me` | `users` rows, unique by case-sensitive email | `findOrCreateUserByEmail`, `me` | a seed process between two of its statements | one account per address, created once, never replaced |
| Seed command (`api/db/seed.ts`) | none of its own | lookup, hash, insert | lookup and insert are separated by an `await`, in another process | an account that exists is left alone |
| Database lifecycle, health (`api/db/`, `api/modules/health/`) | the shared connection, the file and its WAL | open lazily, ping, close, migrate, reset | a reset under a running API, power loss, an unreachable path | health tells the truth, nothing is cached on failure |
| Boot configuration (`api/config.ts`, `server.ts`, `index.ts`) | the environment | validate, build the verifier | cross-field rule, values it lets through | Access is never half on; what boots can serve |
| Error handler (`api/plugins/errorHandler.ts`) | none | map an error to status and envelope | errors of the framework itself | every failure is one envelope the client can read and show |
| Money (`api/lib/money.ts`) | none | parse, format, add, subtract, negate | range, sign, leading zeros | exact or refused; parse and format are inverse |
| Web client (`web/api/`) | `localStorage` (all tabs); access token, `inFlight`, `authMode` (one tab) | `apiRequest`, `refreshAccessToken`, login, logout, `/me` | callers join a shared promise; tabs share the token, not the lock; lost messages; reloads | no replay of its own, every call settles, signed out is signed out |
| Web router and pages (`web/routes/`, `web/api/queries.ts`) | the query cache, the route | guards, sign-in, sign-out | a cached `/me` that outlives the session | the page shown agrees with the session |
| HTTP transport of the client, contracts (`web/api/http.ts`, `packages/contracts`) | none | fetch, map an answer to a value or an error | lost answers, error pages of a proxy | it sets out to refresh only when the API refused its credentials, and stores only a pair it was sent |
| Deployment (`docker-compose.yml`, `Makefile`) | containers, the volume | migrate, api, web; restart, upgrade | the order of starts after a failure, an upgrade or a power loss | the site opens over an API that can answer |
| OpenAPI document (`api/plugins/openapi.ts`) | none | collect the routes registered after it | order of registration | what is served is documented |

How they interact: the web client calls the API through nginx (in production behind
Cloudflare Access, which adds the assertion header); the API handlers call the
repository, which runs one statement at a time on the shared connection; the seed,
migrate and reset commands are processes of their own on the same file; the pages
read the token store through `useSyncExternalStore` and `/me` through the query
cache. Everything shared is either the database file or `localStorage`.

## 2. The models

| Module | Models | Used by |
| --- | --- | --- |
| `Sessions` | what the auth service promises | refined by `RefreshTokens` |
| `RefreshTokens` | login, refresh, logout and their table | `MCRefreshTokens`, `RefreshTokens_proofs` |
| `Authenticate` | the hook, provisioning, `/me`, the seed command | `MCAuthenticate`, `Authenticate_proofs` |
| `WebClient` | tabs, the refresh lock, login, logout | `MCWebClient`, `WebClient_proofs` |
| `WebRouter` | guards, screens, the cached `/me`, both kinds of sign-out | `MCWebRouter`, `WebRouter_proofs` |
| `Config` | the environment and `loadConfig` | `Service` |
| `Service` | boot, database file, health, reset, compose | `MCService`, `Service_proofs` |
| `Money`, `HttpContract`, `Credentials` | pure functions | `Library` |
| `Library` | callers that drive these functions | `MCLibrary`, `Library_proofs`, `Sums_proofs` |

The `MC` modules hold what TLC needs and nothing else: symmetry sets and the
instances' environments, strings and TTLs.

### `Sessions`: what the auth service promises

A session belongs to one owner, is `live`, then `ended`, for good. Revocation by
replay (`Revoke`) reaches all live sessions of one owner at once. A
revoked session with an accepted refresh in flight is `closing`: it either ends or
is live again. That is weaker than the documentation, and exactly what the code does.
`EndedForGood` and `OneOwnerAtATime` are what a reader may conclude from it, and
`RefreshTokens` inherits them through the refinement.

### `RefreshTokens`: the auth service

The table `refresh_tokens` as a function from tokens to rows, the requests being
served, the clock, and the tokens clients have been sent. The code between two
awaits is one action:

| Action | Code |
| --- | --- |
| `LoginLookup`, `LoginRefused`, `LoginVerified`, `LoginIssue`, `LoginInsertFails` | `login`, cut at `verifyPassword` and `signAccessToken` |
| `Refresh` (= `RefreshRefused`, `RefreshReplay` or `RefreshAccept`) | `refresh` up to its `await` |
| `RotationDone`, `RotationInsertFails`, `RotationCut`, `CrashMidRotation` | the second turn of `refresh`: both statements, none, or only the first |
| `Logout` | `logout` |
| `Tick`, `Crash` | the clock; the process dies, requests are lost, the table stays |

`session`, `parent`, `rotated`, `accessUntil`, `promise` and `overtaken` are history:
no guard reads them. A session is named by the token its login issued. `promise`
records what a client was told (a 204 to a logout, a 401 to a replay) and
`overtaken` that it was told so while it could not be kept.

Abstractions: a token and its digest are one value, drawn once; the columns `id` and
`created_at` have no reader; the clock does not go backwards, as `Date` does when the
host's time is set back; TTLs are valid durations; users are not deleted (no code
does); a statement that fails before its handler changed anything is a 500
that leaves the state alone, hence no action; clients present what they were sent, or
a value the database does not know.

### `Authenticate`: principals and accounts

The `authenticate` hook with its three awaits, `findOrCreateUserByEmail` statement by
statement, `/me`, and seed processes. The API is one thread: `Runnable` keeps other
requests out while one is between two statements; a seed run is not kept out.
Each address is one spelling, and `Normal` is `normaliseEmail`.
Why a verification fails is not told apart here, since every reason ends in the same
401; `Credentials` has the reasons.

### `WebClient`: the session in the browser

Tabs with calls, the `performRefresh` each caller may have started, the lock, login
and logout, and a server reduced to what the client can observe: rotation, replay,
logout. Requests and responses may be lost (`RefreshLost`, `LoginFails`,
`LogoutLost`); `Reload` forgets a tab's module state and leaves the requests it
sent (`orphans`), which the server may handle later or never. Left out: the access
token (any call may be answered 401), Access mode and the routes, which `WebRouter`
has: `login()` and `logout()` may be called at any time. `RefreshTokens` has the
interleavings inside the server.

### `WebRouter`: the page in the browser

One tab, two kinds of deployment. The tokens are named by the user they were issued
to, which is what the page can get wrong; how they rotate is `WebClient`'s matter.

| Action | Code |
| --- | --- |
| `GuardKnows`, `GuardAsks`, `Routed` | `beforeLoad` of the three routes: decided by `hasSession()` or a cached `/me`, else a request |
| `MeOk`, `MeRefused`, `MeFails`, `RefreshHandled`, `RefreshStored`, `RefreshFails` | `fetchMe` through `apiRequest`, the refresh and the replay included |
| `Notify`, `Refetch` | what `MePage` does when the token store changes, on mount and on focus |
| `SignIn`, `SignInReturns`, `SignOut`, `SignOutReturns`, `ClearCache`, `SignOutAccess` | the two screens' mutations |
| `Load`, `EdgeSignIn`, `EdgeExpires`, `ServerForgets`, `History` | the browser, the edge, the end of a session |

`fetch` has the request of the `['me']` query and one that `queryClient.clear()`
orphaned: the cache forgets it, but `apiRequest` still stores what it brings.
`stray` is history: such an orphan changed the tokens or the mode. The router, the
query cache and React are libraries. The order in which the continuations of a guard
and of a sign-out run is left open. The health query is left out, since no guard and no
credential depends on it.

### `Config` and `Service`: from a `.env` to a service that answers

`Config` keeps of every environment variable the form of its value (unset, blank, of
no known type, refused by a check on its content, fit, switched off) and what
`loadConfig` says of it, the rule across fields and Zod's way of skipping that rule after
some faults included (external: it is a rule of the library that the messages depend on).
`Service` has the containers, the commands and the file. A file is an inode, which a
process that opened it keeps after it was deleted; its schema is the number of migrations
applied, and migrations only add. `Health` and `UseDb` open the shared connection on
first use and keep it; a failure to open leaves nothing behind. `Up` recreates an API
whose image or environment changed and starts the migration anew; `PowerLoss` restarts
what had been started and does not run the migration again. `mishap` is history: a reset
took the file of a running API, or did not get to its migrations.

### `Money`, `HttpContract`, `Credentials`, and `Library` that drives them

- `Money`: decimal strings as the groups their pattern captures, amounts as
  integers. Doubles are exact up to the limit, and beyond it both are refused. A sum is a
  recursive function over the positions of its amounts, one turn of the loop each.
- `HttpContract`: a request, the first thing that goes wrong with it (hook, body parser,
  validation, handler, serialisation), the answer of the error handler, what nginx or the
  edge do to it, and what the client makes of the result: whether it sets out to refresh
  (`apiRequest`, which only `/me` goes through) and whether it stores a pair. Errors
  that Fastify raises itself (not JSON, not declared as JSON, too long) are answered 500, as the handler
  has no case for them.
- `Credentials`: access tokens, edge tokens, passwords and TTLs. `jose` is external:
  the order of its checks, its key sets and its own parser of durations, which rounds to
  seconds and knows years, are modelled from how the code uses it. An issuer or audience
  that is not ours is another value; a missing one is refused for the same reason. A key
  set is fetched, late, no key set, or cannot be fetched at all, for which `jose` has no
  error that the verifier knows.
- `Library`: one caller at a time parses amounts and adds them up, makes an exchange,
  presents a credential or keeps a session until it expires. A session has two starts:
  `now`, taken when `login` or `refresh` is entered, from which the refresh token counts,
  and the instant at which `jose` signs the access token, after the awaits. The reference
  meanings (`Value`, `Total`) are integer arithmetic, independent of the digits.

## 3. The runs

| Run | Instance | Shows |
| --- | --- | --- |
| `refresh` | 2 users, 3 tokens, 2 requests, both TTLs 1, clock 0..1 | rotation, expiry, failing statements, crashes; users do not affect each other; the refinement of `Sessions` |
| `refresh_single_use` | 1 user, no expiry | `SingleUse`, violated: two overlapping refreshes of one token both succeed |
| `refresh_replay_ends` | 1 user, no expiry | `ReplayEndsEverySession`, violated: a rotation in flight survives the compromise response |
| `auth_races` | 1 person with 2 spellings, 2 requests, 1 seed run, 3 ids | all mixes of credentials against a racing seed |
| `web_one_page` | 1 tab, 2 callers, 2 tokens, 2 reloads | the lock does its work in one page, until a reload forgets it; no caller hangs |
| `web_two_tabs` | 2 tabs, 1 caller, 3 tokens | `NoRotatedReplay`, violated: the lock is per tab, the token is not |
| `web_router` | 2 users, both deployments, 2 page loads | the page shows the profile of its credential, no form behind Access, redirects end |
| `router_stuck` | 1 user, 1 page load | `LossShowsForm`, violated: a cached `/me` keeps the page of a lost session |
| `service` | 7 environments, 2 files, 2 images, 2 ups, 2 faults, 1 reset | boot fails closed, health means queryable, the site opens over a service, a started API recovers |
| `service_health` | 1 environment, 2 files, 1 image, 1 reset | `HealthIsGenuine`, violated: health is about a deleted file |
| `library` | range 103 hundredths, up to 3 amounts, every request and credential, 19 TTLs, 4 instants, 3 delays | amounts exact or refused, errors understood, only what was issued is accepted, refusals explained, access tokens die first |
| `library_keys` | every edge token and key set | `OutagesAreNamed`, violated: a key set that cannot be fetched is logged as a malformed token |

`PROJECT.json` lists each run's properties and, for each property, a change to the
model, of the kind a bug in the code would be, that the run then finds.

**Bounds, and why they are enough.** Three tokens are a login and two rotations:
two replacements of one token, a chain of three, or two users one of whom rotates. Two are
enough in `web_one_page` for a page to present what it had rotated; what is safe there is a
theorem for any number.
Two requests are enough for every conflict here, since each is between one request past
its check and another. With TTL 1 and `MaxTime = 1` a token is fresh and exactly at its
boundary, where the comparison could be wrong. One seed run and two spellings give a
person every account they can have; three ids let each writer draw its own and leave one
for a bearer token of a removed account. `MaxLoads = 2` lets a page with tokens
of one user be reloaded by the other; one orphaned `/me` at a time is a guard of
`SignOut`. In `service` two images are one upgrade, two files a reset, two faults a crash
or an outage during the recovery from another, and the environments put the secret,
the switch, the audience and the port into the forms that
lead to different messages. In `library` amounts lie around nought, the unit and both
ends of the range, and an access token is signed at once, a millisecond later (which may
be the next second of the clock) or more than a second later. All actions that the bounds
cut off are repetitions.

**Deadlock.** It is checked where the system always has a step to take (`auth_races`,
`library`, the two web client runs). In the refresh runs the pool of tokens and the
clock run out, in the router runs an Access sign-out unloads the page and the loads may
be used up, in the service runs nothing need happen after the last command.

**Symmetry** is used for interchangeable model values in `auth_races` and `refresh`, and
never in a run with a liveness property. `web_one_page` has one, and its `OrderedSpec`
issues the tokens in their order instead: any other order is the same behaviour with its
tokens renamed.

**Fairness.**

- `web_one_page`: `CallStep` and `RefreshStep` of each caller are weakly fair, because
  `fetch` settles (it answers or fails) and a settled promise runs its continuations.
- `web_router`, `router_stuck`: the same for the guards, `FetchStep`, `SignInReturns`,
  `SignOutReturns` and `ClearCache`. The user, the edge and the lifetime of a session owe
  nothing.
- `service`: `Boot`, `ApiRestarts` and `Health`, because a started process goes on,
  compose says `restart: unless-stopped`, and the health check asks every 15 seconds.
  The operator owes nothing, and an outage may last for ever.

**Disagreements with the documentation.** Six runs each hold one sentence of a
comment or an ADR against the code and show a behaviour that contradicts it; `findings` in
`PROJECT.json` quotes them. A check made before an `await` is trusted
after it (`refresh_single_use`, `refresh_replay_ends`); something cached outlives what it
was read from (`router_stuck`, `service_health`); a lock of one page guards a value
that all pages share (`web_two_tabs`); and of the errors an unreachable key set
can throw, the classification knows only those with a class of their own
(`library_keys`).

**Observations** made while modelling, for which no run is kept:

- A logout with a token that was rotated meanwhile leaves its successor live, and
  the answer to a refresh that arrives after a logout signs the page in again.
- A reset that dies after it removed the files leaves the next connection to create an empty
  one: health answers ok on it, as the ping needs no table. No property covers this.
- A seed that lost the race for an address reports a creation.
- A refresh lost to the network clears a token the server would still accept
  (refresh.ts:62-66 does so on purpose).
- A token of another account, which names an unknown key, is logged as
  `KEYS_UNAVAILABLE`, like an outage.
- With equal TTLs the access token may be accepted for up to the seconds that began while
  it was signed after the refresh token has expired; `AccessDiesFirst` has that margin.
- `config.ts` takes any text for a TTL, although tokens.ts:98 and 105 rely on its check:
  a wrong one fails at the first login. `"1y"` is good for an access token only.
- The seed's overrides are not held against the bounds of the contract, which
  `packages/contracts` (constants.ts:66-68) says the seed never disagrees with.
- `NETWORK_ERROR_MESSAGE` (web constants.ts:64) is used nowhere: a lost answer shows the
  browser's own text.

## 4. The proofs

Each theorem holds for all values of the constants that satisfy the assumptions of its
module, which say no more than that bounds are natural numbers, that a marker (`Null`,
`None`, `Absent`, `Refused`) is not one of the values it stands beside, and what kind of
values the parameters are.

| Module, assumption | Theorems (property) |
| --- | --- |
| `RefreshTokens_proofs`, `ConstantsAssumption` | `TypeCorrect` (`TypeOK`), `InductiveInvariant` (`IndInv`), `RotationKeepsTheSession` (`RotatedHasReplacement`), `PromiseKept` (`PromisedEndIsKept`), `RevocationPermanent` (`RevocationIsPermanent`), `OverForGood` (`OverIsFinal`), `Refinement` (`ImplementsSessions`), and through it `SessionsEndForGood` and `OneUserAtATime`; under a hypothesis `SingleUseWhenApart` (`SingleUse`), `ReplayEndsWhenQuiet` (`ReplayEndsEverySession`) |
| `Authenticate_proofs`, `NormalAssumption` | `AuthTypeCorrect` (`TypeOK`), `AuthInvariant`, `PrincipalCorrect` (`PrincipalIsCaller`), `EdgeCallersHaveProfiles` (`EdgeCallerHasProfile`), `CreationsReported` (`CreatedIsTrue`), `OneAccount` (`OneAccountPerPerson`), `AccountsStable` (`AccountsAreStable`), `ProvisioningEntitled` (`ProvisioningIsEntitled`) |
| `WebClient_proofs`, `ClientAssumption` | `WebTypeCorrect` (`TypeOK`), `WaitersWait` (`WaitersHaveARefresh`), `CallsOnlyProgress`, `FairStepsProgress`; for one tab `OnePageNeverReplays` (`NoRotatedReplay`), `OnePageHoldsAGoodToken` (`StoredIsHonoured`), and for any number of tabs, under a hypothesis, `PagesApartNeverReplay` and `PagesApartHoldAGoodToken` |
| `WebRouter_proofs`, `RouterAssumption` | `RouterTypeCorrect` (`TypeOK`), `RouterInvariant`, `ProfileStaysCurrent` (`ProfileIsCurrent`), `EdgeNeedsNoForm` (`NoFormBehindAccess`) |
| `Service_proofs`, `ServiceAssumption` | `ServiceTypeCorrect` (`TypeOK`), `BootFailsClosed` (`FailsClosed`), `BootNamesEveryFault` (`TwoRepairsSuffice`), `HealthIsTrue` (`HealthMeansQueryable`), `SiteOpensOverService` (`WebOpensOnService`); under a hypothesis `HealthIsGenuineWithoutResets` (`HealthIsGenuine`) |
| `Library_proofs`, `MoneyAssumption`, `HttpAssumption` and `LibraryAssumption` | `LibraryTypeCorrect` (`TypeOK`), `ParsingIsExact` (`ParsedExactly`), `FormatReadsBack`, `AccessTokenDiesFirst` (`AccessDiesFirst`), `ErrorsUnderstood` (`ErrorsAreUnderstood`), `TokensWhenTold` (`TokensOnlyWhenTold`), `RepliesDeclared` (`RepliesAreDeclared`), `DoorsTakeOnlyTheirs` (`AcceptedAreIssued`), `RefusalsExplained` (`RefusalsAreExplained`), `LoginsLookAlike` (`RefusedLoginsLookAlike`) |
| `Sums_proofs`, the same | `SumsReadBack` (`RoundTrip`), `SumsExact` (`SumsAreExact`) |

So every safety invariant and every action property of a passing run is a theorem.
The properties are seldom inductive. The invariants that carry them:

- **`RefreshTokens`**: `IndInv` is `TypeOK /\ LineageOK /\ FlightOK /\ PromiseOK /\
  RotatedHasReplacement`. `LineageOK` says that a row's session exists and has the same
  owner, and that what is not stored has left no trace: without it a fresh token could
  already be the parent or the session of something. `FlightOK` says that what a request
  remembers across its await is still true, all but whether its token is revoked; without
  it a rotation could store a row under another user's session. `PromiseOK` is stronger
  than `PromisedEndIsKept`: a kept promise also means that no rotation of the session is
  in flight, which carries it over the next `RotationDone`.
- **`Authenticate`**: `AuthInv` says of each point of the hook what a request has passed to
  be there (`Sound`), and that provisioned rows are normalised. Rows are only added,
  so what a request saw in the table stays so, however many requests and seeds there are.
- **`WebClient`**: `LockInv` says that the lock of a tab holds the one refresh the tab has
  under way and that every waiter waits for it. `PagesInv` adds, for tabs that do not
  refresh at once, where a used-up token may still be found before a reload: in storage,
  until the answer that will replace it has settled. It has to say besides that a token
  on its way to a tab is known to no other request, or one tab's logout could spoil
  another's login.
- **`WebRouter`**: `RouterInv` is `Typed /\ OneRefresh /\ Clean`. `OneRefresh` says that the
  query and the orphan never refresh at once and that a sign-out finds no orphan.
  `Clean`, which holds until an orphan changes the tokens or the mode (`stray`), says that
  a guard that asks has no session to go by (`GuardOK`), that the form at rest neither has
  a session nor waits for one (`FormOK`), that a sign-in under way is the only way to a
  pair (`SignInOK`), and that the query's bearer is the stored one or one that was
  dropped (`QueryOK`).
- **`Service`**: `BootInv` says that what a process knows of its environment is what `Config`
  says of it; `DiskInv` that, short of a mishap, the file `DB_PATH` names has the tables of
  every process that was started over it, or a reset under way is going to give it
  those. The second half is what carries health over the steps of a reset.
- **`Library`**: the properties follow from `TypeOK` and lemmas about the operators. Those of
  money are arithmetic, and so is that of the two expiries, for any delay between
  them. Those of HTTP follow the first failure of a request through error handler, proxy and client. Those of credentials ask first which token `jose` accepts or
  refuses for which reason, and then what a verifier makes of the reason. A sum is a
  recursive function: no induction theorem can be instantiated here (each takes an
  operator as a parameter), but the well-foundedness of `<` gives every set of naturals a
  least member (`Least`), and the shortest sum for which a claim fails refutes itself.
  `RoundTrip` is then `FormatReadsBack`, for every amount, and that a sum is in the range.

**What the refuted claims need.** Four claims of the documentation that a run refutes are
theorems under one more hypothesis, which leaves out one interleaving and no other:

| Refuted by | Hypothesis | Invariant |
| --- | --- | --- |
| `refresh_single_use` | `RotationsApart`, in every state: no two rotations of one token are at their await together | `ExchangedOnce`: a delivered replacement has a revoked parent, and a token in rotation has no delivered replacement |
| `refresh_replay_ends` | `ReplayIsQuiet`, at every step: no rotation of the user is at its await when a replay is detected | `Unovertaken`: such a promise was not overtaken |
| `web_two_tabs` | `RefreshesApart`, in every state: no two tabs refresh at once | `PagesInv` |
| `service_health` | no step is `ResetDrop`: nobody runs `db:reset` | no reset and no mishap, with the invariant of `HealthIsTrue` |

The hypotheses are met by systems one would recognise: a client that sends one refresh at
a time (what the lock of a single page gives, so that the theorems for one tab are
corollaries), a lock that the tabs share, a server that serialises the rotations
and replays of one user, an operator who keeps the database. All other interleavings,
failing statements, crashes and lost messages remain, so that the theorems also say
that nothing else breaks these claims. A conditional exchange (`UPDATE ... WHERE
revoked_at IS NULL`, its count looked at) would spare the first two theirs; the code has none.

**Progress.** `Turns` and `RefreshTurns` count what a call and a refresh have before them.
`CallsOnlyProgress` says that no step gives a turn back and `FairStepsProgress` that every
step `FairSpec` is fair to takes one. It is the safety half of `EveryCallSettles`: that a
turn can always be taken is a matter of `ENABLED` and stays with `web_one_page`.

Each proof has a lemma per action, and under it a step per conjunct the action can
disturb; action properties and the refinement use the invariant and one step. Every leaf
is checked by tlapm with SMT, Zenon or PTL.

**Only model-checked:** liveness (`EveryCallSettles`, `NavigationSettles`,
`StrangerSeesForm`, `Recovers`), which is out of the prover's reach, and of course what the
violated runs refute. For two of these no hypothesis is stated: in `router_stuck`, because
the cached `/me` is the ordinary case, and in `library_keys`, because `RefusalsAreExplained`
already says what the log tells in all other cases.

## 5. Not modelled, and why

- Argon2, JWT cryptography, Zod's rules for single fields, Pino, Fastify's and React's own
  workings: libraries; where a handler depends on their outcome it is a choice.
- The schemas in the OpenAPI document, log lines, image builds, CSS: nothing the logic
  reads. nginx is something that loses or replaces answers.
- Durability below a committed statement (a power loss under WAL without
  `synchronous=FULL`): every committed statement is taken as durable, and the hazard has
  no property.
- Storage events between tabs: the code promises nothing about a tab noticing another's
  sign-out (a hazard without a property).
- The columns and the code nothing calls outside tests (`closeConnection`, the guard
  against database files in the repository).
- A clock that is set back.

## 6. Plan

Done: the auth service with its refinement; the hook and accounts; the web client; the
router; boot, database and deployment; money, HTTP and credentials; a proof module for
each of the six state machines, with every safety property of the passing runs, and one for
sums.

Left, in this order:

1. A composition of `WebClient` with the interleaving server of `RefreshTokens`, to see
   which client guarantees survive a server that answers concurrent refreshes.
2. Several tabs in `WebRouter`, whose pages share storage but neither cache nor mode.
3. A model of the WAL in which a power loss drops a suffix of the commits, under
   `RefreshTokens`, to state what a lost revocation can bring back.

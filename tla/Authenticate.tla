---------------------------- MODULE Authenticate ----------------------------
(***************************************************************************)
(* Who a protected request acts for: the authenticate hook, the accounts   *)
(* it provisions for Cloudflare Access identities, GET /me, and the seed   *)
(* command, which is another process on the same database file.            *)
(*   apps/api/src/plugins/authenticate.ts            the hook              *)
(*   apps/api/src/lib/cloudflare-access.ts           assertion, email      *)
(*   apps/api/src/modules/auth/auth.service.ts       provisioning, me      *)
(*   apps/api/src/modules/auth/auth.repository.ts    findOrCreate          *)
(*   apps/api/src/db/seed.ts                         the seed command      *)
(*                                                                         *)
(* The API is one thread: between two awaits only the seed process, whose  *)
(* statements commit by themselves, can touch the table.  A request inside *)
(* findOrCreateUserByEmail therefore keeps the other requests out, and a   *)
(* seed fits between any two of its three statements.                      *)
(*                                                                         *)
(* With CF_ACCESS_ENABLED off no verifier exists and every request is one  *)
(* without an assertion; so is an Authorization header that is not a       *)
(* bearer token one without a token.  The hook is written for any route;   *)
(* GET /me is the only one it guards today, so a cross-site request (an    *)
(* unsafe method without a request id) stands for the routes to come.      *)
(***************************************************************************)
EXTENDS Naturals

CONSTANTS Emails,      \* addresses, each in one spelling
          Normal,      \* normaliseEmail: the trimmed, lower-case spelling
          Ids,         \* UUIDs the program may draw
          Requests,    \* requests under way at once
          Seeds,       \* seed commands under way at once
          Null

ASSUME NormalAssumption ==
    /\ Normal \in [Emails -> Emails]
    /\ \A e \in Emails : Normal[Normal[e]] = Normal[e]
    /\ Null \notin Emails
    /\ Null \notin Ids

VARIABLES users,       \* the users table, by its unique email
          req,         \* requests in the hook and in /me
          seed         \* seed commands

vars == <<users, req, seed>>

OrNull(S) == S \cup {Null}

\* A seeded account has the seed password, a provisioned one has a hash of
\* discarded entropy.
NoUser == [id |-> Null, password |-> "none"]
User == [id: Ids, password: {"seed", "unusable"}]

\* assertion is the address in the Access assertion, bearer the subject of the
\* access token, crossSite an unsafe method without a request id; edge is the
\* verified identity, draw the id of the row the request tried to insert.
Request == [pc: {"idle", "assertion", "bearer", "hashing", "insert", "reread",
                 "in", "answered", "noProfile", "refused", "failed"},
            assertion: OrNull(Emails), bearer: OrNull(Ids), crossSite: BOOLEAN,
            edge: OrNull(Emails), draw: OrNull(Ids), created: BOOLEAN,
            user: OrNull(Ids), mode: {"none", "password", "access"}]
Idle == [pc |-> "idle", assertion |-> Null, bearer |-> Null, crossSite |-> FALSE,
         edge |-> Null, draw |-> Null, created |-> FALSE, user |-> Null,
         mode |-> "none"]

Seed == [pc: {"idle", "hashing", "done"}, email: OrNull(Emails), created: BOOLEAN]
NoSeed == [pc |-> "idle", email |-> Null, created |-> FALSE]

\* Every variable holds a value of its kind, and a request has a principal
\* exactly from the moment the hook let it in.
TypeOK ==
    /\ users \in [Emails -> User \cup {NoUser}]
    /\ req \in [Requests -> Request]
    /\ seed \in [Seeds -> Seed]
    /\ \A r \in Requests :
          req[r].pc \in {"in", "answered", "noProfile"} <=> req[r].user # Null

Init ==
    /\ users = [e \in Emails |-> NoUser]
    /\ req = [r \in Requests |-> Idle]
    /\ seed = [s \in Seeds |-> NoSeed]

-----------------------------------------------------------------------------
(* The table.                                                              *)

Known(i) == \E e \in Emails : users[e].id = i

\* A UUID nobody has drawn.
Fresh(i) == ~Known(i) /\ \A r \in Requests : i \notin {req[r].draw, req[r].bearer}

\* Mutant: the conflicting row is overwritten.
InsertUser_Upsert(e, i, password) ==
    users' = [users EXCEPT ![e] = [id |-> i, password |-> password]]

\* INSERT ... ON CONFLICT (email) DO NOTHING.
InsertUser(e, i, password) ==
    users' = [users EXCEPT ![e] =
                IF @ = NoUser THEN [id |-> i, password |-> password] ELSE @]

-----------------------------------------------------------------------------
(* The hook.                                                               *)

\* The requests that may run: all of them, unless one is between two
\* statements, which then keeps the turn.
Runnable ==
    LET busy == { r \in Requests : req[r].pc \in {"insert", "reread"} }
    IN IF busy = {} THEN Requests ELSE busy

\* Mutant: the edge identity is used before the bearer token.
Proceed_EdgeFirst(q) ==
    IF q.edge # Null
    THEN IF q.crossSite THEN "refused" ELSE "hashing"
    ELSE IF q.bearer # Null THEN "bearer" ELSE "refused"

\* Mutant: the cross-site check is missing.
Proceed_NoCrossSiteCheck(q) ==
    IF q.bearer # Null THEN "bearer"
    ELSE IF q.edge = Null THEN "refused" ELSE "hashing"

\* Where the hook goes once the assertion is dealt with: a bearer token wins,
\* then the edge identity, which a cross-site request may not use.
Proceed(q) ==
    IF q.bearer # Null THEN "bearer"
    ELSE IF q.edge = Null \/ q.crossSite THEN "refused"
    ELSE "hashing"

Enter(r, q) == req' = [req EXCEPT ![r] = [q EXCEPT !.pc = Proceed(q)]]

\* A protected request, with or without an assertion and a bearer token.  An
\* access token is issued at a password login: its subject is an account with a
\* password, or one that db:reset has removed since.
Arrive(r, assertion, bearer, crossSite) ==
    LET q == [Idle EXCEPT !.assertion = assertion, !.bearer = bearer,
                          !.crossSite = crossSite]
    IN /\ req[r] = Idle
       /\ bearer # Null => \A e \in Emails :
             users[e].id = bearer => users[e].password = "seed"
       /\ IF assertion # Null
          THEN req' = [req EXCEPT ![r] = [q EXCEPT !.pc = "assertion"]]
          ELSE Enter(r, q)
       /\ UNCHANGED <<users, seed>>

\* Mutant: the address is taken as the assertion spells it.
AssertionVerified_AsSpelled(r) ==
    /\ req[r].pc = "assertion"
    /\ Enter(r, [req[r] EXCEPT !.edge = req[r].assertion])
    /\ UNCHANGED <<users, seed>>

AssertionVerified(r) ==
    /\ req[r].pc = "assertion"
    /\ Enter(r, [req[r] EXCEPT !.edge = Normal[req[r].assertion]])
    /\ UNCHANGED <<users, seed>>

\* Mutant: a bad assertion counts as none.
AssertionRejected_FallThrough(r) ==
    /\ req[r].pc = "assertion"
    /\ Enter(r, req[r])
    /\ UNCHANGED <<users, seed>>

\* Expired, wrongly signed or scoped, or the keys could not be fetched: 401,
\* whatever else the request carries.
AssertionRejected(r) ==
    /\ req[r].pc = "assertion"
    /\ req' = [req EXCEPT ![r].pc = "refused"]
    /\ UNCHANGED <<users, seed>>

BearerVerified(r) ==
    /\ req[r].pc = "bearer"
    /\ req' = [req EXCEPT ![r].pc = "in", ![r].user = req[r].bearer,
                          ![r].mode = "password"]
    /\ UNCHANGED <<users, seed>>

BearerRejected(r) ==
    /\ req[r].pc = "bearer"
    /\ req' = [req EXCEPT ![r].pc = "refused"]
    /\ UNCHANGED <<users, seed>>

Admit(r, id, created) ==
    req' = [req EXCEPT ![r].pc = "in", ![r].user = id, ![r].created = created,
                       ![r].mode = "access"]

\* Mutant: the insert is skipped.
Lookup_NoInsert(r) ==
    /\ req[r].pc = "hashing"
    /\ req' = [req EXCEPT ![r].pc = "reread"]
    /\ UNCHANGED <<users, seed>>

\* findOrCreateUserByEmail: look the address up, and return a known account.
Lookup(r) ==
    /\ req[r].pc = "hashing"
    /\ IF users[req[r].edge] # NoUser
       THEN Admit(r, users[req[r].edge].id, FALSE)
       ELSE req' = [req EXCEPT ![r].pc = "insert"]
    /\ UNCHANGED <<users, seed>>

\* Mutant: created is what the lookup saw.
Insert_CreatedByLookup(r, i) ==
    /\ req[r].pc = "insert"
    /\ Fresh(i)
    /\ InsertUser(req[r].edge, i, "unusable")
    /\ req' = [req EXCEPT ![r].pc = "reread", ![r].draw = i, ![r].created = TRUE]
    /\ UNCHANGED seed

\* Insert an account nobody can sign in to with a password; created is whether
\* the statement changed the table.
Insert(r, i) ==
    /\ req[r].pc = "insert"
    /\ Fresh(i)
    /\ InsertUser(req[r].edge, i, "unusable")
    /\ req' = [req EXCEPT ![r].pc = "reread", ![r].draw = i,
                          ![r].created = users' # users]
    /\ UNCHANGED seed

\* Mutant: the row the request built is returned without reading it back.
Reread_OwnRow(r) ==
    /\ req[r].pc = "reread"
    /\ Admit(r, req[r].draw, req[r].created)
    /\ UNCHANGED <<users, seed>>

\* Return the row that is there, whoever wrote it.
Reread(r) ==
    /\ req[r].pc = "reread"
    /\ Admit(r, users[req[r].edge].id, req[r].created)
    /\ UNCHANGED <<users, seed>>

\* A statement fails: 500.
StatementFails(r) ==
    /\ req[r].pc \in {"hashing", "insert", "reread", "in"}
    /\ req' = [req EXCEPT ![r] = [Idle EXCEPT !.pc = "failed"]]
    /\ UNCHANGED <<users, seed>>

\* GET /me: the profile, or 401 when no account has the id.
Me(r) ==
    /\ req[r].pc = "in"
    /\ req' = [req EXCEPT ![r].pc = IF Known(req[r].user) THEN "answered"
                                                          ELSE "noProfile"]
    /\ UNCHANGED <<users, seed>>

Respond(r) ==
    /\ req[r].pc \in {"answered", "noProfile", "refused", "failed"}
    /\ req' = [req EXCEPT ![r] = Idle]
    /\ UNCHANGED <<users, seed>>

\* The API process dies and is restarted.
Crash ==
    /\ req' = [r \in Requests |-> Idle]
    /\ UNCHANGED <<users, seed>>

-----------------------------------------------------------------------------
(* The seed command.                                                       *)

\* An account with that email is left alone; otherwise the password is hashed.
\* The address is used as it was typed.
SeedLookup(s, e) ==
    /\ seed[s] = NoSeed
    /\ seed' = [seed EXCEPT ![s] =
                  [pc |-> IF users[e] = NoUser THEN "hashing" ELSE "done",
                   email |-> e, created |-> FALSE]]
    /\ UNCHANGED <<users, req>>

SeedInsert(s, i) ==
    /\ seed[s].pc = "hashing"
    /\ Fresh(i)
    /\ InsertUser(seed[s].email, i, "seed")
    /\ seed' = [seed EXCEPT ![s].pc = "done", ![s].created = TRUE]
    /\ UNCHANGED req

\* The command prints its result, or is stopped at any point.
SeedExit(s) ==
    /\ seed[s].pc # "idle"
    /\ seed' = [seed EXCEPT ![s] = NoSeed]
    /\ UNCHANGED <<users, req>>

RequestStep(r) ==
    \/ \E a \in OrNull(Emails), b \in OrNull(Ids), c \in BOOLEAN : Arrive(r, a, b, c)
    \/ AssertionVerified(r)
    \/ AssertionRejected(r)
    \/ BearerVerified(r)
    \/ BearerRejected(r)
    \/ Lookup(r)
    \/ \E i \in Ids : Insert(r, i)
    \/ Reread(r)
    \/ StatementFails(r)
    \/ Me(r)
    \/ Respond(r)

Next ==
    \/ \E r \in Runnable : RequestStep(r)
    \/ \E s \in Seeds :
         \/ \E e \in Emails : SeedLookup(s, e)
         \/ \E i \in Ids : SeedInsert(s, i)
         \/ SeedExit(s)
    \/ Crash

Spec == Init /\ [][Next]_vars

-----------------------------------------------------------------------------
(* Properties.                                                             *)

Admitted(r) == req[r].user # Null

\* A request acts for whom its credentials name: for the subject of its bearer
\* token when it has one, else for the account of its verified edge identity,
\* and never at all with an assertion that did not verify
\* (authenticate.ts:142-155).
PrincipalIsCaller ==
    \A r \in Requests : Admitted(r) =>
        /\ req[r].assertion # Null => req[r].edge # Null
        /\ IF req[r].bearer # Null
           THEN req[r].user = req[r].bearer /\ req[r].mode = "password"
           ELSE /\ req[r].edge # Null
                /\ req[r].mode = "access"
                /\ users[req[r].edge].id = req[r].user

\* Whoever loses the race for an address, the account a request is given is in
\* the table: an edge request is never let in and then told 401 by /me
\* (auth.repository.ts:190-192).
EdgeCallerHasProfile ==
    \A r \in Requests : req[r].pc = "noProfile" => req[r].mode = "password"

\* A request reports an account as created exactly when the stored row is the
\* one it inserted, so the audit log has one creation per account at most
\* (auth.repository.ts:151-152).
CreatedIsTrue ==
    \A r \in Requests : Admitted(r) =>
        (req[r].created <=> req[r].draw # Null /\ req[r].user = req[r].draw)

\* The edge provisions one account per person, however the identity provider
\* spells the address (cloudflare-access.ts:188-190).
OneAccountPerPerson ==
    \A e, f \in Emails :
        /\ users[e].password = "unusable"
        /\ users[f].password = "unusable"
        /\ Normal[e] = Normal[f]
        => e = f

\* An account, its id and its password are never replaced: neither by a seed
\* run nor by a provisioning that raced it (seed.ts:137-139).
AccountsAreStable ==
    [][\A e \in Emails : users[e] # NoUser => users'[e] = users[e]]_vars

\* The hook creates an account only for a request that is admitted on its edge
\* identity: not for one with a bearer token and not for a cross-site one
\* (authenticate.ts:193-197).
ProvisioningIsEntitled ==
    [][\A e \in Emails :
          users[e] = NoUser /\ users'[e].password = "unusable" =>
             \E r \in Requests :
                /\ req[r].pc = "insert"
                /\ req[r].edge = e
                /\ req[r].bearer = Null
                /\ ~req[r].crossSite]_vars
=============================================================================

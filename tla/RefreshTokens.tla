--------------------------- MODULE RefreshTokens ----------------------------
(***************************************************************************)
(* The refresh-token life cycle of the API: login, refresh with rotation   *)
(* and replay detection, logout, the refresh_tokens table they share, a    *)
(* clock, failing statements and process crashes.                          *)
(*   apps/api/src/modules/auth/auth.service.ts     the handlers            *)
(*   apps/api/src/modules/auth/auth.repository.ts  the statements          *)
(*   apps/api/src/lib/tokens.ts                    minting and expiry      *)
(*                                                                         *)
(* The API is one Node process: a handler runs without interruption up to  *)
(* its next await.  Only Argon2 verification (login) and JWT signing       *)
(* (login and refresh) are awaited, so a request is idle, at "verify", or  *)
(* at "sign"; the code between two awaits is one action.  better-sqlite3   *)
(* is synchronous and every statement commits by itself: a rotation's two  *)
(* statements may be cut in between by an error or a crash.                *)
(*                                                                         *)
(* A token stands for its digest too.  Tokens is the pool of values the    *)
(* random generator has yet to draw; a value is drawn once.                *)
(* A statement that fails before a handler changed anything answers 500    *)
(* and leaves the state as it is: that is a stuttering step.               *)
(***************************************************************************)
EXTENDS Naturals

CONSTANTS Users,        \* rows of the users table
          Tokens,       \* values the random generator may yield
          Requests,     \* requests the server may be serving at once
          RefreshTtl,   \* REFRESH_TOKEN_TTL, in clock units
          AccessTtl,    \* ACCESS_TOKEN_TTL, in clock units
          MaxTime,      \* bound on the clock
          Null          \* SQL NULL, JavaScript undefined

ASSUME ConstantsAssumption ==
    /\ RefreshTtl \in Nat
    /\ AccessTtl \in Nat
    /\ MaxTime \in Nat
    /\ Null \notin Users
    /\ Null \notin Tokens
    /\ Null \notin Nat

VARIABLES rows,         \* the refresh_tokens table, by token
          req,          \* what each request being served remembers
          now,          \* the wall clock
          delivered,    \* tokens that left the server in a response
          \* history, read by the properties only
          session,      \* the login a token descends from, named by its token
          parent,       \* the token that was exchanged for this one
          rotated,      \* tokens revoked by a rotation
          accessUntil,  \* per session, when its last access token expires
          promise,      \* per session, what a client was told about its end
          overtaken     \* promises made while they could not be kept

vars == <<rows, req, now, delivered, session, parent, rotated, accessUntil,
          promise, overtaken>>
lineage == <<session, parent, rotated>>
outcome == <<promise, overtaken>>

OrNull(S) == S \cup {Null}

Row == [user: OrNull(Users), expiresAt: Nat, revokedAt: OrNull(Nat)]
NoRow == [user |-> Null, expiresAt |-> 0, revokedAt |-> Null]

\* start is the `now` captured when the handler was called, iat the time the
\* access token was signed at; token is the one presented, Null for a login.
Request == [pc: {"idle", "verify", "sign"}, user: OrNull(Users),
            token: OrNull(Tokens), start: Nat, iat: Nat]
Idle == [pc |-> "idle", user |-> Null, token |-> Null, start |-> 0, iat |-> 0]

\* Every variable holds a value of its kind, and access tokens are signed for
\* accounts that exist.
TypeOK ==
    /\ rows \in [Tokens -> Row]
    /\ req \in [Requests -> Request]
    /\ \A r \in Requests : req[r].pc = "sign" => req[r].user \in Users
    /\ now \in Nat
    /\ delivered \subseteq Tokens
    /\ session \in [Tokens -> OrNull(Tokens)]
    /\ parent \in [Tokens -> OrNull(Tokens)]
    /\ rotated \subseteq Tokens
    /\ accessUntil \in [Tokens -> Nat]
    /\ promise \in [Tokens -> {"none", "logout", "compromise"}]
    /\ overtaken \subseteq Tokens

Init ==
    /\ rows = [t \in Tokens |-> NoRow]
    /\ req = [r \in Requests |-> Idle]
    /\ now = 0
    /\ delivered = {}
    /\ session = [t \in Tokens |-> Null]
    /\ parent = [t \in Tokens |-> Null]
    /\ rotated = {}
    /\ accessUntil = [t \in Tokens |-> 0]
    /\ promise = [t \in Tokens |-> "none"]
    /\ overtaken = {}

-----------------------------------------------------------------------------
(* The table and its statements.                                           *)

Stored(t) == rows[t].user # Null
Unrevoked(t) == Stored(t) /\ rows[t].revokedAt = Null
\* Mutant: strict comparison at the boundary.
Expired_Strict(expiresAt, n) == expiresAt < n

Expired(expiresAt, n) == expiresAt <= n

\* A rotation that passed its checks and has not yet stored its replacement.
Rotating(r) == req[r].pc = "sign" /\ req[r].token # Null

InsertRow(t, u, n) ==
    [rows EXCEPT ![t] = [user |-> u, expiresAt |-> n + RefreshTtl,
                         revokedAt |-> Null]]

\* Mutant: the statement without `AND revoked_at IS NULL`.
RevokeByHash_NoGuard(tbl, t, n) ==
    IF tbl[t].user # Null THEN [tbl EXCEPT ![t].revokedAt = n] ELSE tbl

\* revokeRefreshTokenByHash, on the table tbl: the IS NULL guard keeps the
\* time of the first revocation.
RevokeByHash(tbl, t, n) ==
    IF tbl[t].user # Null /\ tbl[t].revokedAt = Null
    THEN [tbl EXCEPT ![t].revokedAt = n] ELSE tbl

\* Mutant: the statement without `user_id = ?`.
RevokeAllForUser_AnyUser(u, n) ==
    [t \in Tokens |->
        IF Unrevoked(t) THEN [rows[t] EXCEPT !.revokedAt = n] ELSE rows[t]]

\* revokeAllRefreshTokensForUser: one statement over the user's live rows.
RevokeAllForUser(u, n) ==
    [t \in Tokens |->
        IF rows[t].user = u /\ rows[t].revokedAt = Null
        THEN [rows[t] EXCEPT !.revokedAt = n] ELSE rows[t]]

\* A value the generator has not drawn.
Fresh(t) == ~Stored(t)

Finish(r) == req' = [req EXCEPT ![r] = Idle]

\* The access token of a response that reaches the client.
Grant(s, iat) ==
    accessUntil' = [accessUntil EXCEPT
                      ![s] = IF @ < iat + AccessTtl THEN iat + AccessTtl ELSE @]

-----------------------------------------------------------------------------
(* POST /auth/login.                                                       *)

\* Look the account up (u = Null: no such email) and await the verification,
\* of a decoy hash when there is no account.
LoginLookup(r, u) ==
    /\ req[r] = Idle
    /\ req' = [req EXCEPT ![r] = [pc |-> "verify", user |-> u, token |-> Null,
                                  start |-> now, iat |-> 0]]
    /\ UNCHANGED <<rows, now, delivered, lineage, accessUntil, outcome>>

\* 401: no such email, or a password that does not match.
LoginRefused(r) ==
    /\ req[r].pc = "verify"
    /\ Finish(r)
    /\ UNCHANGED <<rows, now, delivered, lineage, accessUntil, outcome>>

\* Mutant: the outcome of the decoy verification is used.
LoginVerified_Decoy(r) ==
    /\ req[r].pc = "verify"
    /\ req' = [req EXCEPT ![r].pc = "sign", ![r].iat = now]
    /\ UNCHANGED <<rows, now, delivered, lineage, accessUntil, outcome>>

\* The password matches: sign the access token.
LoginVerified(r) ==
    /\ req[r].pc = "verify"
    /\ req[r].user # Null
    /\ req' = [req EXCEPT ![r].pc = "sign", ![r].iat = now]
    /\ UNCHANGED <<rows, now, delivered, lineage, accessUntil, outcome>>

\* issueRefreshToken stores the new session's first token; 200.
LoginIssue(r, t) ==
    /\ req[r].pc = "sign"
    /\ req[r].token = Null
    /\ Fresh(t)
    /\ rows' = InsertRow(t, req[r].user, req[r].start)
    /\ delivered' = delivered \cup {t}
    /\ session' = [session EXCEPT ![t] = t]
    /\ Grant(t, req[r].iat)
    /\ Finish(r)
    /\ UNCHANGED <<now, parent, rotated, outcome>>

\* The response is a 500: the insert failed.
LoginInsertFails(r) ==
    /\ req[r].pc = "sign"
    /\ req[r].token = Null
    /\ Finish(r)
    /\ UNCHANGED <<rows, now, delivered, lineage, accessUntil, outcome>>

-----------------------------------------------------------------------------
(* POST /auth/refresh.                                                     *)

\* Mutant: expiry is checked before replay.
RefreshVerdict_ExpiryFirst(t) ==
    IF ~Stored(t) THEN "unknown"
    ELSE IF Expired(rows[t].expiresAt, now) THEN "expired"
    ELSE IF rows[t].revokedAt # Null THEN "replay"
    ELSE "accept"

\* Mutant: the lookup filters on revoked_at IS NULL.
RefreshVerdict_LiveOnly(t) ==
    IF ~Unrevoked(t) THEN "unknown"
    ELSE IF Expired(rows[t].expiresAt, now) THEN "expired"
    ELSE "accept"

\* Mutant: the boundary of the stored expiry is off by one unit.
RefreshVerdict_Boundary(t) ==
    IF ~Stored(t) THEN "unknown"
    ELSE IF rows[t].revokedAt # Null THEN "replay"
    ELSE IF Expired_Strict(rows[t].expiresAt, now) THEN "expired"
    ELSE "accept"

\* What the checks of refresh() make of a presented token, in their order:
\* replay comes before expiry.
RefreshVerdict(t) ==
    IF ~Stored(t) THEN "unknown"
    ELSE IF rows[t].revokedAt # Null THEN "replay"
    ELSE IF Expired(rows[t].expiresAt, now) THEN "expired"
    ELSE "accept"

\* Session s has a rotation in flight, which may revive it.
Pending(s) == \E r \in Requests : Rotating(r) /\ session[req[r].token] = s

SessionsOf(u) == { s \in Tokens : session[s] = s /\ rows[s].user = u }

\* History: presenting a revoked token promises the end of every session of
\* its user, whatever the handler makes of it.
NotePresented(t) ==
    LET S == SessionsOf(rows[t].user)
    IN IF Stored(t) /\ rows[t].revokedAt # Null
       THEN /\ promise' = [s \in Tokens |->
                             IF s \in S THEN "compromise" ELSE promise[s]]
            /\ overtaken' = (overtaken \ S) \cup { s \in S : Pending(s) }
       ELSE UNCHANGED outcome

\* 401 that changes nothing.
RefreshRefused(t) ==
    /\ RefreshVerdict(t) \in {"unknown", "expired"}
    /\ UNCHANGED <<rows, req>>

\* 401 and the user's whole chain is revoked.
RefreshReplay(t) ==
    /\ RefreshVerdict(t) = "replay"
    /\ rows' = RevokeAllForUser(rows[t].user, now)
    /\ UNCHANGED req

\* The checks passed: sign the access token.
RefreshAccept(r, t) ==
    /\ RefreshVerdict(t) = "accept"
    /\ req' = [req EXCEPT ![r] = [pc |-> "sign", user |-> rows[t].user,
                                  token |-> t, start |-> now, iat |-> now]]
    /\ UNCHANGED rows

\* The turn of refresh() up to its await.  Clients present what they were
\* given, or a value this database never issued.
Refresh(r, t) ==
    /\ req[r] = Idle
    /\ t \in delivered \/ ~Stored(t)
    /\ RefreshRefused(t) \/ RefreshReplay(t) \/ RefreshAccept(r, t)
    /\ NotePresented(t)
    /\ UNCHANGED <<now, delivered, lineage, accessUntil>>

\* How far the second turn of refresh() gets.  It inserts the replacement
\* first and then revokes the presented token.
RotationStages == {"both", "first"}
\* Mutant: revoke first, then insert.
RotatedTable_RevokeFirst(p, t, u, n, stage) ==
    IF stage = "both" THEN RevokeByHash(InsertRow(t, u, n), p, n)
    ELSE RevokeByHash(rows, p, n)

RotatedTable(p, t, u, n, stage) ==
    IF stage = "both" THEN RevokeByHash(InsertRow(t, u, n), p, n)
    ELSE InsertRow(t, u, n)

RotationStep(r, t, stage) ==
    LET p == req[r].token
    IN /\ Rotating(r)
       /\ Fresh(t)
       /\ rows' = RotatedTable(p, t, req[r].user, req[r].start, stage)
       /\ session' = IF rows'[t].user # Null
                     THEN [session EXCEPT ![t] = session[p]] ELSE session
       /\ parent' = IF rows'[t].user # Null
                    THEN [parent EXCEPT ![t] = p] ELSE parent
       /\ rotated' = IF rows'[p].revokedAt # rows[p].revokedAt
                     THEN rotated \cup {p} ELSE rotated
       /\ UNCHANGED <<now, outcome>>

\* 200 with the new pair.
RotationDone(r, t) ==
    /\ RotationStep(r, t, "both")
    /\ delivered' = delivered \cup {t}
    /\ Grant(session[req[r].token], req[r].iat)
    /\ Finish(r)

\* The insert fails: 500, and nothing was written.
RotationInsertFails(r) ==
    /\ Rotating(r)
    /\ Finish(r)
    /\ UNCHANGED <<rows, now, delivered, lineage, accessUntil, outcome>>

\* The second statement fails: 500, the replacement is stored but never sent.
RotationCut(r, t) ==
    /\ RotationStep(r, t, "first")
    /\ Finish(r)
    /\ UNCHANGED <<delivered, accessUntil>>

-----------------------------------------------------------------------------
(* POST /auth/logout, the clock, and crashes.                              *)

\* 204 whatever the token.  History: the caller was told its session is over,
\* which cannot be kept when a rotation is in flight or the session has
\* another unrevoked token.
Logout(t) ==
    LET s == session[t]
    IN /\ t \in delivered
       /\ rows' = RevokeByHash(rows, t, now)
       /\ promise' = [promise EXCEPT ![s] = IF @ = "none" THEN "logout" ELSE @]
       /\ overtaken' =
            IF Pending(s) \/ (\E x \in Tokens \ {t} :
                                  session[x] = s /\ Unrevoked(x))
            THEN overtaken \cup {s} ELSE overtaken \ {s}
       /\ UNCHANGED <<req, now, delivered, lineage, accessUntil>>

Tick ==
    /\ now < MaxTime
    /\ now' = now + 1
    /\ UNCHANGED <<rows, req, delivered, lineage, accessUntil, outcome>>

\* The process dies and is restarted: requests are lost, the table is not.
Crash ==
    /\ req # [r \in Requests |-> Idle]
    /\ req' = [r \in Requests |-> Idle]
    /\ UNCHANGED <<rows, now, delivered, lineage, accessUntil, outcome>>

\* The same, between the two statements of a rotation.
CrashMidRotation(r, t) ==
    /\ RotationStep(r, t, "first")
    /\ req' = [x \in Requests |-> Idle]
    /\ UNCHANGED <<delivered, accessUntil>>

Next ==
    \/ \E r \in Requests :
         \/ \E u \in OrNull(Users) : LoginLookup(r, u)
         \/ LoginRefused(r)
         \/ LoginVerified(r)
         \/ \E t \in Tokens : LoginIssue(r, t)
         \/ LoginInsertFails(r)
         \/ \E t \in Tokens : Refresh(r, t)
         \/ \E t \in Tokens : RotationDone(r, t)
         \/ RotationInsertFails(r)
         \/ \E t \in Tokens : RotationCut(r, t)
         \/ \E t \in Tokens : CrashMidRotation(r, t)
    \/ \E t \in Tokens : Logout(t)
    \/ Tick
    \/ Crash

Spec == Init /\ [][Next]_vars

-----------------------------------------------------------------------------
(* Properties.                                                             *)

\* A session is over when no token of it can be exchanged any more and no
\* exchange of it is in flight.
Over(s) ==
    /\ session[s] = s
    /\ \A t \in Tokens : session[t] = s =>
          \/ rows[t].revokedAt # Null
          \/ Expired(rows[t].expiresAt, now)
    /\ ~Pending(s)

\* A user is never logged out by half a rotation: whenever a rotation has
\* revoked a token, its replacement is in the table (auth.service.ts:279-288,
\* the order of insert and revoke, under failing statements and crashes).
RotatedHasReplacement ==
    \A t \in rotated : \E x \in Tokens : parent[x] = t /\ Stored(x)

\* A client that was told its session is over (204 to a logout, 401 to a
\* replay) was told the truth, unless a rotation accepted earlier was still
\* in flight or, for a logout, the token was not the session's newest
\* (auth.service.ts:254-262 and 309-311).
PromisedEndIsKept ==
    \A t \in Tokens : Stored(t) /\ promise[session[t]] # "none" =>
        \/ session[t] \in overtaken
        \/ rows[t].revokedAt # Null

\* Once over, a session stays over and hands out no further access token, so
\* a revocation is complete one ACCESS_TOKEN_TTL later (ADR 0001, the
\* "revocation window").
OverIsFinal ==
    [][\A s \in Tokens : Over(s) =>
           /\ Over(s)'
           /\ accessUntil'[s] = accessUntil[s]]_vars

\* A revocation is never undone and keeps its first, truthful time, also when
\* two rotations of one token, a logout and a replay race for the row
\* (auth.repository.ts:258-260, 286-287).
RevocationIsPermanent ==
    [][\A t \in Tokens : rows[t].revokedAt # Null =>
           rows'[t] = rows[t]]_vars

(* The inductive invariant behind them.                                    *)

\* A row knows its session, the session's first row exists and has the same
\* user; what is not stored leaves no trace; only stored tokens are sent.
LineageOK ==
    /\ \A t \in Tokens : ~Stored(t) =>
          rows[t] = NoRow /\ session[t] = Null /\ parent[t] = Null
    /\ \A t \in Tokens : Stored(t) =>
          /\ session[t] \in Tokens
          /\ session[session[t]] = session[t]
          /\ rows[session[t]].user = rows[t].user
    /\ \A t \in delivered : Stored(t)

\* What a request remembers across its await is still true of the table, all
\* but the one thing that may have changed: whether the token is revoked.
FlightOK == \A r \in Requests :
    /\ req[r].pc = "verify" => req[r].token = Null
    /\ Rotating(r) => rows[req[r].token].user = req[r].user

PromiseOK == \A s \in Tokens : promise[s] # "none" =>
    /\ session[s] = s
    /\ \/ s \in overtaken
       \/ /\ ~Pending(s)
          /\ \A t \in Tokens : session[t] = s => rows[t].revokedAt # Null

\* Every conjunct is needed to carry the others over a step: the properties
\* above alone do not say who owns the session of a token in flight.
IndInv == TypeOK /\ LineageOK /\ FlightOK /\ PromiseOK /\ RotatedHasReplacement

(* Refinement.                                                             *)

\* The service as a set of sessions: implements Sessions.
Live(s) == \E t \in Tokens : session[t] = s /\ Unrevoked(t)

SessionStatus == [s \in Tokens |->
    IF session[s] # s THEN "none"
    ELSE IF Live(s) THEN "live"
    ELSE IF Pending(s) THEN "closing"
    ELSE "ended"]
SessionOwner == [s \in Tokens |-> IF session[s] # s THEN Null ELSE rows[s].user]

Promised == INSTANCE Sessions WITH
    SessionIds <- Tokens, Owners <- Users, Nobody <- Null,
    status <- SessionStatus, owner <- SessionOwner

\* Every behaviour of the service is one Sessions allows: a session ends for
\* good, revocation touches one owner's sessions, and only a refresh in flight
\* brings a revoked session back.
ImplementsSessions == Promised!Spec

(* What the documentation says and the code does not do, and how far from  *)
(* it the code is: each holds while one interleaving does not happen.      *)

\* auth.service.ts:211, auth.routes.ts:84: a refresh token is single-use.
SingleUse == \A x, y \in delivered :
    parent[x] = parent[y] /\ parent[x] # Null => x = y

\* No two rotations of one token are at their await together.
RotationsApart == \A r, q \in Requests :
    Rotating(r) /\ Rotating(q) /\ req[r].token = req[q].token => r = q

\* auth.service.ts:219-221: a replay ends every session of the user.
ReplayEndsEverySession ==
    \A t \in Tokens : Unrevoked(t) => promise[session[t]] # "compromise"

\* A replay is detected while no session of its user has a rotation at its
\* await.
ReplayIsQuiet == \A r \in Requests, t \in Tokens :
    Refresh(r, t) /\ RefreshVerdict(t) = "replay" =>
        \A s \in SessionsOf(rows[t].user) : ~Pending(s)
=============================================================================

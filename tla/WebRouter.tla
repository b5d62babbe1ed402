------------------------------ MODULE WebRouter ------------------------------
(***************************************************************************)
(* The two screens of the single-page app, the route guards in front of    *)
(* them, the cached GET /me they consult, and the credentials behind it.   *)
(*   apps/web/src/routes/router.tsx     the guards                         *)
(*   apps/web/src/routes/MePage.tsx     the signed-in screen, sign-out     *)
(*   apps/web/src/routes/LoginPage.tsx  the login form                     *)
(*   apps/web/src/api/queries.ts        the query cache                    *)
(*   apps/web/src/api/{tokens,endpoints}.ts, auth/useSession.ts            *)
(*                                                                         *)
(* One tab.  Tokens are named by the user they were issued to; WebClient   *)
(* has their rotation and the lock.  The router, the query cache and React *)
(* are libraries: a navigation runs the guard of its target and a redirect *)
(* starts over; a later navigation replaces a pending one; the old screen  *)
(* stays until a guard lets the new one in.  queryClient.clear() drops the *)
(* data and whoever awaits it, not the request itself.  A user or the      *)
(* network acts only when no promise continuation is pending, while the    *)
(* order of these, a guard's and a sign-out's, is left open.               *)
(***************************************************************************)
EXTENDS Naturals

CONSTANTS Users,
          MaxLoads,  \* bound on page loads
          Null

Paths == {"index", "login", "me"}

ASSUME RouterAssumption == MaxLoads \in Nat /\ Null \notin Users \cup Paths

VARIABLES access,    \* the deployment is behind Cloudflare Access
          edge,      \* whose CF_Authorization cookie the browser holds
          live,      \* users whose refresh token the server accepts
          stored,    \* whose refresh token is in localStorage
          memory,    \* an access token is in memory
          authMode,  \* tokens.ts
          cache,     \* whose profile the ['me'] query holds
          fetch,     \* GET /me of the query, and one that clear() orphaned
          nav,       \* the pending navigation
          shown,     \* the screen
          signIn,    \* POST /auth/login under way
          signOut,   \* the sign-out mutation
          loads,     \* page loads so far
          stray      \* history: an orphan changed the tokens or the mode

vars == <<access, edge, live, stored, memory, authMode, cache, fetch, nav,
          shown, signIn, signOut, loads, stray>>
credentials == <<access, edge, live>>
tokens == <<stored, memory>>
mutations == <<signIn, signOut>>
history == <<loads, stray>>

OrNull(S) == S \cup {Null}
Fetches == {"query", "orphan"}
NoFetch == [st |-> "none", token |-> Null]
NoNav == [to |-> Null, asks |-> FALSE]
NoSignOut == [st |-> "none", token |-> Null]

\* Every variable holds a value of its kind, the access token in memory comes
\* with a stored refresh token, and a guard that asks has a request to wait for.
TypeOK ==
    /\ access \in BOOLEAN
    /\ edge \in OrNull(Users)
    /\ live \subseteq Users
    /\ stored \in OrNull(Users)
    /\ memory \in BOOLEAN /\ (memory => stored # Null)
    /\ authMode \in {Null, "password", "cloudflare_access"}
    /\ cache \in OrNull(Users)
    /\ fetch \in [Fetches -> [st: {"none", "sent", "refreshing", "refreshed", "waiting", "replay"},
                              token: OrNull(Users)]]
    /\ nav \in [to: OrNull(Paths), asks: BOOLEAN]
    /\ nav.asks => fetch["query"] # NoFetch
    /\ shown \in {"away", "blank", "login", "me"}
    /\ signIn \in OrNull(Users)
    /\ signOut \in [st: {"none", "sent", "clearing"}, token: OrNull(Users)]
    /\ loads \in 0..MaxLoads
    /\ stray \in BOOLEAN

Init ==
    /\ access \in BOOLEAN
    /\ edge = Null
    /\ live \in SUBSET Users
    /\ stored \in OrNull(Users)
    /\ memory = FALSE
    /\ authMode = Null
    /\ cache = Null
    /\ fetch = [f \in Fetches |-> NoFetch]
    /\ nav = NoNav
    /\ shown = "away"
    /\ signIn = Null
    /\ signOut = NoSignOut
    /\ loads = 0
    /\ stray = FALSE

-----------------------------------------------------------------------------
(* tokens.ts and the guards.                                               *)

HasSession == authMode = "cloudflare_access" \/ stored # Null

\* Behind Access a request without the cookie never reaches the origin.
Through == access => edge # Null

\* No promise continuation is pending: none of a sign-out, and no guard that
\* has yet to look.
AtRest == signOut.st # "clearing" /\ (nav.to = Null \/ nav.asks)

Start(path) == [to |-> path, asks |-> FALSE]

\* Mutant: the login form has no guard.
Destination_LoginOpen(path, signedIn) ==
    IF path = "index" /\ signedIn THEN "me"
    ELSE IF path \in {"index", "me"} /\ ~signedIn THEN "login"
    ELSE path

\* Mutant: the guard of /me still reads the storage only.
Destination_MeByStorage(path, signedIn) ==
    IF path \in {"index", "login"} /\ signedIn THEN "me"
    ELSE IF path = "index" \/ (path = "me" /\ stored = Null) THEN "login"
    ELSE path

\* beforeLoad of the three routes.
Destination(path, signedIn) ==
    IF path \in {"index", "login"} /\ signedIn THEN "me"
    ELSE IF path \in {"index", "me"} /\ ~signedIn THEN "login"
    ELSE path

\* A guard has its answer: redirect, or let the screen in.  MePage, when it
\* mounts without a session, navigates away at once.
Routed(signedIn) ==
    LET to == Destination(nav.to, signedIn)
        mounts == to = "me" /\ shown # "me"
    IN IF to # nav.to THEN nav' = Start(to) /\ UNCHANGED shown
       ELSE /\ shown' = to
            /\ nav' = IF mounts /\ ~HasSession' THEN Start("login") ELSE NoNav

\* The listeners of the token store: MePage navigates to the login screen when
\* isAuthenticated turns false.
SessionLost == shown = "me" /\ HasSession /\ ~HasSession'

Notify ==
    /\ nav' = IF SessionLost THEN Start("login") ELSE nav
    /\ UNCHANGED shown

SetTokens(u) == stored' = u /\ memory' = TRUE

\* Mutant: the access token survives.
ClearTokens_StorageOnly == stored' = Null /\ UNCHANGED memory

ClearTokens == stored' = Null /\ memory' = FALSE

\* The guard need not ask: hasSession(), or a cached /me, which is 'static'.
GuardKnows ==
    /\ nav.to # Null /\ ~nav.asks
    /\ HasSession \/ cache # Null
    /\ UNCHANGED <<credentials, tokens, authMode, cache, fetch, mutations, history>>
    /\ Routed(TRUE)

\* GET /me, with the access token if there is one.
Request(st) == [st |-> st, token |-> IF memory THEN stored ELSE Null]
Joined == IF fetch["query"] = NoFetch
          THEN [fetch EXCEPT !["query"] = Request("sent")] ELSE fetch

\* Nothing is cached: the guard waits for GET /me, or joins the one under way.
GuardAsks ==
    /\ nav.to # Null /\ ~nav.asks
    /\ ~HasSession /\ cache = Null
    /\ nav' = [nav EXCEPT !.asks = TRUE]
    /\ fetch' = Joined
    /\ UNCHANGED <<credentials, tokens, authMode, cache, shown, mutations, history>>

-----------------------------------------------------------------------------
(* GET /me: the answer, a refresh, the one replay.                         *)

\* The requests of S are over; a guard that waits for the query's goes on.
Ends(S, signedIn) ==
    IF "query" \in S /\ nav.asks /\ ~SessionLost THEN Routed(signedIn) ELSE Notify

SetAuthMode(mode) == authMode' = mode

\* 200: the bearer decides, else the cookie.  fetchMe records the mode even if
\* nobody waits for the data any more.
MeOk(f) ==
    LET bearer == fetch[f].token
    IN /\ fetch[f].st \in {"sent", "replay"}
       /\ AtRest /\ Through
       /\ bearer # Null \/ access
       /\ SetAuthMode(IF bearer = Null THEN "cloudflare_access" ELSE "password")
       /\ cache' = IF f = "orphan" THEN cache ELSE IF bearer = Null THEN edge ELSE bearer
       /\ fetch' = [fetch EXCEPT ![f] = NoFetch]
       /\ stray' = (stray \/ (f = "orphan" /\ authMode' # authMode))
       /\ UNCHANGED <<credentials, tokens, mutations, loads>>
       /\ Ends({f}, TRUE)

\* 401 with a refresh token stored: start the refresh, or join the other one.
\* The bearer may be refused, or the assertion of the edge, or neither is there.
MeRefused(f) ==
    /\ fetch[f].st = "sent"
    /\ AtRest /\ Through
    /\ stored # Null
    /\ fetch' = [fetch EXCEPT ![f] =
                   [st |-> IF \E g \in Fetches : fetch[g].st \in {"refreshing", "refreshed"}
                           THEN "waiting" ELSE "refreshing",
                    token |-> stored]]
    /\ UNCHANGED <<credentials, tokens, authMode, cache, nav, shown, mutations, history>>

\* Mutant: an unreachable API lets the guard through.
MeFails_LetIn(f) ==
    /\ fetch[f].st \in {"sent", "replay"}
    /\ AtRest
    /\ fetch' = [fetch EXCEPT ![f] = NoFetch]
    /\ UNCHANGED <<credentials, tokens, authMode, cache, mutations, history>>
    /\ Ends({f}, TRUE)

\* A 401 with nothing to refresh with or after the replay, any other error, a
\* request lost or stopped at the edge.
MeFails(f) ==
    /\ fetch[f].st \in {"sent", "replay"}
    /\ AtRest
    /\ fetch' = [fetch EXCEPT ![f] = NoFetch]
    /\ UNCHANGED <<credentials, tokens, authMode, cache, mutations, history>>
    /\ Ends({f}, FALSE)

RefreshHandled(f) ==
    /\ fetch[f].st = "refreshing"
    /\ AtRest /\ Through
    /\ fetch[f].token \in live
    /\ fetch' = [fetch EXCEPT ![f].st = "refreshed"]
    /\ UNCHANGED <<credentials, tokens, authMode, cache, nav, shown, mutations, history>>

Refreshed(f) == {f} \cup {g \in Fetches : fetch[g].st = "waiting"}

RefreshStored(f) ==
    /\ fetch[f].st = "refreshed"
    /\ AtRest
    /\ SetTokens(fetch[f].token)
    /\ fetch' = [g \in Fetches |-> IF g \in Refreshed(f)
                   THEN [st |-> "replay", token |-> fetch[f].token] ELSE fetch[g]]
    /\ stray' = (stray \/ f = "orphan")
    /\ UNCHANGED <<credentials, authMode, cache, nav, shown, mutations, loads>>

\* Rejected, unreachable, or the answer is lost.
RefreshFails(f) ==
    /\ fetch[f].st \in {"refreshing", "refreshed"}
    /\ AtRest
    /\ ClearTokens
    /\ fetch' = [g \in Fetches |-> IF g \in Refreshed(f) THEN NoFetch ELSE fetch[g]]
    /\ UNCHANGED <<credentials, authMode, cache, mutations, history>>
    /\ Ends(Refreshed(f), FALSE)

\* MePage refetches on mount and on focus.
Refetch ==
    /\ shown = "me"
    /\ AtRest
    /\ fetch["query"] = NoFetch
    /\ fetch' = Joined
    /\ UNCHANGED <<credentials, tokens, authMode, cache, nav, shown, mutations, history>>

-----------------------------------------------------------------------------
(* Signing in and out.                                                     *)

SignIn(u) ==
    /\ shown = "login"
    /\ AtRest
    /\ signIn = Null
    /\ signIn' = u
    /\ UNCHANGED <<credentials, tokens, authMode, cache, fetch, nav, shown, signOut, history>>

SignInReturns ==
    /\ signIn # Null
    /\ AtRest
    /\ signIn' = Null
    /\ \/ /\ Through
          /\ live' = live \cup {signIn}
          /\ SetTokens(signIn)
          /\ nav' = Start("me")
       \/ UNCHANGED <<live, tokens, nav>>
    /\ UNCHANGED <<access, edge, authMode, cache, fetch, shown, signOut, history>>

\* logout() with a stored token asks the server to revoke it, without one it
\* only clears.  Bound: one orphaned GET /me at a time.
SignOut ==
    /\ shown = "me"
    /\ signOut = NoSignOut
    /\ fetch["orphan"] = NoFetch
    /\ authMode # "cloudflare_access"
    /\ signOut' = [st |-> IF stored = Null THEN "clearing" ELSE "sent", token |-> stored]
    /\ UNCHANGED <<credentials, tokens, authMode, cache, fetch, nav, shown, signIn, history>>

\* Answered or not.  A token a refresh has just rotated is not revoked.
SignOutReturns ==
    /\ signOut.st = "sent"
    /\ signOut' = [signOut EXCEPT !.st = "clearing"]
    /\ \/ /\ \A f \in Fetches : fetch[f] # [st |-> "refreshed", token |-> signOut.token]
          /\ live' = live \ {signOut.token}
       \/ UNCHANGED live
    /\ ClearTokens
    /\ UNCHANGED <<access, edge, authMode, cache, fetch, signIn, history>>
    /\ Notify

\* Mutant: onSuccess does not clear the cache.
Dropped_Kept == UNCHANGED <<cache, fetch>>

\* queryClient.clear().
Dropped ==
    /\ cache' = Null
    /\ fetch' = IF fetch["query"] = NoFetch THEN fetch
                ELSE [query |-> NoFetch, orphan |-> fetch["query"]]

ClearCache ==
    /\ signOut.st = "clearing"
    /\ signOut' = NoSignOut
    /\ Dropped
    /\ UNCHANGED <<credentials, tokens, authMode, signIn, history>>
    /\ IF nav.asks THEN Routed(FALSE) ELSE UNCHANGED <<nav, shown>>

\* The module state of the page goes with the page.
Unload(screen, pending) ==
    /\ memory' = FALSE
    /\ authMode' = Null
    /\ cache' = Null
    /\ fetch' = [f \in Fetches |-> NoFetch]
    /\ nav' = pending
    /\ shown' = screen
    /\ signIn' = Null
    /\ signOut' = NoSignOut
    /\ UNCHANGED <<access, live, stray>>

\* Under Access: a full-page navigation to the edge's logout.  A stored token
\* is dropped and not revoked.
SignOutAccess ==
    /\ shown = "me"
    /\ signOut = NoSignOut
    /\ authMode = "cloudflare_access"
    /\ stored' = Null
    /\ edge' = Null
    /\ Unload("away", NoNav)
    /\ UNCHANGED loads

-----------------------------------------------------------------------------
(* The browser, the edge and the server.                                   *)

Loads == loads < MaxLoads /\ loads' = loads + 1

\* A load or reload of any path.
Load(path) ==
    /\ Loads
    /\ AtRest /\ Through
    /\ Unload("blank", Start(path))
    /\ UNCHANGED <<edge, stored>>

\* The edge's own sign-in is a page of its own that returns to the app.
EdgeSignIn(u) ==
    /\ Loads
    /\ access /\ edge = Null
    /\ AtRest
    /\ edge' = u
    /\ Unload("blank", Start("index"))
    /\ UNCHANGED stored

EdgeExpires ==
    /\ edge # Null
    /\ AtRest
    /\ edge' = Null
    /\ UNCHANGED <<access, live, tokens, authMode, cache, fetch, nav, shown, mutations, history>>

\* A session expires or is revoked elsewhere.
ServerForgets(u) ==
    /\ u \in live
    /\ live' = live \ {u}
    /\ UNCHANGED <<access, edge, tokens, authMode, cache, fetch, nav, shown, mutations, history>>

\* Back or forward, from a page at rest.
History(path) ==
    /\ shown \in {"login", "me"}
    /\ nav = NoNav
    /\ AtRest
    /\ nav' = Start(path)
    /\ UNCHANGED <<credentials, tokens, authMode, cache, fetch, shown, mutations, history>>

FetchStep(f) ==
    \/ MeOk(f) \/ MeRefused(f) \/ MeFails(f)
    \/ RefreshHandled(f) \/ RefreshStored(f) \/ RefreshFails(f)

CodeStep ==
    \/ GuardKnows \/ GuardAsks
    \/ SignInReturns \/ SignOutReturns \/ ClearCache

UserStep ==
    \/ \E u \in Users : SignIn(u) \/ EdgeSignIn(u)
    \/ \E path \in Paths : Load(path) \/ History(path)
    \/ SignOut \/ SignOutAccess \/ Refetch

Next ==
    \/ CodeStep
    \/ \E f \in Fetches : FetchStep(f)
    \/ UserStep
    \/ EdgeExpires
    \/ \E u \in Users : ServerForgets(u)

Spec == Init /\ [][Next]_vars

\* Promises run their continuations and fetch settles.  Users, the edge and
\* the lifetime of a session owe nothing.
Fairness ==
    /\ WF_vars(GuardKnows) /\ WF_vars(GuardAsks)
    /\ WF_vars(SignInReturns) /\ WF_vars(SignOutReturns) /\ WF_vars(ClearCache)
    /\ \A f \in Fetches : WF_vars(FetchStep(f))

FairSpec == Spec /\ Fairness

-----------------------------------------------------------------------------
(* Properties.                                                             *)

\* The profile the page holds is that of the credential in use, never that of
\* an earlier user of the tab (MePage.tsx:33-36): by a password it is the user
\* whose token is stored, behind Access the one whose cookie it is, unless that
\* credential has just ended.  Left out: a request that outlives its sign-out
\* and then stores a pair or a mode: refresh.ts:61 does not look whether the
\* session was dropped meanwhile.
ProfileIsCurrent ==
    cache # Null /\ ~stray =>
        IF authMode = "password" THEN stored \in {cache, Null} ELSE edge \in {cache, Null}

\* A page that knows the edge signs its user in never shows a login form
\* (tokens.ts:114-120, router.tsx:24-31).
NoFormBehindAccess ==
    shown = "login" /\ nav = NoNav /\ ~stray => authMode # "cloudflare_access"

\* Redirects end: the guards of /login and /me never keep sending a page to
\* each other (router.tsx:84-106), short of a user who signs out again and again.
NavigationSettles == nav.to # Null ~> nav.to = Null \/ signOut # NoSignOut

\* A page loaded without a credential ends at the login form, whatever the
\* network does (router.tsx:50-54).
Credential == stored # Null \/ edge # Null
StrangerSeesForm ==
    shown = "blank" /\ ~Credential ~> shown = "login" \/ Credential \/ shown = "away"

(* What the documentation says and the code does not do.                   *)

\* MePage.tsx:39-41: a failed refresh, which clears the tokens, ends at the
\* login screen.  (A sign-out clears the cache as well.)
LossShowsForm ==
    shown = "me" /\ cache # Null /\ ~HasSession
        ~> shown # "me" \/ cache = Null \/ HasSession
=============================================================================

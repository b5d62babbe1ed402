-------------------------- MODULE WebRouter_proofs --------------------------
(***************************************************************************)
(* Proofs about WebRouter, for any users and any number of page loads.     *)
(* The argument:                                                           *)
(*   Typed says what kind of value every variable holds;                   *)
(*   OneRefresh, that the two requests never refresh at the same time and  *)
(*   that a sign-out finds no orphan;                                      *)
(*   Clean, what holds until an orphan has changed the tokens or the mode: *)
(*   a guard that asks has no session to go by, the form at rest neither   *)
(*   has one nor waits for one, a sign-in under way is the only way to a   *)
(*   pair, and the query's bearer is the stored one or a dropped one.      *)
(***************************************************************************)
EXTENDS WebRouter, TLAPS

USE RouterAssumption DEF RouterAssumption, OrNull

Query == fetch["query"]
Orphan == fetch["orphan"]
Refreshing == {"refreshing", "refreshed"}
States == {"none", "sent", "refreshing", "refreshed", "waiting", "replay"}

TokensTyped ==
    /\ stored \in OrNull(Users)
    /\ memory \in BOOLEAN /\ (memory => stored # Null)
    /\ authMode \in {Null, "password", "cloudflare_access"}
    /\ cache \in OrNull(Users)

\* A request that was refused once knows the pair it is about.
FetchTyped ==
    /\ fetch \in [Fetches -> [st: States, token: OrNull(Users)]]
    /\ \A f \in Fetches :
         fetch[f].st \notin {"none", "sent"} => fetch[f].token # Null

PageTyped ==
    /\ nav \in [to: OrNull(Paths), asks: BOOLEAN]
    /\ nav.asks => nav.to # Null /\ Query # NoFetch
    /\ shown \in {"away", "blank", "login", "me"}

MutationsTyped ==
    /\ signIn \in OrNull(Users)
    /\ signOut \in [st: {"none", "sent", "clearing"}, token: OrNull(Users)]

OthersTyped ==
    /\ access \in BOOLEAN
    /\ edge \in OrNull(Users)
    /\ live \subseteq Users
    /\ loads \in 0..MaxLoads
    /\ stray \in BOOLEAN

Typed == TokensTyped /\ FetchTyped /\ PageTyped /\ MutationsTyped /\ OthersTyped

OneRefresh ==
    /\ ~(Query.st \in Refreshing /\ Orphan.st \in Refreshing)
    /\ signOut # NoSignOut => Orphan = NoFetch

\* A guard that asks has neither a session nor a profile to go by.
GuardOK == nav.asks => ~HasSession /\ cache = Null

\* The form is shown over no request that carries a bearer, at rest over none,
\* and without a session.
FormOK ==
    shown = "login" =>
      /\ Query.token = Null
      /\ nav.to = Null => Query = NoFetch
      /\ nav.to = Null \/ nav.asks => ~HasSession /\ cache = Null

\* While a sign-in is under way the page has no pair and will not come by one;
\* what it may have is the edge's identity.
SignInOK ==
    signIn # Null =>
      /\ stored = Null /\ Query.token = Null
      /\ shown = "login" \/ authMode = "cloudflare_access"
      /\ cache # Null => authMode = "cloudflare_access"

\* The pair a request was sent with is stored until it is dropped, and a
\* refresh under way outlives it only while a sign-out is about to clear.
QueryOK ==
    /\ Query.token # Null => stored \in {Query.token, Null}
    /\ Query.st \in Refreshing /\ stored = Null => signOut.st = "clearing"

Kept == GuardOK /\ FormOK /\ SignInOK /\ QueryOK /\ ProfileIsCurrent
Clean == ~stray => Kept

RouterInv == Typed /\ OneRefresh /\ Clean

-----------------------------------------------------------------------------

\* Typed is the type invariant, sorted, with two facts more.
LEMMA TypedIsTypeOK == Typed => TypeOK
BY DEF Typed, TokensTyped, FetchTyped, PageTyped, MutationsTyped, OthersTyped, TypeOK,
   Query, States

-----------------------------------------------------------------------------
(* Where a guard's answer and the end of a request take the page.          *)

LEMMA InitInv == Init => RouterInv
<1>. SUFFICES ASSUME Init PROVE RouterInv
  OBVIOUS
<1>1. fetch = [f \in Fetches |-> NoFetch] /\ "query" \in Fetches /\ "orphan" \in Fetches
  BY DEF Init, Fetches
<1>2. Query = NoFetch /\ Orphan = NoFetch
  BY <1>1 DEF Query, Orphan
<1>3. TokensTyped /\ MutationsTyped
  BY DEF Init, TokensTyped, MutationsTyped, NoSignOut
<1>4. FetchTyped
  <2>1. fetch \in [Fetches -> [st: States, token: OrNull(Users)]]
    BY <1>1 DEF NoFetch, States
  <2>. QED
    BY <1>1, <2>1 DEF FetchTyped, NoFetch
<1>5. PageTyped
  BY DEF Init, PageTyped, NoNav
<1>6. OthersTyped
  <2>1. loads \in 0..MaxLoads
    BY DEF Init
  <2>. QED
    BY <2>1 DEF Init, OthersTyped
<1>7. OneRefresh /\ Clean
  BY <1>2 DEF OneRefresh, Clean, Kept, GuardOK, FormOK, SignInOK, QueryOK, ProfileIsCurrent,
     Init, NoFetch, NoNav, NoSignOut, Refreshing
<1>. QED
  BY <1>3, <1>4, <1>5, <1>6, <1>7 DEF RouterInv, Typed

\* A guard either starts over or lets a screen in, and asks no more.
LEMMA RoutedFacts ==
    ASSUME Typed, nav.to # Null, NEW s \in BOOLEAN, Routed(s)
    PROVE  /\ nav' \in [to: OrNull(Paths), asks: {FALSE}]
           /\ shown' \in {shown, "login", "me"}
           /\ s => nav'.to # Null \/ shown' = "me"
           /\ s => shown' \in {shown, "me"}
           /\ ~s => nav'.to # Null \/ shown' = "login"
           /\ ~s => shown' \in {shown, "login"}
<1>1. nav.to \in Paths
  BY DEF Typed, PageTyped
<1>2. Destination(nav.to, s) \in IF s THEN {"me"} ELSE {"login"}
  BY <1>1 DEF Destination, Paths
<1>3. CASE Destination(nav.to, s) # nav.to
  <2>1. nav' = Start(Destination(nav.to, s)) /\ shown' = shown
    BY <1>3 DEF Routed
  <2>2. nav' \in [to: Paths, asks: {FALSE}]
    BY <1>2, <2>1 DEF Start, Paths
  <2>. QED
    BY <2>1, <2>2
<1>4. CASE Destination(nav.to, s) = nav.to
  <2>1. shown' = Destination(nav.to, s) /\ nav' \in {NoNav, Start("login")}
    BY <1>4 DEF Routed
  <2>2. /\ NoNav \in [to: OrNull(Paths), asks: {FALSE}] /\ NoNav.to = Null
        /\ Start("login") \in [to: OrNull(Paths), asks: {FALSE}] /\ Start("login").to = "login"
    BY DEF NoNav, Start, Paths
  <2>. QED
    BY <1>2, <2>1, <2>2
<1>. QED
  BY <1>3, <1>4

LEMMA EndsFacts ==
    ASSUME Typed, NEW S, NEW s \in BOOLEAN, Ends(S, s)
    PROVE  /\ nav' \in [to: OrNull(Paths), asks: BOOLEAN]
           /\ shown' \in {shown, "login", "me"}
           /\ nav'.asks => nav.asks /\ "query" \notin S /\ nav' = nav
           /\ ~("query" \in S /\ nav.asks) =>
                /\ shown' = shown
                /\ nav' = nav \/ (shown = "me" /\ nav' = Start("login"))
           /\ "query" \in S /\ nav.asks =>
                \/ Routed(s)
                \/ shown = "me" /\ shown' = "me" /\ nav' = Start("login")
<1>1. nav \in [to: OrNull(Paths), asks: BOOLEAN] /\ (nav.asks => nav.to # Null)
  BY DEF Typed, PageTyped
<1>2. CASE "query" \in S /\ nav.asks /\ ~SessionLost
  <2>1. Routed(s)
    BY <1>2 DEF Ends
  <2>2. nav' \in [to: OrNull(Paths), asks: {FALSE}] /\ shown' \in {shown, "login", "me"}
    BY <1>1, <1>2, <2>1, RoutedFacts
  <2>. QED
    BY <1>2, <2>1, <2>2
<1>3. CASE ~("query" \in S /\ nav.asks /\ ~SessionLost)
  <2>1. shown' = shown /\ nav' = IF SessionLost THEN Start("login") ELSE nav
    BY <1>3 DEF Ends, Notify
  <2>2. SessionLost => shown = "me"
    BY DEF SessionLost
  <2>3. Start("login") \in [to: OrNull(Paths), asks: BOOLEAN] /\ ~Start("login").asks
    BY DEF Start, Paths
  <2>. QED
    BY <1>1, <1>3, <2>1, <2>2, <2>3
<1>. QED
  BY <1>2, <1>3

-----------------------------------------------------------------------------
(* The guards.                                                             *)

LEMMA GuardKnowsInv == ASSUME RouterInv, GuardKnows PROVE RouterInv'
<1>. USE DEF RouterInv
<1>1. /\ nav.to # Null /\ ~nav.asks /\ (HasSession \/ cache # Null)
      /\ Routed(TRUE)
      /\ access' = access /\ edge' = edge /\ live' = live /\ stored' = stored
      /\ memory' = memory /\ authMode' = authMode /\ cache' = cache
      /\ fetch' = fetch /\ signIn' = signIn /\ signOut' = signOut
      /\ loads' = loads /\ stray' = stray
  BY DEF GuardKnows, credentials, tokens, mutations, history
<1>2. /\ nav' \in [to: OrNull(Paths), asks: {FALSE}]
      /\ shown' \in {shown, "me"}
      /\ nav'.to # Null \/ shown' = "me"
  BY <1>1, RoutedFacts
<1>3. Typed'
  <2>1. TokensTyped' /\ FetchTyped' /\ MutationsTyped' /\ OthersTyped'
    BY <1>1 DEF Typed, TokensTyped, FetchTyped, MutationsTyped, OthersTyped
  <2>2. PageTyped'
    BY <1>2 DEF Typed, PageTyped
  <2>. QED
    BY <2>1, <2>2 DEF Typed
<1>4. OneRefresh'
  BY <1>1 DEF OneRefresh, Query, Orphan
<1>5. Clean'
  <2>. SUFFICES ASSUME ~stray' PROVE Kept'
    BY DEF Clean
  <2>1. Kept
    BY <1>1 DEF Clean
  <2>2. GuardOK' /\ FormOK'
    BY <1>1, <1>2, <2>1 DEF Kept, GuardOK, FormOK, Query
  <2>3. SignInOK'
    BY <1>1, <1>2, <2>1 DEF Kept, SignInOK, Query, HasSession
  <2>4. QueryOK' /\ ProfileIsCurrent'
    BY <1>1, <2>1 DEF Kept, QueryOK, ProfileIsCurrent, Query
  <2>. QED
    BY <2>2, <2>3, <2>4 DEF Kept
<1>. QED
  BY <1>3, <1>4, <1>5

\* Without a stored token there is none in memory: what the guard sends
\* carries no bearer.
LEMMA GuardAsksInv == ASSUME RouterInv, GuardAsks PROVE RouterInv'
<1>. USE DEF RouterInv
<1>1. /\ nav.to # Null /\ ~nav.asks /\ ~HasSession /\ cache = Null
      /\ nav' = [nav EXCEPT !.asks = TRUE] /\ fetch' = Joined
      /\ access' = access /\ edge' = edge /\ live' = live /\ stored' = stored
      /\ memory' = memory /\ authMode' = authMode /\ cache' = cache
      /\ shown' = shown /\ signIn' = signIn /\ signOut' = signOut
      /\ loads' = loads /\ stray' = stray
  BY DEF GuardAsks, credentials, tokens, mutations, history
<1>2. stored = Null /\ Request("sent") = [st |-> "sent", token |-> Null]
  BY <1>1 DEF HasSession, Request, Typed, TokensTyped
<1>3. /\ Query' = IF Query = NoFetch THEN [st |-> "sent", token |-> Null] ELSE Query
      /\ Orphan' = Orphan
      /\ fetch' \in [Fetches -> [st: States, token: OrNull(Users)]]
  BY <1>1, <1>2 DEF Joined, Query, Orphan, Typed, FetchTyped, States, Fetches
<1>4. Query' # NoFetch /\ (Query.token = Null => Query'.token = Null)
  BY <1>3 DEF NoFetch
<1>5. nav' \in [to: OrNull(Paths), asks: {TRUE}] /\ nav'.to = nav.to
  BY <1>1 DEF Typed, PageTyped
<1>6. Typed'
  <2>1. TokensTyped' /\ MutationsTyped' /\ OthersTyped'
    BY <1>1 DEF Typed, TokensTyped, MutationsTyped, OthersTyped
  <2>2. FetchTyped'
    BY <1>3 DEF Typed, FetchTyped, Query, Orphan, Fetches
  <2>3. PageTyped'
    BY <1>1, <1>4, <1>5 DEF Typed, PageTyped
  <2>. QED
    BY <2>1, <2>2, <2>3 DEF Typed
<1>7. OneRefresh'
  BY <1>1, <1>3 DEF OneRefresh, Refreshing
<1>8. Clean'
  <2>. SUFFICES ASSUME ~stray' PROVE Kept'
    BY DEF Clean
  <2>1. Kept
    BY <1>1 DEF Clean
  <2>2. GuardOK' /\ FormOK'
    BY <1>1, <1>4, <1>5, <2>1 DEF Kept, GuardOK, FormOK, HasSession
  <2>3. SignInOK'
    BY <1>1, <1>4, <2>1 DEF Kept, SignInOK
  <2>4. QueryOK' /\ ProfileIsCurrent'
    BY <1>1, <1>2, <1>3, <2>1 DEF Kept, QueryOK, ProfileIsCurrent, Refreshing
  <2>. QED
    BY <2>2, <2>3, <2>4 DEF Kept
<1>. QED
  BY <1>6, <1>7, <1>8

-----------------------------------------------------------------------------
(* Signing in and out.                                                     *)

\* The form at rest has no session: nothing is lost when one comes.
LEMMA SignInInv == ASSUME RouterInv, NEW u \in Users, SignIn(u) PROVE RouterInv'
<1>. USE DEF RouterInv
<1>1. /\ shown = "login" /\ (nav.to = Null \/ nav.asks) /\ signIn' = u
      /\ access' = access /\ edge' = edge /\ live' = live /\ stored' = stored
      /\ memory' = memory /\ authMode' = authMode /\ cache' = cache
      /\ fetch' = fetch /\ nav' = nav /\ shown' = shown /\ signOut' = signOut
      /\ loads' = loads /\ stray' = stray
  BY DEF SignIn, AtRest, credentials, tokens, history
<1>2. Typed'
  BY <1>1 DEF Typed, TokensTyped, FetchTyped, PageTyped, MutationsTyped, OthersTyped, Query
<1>3. OneRefresh'
  BY <1>1 DEF OneRefresh, Query, Orphan
<1>4. Clean'
  BY <1>1 DEF Clean, Kept, GuardOK, FormOK, SignInOK, QueryOK, ProfileIsCurrent, Query,
     HasSession
<1>. QED
  BY <1>2, <1>3, <1>4

LEMMA SignInReturnsInv == ASSUME RouterInv, SignInReturns PROVE RouterInv'
<1>. USE DEF RouterInv
<1>1. /\ signIn # Null /\ AtRest /\ signIn' = Null
      /\ access' = access /\ edge' = edge /\ authMode' = authMode /\ cache' = cache
      /\ fetch' = fetch /\ shown' = shown /\ signOut' = signOut
      /\ loads' = loads /\ stray' = stray
      /\ \/ /\ live' = live \cup {signIn} /\ stored' = signIn /\ memory' = TRUE
            /\ nav' = Start("me")
         \/ live' = live /\ stored' = stored /\ memory' = memory /\ nav' = nav
  BY DEF SignInReturns, SetTokens, tokens, history
<1>2. signIn \in Users
  BY <1>1 DEF Typed, MutationsTyped
<1>3. Start("me") \in [to: OrNull(Paths), asks: {FALSE}] /\ Start("me").to # Null
  BY DEF Start, Paths
<1>4. Typed'
  <2>1. TokensTyped'
    <3>1. CASE stored' = signIn /\ memory' = TRUE
      BY <1>1, <1>2, <3>1 DEF Typed, TokensTyped
    <3>2. CASE stored' = stored /\ memory' = memory
      BY <1>1, <3>2 DEF Typed, TokensTyped
    <3>. QED
      BY <1>1, <3>1, <3>2
  <2>2. FetchTyped' /\ MutationsTyped' /\ OthersTyped'
    BY <1>1, <1>2 DEF Typed, FetchTyped, MutationsTyped, OthersTyped
  <2>3. PageTyped'
    BY <1>1, <1>3 DEF Typed, PageTyped, Query
  <2>. QED
    BY <2>1, <2>2, <2>3 DEF Typed
<1>5. OneRefresh'
  BY <1>1 DEF OneRefresh, Query, Orphan
<1>6. Clean'
  <2>. SUFFICES ASSUME ~stray' PROVE Kept'
    BY DEF Clean
  <2>1. Kept
    BY <1>1 DEF Clean
  <2>2. GuardOK' /\ FormOK'
    BY <1>1, <1>3, <2>1 DEF Kept, GuardOK, FormOK, Query, HasSession
  <2>3. SignInOK'
    BY <1>1 DEF SignInOK
  <2>4. QueryOK' /\ ProfileIsCurrent'
    BY <1>1, <1>2, <2>1 DEF Kept, SignInOK, QueryOK, ProfileIsCurrent, Query
  <2>. QED
    BY <2>2, <2>3, <2>4 DEF Kept
<1>. QED
  BY <1>4, <1>5, <1>6

LEMMA SignOutInv == ASSUME RouterInv, SignOut PROVE RouterInv'
<1>. USE DEF RouterInv
<1>1. /\ signOut = NoSignOut /\ Orphan = NoFetch
      /\ signOut' = [st |-> IF stored = Null THEN "clearing" ELSE "sent", token |-> stored]
      /\ access' = access /\ edge' = edge /\ live' = live /\ stored' = stored
      /\ memory' = memory /\ authMode' = authMode /\ cache' = cache
      /\ fetch' = fetch /\ nav' = nav /\ shown' = shown /\ signIn' = signIn
      /\ loads' = loads /\ stray' = stray
  BY DEF SignOut, Orphan, credentials, tokens, history
<1>2. Typed'
  <2>1. MutationsTyped'
    BY <1>1 DEF Typed, MutationsTyped, TokensTyped
  <2>. QED
    BY <1>1, <2>1 DEF Typed, TokensTyped, FetchTyped, PageTyped, OthersTyped, Query
<1>3. OneRefresh'
  BY <1>1 DEF OneRefresh, Query, Orphan, NoFetch, Refreshing
<1>4. Clean'
  <2>1. signOut.st # "clearing"
    BY <1>1 DEF NoSignOut
  <2>. QED
    BY <1>1, <2>1 DEF Clean, Kept, GuardOK, FormOK, SignInOK, QueryOK, ProfileIsCurrent,
       Query, HasSession
<1>. QED
  BY <1>2, <1>3, <1>4

LEMMA NotifyFacts ==
    ASSUME Typed, Notify
    PROVE  /\ nav' \in [to: OrNull(Paths), asks: BOOLEAN]
           /\ shown' = shown
           /\ nav' = nav \/ (shown = "me" /\ nav' = Start("login"))
           /\ nav'.asks => nav' = nav
<1>1. nav' = IF SessionLost THEN Start("login") ELSE nav
  BY DEF Notify
<1>2. Start("login") \in [to: OrNull(Paths), asks: {FALSE}]
  BY DEF Start, Paths
<1>. QED
  BY <1>1, <1>2 DEF Notify, SessionLost, Typed, PageTyped

\* The pair is dropped whatever became of the request, and a refresh of the
\* query that is under way is about to be orphaned.
LEMMA SignOutReturnsInv == ASSUME RouterInv, SignOutReturns PROVE RouterInv'
<1>. USE DEF RouterInv
<1>1. /\ signOut.st = "sent" /\ signOut' = [signOut EXCEPT !.st = "clearing"]
      /\ live' \subseteq live /\ stored' = Null /\ memory' = FALSE /\ Notify
      /\ access' = access /\ edge' = edge /\ authMode' = authMode /\ cache' = cache
      /\ fetch' = fetch /\ signIn' = signIn /\ loads' = loads /\ stray' = stray
  BY DEF SignOutReturns, ClearTokens, history
<1>2. /\ nav' \in [to: OrNull(Paths), asks: BOOLEAN] /\ shown' = shown
      /\ nav' = nav \/ (shown = "me" /\ nav' = Start("login"))
      /\ nav'.asks => nav' = nav
  BY <1>1, NotifyFacts
<1>3. signOut' \in [st: {"clearing"}, token: OrNull(Users)] /\ signOut # NoSignOut
  BY <1>1 DEF Typed, MutationsTyped, NoSignOut
<1>4. Typed'
  <2>1. TokensTyped' /\ FetchTyped' /\ MutationsTyped' /\ OthersTyped'
    BY <1>1, <1>3 DEF Typed, TokensTyped, FetchTyped, MutationsTyped, OthersTyped
  <2>2. PageTyped'
    BY <1>1, <1>2 DEF Typed, PageTyped, Query
  <2>. QED
    BY <2>1, <2>2 DEF Typed
<1>5. OneRefresh'
  BY <1>1, <1>3 DEF OneRefresh, Query, Orphan
<1>6. Clean'
  <2>. SUFFICES ASSUME ~stray' PROVE Kept'
    BY DEF Clean
  <2>1. Kept
    BY <1>1 DEF Clean
  <2>2. GuardOK' /\ FormOK'
    BY <1>1, <1>2, <2>1 DEF Kept, GuardOK, FormOK, Query, HasSession
  <2>3. SignInOK'
    BY <1>1, <1>2, <2>1 DEF Kept, SignInOK, Query
  <2>4. QueryOK' /\ ProfileIsCurrent'
    BY <1>1, <1>3, <2>1 DEF Kept, QueryOK, ProfileIsCurrent, Query
  <2>. QED
    BY <2>2, <2>3, <2>4 DEF Kept
<1>. QED
  BY <1>4, <1>5, <1>6

\* There was no orphan, so the one refresh stays the only one.
LEMMA ClearCacheInv == ASSUME RouterInv, ClearCache PROVE RouterInv'
<1>. USE DEF RouterInv
<1>1. /\ signOut.st = "clearing" /\ signOut' = NoSignOut /\ cache' = Null
      /\ fetch' = IF Query = NoFetch THEN fetch ELSE [query |-> NoFetch, orphan |-> Query]
      /\ IF nav.asks THEN Routed(FALSE) ELSE nav' = nav /\ shown' = shown
      /\ access' = access /\ edge' = edge /\ live' = live /\ stored' = stored
      /\ memory' = memory /\ authMode' = authMode /\ signIn' = signIn
      /\ loads' = loads /\ stray' = stray
  BY DEF ClearCache, Dropped, Query, credentials, tokens, history
<1>2. /\ nav' \in [to: OrNull(Paths), asks: {FALSE}]
      /\ shown' \in {"away", "blank", "login", "me"}
      /\ ~nav.asks => nav' = nav /\ shown' = shown
      /\ shown' \in {shown, "login"}
      /\ nav.asks => nav'.to # Null \/ shown' = "login"
  BY <1>1, RoutedFacts DEF Typed, PageTyped
<1>3. /\ Query' = NoFetch /\ Orphan' \in {Query, Orphan}
      /\ fetch' \in [Fetches -> [st: States, token: OrNull(Users)]]
  <2>1. CASE Query = NoFetch
    BY <1>1, <2>1 DEF Query, Orphan, Typed, FetchTyped
  <2>2. CASE Query # NoFetch
    <3>1. fetch' = [query |-> NoFetch, orphan |-> Query]
      BY <1>1, <2>2
    <3>2. fetch' = [f \in Fetches |-> IF f = "query" THEN NoFetch ELSE Query]
      BY <3>1 DEF Fetches
    <3>. QED
      BY <3>2 DEF Query, Orphan, Typed, FetchTyped, States, NoFetch, Fetches
  <2>. QED
    BY <2>1, <2>2
<1>4. Typed'
  <2>1. TokensTyped' /\ MutationsTyped' /\ OthersTyped'
    BY <1>1 DEF Typed, TokensTyped, MutationsTyped, OthersTyped, NoSignOut
  <2>2. FetchTyped'
    BY <1>3 DEF Typed, FetchTyped, Query, Orphan, Fetches, NoFetch
  <2>3. PageTyped'
    BY <1>2 DEF Typed, PageTyped
  <2>. QED
    BY <2>1, <2>2, <2>3 DEF Typed
<1>5. OneRefresh'
  BY <1>1, <1>3 DEF OneRefresh, NoFetch, Refreshing
<1>6. Clean'
  <2>. SUFFICES ASSUME ~stray' PROVE Kept'
    BY DEF Clean
  <2>1. Kept
    BY <1>1 DEF Clean
  <2>2. Query'.token = Null /\ Query'.st \notin Refreshing
    BY <1>3 DEF NoFetch, Refreshing
  <2>3. GuardOK'
    BY <1>2 DEF GuardOK
  <2>4. FormOK'
    BY <1>1, <1>2, <1>3, <2>1, <2>2 DEF Kept, FormOK, GuardOK, HasSession
  <2>5. SignInOK'
    BY <1>1, <1>2, <2>1, <2>2 DEF Kept, SignInOK
  <2>6. QueryOK' /\ ProfileIsCurrent'
    BY <1>1, <2>2 DEF QueryOK, ProfileIsCurrent
  <2>. QED
    BY <2>3, <2>4, <2>5, <2>6 DEF Kept
<1>. QED
  BY <1>4, <1>5, <1>6

-----------------------------------------------------------------------------
(* The browser, the edge and the server.                                   *)

LEMMA UnloadInv ==
    ASSUME RouterInv, NEW screen \in {"away", "blank"},
           NEW pending \in [to: OrNull(Paths), asks: {FALSE}],
           Unload(screen, pending), stored' \in {stored, Null},
           edge' \in OrNull(Users), loads' \in 0..MaxLoads
    PROVE  RouterInv'
<1>. USE DEF RouterInv
<1>1. /\ memory' = FALSE /\ authMode' = Null /\ cache' = Null
      /\ fetch' = [f \in Fetches |-> NoFetch] /\ nav' = pending /\ shown' = screen
      /\ signIn' = Null /\ signOut' = NoSignOut
      /\ access' = access /\ live' = live /\ stray' = stray
  BY DEF Unload
<1>2. Query' = NoFetch /\ Orphan' = NoFetch
  BY <1>1 DEF Query, Orphan, Fetches
<1>3. Typed'
  <2>1. TokensTyped'
    BY <1>1 DEF Typed, TokensTyped
  <2>2. FetchTyped'
    <3>1. NoFetch \in [st: States, token: OrNull(Users)] /\ NoFetch.st = "none"
      BY DEF NoFetch, States
    <3>. QED
      BY <1>1, <3>1 DEF FetchTyped
  <2>3. PageTyped'
    BY <1>1 DEF PageTyped
  <2>4. MutationsTyped'
    BY <1>1 DEF MutationsTyped, NoSignOut
  <2>5. OthersTyped'
    BY <1>1 DEF Typed, OthersTyped
  <2>. QED
    BY <2>1, <2>2, <2>3, <2>4, <2>5 DEF Typed
<1>4. OneRefresh'
  BY <1>2 DEF OneRefresh, NoFetch, Refreshing
<1>5. Clean'
  BY <1>1, <1>2 DEF Clean, Kept, GuardOK, FormOK, SignInOK, QueryOK, ProfileIsCurrent,
     NoFetch, Refreshing
<1>. QED
  BY <1>3, <1>4, <1>5

LEMMA PageLeavesInv ==
    ASSUME RouterInv,
           SignOutAccess \/ (\E path \in Paths : Load(path)) \/ (\E u \in Users : EdgeSignIn(u))
    PROVE  RouterInv'
<1>1. \A path \in Paths : Start(path) \in [to: OrNull(Paths), asks: {FALSE}]
  BY DEF Start
<1>2. loads \in 0..MaxLoads /\ edge \in OrNull(Users)
  BY DEF RouterInv, Typed, OthersTyped
<1>3. Loads => loads' \in 0..MaxLoads
  <2>. SUFFICES ASSUME Loads PROVE loads' \in 0..MaxLoads
    OBVIOUS
  <2>1. loads < MaxLoads /\ loads' = loads + 1 /\ MaxLoads \in Nat
    BY DEF Loads
  <2>. QED
    BY <1>2, <2>1
<1>4. CASE SignOutAccess
  <2>1. NoNav \in [to: OrNull(Paths), asks: {FALSE}]
    BY DEF NoNav
  <2>. QED
    BY <1>2, <1>4, <2>1, UnloadInv DEF SignOutAccess
<1>5. ASSUME NEW path \in Paths, Load(path) PROVE RouterInv'
  BY <1>1, <1>2, <1>3, <1>5, UnloadInv DEF Load
<1>6. ASSUME NEW u \in Users, EdgeSignIn(u) PROVE RouterInv'
  <2>1. "index" \in Paths
    BY DEF Paths
  <2>. QED
    BY <1>1, <1>3, <1>6, <2>1, UnloadInv DEF EdgeSignIn
<1>. QED
  BY <1>4, <1>5, <1>6

\* The credential of the profile may end, and then nobody's is in use.
LEMMA CredentialEndsInv ==
    ASSUME RouterInv, EdgeExpires \/ (\E u \in Users : ServerForgets(u))
    PROVE  RouterInv'
<1>. USE DEF RouterInv
<1>1. /\ edge' \in {edge, Null} /\ live' \subseteq live /\ access' = access
      /\ stored' = stored /\ memory' = memory /\ authMode' = authMode /\ cache' = cache
      /\ fetch' = fetch /\ nav' = nav /\ shown' = shown /\ signIn' = signIn
      /\ signOut' = signOut /\ loads' = loads /\ stray' = stray
  BY DEF EdgeExpires, ServerForgets, tokens, mutations, history
<1>2. Typed'
  BY <1>1 DEF Typed, TokensTyped, FetchTyped, PageTyped, MutationsTyped, OthersTyped, Query
<1>3. OneRefresh'
  BY <1>1 DEF OneRefresh, Query, Orphan
<1>4. Clean'
  BY <1>1 DEF Clean, Kept, GuardOK, FormOK, SignInOK, QueryOK, ProfileIsCurrent, Query,
     HasSession
<1>. QED
  BY <1>2, <1>3, <1>4

LEMMA HistoryInv == ASSUME RouterInv, NEW path \in Paths, History(path) PROVE RouterInv'
<1>. USE DEF RouterInv
<1>1. /\ nav' = Start(path) /\ access' = access /\ edge' = edge /\ live' = live
      /\ stored' = stored /\ memory' = memory /\ authMode' = authMode /\ cache' = cache
      /\ fetch' = fetch /\ shown' = shown /\ signIn' = signIn
      /\ signOut' = signOut /\ loads' = loads /\ stray' = stray
  BY DEF History, credentials, tokens, mutations, history
<1>2. nav' \in [to: OrNull(Paths), asks: {FALSE}] /\ nav'.to # Null
  BY <1>1 DEF Start
<1>3. Typed'
  <2>1. PageTyped'
    BY <1>1, <1>2 DEF Typed, PageTyped
  <2>. QED
    BY <1>1, <2>1 DEF Typed, TokensTyped, FetchTyped, MutationsTyped, OthersTyped
<1>4. OneRefresh'
  BY <1>1 DEF OneRefresh, Query, Orphan
<1>5. Clean'
  <2>. SUFFICES ASSUME ~stray' PROVE Kept'
    BY DEF Clean
  <2>1. Kept
    BY <1>1 DEF Clean
  <2>2. GuardOK' /\ FormOK'
    BY <1>1, <1>2, <2>1 DEF Kept, GuardOK, FormOK, Query
  <2>3. SignInOK' /\ QueryOK' /\ ProfileIsCurrent'
    BY <1>1, <2>1 DEF Kept, SignInOK, QueryOK, ProfileIsCurrent, Query
  <2>. QED
    BY <2>2, <2>3 DEF Kept
<1>. QED
  BY <1>3, <1>4, <1>5

LEMMA RefetchInv == ASSUME RouterInv, Refetch PROVE RouterInv'
<1>. USE DEF RouterInv
<1>1. /\ shown = "me" /\ Query = NoFetch /\ fetch' = [fetch EXCEPT !["query"] = Request("sent")]
      /\ access' = access /\ edge' = edge /\ live' = live /\ stored' = stored
      /\ memory' = memory /\ authMode' = authMode /\ cache' = cache /\ nav' = nav
      /\ shown' = shown /\ signIn' = signIn /\ signOut' = signOut
      /\ loads' = loads /\ stray' = stray
  BY DEF Refetch, Joined, Query, credentials, tokens, mutations, history
<1>2. /\ Query' = Request("sent") /\ Orphan' = Orphan
      /\ Query'.st = "sent" /\ Query'.token \in {stored, Null}
      /\ fetch' \in [Fetches -> [st: States, token: OrNull(Users)]]
  <2>1. /\ Request("sent") \in [st: States, token: OrNull(Users)]
        /\ Request("sent").st = "sent" /\ Request("sent").token \in {stored, Null}
    BY DEF Request, States, Typed, TokensTyped
  <2>. QED
    BY <1>1, <2>1 DEF Query, Orphan, Typed, FetchTyped, Fetches
<1>3. Typed'
  <2>1. TokensTyped' /\ MutationsTyped' /\ OthersTyped'
    BY <1>1 DEF Typed, TokensTyped, MutationsTyped, OthersTyped
  <2>2. FetchTyped'
    BY <1>2 DEF Typed, FetchTyped, Query, Orphan, Fetches
  <2>3. PageTyped'
    BY <1>1, <1>2 DEF Typed, PageTyped, NoFetch
  <2>. QED
    BY <2>1, <2>2, <2>3 DEF Typed
<1>4. OneRefresh'
  BY <1>1, <1>2 DEF OneRefresh, Refreshing
<1>5. Clean'
  <2>. SUFFICES ASSUME ~stray' PROVE Kept'
    BY DEF Clean
  <2>1. Kept
    BY <1>1 DEF Clean
  <2>2. GuardOK' /\ FormOK' /\ SignInOK'
    BY <1>1, <1>2, <2>1 DEF Kept, GuardOK, FormOK, SignInOK, HasSession
  <2>3. QueryOK' /\ ProfileIsCurrent'
    BY <1>1, <1>2, <2>1 DEF Kept, QueryOK, ProfileIsCurrent, Refreshing
  <2>. QED
    BY <2>2, <2>3 DEF Kept
<1>. QED
  BY <1>3, <1>4, <1>5

-----------------------------------------------------------------------------
(* GET /me: the answer, a refresh, the one replay.                         *)

\* One request changes, the other does not.
LEMMA OneFetch ==
    ASSUME FetchTyped, NEW f \in Fetches, NEW r \in [st: States, token: OrNull(Users)],
           r.st \notin {"none", "sent"} => r.token # Null,
           fetch' = [fetch EXCEPT ![f] = r]
    PROVE  /\ FetchTyped'
           /\ Query' = IF f = "query" THEN r ELSE Query
           /\ Orphan' = IF f = "orphan" THEN r ELSE Orphan
<1>1. /\ fetch' \in [Fetches -> [st: States, token: OrNull(Users)]]
      /\ \A g \in Fetches : fetch'[g] = IF g = f THEN r ELSE fetch[g]
  BY DEF FetchTyped
<1>. QED
  BY <1>1 DEF FetchTyped, Query, Orphan, Fetches

\* A failure that takes no more than the pair leaves the guard, the form and a
\* sign-in under way as they should be.
LEMMA FailureKeeps ==
    ASSUME Typed, Kept, NEW S \in SUBSET Fetches, Ends(S, FALSE),
           Query' \in {Query, NoFetch}, "query" \in S => Query' = NoFetch,
           stored' \in {stored, Null}, authMode' = authMode, cache' = cache,
           signIn' = signIn
    PROVE  GuardOK' /\ FormOK' /\ SignInOK'
<1>1. /\ nav' \in [to: OrNull(Paths), asks: BOOLEAN]
      /\ shown' \in {shown, "login", "me"}
      /\ nav'.asks => nav.asks /\ "query" \notin S /\ nav' = nav
      /\ ~("query" \in S /\ nav.asks) =>
           /\ shown' = shown
           /\ nav' = nav \/ (shown = "me" /\ nav' = Start("login"))
      /\ "query" \in S /\ nav.asks =>
           \/ Routed(FALSE)
           \/ shown = "me" /\ shown' = "me" /\ nav' = Start("login")
  BY EndsFacts
<1>2. nav.asks => nav.to # Null
  BY DEF Typed, PageTyped
<1>3. GuardOK'
  BY <1>1 DEF Kept, GuardOK, HasSession
<1>4. Query'.token = Null \/ Query'.token = Query.token
  BY DEF NoFetch
<1>5. CASE "query" \in S /\ nav.asks /\ Routed(FALSE)
  <2>1. /\ nav'.to # Null \/ shown' = "login"
        /\ shown' \in {shown, "login"} /\ ~nav'.asks
    BY <1>2, <1>5, RoutedFacts
  <2>2. ~HasSession' /\ cache' = Null /\ Query' = NoFetch
    BY <1>5 DEF Kept, GuardOK, HasSession
  <2>3. FormOK'
    BY <2>1, <2>2 DEF FormOK, NoFetch
  <2>4. SignInOK'
    BY <2>1, <2>2 DEF Kept, SignInOK, NoFetch
  <2>. QED
    BY <1>3, <2>3, <2>4
<1>6. CASE shown' = shown /\ (nav' = nav \/ shown = "me")
  <2>1. FormOK'
    BY <1>4, <1>6 DEF Kept, FormOK, HasSession
  <2>2. SignInOK'
    BY <1>4, <1>6 DEF Kept, SignInOK
  <2>. QED
    BY <1>3, <2>1, <2>2
<1>. QED
  BY <1>1, <1>5, <1>6

LEMMA EndsTypes ==
    ASSUME Typed, NEW S \in SUBSET Fetches, NEW s \in BOOLEAN, Ends(S, s),
           "query" \in S \/ Query' = Query
    PROVE  PageTyped'
<1>1. /\ nav' \in [to: OrNull(Paths), asks: BOOLEAN]
      /\ shown' \in {shown, "login", "me"}
      /\ nav'.asks => nav.asks /\ "query" \notin S /\ nav' = nav
  BY EndsFacts
<1>. QED
  BY <1>1 DEF Typed, PageTyped

LEMMA MeFailsInv == ASSUME RouterInv, NEW f \in Fetches, MeFails(f) PROVE RouterInv'
<1>. USE DEF RouterInv
<1>1. /\ fetch' = [fetch EXCEPT ![f] = NoFetch] /\ Ends({f}, FALSE)
      /\ access' = access /\ edge' = edge /\ live' = live /\ stored' = stored
      /\ memory' = memory /\ authMode' = authMode /\ cache' = cache
      /\ signIn' = signIn /\ signOut' = signOut /\ loads' = loads /\ stray' = stray
  BY DEF MeFails, credentials, tokens, mutations, history
<1>2. /\ FetchTyped'
      /\ Query' = IF f = "query" THEN NoFetch ELSE Query
      /\ Orphan' = IF f = "orphan" THEN NoFetch ELSE Orphan
  <2>1. NoFetch \in [st: States, token: OrNull(Users)] /\ NoFetch.st = "none"
    BY DEF NoFetch, States
  <2>. QED
    BY <1>1, <2>1, OneFetch DEF Typed
<1>3. Typed'
  <2>1. TokensTyped' /\ MutationsTyped' /\ OthersTyped'
    BY <1>1 DEF Typed, TokensTyped, MutationsTyped, OthersTyped
  <2>2. PageTyped'
    BY <1>1, <1>2, EndsTypes
  <2>. QED
    BY <1>2, <2>1, <2>2 DEF Typed
<1>4. OneRefresh'
  BY <1>1, <1>2 DEF OneRefresh, NoFetch, Refreshing
<1>5. Clean'
  <2>. SUFFICES ASSUME ~stray' PROVE Kept'
    BY DEF Clean
  <2>1. Kept
    BY <1>1 DEF Clean
  <2>2. GuardOK' /\ FormOK' /\ SignInOK'
    BY <1>1, <1>2, <2>1, FailureKeeps
  <2>3. QueryOK' /\ ProfileIsCurrent'
    BY <1>1, <1>2, <2>1 DEF Kept, QueryOK, ProfileIsCurrent, NoFetch, Refreshing
  <2>. QED
    BY <2>2, <2>3 DEF Kept
<1>. QED
  BY <1>3, <1>4, <1>5

\* A guard that waits for the query goes on with it; the form has no query of
\* its own, and behind Access the mode changes with the profile.
LEMMA MeOkInv == ASSUME RouterInv, NEW f \in Fetches, MeOk(f) PROVE RouterInv'
<1>. USE DEF RouterInv
<1>1. /\ fetch[f].st \in {"sent", "replay"} /\ AtRest
      /\ fetch' = [fetch EXCEPT ![f] = NoFetch] /\ Ends({f}, TRUE)
      /\ authMode' = IF fetch[f].token = Null THEN "cloudflare_access" ELSE "password"
      /\ cache' = IF f = "orphan" THEN cache
                  ELSE IF fetch[f].token = Null THEN edge ELSE fetch[f].token
      /\ stray' = (stray \/ (f = "orphan" /\ authMode' # authMode))
      /\ access' = access /\ edge' = edge /\ live' = live /\ stored' = stored
      /\ memory' = memory /\ signIn' = signIn /\ signOut' = signOut /\ loads' = loads
  BY DEF MeOk, SetAuthMode, credentials, tokens, mutations
<1>2. /\ FetchTyped'
      /\ Query' = IF f = "query" THEN NoFetch ELSE Query
      /\ Orphan' = IF f = "orphan" THEN NoFetch ELSE Orphan
  <2>1. NoFetch \in [st: States, token: OrNull(Users)] /\ NoFetch.st = "none"
    BY DEF NoFetch, States
  <2>. QED
    BY <1>1, <2>1, OneFetch DEF Typed
<1>3. Typed'
  <2>1. fetch[f].token \in OrNull(Users) /\ edge \in OrNull(Users)
    BY DEF Typed, FetchTyped, OthersTyped
  <2>2. TokensTyped'
    BY <1>1, <2>1 DEF Typed, TokensTyped
  <2>3. MutationsTyped' /\ OthersTyped'
    BY <1>1 DEF Typed, MutationsTyped, OthersTyped
  <2>4. PageTyped'
    BY <1>1, <1>2, EndsTypes
  <2>. QED
    BY <1>2, <2>2, <2>3, <2>4 DEF Typed
<1>4. OneRefresh'
  BY <1>1, <1>2 DEF OneRefresh, NoFetch, Refreshing
<1>5. Clean'
  <2>. SUFFICES ASSUME ~stray' PROVE Kept'
    BY DEF Clean
  <2>1. Kept
    BY <1>1 DEF Clean
  <2>2. /\ nav' \in [to: OrNull(Paths), asks: BOOLEAN]
        /\ nav'.asks => nav.asks /\ "query" \notin {f} /\ nav' = nav
        /\ ~("query" \in {f} /\ nav.asks) =>
             /\ shown' = shown
             /\ nav' = nav \/ (shown = "me" /\ nav' = Start("login"))
        /\ "query" \in {f} /\ nav.asks =>
             \/ Routed(TRUE)
             \/ shown = "me" /\ shown' = "me" /\ nav' = Start("login")
    BY <1>1, EndsFacts
  <2>3. CASE f = "orphan"
    <3>1. /\ cache' = cache /\ authMode' = authMode /\ Query' = Query /\ shown' = shown
          /\ nav' = nav \/ shown = "me"
          /\ nav'.asks => nav.asks
      BY <1>1, <1>2, <2>2, <2>3
    <3>2. GuardOK' /\ FormOK' /\ SignInOK'
      BY <1>1, <2>1, <2>2, <3>1 DEF Kept, GuardOK, FormOK, SignInOK, HasSession
    <3>3. QueryOK' /\ ProfileIsCurrent'
      BY <1>1, <2>1, <3>1 DEF Kept, QueryOK, ProfileIsCurrent
    <3>. QED
      BY <3>2, <3>3 DEF Kept
  <2>4. CASE f = "query"
    <3>1. /\ Query.st \in {"sent", "replay"} /\ Query' = NoFetch /\ Query'.token = Null
          /\ Query'.st = "none"
      BY <1>1, <1>2, <2>4 DEF Query, NoFetch
    <3>2. GuardOK'
      BY <2>2, <2>4 DEF GuardOK
    <3>3. FormOK'
      <4>1. CASE nav.asks /\ Routed(TRUE)
        <5>1. (nav'.to # Null \/ shown' = "me") /\ ~nav'.asks
          BY <2>2, <2>4, <4>1, RoutedFacts DEF Typed, PageTyped
        <5>. QED
          BY <3>1, <5>1 DEF FormOK
      <4>2. CASE nav.asks /\ shown' = "me"
        BY <4>2 DEF FormOK
      <4>3. CASE ~nav.asks
        <5>1. nav.to = Null
          BY <1>1, <4>3 DEF AtRest
        <5>2. shown' = shown /\ shown # "login"
          BY <2>1, <2>2, <3>1, <4>3, <5>1 DEF Kept, FormOK, NoFetch
        <5>. QED
          BY <5>2 DEF FormOK
      <4>. QED
        BY <2>2, <2>4, <4>1, <4>2, <4>3
    <3>4. SignInOK'
      BY <1>1, <2>1, <2>4, <3>1 DEF Kept, SignInOK, Query
    <3>5. QueryOK'
      BY <3>1 DEF QueryOK, Refreshing
    <3>6. ProfileIsCurrent'
      BY <1>1, <2>1, <2>4 DEF Kept, QueryOK, ProfileIsCurrent, Query
    <3>. QED
      BY <3>2, <3>3, <3>4, <3>5, <3>6 DEF Kept
  <2>. QED
    BY <2>3, <2>4 DEF Fetches
<1>. QED
  BY <1>3, <1>4, <1>5

\* Only a stored pair is refreshed, and the form at rest has none.
LEMMA MeRefusedInv == ASSUME RouterInv, NEW f \in Fetches, MeRefused(f) PROVE RouterInv'
<1>. USE DEF RouterInv
<1>. DEFINE r == [st |-> IF \E g \in Fetches : fetch[g].st \in {"refreshing", "refreshed"}
                         THEN "waiting" ELSE "refreshing",
                  token |-> stored]
<1>1. /\ fetch[f].st = "sent" /\ AtRest /\ stored # Null /\ fetch' = [fetch EXCEPT ![f] = r]
      /\ access' = access /\ edge' = edge /\ live' = live /\ stored' = stored
      /\ memory' = memory /\ authMode' = authMode /\ cache' = cache /\ nav' = nav
      /\ shown' = shown /\ signIn' = signIn /\ signOut' = signOut
      /\ loads' = loads /\ stray' = stray
  BY DEF MeRefused, credentials, tokens, mutations, history
<1>2. /\ r \in [st: States, token: OrNull(Users)] /\ r.token = stored
      /\ r.st \in {"waiting", "refreshing"}
      /\ r.st = "refreshing" => Query.st \notin Refreshing /\ Orphan.st \notin Refreshing
  BY DEF States, Typed, TokensTyped, Query, Orphan, Fetches, Refreshing
<1>. HIDE DEF r
<1>3. /\ FetchTyped'
      /\ Query' = IF f = "query" THEN r ELSE Query
      /\ Orphan' = IF f = "orphan" THEN r ELSE Orphan
  BY <1>1, <1>2, OneFetch DEF Typed
<1>4. (f = "query" => Query.st = "sent") /\ (f = "orphan" => Orphan.st = "sent")
  BY <1>1 DEF Query, Orphan
<1>5. Typed'
  <2>1. TokensTyped' /\ MutationsTyped' /\ OthersTyped'
    BY <1>1 DEF Typed, TokensTyped, MutationsTyped, OthersTyped
  <2>2. PageTyped'
    BY <1>1, <1>2, <1>3 DEF Typed, PageTyped, NoFetch
  <2>. QED
    BY <1>3, <2>1, <2>2 DEF Typed
<1>6. OneRefresh'
  BY <1>1, <1>2, <1>3, <1>4 DEF OneRefresh, Refreshing, NoFetch, Fetches
<1>7. Clean'
  <2>. SUFFICES ASSUME ~stray' PROVE Kept'
    BY DEF Clean
  <2>1. Kept
    BY <1>1 DEF Clean
  <2>2. shown # "login" /\ signIn = Null
    BY <1>1, <2>1 DEF Kept, FormOK, SignInOK, AtRest, HasSession
  <2>3. GuardOK' /\ FormOK' /\ SignInOK'
    BY <1>1, <2>1, <2>2 DEF Kept, GuardOK, FormOK, SignInOK, HasSession
  <2>4. QueryOK' /\ ProfileIsCurrent'
    BY <1>1, <1>2, <1>3, <2>1 DEF Kept, QueryOK, ProfileIsCurrent
  <2>. QED
    BY <2>3, <2>4 DEF Kept
<1>. QED
  BY <1>5, <1>6, <1>7

LEMMA RefreshHandledInv ==
    ASSUME RouterInv, NEW f \in Fetches, RefreshHandled(f) PROVE RouterInv'
<1>. USE DEF RouterInv
<1>. DEFINE r == [fetch[f] EXCEPT !.st = "refreshed"]
<1>1. /\ fetch[f].st = "refreshing" /\ fetch' = [fetch EXCEPT ![f] = r]
      /\ access' = access /\ edge' = edge /\ live' = live /\ stored' = stored
      /\ memory' = memory /\ authMode' = authMode /\ cache' = cache /\ nav' = nav
      /\ shown' = shown /\ signIn' = signIn /\ signOut' = signOut
      /\ loads' = loads /\ stray' = stray
  BY DEF RefreshHandled, credentials, tokens, mutations, history
<1>2. fetch[f] \in [st: States, token: OrNull(Users)] /\ fetch[f].token # Null
  BY <1>1 DEF Typed, FetchTyped
<1>3. r \in [st: States, token: OrNull(Users)] /\ r.st = "refreshed" /\ r.token = fetch[f].token
  BY <1>2 DEF States
<1>. HIDE DEF r
<1>4. /\ FetchTyped'
      /\ Query' = IF f = "query" THEN r ELSE Query
      /\ Orphan' = IF f = "orphan" THEN r ELSE Orphan
  BY <1>1, <1>2, <1>3, OneFetch DEF Typed
<1>5. /\ Query'.token = Query.token /\ Orphan'.token = Orphan.token
      /\ Query'.st \in Refreshing <=> Query.st \in Refreshing
      /\ Orphan'.st \in Refreshing <=> Orphan.st \in Refreshing
      /\ (f = "query" => Query # NoFetch) /\ (f = "orphan" => Orphan # NoFetch)
  BY <1>1, <1>3, <1>4 DEF Query, Orphan, Refreshing, NoFetch
<1>6. Typed'
  <2>1. TokensTyped' /\ MutationsTyped' /\ OthersTyped'
    BY <1>1 DEF Typed, TokensTyped, MutationsTyped, OthersTyped
  <2>2. PageTyped'
    BY <1>1, <1>3, <1>4 DEF Typed, PageTyped, NoFetch
  <2>. QED
    BY <1>4, <2>1, <2>2 DEF Typed
<1>7. OneRefresh'
  BY <1>1, <1>4, <1>5 DEF OneRefresh
<1>8. Clean'
  <2>. SUFFICES ASSUME ~stray' PROVE Kept'
    BY DEF Clean
  <2>1. Kept
    BY <1>1 DEF Clean
  <2>2. GuardOK' /\ SignInOK' /\ QueryOK' /\ ProfileIsCurrent'
    BY <1>1, <1>5, <2>1 DEF Kept, GuardOK, SignInOK, QueryOK, ProfileIsCurrent, HasSession
  <2>3. FormOK'
    BY <1>1, <1>4, <1>5, <2>1 DEF Kept, FormOK, HasSession
  <2>. QED
    BY <2>2, <2>3 DEF Kept
<1>. QED
  BY <1>6, <1>7, <1>8

\* The requests of S all become r, or all but that end.
LEMMA Together ==
    ASSUME FetchTyped, NEW S \in SUBSET Fetches,
           NEW r \in [st: States, token: OrNull(Users)],
           r.st \notin {"none", "sent"} => r.token # Null,
           fetch' = [g \in Fetches |-> IF g \in S THEN r ELSE fetch[g]]
    PROVE  /\ FetchTyped'
           /\ Query' = IF "query" \in S THEN r ELSE Query
           /\ Orphan' = IF "orphan" \in S THEN r ELSE Orphan
<1>1. fetch' \in [Fetches -> [st: States, token: OrNull(Users)]]
  BY DEF FetchTyped
<1>. QED
  BY <1>1 DEF FetchTyped, Query, Orphan, Fetches

LEMMA RefreshedFacts ==
    ASSUME NEW f \in Fetches, fetch[f].st \in Refreshing
    PROVE  /\ Refreshed(f) \in SUBSET Fetches /\ f \in Refreshed(f)
           /\ "query" \in Refreshed(f) <=> f = "query" \/ Query.st = "waiting"
           /\ "orphan" \in Refreshed(f) <=> f = "orphan" \/ Orphan.st = "waiting"
BY DEF Refreshed, Query, Orphan, Fetches

\* The query's refresh stores the pair that is stored: it was not dropped, and
\* so nobody signed in meanwhile.
LEMMA RefreshStoredInv ==
    ASSUME RouterInv, NEW f \in Fetches, RefreshStored(f) PROVE RouterInv'
<1>. USE DEF RouterInv
<1>. DEFINE r == [st |-> "replay", token |-> fetch[f].token]
            S == Refreshed(f)
<1>1. /\ fetch[f].st = "refreshed" /\ AtRest /\ stored' = fetch[f].token /\ memory' = TRUE
      /\ fetch' = [g \in Fetches |-> IF g \in S THEN r ELSE fetch[g]]
      /\ stray' = (stray \/ f = "orphan")
      /\ access' = access /\ edge' = edge /\ live' = live /\ authMode' = authMode
      /\ cache' = cache /\ nav' = nav /\ shown' = shown /\ signIn' = signIn
      /\ signOut' = signOut /\ loads' = loads
  BY DEF RefreshStored, SetTokens, credentials, mutations
<1>2. fetch[f].token \in Users
  BY <1>1 DEF Typed, FetchTyped
<1>3. r \in [st: States, token: OrNull(Users)] /\ r.st = "replay" /\ r.token = fetch[f].token
  BY <1>2 DEF States
<1>4. /\ S \in SUBSET Fetches
      /\ "query" \in S <=> f = "query" \/ Query.st = "waiting"
      /\ "orphan" \in S <=> f = "orphan" \/ Orphan.st = "waiting"
  BY <1>1, RefreshedFacts DEF Refreshing
<1>. HIDE DEF r, S
<1>5. /\ FetchTyped'
      /\ Query' = IF "query" \in S THEN r ELSE Query
      /\ Orphan' = IF "orphan" \in S THEN r ELSE Orphan
  BY <1>1, <1>2, <1>3, <1>4, Together DEF Typed
<1>6. /\ f = "query" => Query.st = "refreshed" /\ Query.token = fetch[f].token
      /\ f = "orphan" => Orphan.st = "refreshed"
  BY <1>1 DEF Query, Orphan
<1>7. Typed'
  <2>1. TokensTyped'
    BY <1>1, <1>2 DEF Typed, TokensTyped
  <2>2. MutationsTyped' /\ OthersTyped'
    BY <1>1 DEF Typed, MutationsTyped, OthersTyped
  <2>3. PageTyped'
    BY <1>1, <1>3, <1>5 DEF Typed, PageTyped, NoFetch
  <2>. QED
    BY <1>5, <2>1, <2>2, <2>3 DEF Typed
<1>8. OneRefresh'
  BY <1>1, <1>3, <1>4, <1>5, <1>6 DEF OneRefresh, Refreshing, NoFetch, Fetches
<1>9. Clean'
  <2>. SUFFICES ASSUME ~stray' PROVE Kept'
    BY DEF Clean
  <2>1. Kept /\ f = "query"
    BY <1>1 DEF Clean, Fetches
  <2>2. stored # Null /\ stored' = stored
    BY <1>1, <1>2, <1>6, <2>1 DEF Kept, QueryOK, AtRest, Refreshing
  <2>3. Query.token # Null /\ Query'.token = Query.token /\ Query'.st = "replay"
    BY <1>2, <1>3, <1>4, <1>5, <1>6, <2>1
  <2>4. shown # "login" /\ signIn = Null
    BY <2>1, <2>2, <2>3 DEF Kept, FormOK, SignInOK
  <2>5. GuardOK' /\ FormOK' /\ SignInOK'
    BY <1>1, <2>1, <2>2, <2>4 DEF Kept, GuardOK, FormOK, SignInOK, HasSession
  <2>6. QueryOK' /\ ProfileIsCurrent'
    BY <1>1, <2>1, <2>2, <2>3 DEF Kept, QueryOK, ProfileIsCurrent, Refreshing
  <2>. QED
    BY <2>5, <2>6 DEF Kept
<1>. QED
  BY <1>7, <1>8, <1>9

LEMMA RefreshFailsInv ==
    ASSUME RouterInv, NEW f \in Fetches, RefreshFails(f) PROVE RouterInv'
<1>. USE DEF RouterInv
<1>. DEFINE S == Refreshed(f)
<1>1. /\ fetch[f].st \in Refreshing /\ stored' = Null /\ memory' = FALSE
      /\ fetch' = [g \in Fetches |-> IF g \in S THEN NoFetch ELSE fetch[g]]
      /\ Ends(S, FALSE)
      /\ access' = access /\ edge' = edge /\ live' = live /\ authMode' = authMode
      /\ cache' = cache /\ signIn' = signIn /\ signOut' = signOut
      /\ loads' = loads /\ stray' = stray
  BY DEF RefreshFails, ClearTokens, credentials, mutations, history, Refreshing
<1>2. NoFetch \in [st: States, token: OrNull(Users)] /\ NoFetch.st = "none"
  BY DEF NoFetch, States
<1>3. /\ S \in SUBSET Fetches
      /\ "query" \in S <=> f = "query" \/ Query.st = "waiting"
      /\ "orphan" \in S <=> f = "orphan" \/ Orphan.st = "waiting"
  BY <1>1, RefreshedFacts
<1>. HIDE DEF S
<1>4. /\ FetchTyped'
      /\ Query' = IF "query" \in S THEN NoFetch ELSE Query
      /\ Orphan' = IF "orphan" \in S THEN NoFetch ELSE Orphan
  BY <1>1, <1>2, <1>3, Together DEF Typed
<1>5. Typed'
  <2>1. TokensTyped' /\ MutationsTyped' /\ OthersTyped'
    BY <1>1 DEF Typed, TokensTyped, MutationsTyped, OthersTyped
  <2>2. PageTyped'
    BY <1>1, <1>3, <1>4, EndsTypes
  <2>. QED
    BY <1>4, <2>1, <2>2 DEF Typed
<1>6. Query'.st \notin Refreshing
  <2>1. f = "query" \/ (f = "orphan" /\ Orphan.st \in Refreshing)
    BY <1>1 DEF Orphan, Fetches
  <2>. QED
    BY <1>2, <1>3, <1>4, <2>1 DEF OneRefresh, Refreshing
<1>7. OneRefresh'
  BY <1>1, <1>4, <1>6 DEF OneRefresh
<1>8. Clean'
  <2>. SUFFICES ASSUME ~stray' PROVE Kept'
    BY DEF Clean
  <2>1. Kept
    BY <1>1 DEF Clean
  <2>2. GuardOK' /\ FormOK' /\ SignInOK'
    BY <1>1, <1>3, <1>4, <2>1, FailureKeeps
  <2>3. QueryOK'
    BY <1>1, <1>6 DEF QueryOK
  <2>4. ProfileIsCurrent'
    BY <1>1, <2>1 DEF Kept, ProfileIsCurrent
  <2>. QED
    BY <2>2, <2>3, <2>4 DEF Kept
<1>. QED
  BY <1>5, <1>7, <1>8

-----------------------------------------------------------------------------
(* The theorems.                                                           *)

LEMMA NextInv == ASSUME RouterInv, [Next]_vars PROVE RouterInv'
<1>1. CASE UNCHANGED vars
  <2>1. /\ access' = access /\ edge' = edge /\ live' = live
        /\ stored' = stored /\ memory' = memory /\ authMode' = authMode /\ cache' = cache
        /\ fetch' = fetch /\ nav' = nav /\ shown' = shown /\ signIn' = signIn
        /\ signOut' = signOut /\ loads' = loads /\ stray' = stray
    BY <1>1 DEF vars
  <2>2. Typed' /\ OneRefresh'
    BY <2>1 DEF RouterInv, Typed, TokensTyped, FetchTyped, PageTyped, MutationsTyped,
       OthersTyped, OneRefresh, Query, Orphan
  <2>3. Clean'
    BY <2>1 DEF RouterInv, Clean, Kept, GuardOK, FormOK, SignInOK, QueryOK,
       ProfileIsCurrent, Query, HasSession
  <2>. QED
    BY <2>2, <2>3 DEF RouterInv
<1>2. CASE CodeStep
  BY <1>2, GuardKnowsInv, GuardAsksInv, SignInReturnsInv, SignOutReturnsInv, ClearCacheInv
     DEF CodeStep
<1>3. CASE \E f \in Fetches : FetchStep(f)
  BY <1>3, MeOkInv, MeRefusedInv, MeFailsInv, RefreshHandledInv, RefreshStoredInv,
     RefreshFailsInv DEF FetchStep
<1>4. CASE UserStep
  BY <1>4, SignInInv, PageLeavesInv, HistoryInv, SignOutInv, RefetchInv DEF UserStep
<1>5. CASE EdgeExpires \/ \E u \in Users : ServerForgets(u)
  BY <1>5, CredentialEndsInv
<1>. QED
  BY <1>1, <1>2, <1>3, <1>4, <1>5 DEF Next

\* The invariant of the page, its cache and its guards, for any users and any
\* number of page loads.
THEOREM RouterInvariant == Spec => []RouterInv
BY InitInv, NextInv, PTL DEF Spec

\* Every variable holds a value of its kind: among others, an access token is
\* never kept without the refresh token it came with (tokens.ts).
THEOREM RouterTypeCorrect == Spec => []TypeOK
<1>1. RouterInv => TypeOK
  BY TypedIsTypeOK DEF RouterInv
<1>. QED
  BY <1>1, RouterInvariant, PTL

\* The profile MePage shows is that of the credential in use, whoever signed in
\* before on the same page, unless a request outlived its sign-out.
THEOREM ProfileStaysCurrent == Spec => []ProfileIsCurrent
<1>1. RouterInv => ProfileIsCurrent
  BY DEF RouterInv, Clean, Kept, ProfileIsCurrent
<1>. QED
  BY <1>1, RouterInvariant, PTL

\* The guard of /login lets nobody see a form once the page knows that the
\* edge signs its user in.
THEOREM EdgeNeedsNoForm == Spec => []NoFormBehindAccess
<1>1. RouterInv => NoFormBehindAccess
  <2>1. NoNav.to = Null
    BY DEF NoNav
  <2>. QED
    BY <2>1 DEF RouterInv, Clean, Kept, FormOK, NoFormBehindAccess, HasSession
<1>. QED
  BY <1>1, RouterInvariant, PTL
=============================================================================

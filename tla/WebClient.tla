----------------------------- MODULE WebClient ------------------------------
(***************************************************************************)
(* The session handling of the single-page app: several tabs of one        *)
(* browser, signed in as one user with a password, against the API over a  *)
(* network that may lose requests and responses.                           *)
(*   apps/web/src/api/client.ts     apiRequest: 401, refresh, one replay   *)
(*   apps/web/src/api/refresh.ts    the single-flight refresh lock         *)
(*   apps/web/src/api/tokens.ts     the stored refresh token               *)
(*   apps/web/src/api/endpoints.ts  login and logout                       *)
(*                                                                         *)
(* A tab is one JavaScript thread: what runs between two awaits is one     *)
(* action.  The refresh token lives in localStorage, which the tabs share; *)
(* the lock is module state of one tab.  Access tokens are left out: any   *)
(* call may be answered 401.  The API handles one request at a time here   *)
(* (RefreshTokens has its interleaving), its refresh tokens do not expire, *)
(* and login() and logout() may be called whenever the tab is not already  *)
(* in one, whatever page it shows.                                         *)
(***************************************************************************)
EXTENDS Naturals

CONSTANTS Tabs,        \* tabs of the browser
          Callers,     \* apiRequest calls a tab may have under way at once
          Tokens,      \* refresh tokens the server may issue
          MaxReloads,  \* bound on page reloads
          Null

ASSUME ClientAssumption ==
    /\ MaxReloads \in Nat
    /\ Null \notin Callers
    /\ Null \notin Tokens

VARIABLES server,    \* the server's row of each refresh token
          stored,    \* localStorage
          call,      \* tab, caller: an apiRequest
          refresh,   \* tab, caller: the performRefresh that caller started
          inFlight,  \* tab: whose performRefresh is the shared promise
          login,     \* tab: a POST /auth/login
          logout,    \* tab: a POST /auth/logout
          orphans,   \* requests whose page is gone
          reloads,
          replayed   \* history: how the replayed tokens had been revoked

vars == <<server, stored, call, refresh, inFlight, login, logout,
          orphans, reloads, replayed>>
network == <<server, replayed>>

OrNull(S) == S \cup {Null}
Revoked == {"rotated", "loggedOut", "compromised"}
NoCall == [st |-> "idle", left |-> 0, on |-> Null]
NoOp == [st |-> "none", token |-> Null, new |-> Null]
Op == [st: {"none", "sent", "ok", "failed"}, token: OrNull(Tokens),
       new: OrNull(Tokens)]

\* Every variable holds a value of its kind, and a caller waits for a refresh
\* of its own tab.
TypeOK ==
    /\ server \in [Tokens -> {"unused", "live"} \cup Revoked]
    /\ stored \in OrNull(Tokens)
    /\ call \in [Tabs \X Callers -> [st: {"idle", "sent", "waiting"}, left: 0..1,
                                     on: OrNull(Callers)]]
    /\ refresh \in [Tabs \X Callers -> Op]
    /\ inFlight \in [Tabs -> OrNull(Callers)]
    /\ login \in [Tabs -> Op]
    /\ logout \in [Tabs -> Op]
    /\ orphans \subseteq {"refresh", "logout"} \X Tokens
    /\ reloads \in 0..MaxReloads
    /\ replayed \subseteq Revoked

Init ==
    /\ server = [t \in Tokens |-> "unused"]
    /\ stored = Null
    /\ call = [x \in Tabs \X Callers |-> NoCall]
    /\ refresh = [x \in Tabs \X Callers |-> NoOp]
    /\ inFlight = [tab \in Tabs |-> Null]
    /\ login = [tab \in Tabs |-> NoOp]
    /\ logout = [tab \in Tabs |-> NoOp]
    /\ orphans = {}
    /\ reloads = 0
    /\ replayed = {}

-----------------------------------------------------------------------------
(* The server.                                                             *)

Send(t) == [st |-> "sent", token |-> t, new |-> Null]
Fail(op) == [op EXCEPT !.st = "failed"]

\* POST /auth/refresh with token t, answered by op': rotation, or the replay
\* response for a token that is already revoked.
Rotate(t, op, answer) ==
    \/ /\ server[t] = "live"
       /\ \E new \in Tokens :
             /\ server[new] = "unused"
             /\ server' = [server EXCEPT ![t] = "rotated", ![new] = "live"]
             /\ answer = [op EXCEPT !.st = "ok", !.new = new]
       /\ UNCHANGED replayed
    \/ /\ server[t] \in Revoked
       /\ server' = [x \in Tokens |->
                       IF server[x] = "live" THEN "compromised" ELSE server[x]]
       /\ replayed' = replayed \cup {server[t]}
       /\ answer = Fail(op)

\* POST /auth/logout with token t.
Revoke(t) ==
    /\ server' = [server EXCEPT ![t] = IF @ = "live" THEN "loggedOut" ELSE @]
    /\ UNCHANGED replayed

-----------------------------------------------------------------------------
(* tokens.ts.                                                              *)

\* Mutant: the new access token is kept, the new refresh token is not.
SetTokens_MemoryOnly(t) == stored' = IF stored = Null THEN t ELSE stored

SetTokens(t) == stored' = t

ClearTokens == stored' = Null

-----------------------------------------------------------------------------
(* apiRequest.                                                             *)

\* left is attemptsRemaining.
Request(left) == [st |-> "sent", left |-> left, on |-> Null]

CallStart(tab, c) ==
    /\ call[<<tab, c>>] = NoCall
    /\ call' = [call EXCEPT ![<<tab, c>>] = Request(1)]
    /\ UNCHANGED <<network, stored, refresh, inFlight, login, logout, orphans, reloads>>

\* The call is over: a result, an error that is not a 401, or a 401 that cannot
\* be refreshed away.
CallEnds(tab, c) ==
    /\ call[<<tab, c>>].st = "sent"
    /\ call' = [call EXCEPT ![<<tab, c>>] = NoCall]
    /\ UNCHANGED <<network, stored, refresh, inFlight, login, logout, orphans, reloads>>

\* Mutant: every caller starts a refresh of its own.
JoinOrStart_NoLock(tab, c) ==
    /\ inFlight' = [inFlight EXCEPT ![tab] = c]
    /\ refresh' = [refresh EXCEPT ![<<tab, c>>] = Send(stored)]
    /\ call' = [call EXCEPT ![<<tab, c>>] =
                  [st |-> "waiting", left |-> @.left - 1, on |-> c]]

\* refreshAccessToken: read and set the lock in one turn, and wait.  The caller
\* has just seen a stored token, so performRefresh finds one too.
JoinOrStart(tab, c) ==
    LET o == IF inFlight[tab] = Null THEN c ELSE inFlight[tab]
    IN /\ inFlight' = [inFlight EXCEPT ![tab] = o]
       /\ refresh' = IF inFlight[tab] = Null
                     THEN [refresh EXCEPT ![<<tab, c>>] = Send(stored)] ELSE refresh
       /\ call' = [call EXCEPT ![<<tab, c>>] =
                     [st |-> "waiting", left |-> @.left - 1, on |-> o]]

\* Mutant: the attempts are counted and never checked.
CallUnauthorized_NoLimit(tab, c) ==
    /\ call[<<tab, c>>].st = "sent"
    /\ stored # Null
    /\ JoinOrStart(tab, c)
    /\ UNCHANGED <<network, stored, login, logout, orphans, reloads>>

\* 401 with an attempt left and a stored token: refresh, then replay once.
CallUnauthorized(tab, c) ==
    /\ call[<<tab, c>>].st = "sent"
    /\ call[<<tab, c>>].left > 0
    /\ stored # Null
    /\ JoinOrStart(tab, c)
    /\ UNCHANGED <<network, stored, login, logout, orphans, reloads>>

-----------------------------------------------------------------------------
(* performRefresh.                                                         *)

\* The request reaches the server and is handled.
RefreshHandled(tab, c) ==
    /\ refresh[<<tab, c>>].st = "sent"
    /\ \E answer \in Op :
          /\ Rotate(refresh[<<tab, c>>].token, refresh[<<tab, c>>], answer)
          /\ refresh' = [refresh EXCEPT ![<<tab, c>>] = answer]
    /\ UNCHANGED <<stored, call, inFlight, login, logout, orphans, reloads>>

\* The request is lost, answered 500, or its response is lost.
RefreshLost(tab, c) ==
    /\ refresh[<<tab, c>>].st \in {"sent", "ok"}
    /\ refresh' = [refresh EXCEPT ![<<tab, c>>] = Fail(@)]
    /\ UNCHANGED <<network, stored, call, inFlight, login, logout, orphans, reloads>>

\* Mutant: the lock is released on success only.
Release_OnSuccess(tab, c) ==
    inFlight' = IF refresh[<<tab, c>>].st = "ok"
                THEN [inFlight EXCEPT ![tab] = Null] ELSE inFlight

Release(tab, c) == inFlight' = [inFlight EXCEPT ![tab] = Null]

\* The promise settles: store the pair and let every waiter replay its
\* request, or drop the session and fail every waiter.
Settle(tab, c) ==
    LET op == refresh[<<tab, c>>]
        Waiting(x) == x[1] = tab /\ call[x].st = "waiting" /\ call[x].on = c
    IN /\ op.st \in {"ok", "failed"}
       /\ IF op.st = "ok" THEN SetTokens(op.new) ELSE ClearTokens
       /\ call' = [x \in Tabs \X Callers |->
                     IF ~Waiting(x) THEN call[x]
                     ELSE IF op.st = "ok" THEN Request(call[x].left)
                     ELSE NoCall]
       /\ refresh' = [refresh EXCEPT ![<<tab, c>>] = NoOp]
       /\ Release(tab, c)
       /\ UNCHANGED <<network, login, logout, orphans, reloads>>

-----------------------------------------------------------------------------
(* login and logout.                                                       *)

LoginStart(tab) ==
    /\ login[tab] = NoOp
    /\ login' = [login EXCEPT ![tab] = Send(Null)]
    /\ UNCHANGED <<network, stored, call, refresh, inFlight, logout, orphans, reloads>>

LoginHandled(tab) ==
    /\ login[tab].st = "sent"
    /\ \E t \in Tokens :
          /\ server[t] = "unused"
          /\ server' = [server EXCEPT ![t] = "live"]
          /\ login' = [login EXCEPT ![tab] = [@ EXCEPT !.st = "ok", !.new = t]]
    /\ UNCHANGED <<replayed, stored, call, refresh, inFlight, logout, orphans, reloads>>

\* Wrong credentials, a lost request or a lost response.
LoginFails(tab) ==
    /\ login[tab].st \in {"sent", "ok"}
    /\ login' = [login EXCEPT ![tab] = NoOp]
    /\ UNCHANGED <<network, stored, call, refresh, inFlight, logout, orphans, reloads>>

LoginReturns(tab) ==
    /\ login[tab].st = "ok"
    /\ SetTokens(login[tab].new)
    /\ login' = [login EXCEPT ![tab] = NoOp]
    /\ UNCHANGED <<network, call, refresh, inFlight, logout, orphans, reloads>>

\* logout() without a stored token calls nobody.
LogoutLocal(tab) ==
    /\ logout[tab] = NoOp
    /\ stored = Null
    /\ ClearTokens
    /\ UNCHANGED <<network, call, refresh, inFlight, login, logout, orphans, reloads>>

LogoutStart(tab) ==
    /\ logout[tab] = NoOp
    /\ stored # Null
    /\ logout' = [logout EXCEPT ![tab] = Send(stored)]
    /\ UNCHANGED <<network, stored, call, refresh, inFlight, login, orphans, reloads>>

LogoutHandled(tab) ==
    /\ logout[tab].st = "sent"
    /\ Revoke(logout[tab].token)
    /\ logout' = [logout EXCEPT ![tab] = [@ EXCEPT !.st = "ok"]]
    /\ UNCHANGED <<stored, call, refresh, inFlight, login, orphans, reloads>>

LogoutLost(tab) ==
    /\ logout[tab].st \in {"sent", "ok"}
    /\ logout' = [logout EXCEPT ![tab] = Fail(@)]
    /\ UNCHANGED <<network, stored, call, refresh, inFlight, login, orphans, reloads>>

\* Answered or not, the local session is dropped.
LogoutReturns(tab) ==
    /\ logout[tab].st \in {"ok", "failed"}
    /\ ClearTokens
    /\ logout' = [logout EXCEPT ![tab] = NoOp]
    /\ UNCHANGED <<network, call, refresh, inFlight, login, orphans, reloads>>

-----------------------------------------------------------------------------
(* The browser.                                                            *)

\* A reload forgets the module state of a tab.  Requests already sent may
\* still reach the server.
Reload(tab) ==
    /\ reloads < MaxReloads
    /\ reloads' = reloads + 1
    /\ call' = [x \in Tabs \X Callers |-> IF x[1] = tab THEN NoCall ELSE call[x]]
    /\ refresh' = [x \in Tabs \X Callers |-> IF x[1] = tab THEN NoOp ELSE refresh[x]]
    /\ inFlight' = [inFlight EXCEPT ![tab] = Null]
    /\ login' = [login EXCEPT ![tab] = NoOp]
    /\ logout' = [logout EXCEPT ![tab] = NoOp]
    /\ orphans' = orphans
         \cup { <<"refresh", refresh[x].token>> :
                  x \in { y \in {tab} \X Callers : refresh[y].st = "sent" } }
         \cup { <<"logout", logout[y].token>> :
                  y \in { z \in {tab} : logout[z].st = "sent" } }
    /\ UNCHANGED <<network, stored>>

OrphanHandled(x) ==
    /\ x \in orphans
    /\ orphans' = orphans \ {x}
    /\ \/ x[1] = "refresh" /\ \E answer \in Op : Rotate(x[2], Send(x[2]), answer)
       \/ x[1] = "logout" /\ Revoke(x[2])
       \/ UNCHANGED network
    /\ UNCHANGED <<stored, call, refresh, inFlight, login, logout, reloads>>

\* What the user does.
UserStep(tab) ==
    \/ \E c \in Callers : CallStart(tab, c)
    \/ LoginStart(tab)
    \/ LogoutLocal(tab)
    \/ LogoutStart(tab)
    \/ Reload(tab)

\* What the code and the network do with it.
CallStep(tab, c) == CallEnds(tab, c) \/ CallUnauthorized(tab, c)
RefreshStep(tab, c) ==
    RefreshHandled(tab, c) \/ RefreshLost(tab, c) \/ Settle(tab, c)
LoginStep(tab) == LoginHandled(tab) \/ LoginFails(tab) \/ LoginReturns(tab)
LogoutStep(tab) == LogoutHandled(tab) \/ LogoutLost(tab) \/ LogoutReturns(tab)

Next ==
    \/ \E tab \in Tabs :
         \/ UserStep(tab)
         \/ \E c \in Callers : CallStep(tab, c) \/ RefreshStep(tab, c)
         \/ LoginStep(tab)
         \/ LogoutStep(tab)
    \/ \E x \in orphans : OrphanHandled(x)

Spec == Init /\ [][Next]_vars

\* fetch settles: every request is answered or fails, and promises run their
\* continuations.  Users owe nothing.
Fairness ==
    \A tab \in Tabs : \A c \in Callers :
        WF_vars(CallStep(tab, c)) /\ WF_vars(RefreshStep(tab, c))

FairSpec == Spec /\ Fairness

-----------------------------------------------------------------------------
(* Properties.                                                             *)

\* One page, as long as it is not reloaded, never presents a token that a
\* rotation of its own has used up, however its calls, logins and logouts
\* interleave (refresh.ts:12-23).
NoRotatedReplay == reloads = 0 => "rotated" \notin replayed

\* No two tabs have a refresh under way: what a lock that tabs share would give,
\* and what one tab has by itself.
RefreshesApart == \A x, y \in Tabs \X Callers :
    refresh[x].st # "none" /\ refresh[y].st # "none" => x[1] = y[1]

\* When nothing is in flight, a stored token is one the server would accept,
\* short of a compromise response: no order of responses leaves a page that was
\* not reloaded with a token that is already used up or logged out.
Quiet == /\ \A x \in Tabs \X Callers : refresh[x].st = "none"
         /\ \A tab \in Tabs : login[tab].st = "none" /\ logout[tab].st = "none"
         /\ reloads = 0
StoredIsHonoured == Quiet /\ stored # Null => server[stored] \in {"live", "compromised"}

\* A caller waits only for a promise that will settle, and it is the one the
\* lock holds (refresh.ts:32-37).
WaitersHaveARefresh ==
    \A tab \in Tabs : \A c \in Callers : call[<<tab, c>>].st = "waiting" =>
        /\ refresh[<<tab, call[<<tab, c>>].on>>].st # "none"
        /\ inFlight[tab] = call[<<tab, c>>].on

\* Every apiRequest settles: no caller hangs on the lock for ever.
EveryCallSettles ==
    \A x \in Tabs \X Callers : call[x].st # "idle" ~> call[x].st = "idle"
=============================================================================

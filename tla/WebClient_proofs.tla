-------------------------- MODULE WebClient_proofs ---------------------------
(***************************************************************************)
(* Proofs about WebClient, for any numbers of tabs, callers, tokens and    *)
(* reloads.  The argument:                                                 *)
(*   LockInv says that the lock of a tab holds the one refresh the tab has *)
(*   under way, and that every waiter waits for it;                        *)
(*   PagesInv says, of tabs that were not reloaded and never refresh at    *)
(*   once, where a token that is used up may still be found: nowhere but   *)
(*   in storage, and there only until the answer that will replace it has  *)
(*   settled.                                                              *)
(***************************************************************************)
EXTENDS WebClient, TLAPS

USE ClientAssumption

-----------------------------------------------------------------------------
(* The lock.                                                               *)

\* A request that was sent has a token, an answer that succeeded a new one.
OpOK(op) ==
    /\ op.st # "none" => op.token \in Tokens
    /\ op.st = "ok" => op.new \in Tokens

LockInv ==
    /\ TypeOK
    /\ \A x \in Tabs \X Callers : OpOK(refresh[x])
    /\ \A tab \in Tabs :
         /\ login[tab].st = "ok" => login[tab].new \in Tokens
         /\ logout[tab].st # "none" => logout[tab].token \in Tokens
    /\ \A tab \in Tabs : \A c \in Callers :
         /\ refresh[<<tab, c>>].st # "none" <=> inFlight[tab] = c
         /\ call[<<tab, c>>].st = "waiting" =>
              call[<<tab, c>>].on # Null /\ call[<<tab, c>>].on = inFlight[tab]

LEMMA InitLock == Init => LockInv
  BY DEF Init, LockInv, TypeOK, OpOK, NoCall, NoOp, Op, OrNull, Revoked

\* What the server answers is a well-formed operation, and the table stays one.
LEMMA RotateTypes ==
    ASSUME TypeOK, NEW t \in Tokens, NEW op \in Op, op.token = t, op.st = "sent",
           NEW answer, Rotate(t, op, answer)
    PROVE  /\ server' \in [Tokens -> {"unused", "live"} \cup Revoked]
           /\ replayed' \subseteq Revoked
           /\ answer \in Op /\ OpOK(answer)
           /\ answer.token = t /\ answer.st \in {"ok", "failed"}
<1>. DEFINE Table == [Tokens -> {"unused", "live"} \cup Revoked]
<1>1. /\ server \in Table /\ replayed \subseteq Revoked
      /\ "live" \in {"unused", "live"} \cup Revoked
      /\ "rotated" \in {"unused", "live"} \cup Revoked
      /\ "compromised" \in {"unused", "live"} \cup Revoked
  BY DEF TypeOK, Revoked
<1>2. CASE server[t] = "live" /\ replayed' = replayed
  <2>1. SUFFICES ASSUME NEW new \in Tokens, server[new] = "unused",
                        server' = [server EXCEPT ![t] = "rotated", ![new] = "live"],
                        answer = [op EXCEPT !.st = "ok", !.new = new]
                 PROVE  /\ server' \in Table
                        /\ answer \in Op /\ OpOK(answer)
                        /\ answer.token = t /\ answer.st = "ok"
    BY <1>1, <1>2 DEF Rotate, Revoked
  <2>2. server' \in Table
    BY <1>1, <2>1
  <2>3. answer = [st |-> "ok", token |-> t, new |-> new]
    BY <2>1 DEF Op
  <2>. QED
    BY <2>2, <2>3 DEF Op, OpOK, OrNull
<1>3. CASE server[t] \in Revoked /\ answer = Fail(op)
  <2>1. /\ server' = [x \in Tokens |->
                        IF server[x] = "live" THEN "compromised" ELSE server[x]]
        /\ replayed' = replayed \cup {server[t]}
    BY <1>3 DEF Rotate, Revoked
  <2>2. answer = [st |-> "failed", token |-> t, new |-> op.new]
    BY <1>3 DEF Fail, Op
  <2>3. server' \in Table /\ replayed' \subseteq Revoked
    BY <1>1, <1>3, <2>1
  <2>. QED
    BY <2>2, <2>3 DEF Op, OpOK, OrNull
<1>. QED
  BY <1>2, <1>3 DEF Rotate

LEMMA CallStartLock ==
    ASSUME LockInv, NEW tab \in Tabs, NEW c \in Callers,
           CallStart(tab, c) \/ CallEnds(tab, c)
    PROVE  LockInv'
<1>. DEFINE Q == {Request(1), NoCall}
<1>1. PICK q \in Q : call' = [call EXCEPT ![<<tab, c>>] = q]
  BY DEF CallStart, CallEnds
<1>3. UNCHANGED <<server, replayed, stored, refresh, inFlight, login, logout, orphans,
                  reloads>>
  BY DEF CallStart, CallEnds, network
<1>2. /\ q \in [st: {"idle", "sent", "waiting"}, left: 0..1, on: OrNull(Callers)]
      /\ q.st # "waiting"
  BY DEF Request, NoCall, OrNull
<1>. QED
  BY <1>1, <1>2, <1>3 DEF LockInv, TypeOK, OpOK

LEMMA CallUnauthorizedLock ==
    ASSUME LockInv, NEW tab \in Tabs, NEW c \in Callers, CallUnauthorized(tab, c)
    PROVE  LockInv'
<1>. DEFINE o == IF inFlight[tab] = Null THEN c ELSE inFlight[tab]
            w == [st |-> "waiting", left |-> call[<<tab, c>>].left - 1, on |-> o]
            s == IF inFlight[tab] = Null THEN Send(stored) ELSE refresh[<<tab, c>>]
<1>1. /\ inFlight' = [inFlight EXCEPT ![tab] = o]
      /\ refresh' = [refresh EXCEPT ![<<tab, c>>] = s]
      /\ call' = [call EXCEPT ![<<tab, c>>] = w]
      /\ UNCHANGED <<server, replayed, stored, login, logout, orphans, reloads>>
  BY DEF CallUnauthorized, JoinOrStart, network, LockInv, TypeOK
<1>2. o \in Callers
  BY DEF LockInv, TypeOK, OrNull
<1>3. w \in [st: {"idle", "sent", "waiting"}, left: 0..1, on: OrNull(Callers)]
  BY <1>2 DEF CallUnauthorized, LockInv, TypeOK, OrNull
<1>4. s \in Op /\ OpOK(s)
  BY DEF CallUnauthorized, LockInv, TypeOK, OpOK, Send, Op, OrNull
<1>5. TypeOK'
  BY <1>1, <1>2, <1>3, <1>4 DEF LockInv, TypeOK, OrNull
<1>6. \A x \in Tabs \X Callers : OpOK(refresh[x])'
  BY <1>1, <1>4 DEF LockInv, TypeOK, OpOK
<1>7. ASSUME NEW u \in Tabs, NEW d \in Callers
      PROVE  /\ (refresh[<<u, d>>].st # "none" <=> inFlight[u] = d)'
             /\ (call[<<u, d>>].st = "waiting" =>
                   call[<<u, d>>].on # Null /\ call[<<u, d>>].on = inFlight[u])'
  BY <1>1, <1>2 DEF LockInv, TypeOK, Send
<1>. QED
  BY <1>1, <1>5, <1>6, <1>7 DEF LockInv

\* A refresh that goes on, or is over without the page knowing yet.
LEMMA RefreshMovesLock ==
    ASSUME LockInv, NEW tab \in Tabs, NEW c \in Callers,
           RefreshHandled(tab, c) \/ RefreshLost(tab, c)
    PROVE  LockInv'
<1>1. refresh[<<tab, c>>] \in Op /\ OpOK(refresh[<<tab, c>>]) /\ refresh[<<tab, c>>].st # "none"
  BY DEF LockInv, TypeOK, RefreshHandled, RefreshLost
<1>2. PICK answer \in Op :
        /\ refresh' = [refresh EXCEPT ![<<tab, c>>] = answer]
        /\ OpOK(answer) /\ answer.st # "none"
        /\ server' \in [Tokens -> {"unused", "live"} \cup Revoked]
        /\ replayed' \subseteq Revoked
  <2>1. CASE RefreshHandled(tab, c)
    BY <1>1, <2>1, RotateTypes DEF RefreshHandled, LockInv, OpOK
  <2>2. CASE RefreshLost(tab, c)
    <3>1. Fail(refresh[<<tab, c>>]) \in Op /\ OpOK(Fail(refresh[<<tab, c>>]))
      BY <1>1 DEF Fail, Op, OpOK
    <3>2. Fail(refresh[<<tab, c>>]).st = "failed"
      BY <1>1 DEF Fail, Op
    <3>3. refresh' = [refresh EXCEPT ![<<tab, c>>] = Fail(refresh[<<tab, c>>])]
      BY <2>2 DEF RefreshLost, LockInv, TypeOK
    <3>4. server' = server /\ replayed' = replayed
      BY <2>2 DEF RefreshLost, network
    <3>. QED
      BY <3>1, <3>2, <3>3, <3>4 DEF LockInv, TypeOK
  <2>. QED
    BY <2>1, <2>2
<1>3. UNCHANGED <<stored, call, inFlight, login, logout, orphans, reloads>>
  BY DEF RefreshHandled, RefreshLost
<1>. QED
  BY <1>1, <1>2, <1>3 DEF LockInv, TypeOK

LEMMA SettleLock ==
    ASSUME LockInv, NEW tab \in Tabs, NEW c \in Callers, Settle(tab, c)
    PROVE  LockInv'
<1>. DEFINE Waiting(x) == x[1] = tab /\ call[x].st = "waiting" /\ call[x].on = c
<1>1. /\ refresh' = [refresh EXCEPT ![<<tab, c>>] = NoOp]
      /\ inFlight' = [inFlight EXCEPT ![tab] = Null]
      /\ UNCHANGED <<server, replayed, login, logout, orphans, reloads>>
  BY DEF Settle, Release, network
<1>2. inFlight[tab] = c /\ refresh[<<tab, c>>].st \in {"ok", "failed"}
  BY DEF Settle, LockInv
<1>3. stored' \in OrNull(Tokens)
  BY <1>2 DEF Settle, SetTokens, ClearTokens, LockInv, OpOK, OrNull
<1>4. /\ call' \in [Tabs \X Callers -> [st: {"idle", "sent", "waiting"}, left: 0..1,
                                        on: OrNull(Callers)]]
      /\ \A x \in Tabs \X Callers :
           IF Waiting(x) THEN call'[x].st # "waiting" ELSE call'[x] = call[x]
  BY DEF Settle, LockInv, TypeOK, Request, NoCall, OrNull
<1>5. NoOp \in Op /\ OpOK(NoOp) /\ NoOp.st = "none"
  BY DEF NoOp, Op, OpOK, OrNull
<1>6. TypeOK'
  BY <1>1, <1>3, <1>4, <1>5 DEF LockInv, TypeOK, OrNull
<1>7. \A x \in Tabs \X Callers : OpOK(refresh[x])'
  BY <1>1, <1>5 DEF LockInv, TypeOK, OpOK
<1>8. ASSUME NEW u \in Tabs, NEW d \in Callers
      PROVE  /\ (refresh[<<u, d>>].st # "none" <=> inFlight[u] = d)'
             /\ (call[<<u, d>>].st = "waiting" =>
                   call[<<u, d>>].on # Null /\ call[<<u, d>>].on = inFlight[u])'
  <2>1. CASE u = tab
    <3>1. refresh'[<<u, d>>].st = "none" /\ inFlight'[u] = Null
      BY <1>1, <1>2, <1>5, <2>1 DEF LockInv, TypeOK
    <3>2. call'[<<u, d>>].st # "waiting"
      BY <1>2, <1>4, <2>1 DEF LockInv
    <3>. QED
      BY <3>1, <3>2
  <2>2. CASE u # tab
    <3>1. /\ refresh'[<<u, d>>] = refresh[<<u, d>>] /\ inFlight'[u] = inFlight[u]
          /\ call'[<<u, d>>] = call[<<u, d>>]
      BY <1>1, <1>4, <2>2 DEF LockInv, TypeOK
    <3>. QED
      BY <3>1 DEF LockInv
  <2>. QED
    BY <2>1, <2>2
<1>. QED
  BY <1>1, <1>6, <1>7, <1>8 DEF LockInv

\* login and logout do not touch the lock.
LEMMA LoginLock ==
    ASSUME LockInv, NEW tab \in Tabs, LoginStart(tab) \/ LoginStep(tab)
    PROVE  LockInv'
<1>1. UNCHANGED <<replayed, call, refresh, inFlight, logout, orphans, reloads>>
  BY DEF LoginStart, LoginStep, LoginHandled, LoginFails, LoginReturns, network
<1>2. /\ login' \in [Tabs -> Op]
      /\ \A u \in Tabs : login'[u].st = "ok" => login'[u].new \in Tokens
  <2>1. /\ login \in [Tabs -> Op]
        /\ \A u \in Tabs : login[u].st = "ok" => login[u].new \in Tokens
    BY DEF LockInv, TypeOK
  <2>2. NoOp \in Op /\ NoOp.st # "ok" /\ Send(Null) \in Op /\ Send(Null).st # "ok"
    BY DEF NoOp, Send, Op, OrNull
  <2>3. CASE LoginStart(tab) \/ LoginFails(tab) \/ LoginReturns(tab)
    BY <2>1, <2>2, <2>3 DEF LoginStart, LoginFails, LoginReturns
  <2>4. CASE LoginHandled(tab)
    <3>1. PICK t \in Tokens :
            login' = [login EXCEPT ![tab] = [login[tab] EXCEPT !.st = "ok", !.new = t]]
      BY <2>1, <2>4 DEF LoginHandled
    <3>2. ASSUME NEW op \in Op
          PROVE  /\ [op EXCEPT !.st = "ok", !.new = t] \in Op
                 /\ [op EXCEPT !.st = "ok", !.new = t].new = t
      BY DEF Op, OrNull
    <3>. QED
      BY <2>1, <3>1, <3>2
  <2>. QED
    BY <2>3, <2>4 DEF LoginStep
<1>3. stored' \in OrNull(Tokens)
  <2>1. stored' = stored \/ (login[tab].st = "ok" /\ stored' = login[tab].new)
    BY DEF LoginStart, LoginStep, LoginHandled, LoginFails, LoginReturns, SetTokens
  <2>. QED
    BY <2>1 DEF LockInv, TypeOK, OrNull
<1>4. server' \in [Tokens -> {"unused", "live"} \cup Revoked]
  <2>1. \/ server' = server
        \/ \E t \in Tokens : server' = [server EXCEPT ![t] = "live"]
    BY DEF LoginStart, LoginStep, LoginHandled, LoginFails, LoginReturns, network
  <2>. QED
    BY <2>1 DEF LockInv, TypeOK
<1>. QED
  BY <1>1, <1>2, <1>3, <1>4 DEF LockInv, TypeOK

LEMMA RevokeTypes ==
    ASSUME TypeOK, NEW t \in Tokens, Revoke(t)
    PROVE  /\ server' \in [Tokens -> {"unused", "live"} \cup Revoked]
           /\ replayed' = replayed
  BY DEF TypeOK, Revoke, Revoked

LEMMA LogoutLock ==
    ASSUME LockInv, NEW tab \in Tabs,
           LogoutLocal(tab) \/ LogoutStart(tab) \/ LogoutStep(tab)
    PROVE  LockInv'
<1>1. UNCHANGED <<call, refresh, inFlight, login, orphans, reloads>>
  BY DEF LogoutLocal, LogoutStart, LogoutStep, LogoutHandled, LogoutLost,
         LogoutReturns
<1>2. /\ logout' \in [Tabs -> Op]
      /\ \A u \in Tabs : logout'[u].st # "none" => logout'[u].token \in Tokens
  <2>1. /\ logout \in [Tabs -> Op]
        /\ \A u \in Tabs : logout[u].st # "none" => logout[u].token \in Tokens
    BY DEF LockInv, TypeOK
  <2>2. CASE LogoutLocal(tab)
    BY <2>1, <2>2 DEF LogoutLocal
  <2>3. CASE LogoutStart(tab)
    <3>1. Send(stored) \in Op /\ Send(stored).token \in Tokens
      BY <2>3 DEF LogoutStart, Send, Op, OrNull, LockInv, TypeOK
    <3>. QED
      BY <2>1, <2>3, <3>1 DEF LogoutStart
  <2>4. CASE LogoutHandled(tab) \/ LogoutLost(tab)
    <3>1. PICK st \in {"ok", "failed"} :
            logout' = [logout EXCEPT ![tab] = [logout[tab] EXCEPT !.st = st]]
      BY <2>1, <2>4 DEF LogoutHandled, LogoutLost, Fail
    <3>2. [logout[tab] EXCEPT !.st = st]
            = [st |-> st, token |-> logout[tab].token, new |-> logout[tab].new]
      <4>1. logout[tab] \in Op
        BY <2>1
      <4>. QED
        BY <4>1 DEF Op
    <3>3. logout[tab].token \in Tokens
      BY <2>1, <2>4 DEF LogoutHandled, LogoutLost
    <3>4. [st |-> st, token |-> logout[tab].token, new |-> logout[tab].new] \in Op
      BY <2>1 DEF Op
    <3>. QED
      BY <2>1, <3>1, <3>2, <3>3, <3>4
  <2>5. CASE LogoutReturns(tab)
    <3>1. NoOp \in Op /\ NoOp.st = "none"
      BY DEF NoOp, Op, OrNull
    <3>. QED
      BY <2>1, <2>5, <3>1 DEF LogoutReturns
  <2>. QED
    BY <2>2, <2>3, <2>4, <2>5 DEF LogoutStep
<1>3. stored' \in OrNull(Tokens)
  BY DEF LogoutLocal, LogoutStart, LogoutStep, LogoutHandled, LogoutLost,
         LogoutReturns, LockInv, TypeOK, ClearTokens, OrNull
<1>4. /\ server' \in [Tokens -> {"unused", "live"} \cup Revoked]
      /\ replayed' = replayed
  BY RevokeTypes
     DEF LogoutLocal, LogoutStart, LogoutStep, LogoutHandled, LogoutLost,
         LogoutReturns, LockInv, TypeOK, network
<1>. QED
  BY <1>1, <1>2, <1>3, <1>4 DEF LockInv, TypeOK

LEMMA ReloadLock ==
    ASSUME LockInv, NEW tab \in Tabs, Reload(tab)
    PROVE  LockInv'
<1>1. NoOp \in Op /\ OpOK(NoOp) /\ NoOp.st = "none"
  BY DEF NoOp, Op, OpOK, OrNull
<1>2. /\ NoCall \in [st: {"idle", "sent", "waiting"}, left: 0..1, on: OrNull(Callers)]
      /\ NoCall.st # "waiting"
  BY DEF NoCall, OrNull
<1>3. orphans' \subseteq {"refresh", "logout"} \X Tokens
  BY DEF Reload, LockInv, TypeOK, OpOK
<1>4. /\ server' = server /\ replayed' = replayed /\ stored' = stored
      /\ reloads' \in 0..MaxReloads
  BY DEF Reload, LockInv, TypeOK, network
<1>5. TypeOK'
  BY <1>1, <1>2, <1>3, <1>4 DEF Reload, LockInv, TypeOK, OrNull
<1>6. \A x \in Tabs \X Callers : OpOK(refresh[x])'
  BY <1>1 DEF Reload, LockInv, OpOK
<1>7. \A u \in Tabs :
        /\ (login[u].st = "ok" => login[u].new \in Tokens)'
        /\ (logout[u].st # "none" => logout[u].token \in Tokens)'
  BY <1>1 DEF Reload, LockInv, TypeOK
<1>8. ASSUME NEW u \in Tabs, NEW d \in Callers
      PROVE  /\ (refresh[<<u, d>>].st # "none" <=> inFlight[u] = d)'
             /\ (call[<<u, d>>].st = "waiting" =>
                   call[<<u, d>>].on # Null /\ call[<<u, d>>].on = inFlight[u])'
  BY <1>1, <1>2 DEF Reload, LockInv, TypeOK
<1>. QED
  BY <1>5, <1>6, <1>7, <1>8 DEF LockInv

LEMMA OrphanLock ==
    ASSUME LockInv, NEW x \in orphans, OrphanHandled(x)
    PROVE  LockInv'
<1>1. x[2] \in Tokens
  BY DEF LockInv, TypeOK
<1>2. Send(x[2]) \in Op /\ Send(x[2]).token = x[2] /\ Send(x[2]).st = "sent"
  BY <1>1 DEF Send, Op, OrNull
<1>3. /\ server' \in [Tokens -> {"unused", "live"} \cup Revoked]
      /\ replayed' \subseteq Revoked
  BY <1>1, <1>2, RotateTypes, RevokeTypes
     DEF OrphanHandled, LockInv, TypeOK, network
<1>. QED
  BY <1>3 DEF OrphanHandled, LockInv, TypeOK

LEMMA NextLock == ASSUME LockInv, [Next]_vars PROVE LockInv'
<1>1. CASE UNCHANGED vars
  BY <1>1 DEF vars, LockInv, TypeOK
<1>. QED
  BY <1>1, CallStartLock, CallUnauthorizedLock, RefreshMovesLock, SettleLock,
     LoginLock, LogoutLock, ReloadLock, OrphanLock
     DEF Next, UserStep, CallStep, RefreshStep

\* The lock of each tab holds the one refresh it has under way.
THEOREM LockInvariant == Spec => []LockInv
  BY InitLock, NextLock, PTL DEF Spec

\* Every variable keeps its type, and a caller waits only for a refresh of its own
\* tab: inFlight is a variable of one page (refresh.ts:41).
THEOREM WebTypeCorrect == Spec => []TypeOK
<1>1. LockInv => TypeOK
  BY DEF LockInv
<1>. QED
  BY <1>1, LockInvariant, PTL

\* A caller waits only for a promise that will settle, and it is the one the
\* lock holds (refresh.ts:32-37).
THEOREM WaitersWait == Spec => []WaitersHaveARefresh
<1>1. LockInv => WaitersHaveARefresh
  <2>. SUFFICES ASSUME LockInv, NEW tab \in Tabs, NEW c \in Callers,
                       call[<<tab, c>>].st = "waiting"
                PROVE  /\ refresh[<<tab, call[<<tab, c>>].on>>].st # "none"
                       /\ inFlight[tab] = call[<<tab, c>>].on
    BY DEF WaitersHaveARefresh
  <2>1. call[<<tab, c>>].on = inFlight[tab] /\ call[<<tab, c>>].on \in Callers
    BY DEF LockInv, TypeOK, OrNull
  <2>. QED
    BY <2>1 DEF LockInv
<1>. QED
  BY <1>1, LockInvariant, PTL

-----------------------------------------------------------------------------
(* Pages that do not refresh at once.                                      *)

Good == {"live", "compromised"}

\* What pages that were not reloaded know of the tokens they hold, while no two
\* of them refresh at once.
Pages ==
    /\ orphans = {}
    /\ "rotated" \notin replayed
    /\ stored # Null =>
         /\ server[stored] # "unused"
         /\ server[stored] = "rotated" =>
              \E x \in Tabs \X Callers : refresh[x].st \in {"ok", "failed"}
         /\ server[stored] = "loggedOut" =>
              \E tab \in Tabs : logout[tab].st \in {"ok", "failed"}
    /\ \A tab \in Tabs : logout[tab].st # "none" => server[logout[tab].token] # "unused"
    /\ \A x \in Tabs \X Callers :
         /\ refresh[x].st # "none" => server[refresh[x].token] # "unused"
         /\ refresh[x].st = "sent" => server[refresh[x].token] # "rotated"
         /\ refresh[x].st = "ok" =>
              /\ server[refresh[x].new] \in Good
              /\ refresh[x].new # stored
              /\ \A tab \in Tabs :
                   logout[tab].st # "none" => refresh[x].new # logout[tab].token
    /\ \A tab \in Tabs : login[tab].st = "ok" =>
         /\ server[login[tab].new] \in Good
         /\ login[tab].new # stored
         /\ \A p \in Tabs : /\ logout[p].st # "none" => login[tab].new # logout[p].token
                            /\ p # tab /\ login[p].st = "ok" =>
                                 login[tab].new # login[p].new
         /\ \A x \in Tabs \X Callers :
              /\ refresh[x].st # "none" => login[tab].new # refresh[x].token
              /\ refresh[x].st = "ok" => login[tab].new # refresh[x].new

PagesInv == LockInv /\ (reloads = 0 => Pages)

\* A tab has one refresh under way, and no other tab has any.
LEMMA OneRefresh ==
    ASSUME LockInv, RefreshesApart,
           NEW x \in Tabs \X Callers, NEW y \in Tabs \X Callers,
           refresh[x].st # "none", refresh[y].st # "none"
    PROVE  x = y
<1>1. PICK p \in Tabs, c \in Callers : x = <<p, c>>
  OBVIOUS
<1>2. PICK q \in Tabs, d \in Callers : y = <<q, d>>
  OBVIOUS
<1>3. p = q
  BY <1>1, <1>2 DEF RefreshesApart
<1>. QED
  BY <1>1, <1>2, <1>3 DEF LockInv

\* What the tokens in hand are.
LEMMA HeldTokens ==
    ASSUME LockInv
    PROVE  /\ stored # Null => stored \in Tokens
           /\ \A tab \in Tabs : /\ login[tab].st = "ok" => login[tab].new \in Tokens
                                /\ logout[tab].st # "none" => logout[tab].token \in Tokens
           /\ \A x \in Tabs \X Callers :
                /\ refresh[x].st # "none" => refresh[x].token \in Tokens
                /\ refresh[x].st = "ok" => refresh[x].new \in Tokens
  BY DEF LockInv, TypeOK, OrNull, OpOK

LEMMA CallPages ==
    ASSUME LockInv, Pages, NEW p \in Tabs, NEW c \in Callers,
           CallStart(p, c) \/ CallEnds(p, c)
    PROVE  Pages'
  BY DEF CallStart, CallEnds, network, Pages

\* A refresh that starts presents the stored token, which no other refresh has
\* presented: the lock was free, and no other tab's was taken.
LEMMA CallUnauthorizedPages ==
    ASSUME LockInv, Pages, RefreshesApart', NEW p \in Tabs, NEW c \in Callers,
           CallUnauthorized(p, c)
    PROVE  Pages'
<1>1. UNCHANGED <<server, replayed, stored, login, logout, orphans, reloads>>
  BY DEF CallUnauthorized, network
<1>2. CASE inFlight[p] # Null
  BY <1>1, <1>2 DEF CallUnauthorized, JoinOrStart, Pages
<1>3. CASE inFlight[p] = Null
  <2>1. refresh' = [refresh EXCEPT ![<<p, c>>] = Send(stored)]
    BY <1>3 DEF CallUnauthorized, JoinOrStart
  <2>2. /\ refresh'[<<p, c>>].st = "sent" /\ refresh'[<<p, c>>].token = stored
        /\ \A x \in Tabs \X Callers : x # <<p, c>> => refresh'[x] = refresh[x]
    BY <2>1 DEF Send, LockInv, TypeOK
  <2>3. LockInv'
    BY CallUnauthorizedLock
  <2>4. ASSUME NEW x \in Tabs \X Callers, x # <<p, c>>
        PROVE  refresh'[x].st = "none"
    <3>1. PICK q \in Tabs, d \in Callers : x = <<q, d>>
      OBVIOUS
    <3>2. refresh'[x].st # "none" => q = p
      BY <2>2, <3>1 DEF RefreshesApart
    <3>3. refresh'[<<p, c>>].st # "none"
      BY <2>2
    <3>. QED
      BY <2>3, <2>4, <3>1, <3>2, <3>3 DEF LockInv
  <2>5. ASSUME NEW x \in Tabs \X Callers
        PROVE  refresh[x].st = "none"
    <3>1. CASE x = <<p, c>>
      BY <1>3, <3>1 DEF LockInv, ClientAssumption
    <3>2. CASE x # <<p, c>>
      BY <2>2, <2>4, <3>2
    <3>. QED
      BY <3>1, <3>2
  <2>6. stored # Null
    BY DEF CallUnauthorized
  <2>7. \A x \in Tabs \X Callers : \/ refresh'[x].st = "none"
                                   \/ /\ refresh'[x].st = "sent"
                                      /\ refresh'[x].token = stored
    BY <2>2, <2>4
  <2>. QED
    BY <1>1, <2>5, <2>6, <2>7 DEF Pages
<1>. QED
  BY <1>2, <1>3

\* The rotation of the presented token leaves every other held token alone; a
\* replay touches live tokens only.
LEMMA RefreshHandledPages ==
    ASSUME LockInv, Pages, RefreshesApart, NEW p \in Tabs, NEW c \in Callers,
           RefreshHandled(p, c)
    PROVE  Pages'
<1>. DEFINE x0 == <<p, c>>
            op == refresh[x0]
<1>0. x0 \in Tabs \X Callers
  OBVIOUS
<1>1. PICK answer \in Op :
        /\ Rotate(op.token, op, answer)
        /\ refresh' = [refresh EXCEPT ![x0] = answer]
  BY DEF RefreshHandled
<1>2. /\ UNCHANGED <<stored, login, logout, orphans, reloads>>
      /\ op.st = "sent" /\ op \in Op /\ op.token \in Tokens
  BY DEF RefreshHandled, LockInv, TypeOK, OpOK
<1>3. \A x \in Tabs \X Callers : x # x0 => refresh'[x].st = "none"
  BY <1>0, <1>1, <1>2, OneRefresh DEF LockInv, TypeOK
<1>4. refresh'[x0] = answer
  BY <1>1 DEF LockInv, TypeOK
<1>5. answer.token = op.token /\ answer.st \in {"ok", "failed"}
  BY <1>1, <1>2, RotateTypes DEF LockInv
<1>6. server \in [Tokens -> {"unused", "live"} \cup Revoked]
  BY DEF LockInv, TypeOK
<1>7. /\ stored # Null => stored \in Tokens
      /\ \A tab \in Tabs : /\ login[tab].st = "ok" => login[tab].new \in Tokens
                           /\ logout[tab].st # "none" => logout[tab].token \in Tokens
  BY HeldTokens
<1>. HIDE DEF x0, op
<1>8. CASE server[op.token] = "live"
  <2>1. PICK new \in Tokens :
          /\ server[new] = "unused"
          /\ server' = [server EXCEPT ![op.token] = "rotated", ![new] = "live"]
          /\ answer.st = "ok" => answer.new = new
    BY <1>1, <1>2, <1>8 DEF Rotate, Revoked, Op
  <2>2. \A t \in Tokens : t # op.token /\ t # new => server'[t] = server[t]
    BY <2>1, <1>6
  <2>3. server'[op.token] = "rotated" /\ server'[new] = "live" /\ new # op.token
    BY <2>1, <1>2, <1>6, <1>8
  <2>4. replayed' = replayed
    BY <1>1, <1>8 DEF Rotate, Revoked
  <2>6. \A tab \in Tabs : login[tab].st = "ok" =>
          /\ login[tab].new # op.token /\ login[tab].new # new
          /\ server'[login[tab].new] = server[login[tab].new]
    BY <1>0, <1>2, <1>7, <2>1, <2>2 DEF Pages, Good, op
  <2>7. stored # Null => \/ stored = op.token
                         \/ stored # new /\ server'[stored] = server[stored]
    BY <1>7, <2>1, <2>2 DEF Pages
  <2>8. \A tab \in Tabs : logout[tab].st # "none" =>
          logout[tab].token # new /\ server'[logout[tab].token] # "unused"
    BY <1>7, <2>1, <2>2, <2>3 DEF Pages
  <2>9. /\ (orphans = {} /\ "rotated" \notin replayed)'
        /\ (stored # Null =>
             /\ server[stored] # "unused"
             /\ server[stored] = "rotated" =>
                  \E x \in Tabs \X Callers : refresh[x].st \in {"ok", "failed"}
             /\ server[stored] = "loggedOut" =>
                  \E tab \in Tabs : logout[tab].st \in {"ok", "failed"})'
        /\ \A tab \in Tabs :
             (logout[tab].st # "none" => server[logout[tab].token] # "unused")'
    BY <1>0, <1>2, <1>4, <1>5, <2>3, <2>4, <2>7, <2>8 DEF Pages
  <2>10. ASSUME NEW x \in Tabs \X Callers
         PROVE  /\ (refresh[x].st # "none" => server[refresh[x].token] # "unused")'
                /\ (refresh[x].st = "sent" => server[refresh[x].token] # "rotated")'
                /\ (refresh[x].st = "ok" =>
                      /\ server[refresh[x].new] \in Good
                      /\ refresh[x].new # stored
                      /\ \A tab \in Tabs : logout[tab].st # "none" =>
                           refresh[x].new # logout[tab].token)'
    <3>1. CASE x = x0
      BY <1>2, <1>4, <1>5, <2>1, <2>3, <2>7, <2>8, <3>1 DEF Good, Pages
    <3>2. CASE x # x0
      BY <1>3, <3>2
    <3>. QED
      BY <3>1, <3>2
  <2>11. ASSUME NEW tab \in Tabs
         PROVE  (login[tab].st = "ok" =>
            /\ server[login[tab].new] \in Good
            /\ login[tab].new # stored
            /\ \A q \in Tabs :
                 /\ logout[q].st # "none" => login[tab].new # logout[q].token
                 /\ q # tab /\ login[q].st = "ok" => login[tab].new # login[q].new
            /\ \A x \in Tabs \X Callers :
                 /\ refresh[x].st # "none" => login[tab].new # refresh[x].token
                 /\ refresh[x].st = "ok" => login[tab].new # refresh[x].new)'
    <3>. SUFFICES ASSUME login[tab].st = "ok"
         PROVE  /\ server'[login[tab].new] \in Good
                /\ login[tab].new # stored
                /\ \A q \in Tabs :
                     /\ logout[q].st # "none" => login[tab].new # logout[q].token
                     /\ q # tab /\ login[q].st = "ok" =>
                          login[tab].new # login[q].new
                /\ \A x \in Tabs \X Callers :
                     /\ refresh'[x].st # "none" => login[tab].new # refresh'[x].token
                     /\ refresh'[x].st = "ok" => login[tab].new # refresh'[x].new
      BY <1>2
    <3>1. /\ server[login[tab].new] \in Good
          /\ login[tab].new # stored
          /\ \A q \in Tabs :
               /\ logout[q].st # "none" => login[tab].new # logout[q].token
               /\ q # tab /\ login[q].st = "ok" => login[tab].new # login[q].new
      BY DEF Pages
    <3>2. ASSUME NEW x \in Tabs \X Callers
          PROVE  /\ refresh'[x].st # "none" => login[tab].new # refresh'[x].token
                 /\ refresh'[x].st = "ok" => login[tab].new # refresh'[x].new
      <4>1. CASE x = x0
        BY <1>4, <1>5, <2>1, <2>6, <4>1
      <4>2. CASE x # x0
        BY <1>3, <4>2
      <4>. QED
        BY <4>1, <4>2
    <3>. QED
      BY <2>6, <3>1, <3>2
  <2>. QED
    BY <2>9, <2>10, <2>11 DEF Pages
<1>9. CASE server[op.token] \in Revoked
  <2>1. \A t \in Tokens : \/ server'[t] = server[t]
                          \/ server[t] = "live" /\ server'[t] = "compromised"
    BY <1>1, <1>9 DEF Rotate, Revoked
  <2>2. replayed' = replayed \cup {server[op.token]} /\ answer.st = "failed"
    BY <1>1, <1>2, <1>9 DEF Rotate, Revoked, Fail, Op
  <2>3. server[op.token] # "rotated" /\ server[op.token] # "unused"
    BY <1>0, <1>2 DEF Pages, op
  <2>4. "rotated" \notin replayed' /\ orphans' = {}
    BY <1>2, <2>2, <2>3 DEF Pages
  <2>5. \A x \in Tabs \X Callers : refresh'[x].st # "none" =>
           x = x0 /\ refresh'[x].st = "failed" /\ refresh'[x].token = op.token
    BY <1>3, <1>4, <1>5, <2>2
  <2>6. server'[op.token] # "unused"
    BY <1>2, <2>1, <2>3
  <2>7. (stored # Null =>
          /\ server[stored] # "unused"
          /\ server[stored] = "rotated" =>
               \E x \in Tabs \X Callers : refresh[x].st \in {"ok", "failed"}
          /\ server[stored] = "loggedOut" =>
               \E tab \in Tabs : logout[tab].st \in {"ok", "failed"})'
    BY <1>0, <1>2, <1>4, <1>7, <2>1, <2>2 DEF Pages
  <2>8. \A tab \in Tabs :
          (logout[tab].st # "none" => server[logout[tab].token] # "unused")'
    BY <1>2, <1>7, <2>1 DEF Pages
  <2>9. ASSUME NEW tab \in Tabs, login[tab].st = "ok"
        PROVE  server'[login[tab].new] \in Good /\ login[tab].new # op.token
    BY <1>0, <1>2, <1>7, <2>1, <2>9 DEF Pages, Good, op
  <2>. QED
    BY <1>2, <2>4, <2>5, <2>6, <2>7, <2>8, <2>9 DEF Pages
<1>. QED
  BY <1>1, <1>8, <1>9 DEF Rotate

LEMMA RefreshLostPages ==
    ASSUME LockInv, Pages, NEW p \in Tabs, NEW c \in Callers, RefreshLost(p, c)
    PROVE  Pages'
<1>1. UNCHANGED <<server, replayed, stored, login, logout, orphans, reloads>>
  BY DEF RefreshLost, network
<1>2. \A x \in Tabs \X Callers :
         \/ refresh'[x] = refresh[x]
         \/ /\ refresh'[x].st = "failed"
            /\ refresh'[x].token = refresh[x].token
            /\ refresh[x].st # "none"
  <2>1. ASSUME NEW op \in Op
        PROVE  Fail(op).st = "failed" /\ Fail(op).token = op.token
    BY DEF Fail, Op
  <2>. QED
    BY <2>1 DEF RefreshLost, LockInv, TypeOK
<1>. QED
  BY <1>1, <1>2 DEF Pages

\* The answer that replaces a rotated token settles.
LEMMA SettlePages ==
    ASSUME LockInv, Pages, RefreshesApart, NEW p \in Tabs, NEW c \in Callers,
           Settle(p, c)
    PROVE  Pages'
<1>0. <<p, c>> \in Tabs \X Callers
  OBVIOUS
<1>1. /\ UNCHANGED <<server, replayed, login, logout, orphans, reloads>>
      /\ refresh[<<p, c>>].st \in {"ok", "failed"}
      /\ stored' = IF refresh[<<p, c>>].st = "ok" THEN refresh[<<p, c>>].new ELSE Null
  BY DEF Settle, SetTokens, ClearTokens, network
<1>2. \A x \in Tabs \X Callers : refresh'[x].st = "none"
  BY <1>0, <1>1, OneRefresh DEF Settle, NoOp, LockInv, TypeOK
<1>3. CASE refresh[<<p, c>>].st = "ok"
  BY <1>0, <1>1, <1>2, <1>3 DEF Pages, Good
<1>4. CASE refresh[<<p, c>>].st = "failed"
  <2>1. stored' = Null /\ \A tab \in Tabs : login[tab].st = "ok" => login[tab].new # Null
    BY <1>1, <1>4, HeldTokens DEF ClientAssumption
  <2>. QED
    BY <1>1, <1>2, <2>1 DEF Pages
<1>. QED
  BY <1>1, <1>3, <1>4

LEMMA LoginPages ==
    ASSUME LockInv, Pages, NEW p \in Tabs, LoginStart(p) \/ LoginStep(p)
    PROVE  Pages'
<1>a. UNCHANGED <<replayed, refresh, logout, orphans, reloads>>
  BY DEF LoginStart, LoginStep, LoginHandled, LoginFails, LoginReturns, network
<1>b. ASSUME NEW tab \in Tabs, tab # p
      PROVE  login'[tab] = login[tab]
  <2>1. \E v : login' = [login EXCEPT ![p] = v]
    BY DEF LoginStart, LoginStep, LoginHandled, LoginFails, LoginReturns
  <2>. QED
    BY <1>b, <2>1 DEF LockInv, TypeOK
<1>1. /\ UNCHANGED <<replayed, refresh, logout, orphans, reloads>>
      /\ \A tab \in Tabs : tab # p => login'[tab] = login[tab]
  BY <1>a, <1>b
<1>2. CASE LoginStart(p) \/ LoginFails(p)
  <2>1. login'[p].st # "ok"
    BY <1>2 DEF LoginStart, LoginFails, Send, NoOp, LockInv, TypeOK
  <2>2. server' = server /\ stored' = stored
    BY <1>2 DEF LoginStart, LoginFails, network
  <2>3. \A tab \in Tabs : login'[tab].st = "ok" => login'[tab] = login[tab]
    BY <1>1, <2>1
  <2>. QED
    BY <1>1, <2>2, <2>3 DEF Pages
<1>3. CASE LoginHandled(p)
  <2>1. PICK t \in Tokens :
          /\ server[t] = "unused"
          /\ server' = [server EXCEPT ![t] = "live"]
          /\ login' = [login EXCEPT ![p] = [login[p] EXCEPT !.st = "ok", !.new = t]]
    BY <1>3 DEF LoginHandled, LockInv, TypeOK
  <2>2. ASSUME NEW op \in Op PROVE [op EXCEPT !.st = "ok", !.new = t].new = t
    BY DEF Op
  <2>3. login'[p].new = t
    BY <2>1, <2>2 DEF LockInv, TypeOK
  <2>4. server'[t] = "live" /\ \A u \in Tokens : u # t => server'[u] = server[u]
    BY <2>1 DEF LockInv, TypeOK
  <2>5. /\ stored # Null => stored \in Tokens
        /\ \A tab \in Tabs : /\ login[tab].st = "ok" => login[tab].new \in Tokens
                             /\ logout[tab].st # "none" => logout[tab].token \in Tokens
        /\ \A x \in Tabs \X Callers :
             /\ refresh[x].st # "none" => refresh[x].token \in Tokens
             /\ refresh[x].st = "ok" => refresh[x].new \in Tokens
    BY HeldTokens
  <2>6. stored' = stored
    BY <1>3 DEF LoginHandled
  <2>7. /\ t # stored
        /\ \A tab \in Tabs : /\ logout[tab].st # "none" => logout[tab].token # t
                             /\ login[tab].st = "ok" => login[tab].new # t
        /\ \A x \in Tabs \X Callers : /\ refresh[x].st # "none" => refresh[x].token # t
                                      /\ refresh[x].st = "ok" => refresh[x].new # t
    BY <2>1, <2>5 DEF Pages, Good, ClientAssumption
  <2>8. /\ stored # Null => server'[stored] = server[stored]
        /\ \A tab \in Tabs :
             /\ logout[tab].st # "none" =>
                  server'[logout[tab].token] = server[logout[tab].token]
             /\ login[tab].st = "ok" => server'[login[tab].new] = server[login[tab].new]
        /\ \A x \in Tabs \X Callers :
             /\ refresh[x].st # "none" =>
                  server'[refresh[x].token] = server[refresh[x].token]
             /\ refresh[x].st = "ok" => server'[refresh[x].new] = server[refresh[x].new]
    BY <2>4, <2>5, <2>7
  <2>9. ASSUME NEW tab \in Tabs
        PROVE  (login[tab].st = "ok" =>
            /\ server[login[tab].new] \in Good
            /\ login[tab].new # stored
            /\ \A q \in Tabs :
                 /\ logout[q].st # "none" => login[tab].new # logout[q].token
                 /\ q # tab /\ login[q].st = "ok" => login[tab].new # login[q].new
            /\ \A x \in Tabs \X Callers :
                 /\ refresh[x].st # "none" => login[tab].new # refresh[x].token
                 /\ refresh[x].st = "ok" => login[tab].new # refresh[x].new)'
    <3>1. CASE tab = p
      BY <1>1, <2>3, <2>4, <2>6, <2>7, <3>1 DEF Good
    <3>2. CASE tab # p
      BY <1>1, <2>3, <2>6, <2>7, <2>8, <3>2 DEF Pages
    <3>. QED
      BY <3>1, <3>2
  <2>. QED
    BY <1>1, <2>6, <2>8, <2>9 DEF Pages
<1>4. CASE LoginReturns(p)
  <2>1. login'[p].st = "none" /\ server' = server
    BY <1>4 DEF LoginReturns, NoOp, network, LockInv, TypeOK
  <2>2. login[p].st = "ok" /\ stored' = login[p].new
    BY <1>4 DEF LoginReturns, SetTokens
  <2>3. \A tab \in Tabs : login'[tab].st = "ok" => tab # p /\ login'[tab] = login[tab]
    BY <1>1, <2>1
  <2>. QED
    BY <1>1, <2>1, <2>2, <2>3 DEF Pages, Good
<1>. QED
  BY <1>2, <1>3, <1>4 DEF LoginStep

LEMMA LogoutPages ==
    ASSUME LockInv, Pages, NEW p \in Tabs,
           LogoutLocal(p) \/ LogoutStart(p) \/ LogoutStep(p)
    PROVE  Pages'
<1>1. /\ UNCHANGED <<replayed, refresh, login, orphans, reloads>>
      /\ \A tab \in Tabs : tab # p => logout'[tab] = logout[tab]
  BY DEF LogoutLocal, LogoutStart, LogoutStep, LogoutHandled, LogoutLost,
         LogoutReturns, Revoke, network, LockInv, TypeOK
<1>0. \A tab \in Tabs : login[tab].st = "ok" => login[tab].new # Null
  BY HeldTokens DEF ClientAssumption
<1>a. \A x \in Tabs \X Callers : refresh[x].st = "ok" => refresh[x].new # Null
  BY HeldTokens DEF ClientAssumption
<1>2. CASE LogoutLocal(p)
  BY <1>0, <1>a, <1>1, <1>2 DEF LogoutLocal, ClearTokens, network, Pages
<1>3. CASE LogoutStart(p)
  <2>1. logout'[p].st = "sent" /\ logout'[p].token = stored
    BY <1>3 DEF LogoutStart, Send, LockInv, TypeOK
  <2>2. server' = server /\ stored' = stored /\ stored # Null /\ logout[p].st = "none"
    BY <1>3 DEF LogoutStart, network, NoOp
  <2>3. \A tab \in Tabs : \/ logout'[tab] = logout[tab]
                          \/ tab = p /\ logout'[tab].token = stored
    BY <1>1, <2>1
  <2>4. \A tab \in Tabs : logout[tab].st \in {"ok", "failed"} =>
          logout'[tab] = logout[tab]
    BY <1>1, <2>2
  <2>. QED
    BY <1>1, <2>2, <2>3, <2>4 DEF Pages
<1>4. CASE LogoutHandled(p)
  <2>1. /\ stored' = stored /\ logout[p].st = "sent" /\ logout[p].token \in Tokens
        /\ server \in [Tokens -> {"unused", "live"} \cup Revoked]
    BY <1>4 DEF LogoutHandled, LockInv, TypeOK
  <2>2. logout'[p].st = "ok" /\ logout'[p].token = logout[p].token
    BY <1>4 DEF LogoutHandled, LockInv, TypeOK, Op
  <2>3. \A t \in Tokens :
          \/ server'[t] = server[t]
          \/ /\ t = logout[p].token
             /\ server[t] = "live" /\ server'[t] = "loggedOut"
    BY <1>4, <2>1 DEF LogoutHandled, Revoke
  <2>4. /\ stored # Null => stored \in Tokens
        /\ \A tab \in Tabs : /\ login[tab].st = "ok" => login[tab].new \in Tokens
                             /\ logout[tab].st # "none" => logout[tab].token \in Tokens
        /\ \A x \in Tabs \X Callers :
             /\ refresh[x].st # "none" => refresh[x].token \in Tokens
             /\ refresh[x].st = "ok" => refresh[x].new \in Tokens
    BY HeldTokens
  <2>5. \A tab \in Tabs : /\ logout'[tab].token = logout[tab].token
                          /\ logout'[tab].st # "none" <=> logout[tab].st # "none"
                          /\ logout[tab].st \in {"ok", "failed"} =>
                               logout'[tab].st \in {"ok", "failed"}
    BY <1>1, <2>1, <2>2
  <2>6. (stored # Null =>
          /\ server[stored] # "unused"
          /\ server[stored] = "rotated" =>
               \E x \in Tabs \X Callers : refresh[x].st \in {"ok", "failed"}
          /\ server[stored] = "loggedOut" =>
               \E tab \in Tabs : logout[tab].st \in {"ok", "failed"})'
    BY <1>1, <2>1, <2>2, <2>3, <2>4, <2>5 DEF Pages
  <2>7. \A tab \in Tabs :
          (logout[tab].st # "none" => server[logout[tab].token] # "unused")'
    BY <2>3, <2>4, <2>5 DEF Pages
  <2>8. ASSUME NEW x \in Tabs \X Callers
        PROVE  /\ (refresh[x].st # "none" => server[refresh[x].token] # "unused")'
               /\ (refresh[x].st = "sent" => server[refresh[x].token] # "rotated")'
               /\ (refresh[x].st = "ok" =>
                     /\ server[refresh[x].new] \in Good
                     /\ refresh[x].new # stored
                     /\ \A tab \in Tabs : logout[tab].st # "none" =>
                          refresh[x].new # logout[tab].token)'
    BY <1>1, <2>1, <2>3, <2>4, <2>5 DEF Pages, Good
  <2>9. ASSUME NEW tab \in Tabs
        PROVE  (login[tab].st = "ok" =>
            /\ server[login[tab].new] \in Good
            /\ login[tab].new # stored
            /\ \A q \in Tabs :
                 /\ logout[q].st # "none" => login[tab].new # logout[q].token
                 /\ q # tab /\ login[q].st = "ok" => login[tab].new # login[q].new
            /\ \A x \in Tabs \X Callers :
                 /\ refresh[x].st # "none" => login[tab].new # refresh[x].token
                 /\ refresh[x].st = "ok" => login[tab].new # refresh[x].new)'
    BY <1>1, <2>1, <2>3, <2>4, <2>5 DEF Pages, Good
  <2>. QED
    BY <1>1, <2>6, <2>7, <2>8, <2>9 DEF Pages
<1>5. CASE LogoutLost(p)
  <2>1. /\ logout'[p].st = "failed" /\ logout'[p].token = logout[p].token
        /\ logout[p].st # "none"
    BY <1>5 DEF LogoutLost, Fail, LockInv, TypeOK, Op
  <2>2. server' = server /\ stored' = stored
    BY <1>5 DEF LogoutLost, network
  <2>3. \A tab \in Tabs : /\ logout'[tab].token = logout[tab].token
                          /\ logout'[tab].st # "none" <=> logout[tab].st # "none"
                          /\ logout[tab].st \in {"ok", "failed"} =>
                               logout'[tab].st \in {"ok", "failed"}
    BY <1>1, <2>1
  <2>. QED
    BY <1>1, <2>2, <2>3 DEF Pages
<1>6. CASE LogoutReturns(p)
  <2>1. logout'[p].st = "none" /\ server' = server /\ stored' = Null
    BY <1>6 DEF LogoutReturns, ClearTokens, NoOp, network, LockInv, TypeOK
  <2>2. \A tab \in Tabs : logout'[tab].st # "none" => logout'[tab] = logout[tab]
    BY <1>1, <2>1
  <2>. QED
    BY <1>0, <1>a, <1>1, <2>1, <2>2 DEF Pages
<1>. QED
  BY <1>2, <1>3, <1>4, <1>5, <1>6 DEF LogoutStep

LEMMA InitPages == Init => PagesInv
<1>1. Init => Pages
  BY DEF Init, Pages, NoOp
<1>. QED
  BY <1>1, InitLock DEF PagesInv

LEMMA NextPages ==
    ASSUME PagesInv, RefreshesApart, RefreshesApart', [Next]_vars
    PROVE  PagesInv'
<1>1. LockInv /\ LockInv'
  BY NextLock DEF PagesInv
<1>2. SUFFICES ASSUME reloads' = 0
               PROVE  Pages'
  BY <1>1 DEF PagesInv
<1>4. CASE UNCHANGED vars
  BY <1>2, <1>4 DEF vars, PagesInv, Pages
<1>5. \A p \in Tabs : ~Reload(p)
  BY <1>1, <1>2 DEF Reload, LockInv, TypeOK
<1>6. CASE Next
  <2>1. reloads = 0 /\ Pages
    <3>1. reloads' = reloads \/ reloads' = reloads + 1
      BY <1>6 DEF Next, UserStep, CallStep, RefreshStep, LoginStep, LogoutStep,
                  CallStart, CallEnds, CallUnauthorized, RefreshHandled, RefreshLost,
                  Settle, LoginStart, LoginHandled, LoginFails, LoginReturns,
                  LogoutLocal, LogoutStart, LogoutHandled, LogoutLost,
                  LogoutReturns, Reload, OrphanHandled
    <3>2. reloads \in Nat
      BY <1>1 DEF LockInv, TypeOK
    <3>. QED
      BY <1>2, <3>1, <3>2 DEF PagesInv
  <2>2. orphans = {}
    BY <2>1 DEF Pages
  <2>. QED
    BY <1>1, <1>5, <1>6, <2>1, <2>2, CallPages, CallUnauthorizedPages,
       RefreshHandledPages, RefreshLostPages, SettlePages, LoginPages, LogoutPages
       DEF Next, UserStep, CallStep, RefreshStep
<1>. QED
  BY <1>4, <1>6

\* While no two tabs refresh at once, PagesInv holds.
LEMMA PagesInvariant == Spec /\ []RefreshesApart => []PagesInv
  BY InitPages, NextPages, PTL DEF Spec

LEMMA PagesHonoured == PagesInv => StoredIsHonoured
<1>. SUFFICES ASSUME PagesInv, Quiet, stored # Null
              PROVE  server[stored] \in {"live", "compromised"}
  BY DEF StoredIsHonoured
<1>1. stored \in Tokens /\ server[stored] \in {"unused", "live"} \cup Revoked
  BY DEF PagesInv, LockInv, TypeOK, OrNull
<1>2. /\ \A x \in Tabs \X Callers : refresh[x].st = "none"
      /\ \A tab \in Tabs : logout[tab].st = "none"
  BY DEF Quiet
<1>. QED
  BY <1>1, <1>2 DEF PagesInv, Pages, Quiet, Revoked

\* One page does not refresh twice at once.
LEMMA OnePageApart ==
    ASSUME NEW p, Tabs = {p}
    PROVE  RefreshesApart
  BY DEF RefreshesApart

\* Any number of tabs, as long as none is reloaded and no two refresh at once,
\* never present a token that a rotation of theirs has used up: what is
\* missing for refresh.ts:12-23 in two tabs is a lock that tabs share, and
\* nothing else (the run web_two_tabs has the counterexample without it).
THEOREM PagesApartNeverReplay == Spec /\ []RefreshesApart => []NoRotatedReplay
<1>1. PagesInv => NoRotatedReplay
  BY DEF PagesInv, Pages, NoRotatedReplay
<1>. QED
  BY <1>1, PagesInvariant, PTL

\* Nor are tabs that do not refresh at once left with a token that is used up or
\* logged out, however their logins and logouts cross (tokens.ts, endpoints.ts).
THEOREM PagesApartHoldAGoodToken == Spec /\ []RefreshesApart => []StoredIsHonoured
  BY PagesHonoured, PagesInvariant, PTL

\* One page, as long as it is not reloaded, never presents a token that a
\* rotation of its own has used up, however its calls, logins and logouts
\* interleave (refresh.ts:12-23).
THEOREM OnePageNeverReplays ==
    ASSUME NEW p, Tabs = {p}
    PROVE  Spec => []NoRotatedReplay
<1>1. RefreshesApart
  BY OnePageApart
<1>2. []RefreshesApart
  BY <1>1, PTL
<1>. QED
  BY <1>2, PagesApartNeverReplay, PTL

\* When nothing is in flight, the token a page kept is one the server would
\* accept, short of a compromise response (refresh.ts:39-72, tokens.ts).
THEOREM OnePageHoldsAGoodToken ==
    ASSUME NEW p, Tabs = {p}
    PROVE  Spec => []StoredIsHonoured
<1>1. RefreshesApart
  BY OnePageApart
<1>2. []RefreshesApart
  BY <1>1, PTL
<1>. QED
  BY <1>2, PagesApartHoldAGoodToken, PTL

-----------------------------------------------------------------------------
(* What a call still has before it.                                        *)

\* The turns left of an apiRequest: its request, and for each attempt it has
\* left a refresh to wait for and one more request.
Turns(q) == IF q.st = "idle" THEN 0
            ELSE 2 * q.left + (IF q.st = "waiting" THEN 2 ELSE 1)

\* The turns left of a refresh: its answer, its loss, its settling.
RefreshTurns(op) == IF op.st = "none" THEN 0
                    ELSE IF op.st = "failed" THEN 1
                    ELSE IF op.st = "ok" THEN 2 ELSE 3

\* A call under way and a refresh under way only ever come nearer to their end:
\* no call gets another attempt, no refresh is begun again.
OnlyOnwards ==
    [][\A x \in Tabs \X Callers :
          /\ call[x].st # "idle" =>
               call'[x] = call[x] \/ Turns(call'[x]) < Turns(call[x])
          /\ refresh[x].st # "none" =>
               \/ refresh'[x] = refresh[x]
               \/ RefreshTurns(refresh'[x]) < RefreshTurns(refresh[x])]_vars

\* The steps that the fairness of FairSpec is about do come nearer.
FairStepsCount ==
    [][\A tab \in Tabs : \A c \in Callers :
          /\ CallStep(tab, c) =>
               Turns(call'[<<tab, c>>]) < Turns(call[<<tab, c>>])
          /\ RefreshStep(tab, c) =>
               RefreshTurns(refresh'[<<tab, c>>]) < RefreshTurns(refresh[<<tab, c>>])]_vars

Calls == [st: {"idle", "sent", "waiting"}, left: 0..1, on: OrNull(Callers)]

LEMMA TurnsLeft ==
    ASSUME NEW q \in Calls
    PROVE  /\ Turns(q) \in Nat
           /\ q.st # "idle" => Turns(q) > 0
           /\ q.st = "sent" => Turns(q) = 2 * q.left + 1
           /\ q.st = "waiting" => Turns(q) = 2 * q.left + 2
           /\ Turns(NoCall) = 0
           /\ Turns(Request(q.left)) = 2 * q.left + 1
  BY DEF Calls, Turns, NoCall, Request

\* A call that is answered ends, or waits for a refresh with an attempt less.
LEMMA CallStepCounts ==
    ASSUME LockInv, NEW tab \in Tabs, NEW c \in Callers, CallStep(tab, c)
    PROVE  /\ Turns(call'[<<tab, c>>]) < Turns(call[<<tab, c>>])
           /\ \A x \in Tabs \X Callers : x # <<tab, c>> => call'[x] = call[x]
           /\ \A x \in Tabs \X Callers :
                refresh[x].st # "none" => refresh'[x] = refresh[x]
<1>. DEFINE q == call[<<tab, c>>]
<1>0. /\ q \in Calls /\ q.left \in 0..1 /\ q.st = "sent"
      /\ call \in [Tabs \X Callers -> Calls]
  BY DEF LockInv, TypeOK, Calls, CallStep, CallEnds, CallUnauthorized
<1>1. CASE CallEnds(tab, c)
  <2>1. call' = [call EXCEPT ![<<tab, c>>] = NoCall] /\ refresh' = refresh
    BY <1>1 DEF CallEnds
  <2>. QED
    BY <1>0, <2>1, TurnsLeft
<1>2. CASE CallUnauthorized(tab, c)
  <2>. DEFINE o == IF inFlight[tab] = Null THEN c ELSE inFlight[tab]
              w == [st |-> "waiting", left |-> q.left - 1, on |-> o]
  <2>1. call' = [call EXCEPT ![<<tab, c>>] = w] /\ q.left > 0
    BY <1>0, <1>2 DEF CallUnauthorized, JoinOrStart
  <2>2. o \in Callers
    BY DEF LockInv, TypeOK, OrNull
  <2>3. w \in Calls /\ w.st = "waiting" /\ w.left = q.left - 1
    BY <1>0, <2>1, <2>2 DEF Calls, OrNull
  <2>4. Turns(w) < Turns(q)
    BY <1>0, <2>1, <2>3, TurnsLeft
  <2>5. \A x \in Tabs \X Callers : refresh[x].st # "none" => refresh'[x] = refresh[x]
    <3>1. inFlight[tab] = Null => refresh[<<tab, c>>].st = "none"
      BY DEF LockInv
    <3>. QED
      BY <1>2, <3>1 DEF CallUnauthorized, JoinOrStart, LockInv, TypeOK
  <2>. QED
    BY <1>0, <2>1, <2>4, <2>5
<1>. QED
  BY <1>1, <1>2 DEF CallStep

\* A refresh that goes on has a turn less; when it settles, so do its waiters.
LEMMA RefreshStepCounts ==
    ASSUME LockInv, NEW tab \in Tabs, NEW c \in Callers, RefreshStep(tab, c)
    PROVE  /\ RefreshTurns(refresh'[<<tab, c>>]) < RefreshTurns(refresh[<<tab, c>>])
           /\ \A x \in Tabs \X Callers : x # <<tab, c>> => refresh'[x] = refresh[x]
           /\ \A x \in Tabs \X Callers : call[x].st # "idle" =>
                call'[x] = call[x] \/ Turns(call'[x]) < Turns(call[x])
<1>. DEFINE op == refresh[<<tab, c>>]
<1>0. op \in Op /\ OpOK(op) /\ refresh \in [Tabs \X Callers -> Op]
  BY DEF LockInv, TypeOK
<1>1. CASE RefreshHandled(tab, c)
  <2>1. PICK answer \in Op :
           /\ refresh' = [refresh EXCEPT ![<<tab, c>>] = answer]
           /\ answer.st \in {"ok", "failed"}
    BY <1>0, <1>1, RotateTypes DEF RefreshHandled, LockInv, OpOK
  <2>. QED
    BY <1>0, <1>1, <2>1 DEF RefreshHandled, RefreshTurns
<1>2. CASE RefreshLost(tab, c)
  <2>1. /\ refresh' = [refresh EXCEPT ![<<tab, c>>] = Fail(op)]
        /\ call' = call /\ op.st \in {"sent", "ok"}
    BY <1>0, <1>2 DEF RefreshLost
  <2>2. Fail(op).st = "failed"
    BY <1>0 DEF Fail, Op
  <2>. QED
    BY <1>0, <2>1, <2>2 DEF RefreshTurns
<1>3. CASE Settle(tab, c)
  <2>1. refresh' = [refresh EXCEPT ![<<tab, c>>] = NoOp] /\ op.st \in {"ok", "failed"}
    BY <1>3 DEF Settle
  <2>2. RefreshTurns(NoOp) < RefreshTurns(op)
    BY <2>1 DEF RefreshTurns, NoOp
  <2>3. ASSUME NEW x \in Tabs \X Callers, call[x].st # "idle"
        PROVE  call'[x] = call[x] \/ Turns(call'[x]) < Turns(call[x])
    <3>1. call[x] \in Calls /\ call[x].left \in 0..1
      BY DEF LockInv, TypeOK, Calls
    <3>2. \/ call'[x] = call[x]
          \/ call[x].st = "waiting" /\ call'[x] = Request(call[x].left)
          \/ call[x].st = "waiting" /\ call'[x] = NoCall
      BY <1>3 DEF Settle
    <3>. QED
      BY <2>3, <3>1, <3>2, TurnsLeft
  <2>. QED
    BY <1>0, <2>1, <2>2, <2>3
<1>. QED
  BY <1>1, <1>2, <1>3 DEF RefreshStep

LEMMA OnwardsNext ==
    ASSUME LockInv, [Next]_vars, NEW x \in Tabs \X Callers
    PROVE  /\ call[x].st # "idle" =>
                call'[x] = call[x] \/ Turns(call'[x]) < Turns(call[x])
           /\ refresh[x].st # "none" =>
                \/ refresh'[x] = refresh[x]
                \/ RefreshTurns(refresh'[x]) < RefreshTurns(refresh[x])
<1>. DEFINE Goal == /\ call[x].st # "idle" =>
                         call'[x] = call[x] \/ Turns(call'[x]) < Turns(call[x])
                    /\ refresh[x].st # "none" =>
                         \/ refresh'[x] = refresh[x]
                         \/ RefreshTurns(refresh'[x]) < RefreshTurns(refresh[x])
<1>1. ASSUME NEW tab \in Tabs, NEW c \in Callers, CallStep(tab, c)
      PROVE  Goal
  BY <1>1, CallStepCounts
<1>2. ASSUME NEW tab \in Tabs, NEW c \in Callers, RefreshStep(tab, c)
      PROVE  Goal
  BY <1>2, RefreshStepCounts
<1>3. ASSUME NEW tab \in Tabs, NEW c \in Callers, CallStart(tab, c)
      PROVE  Goal
  <2>1. /\ call' = [call EXCEPT ![<<tab, c>>] = Request(1)]
        /\ call[<<tab, c>>].st = "idle"
        /\ refresh' = refresh
    BY <1>3 DEF CallStart, NoCall
  <2>2. call[x].st # "idle" => call'[x] = call[x]
    BY <2>1 DEF LockInv, TypeOK
  <2>. QED
    BY <2>1, <2>2
<1>4. ASSUME NEW tab \in Tabs, Reload(tab)
      PROVE  Goal
  <2>1. /\ call'[x] = call[x] \/ call'[x] = NoCall
        /\ refresh'[x] = refresh[x] \/ refresh'[x] = NoOp
    BY <1>4 DEF Reload
  <2>2. call[x] \in Calls /\ refresh[x] \in Op
    BY DEF LockInv, TypeOK, Calls
  <2>3. Turns(NoCall) = 0 /\ (call[x].st # "idle" => Turns(call[x]) > 0)
    BY <2>2, TurnsLeft
  <2>4. refresh[x].st # "none" => RefreshTurns(NoOp) < RefreshTurns(refresh[x])
    BY DEF RefreshTurns, NoOp
  <2>. QED
    BY <2>1, <2>3, <2>4
<1>5. CASE UNCHANGED <<call, refresh>>
  BY <1>5
<1>6. ASSUME NEW tab \in Tabs,
             \/ LoginStart(tab) \/ LogoutLocal(tab) \/ LogoutStart(tab)
             \/ LoginStep(tab) \/ LogoutStep(tab)
      PROVE  UNCHANGED <<call, refresh>>
  BY <1>6 DEF LoginStart, LogoutLocal, LogoutStart, LoginStep, LogoutStep,
              LoginHandled, LoginFails, LoginReturns, LogoutHandled, LogoutLost,
              LogoutReturns
<1>7. ASSUME NEW y \in orphans, OrphanHandled(y)
      PROVE  UNCHANGED <<call, refresh>>
  BY <1>7 DEF OrphanHandled
<1>8. UNCHANGED vars => UNCHANGED <<call, refresh>>
  BY DEF vars
<1>. QED
  BY <1>1, <1>2, <1>3, <1>4, <1>5, <1>6, <1>7, <1>8 DEF Next, UserStep

\* A call is replayed at most once and joins at most one refresh, and no refresh
\* is begun again, for any numbers of tabs and callers (client.ts:
\* attemptsRemaining; refresh.ts: inFlight).  This is the part of
\* EveryCallSettles that a proof reaches: what is under way has at most three
\* turns left, every step of it takes one, and nothing gives one back.
THEOREM CallsOnlyProgress == Spec => OnlyOnwards
<1>1. LockInv /\ [Next]_vars =>
        [\A x \in Tabs \X Callers :
            /\ call[x].st # "idle" =>
                 call'[x] = call[x] \/ Turns(call'[x]) < Turns(call[x])
            /\ refresh[x].st # "none" =>
                 \/ refresh'[x] = refresh[x]
                 \/ RefreshTurns(refresh'[x]) < RefreshTurns(refresh[x])]_vars
  BY OnwardsNext
<1>. QED
  BY <1>1, LockInvariant, PTL DEF Spec, OnlyOnwards

\* Every step the fairness of FairSpec grants takes a turn off what it is a step
\* of.
THEOREM FairStepsProgress == Spec => FairStepsCount
<1>1. LockInv /\ [Next]_vars =>
        [\A tab \in Tabs : \A c \in Callers :
            /\ CallStep(tab, c) =>
                 Turns(call'[<<tab, c>>]) < Turns(call[<<tab, c>>])
            /\ RefreshStep(tab, c) =>
                 RefreshTurns(refresh'[<<tab, c>>]) < RefreshTurns(refresh[<<tab, c>>])]_vars
  BY CallStepCounts, RefreshStepCounts
<1>. QED
  BY <1>1, LockInvariant, PTL DEF Spec, FairStepsCount
=============================================================================

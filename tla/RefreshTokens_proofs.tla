------------------------ MODULE RefreshTokens_proofs ------------------------
(***************************************************************************)
(* Proofs about RefreshTokens, for any number of users, tokens and         *)
(* requests, any TTLs and any bound on the clock.  The argument:           *)
(*   IndInv is inductive (one lemma per action);                           *)
(*   each invariant follows from it;                                       *)
(*   the action properties follow from IndInv and one step.                *)
(***************************************************************************)
EXTENDS RefreshTokens, TLAPS

USE ConstantsAssumption

-----------------------------------------------------------------------------
(* What the statements do to the table.                                    *)

\* An insert writes one row and keeps the table a table.
LEMMA InsertRowEffect ==
    ASSUME TypeOK, NEW t \in Tokens, NEW u \in Users, NEW n \in Nat
    PROVE  /\ InsertRow(t, u, n) \in [Tokens -> Row]
           /\ InsertRow(t, u, n)[t] =
                [user |-> u, expiresAt |-> n + RefreshTtl, revokedAt |-> Null]
           /\ \A x \in Tokens \ {t} : InsertRow(t, u, n)[x] = rows[x]
  BY DEF TypeOK, InsertRow, Row, OrNull

\* A revocation touches one row, and of it only revoked_at, once.
LEMMA RevokeByHashEffect ==
    ASSUME NEW tbl \in [Tokens -> Row], NEW t \in Tokens, NEW n \in Nat
    PROVE  /\ RevokeByHash(tbl, t, n) \in [Tokens -> Row]
           /\ \A x \in Tokens :
                /\ RevokeByHash(tbl, t, n)[x].user = tbl[x].user
                /\ RevokeByHash(tbl, t, n)[x].expiresAt = tbl[x].expiresAt
                /\ x # t => RevokeByHash(tbl, t, n)[x] = tbl[x]
                /\ tbl[x].revokedAt # Null => RevokeByHash(tbl, t, n)[x] = tbl[x]
           /\ tbl[t].user # Null => RevokeByHash(tbl, t, n)[t].revokedAt # Null
           /\ tbl[t].user = Null => RevokeByHash(tbl, t, n) = tbl
  BY DEF RevokeByHash, Row, OrNull

\* Revoking a user's chain leaves no unrevoked row of that user, and every
\* other row as it was.
LEMMA RevokeAllEffect ==
    ASSUME TypeOK, NEW u \in Users, NEW n \in Nat
    PROVE  /\ RevokeAllForUser(u, n) \in [Tokens -> Row]
           /\ \A x \in Tokens :
                /\ RevokeAllForUser(u, n)[x].user = rows[x].user
                /\ RevokeAllForUser(u, n)[x].expiresAt = rows[x].expiresAt
                /\ rows[x].user # u => RevokeAllForUser(u, n)[x] = rows[x]
                /\ rows[x].user = u => RevokeAllForUser(u, n)[x].revokedAt # Null
                /\ rows[x].revokedAt # Null => RevokeAllForUser(u, n)[x] = rows[x]
  BY DEF TypeOK, RevokeAllForUser, Row, OrNull

-----------------------------------------------------------------------------
(* IndInv is inductive.                                                    *)

LEMMA InitInd == Init => IndInv
  BY DEF Init, IndInv, TypeOK, LineageOK, FlightOK, PromiseOK,
         RotatedHasReplacement, Stored, Rotating, Row, NoRow, Request, Idle,
         OrNull, Pending

\* A step that leaves the table and the history alone and starts no rotation.
LEMMA RequestStepInd ==
    ASSUME IndInv, TypeOK',
           UNCHANGED <<rows, delivered, lineage, accessUntil, outcome>>,
           \A r \in Requests :
              /\ req'[r].pc = "verify" => req'[r].token = Null
              /\ Rotating(r)' => /\ Rotating(r)
                                 /\ req'[r].token = req[r].token
                                 /\ req'[r].user = req[r].user
    PROVE  IndInv'
<1>1. LineageOK' /\ RotatedHasReplacement'
  BY DEF IndInv, LineageOK, RotatedHasReplacement, Stored, lineage
<1>2. FlightOK'
  BY DEF IndInv, FlightOK, Rotating
<1>3. ASSUME NEW s \in Tokens, Pending(s)' PROVE Pending(s)
  BY <1>3 DEF Pending, Rotating, lineage
<1>4. PromiseOK'
  BY <1>3 DEF IndInv, PromiseOK, lineage, outcome
<1>. QED
  BY <1>1, <1>2, <1>4 DEF IndInv

LEMMA LoginLookupInd ==
    ASSUME IndInv, NEW r \in Requests, NEW u \in OrNull(Users), LoginLookup(r, u)
    PROVE  IndInv'
<1>1. TypeOK'
  BY DEF IndInv, TypeOK, LoginLookup, Request, OrNull, lineage, outcome
<1>2. \A x \in Requests : /\ req'[x].pc = "verify" => req'[x].token = Null
                          /\ Rotating(x)' => Rotating(x) /\ req'[x] = req[x]
  BY DEF IndInv, TypeOK, FlightOK, LoginLookup, Rotating, Request, Idle
<1>. QED
  BY <1>1, <1>2, RequestStepInd DEF LoginLookup

\* A request that ends without having written anything.
LEMMA FinishInd ==
    ASSUME IndInv, NEW r \in Requests, Finish(r),
           UNCHANGED <<rows, now, delivered, lineage, accessUntil, outcome>>
    PROVE  IndInv'
<1>1. TypeOK'
  BY DEF IndInv, TypeOK, Finish, Idle, Request, OrNull, lineage, outcome
<1>2. \A x \in Requests : /\ req'[x].pc = "verify" => req'[x].token = Null
                          /\ Rotating(x)' => Rotating(x) /\ req'[x] = req[x]
  BY DEF IndInv, TypeOK, FlightOK, Finish, Rotating, Request, Idle
<1>. QED
  BY <1>1, <1>2, RequestStepInd

LEMMA LoginVerifiedInd ==
    ASSUME IndInv, NEW r \in Requests, LoginVerified(r)
    PROVE  IndInv'
<1>0. req[r] \in Request /\ now \in Nat
  BY DEF IndInv, TypeOK
<1>. DEFINE q == [req[r] EXCEPT !.pc = "sign", !.iat = now]
<1>a. /\ req' = [req EXCEPT ![r] = q]
      /\ req \in [Requests -> Request]
  BY DEF IndInv, TypeOK, LoginVerified
<1>b. q \in Request /\ q.user = req[r].user
  BY <1>0 DEF Request
<1>c. req[r].user \in Users
  BY <1>0 DEF LoginVerified, Request, OrNull
<1>1. TypeOK'
  BY <1>a, <1>b, <1>c DEF IndInv, TypeOK, LoginVerified, lineage, outcome
<1>2. \A x \in Requests : /\ req'[x].pc = "verify" => req'[x].token = Null
                          /\ Rotating(x)' => Rotating(x) /\ req'[x] = req[x]
  BY DEF IndInv, TypeOK, FlightOK, LoginVerified, Rotating, Request
<1>. QED
  BY <1>1, <1>2, RequestStepInd DEF LoginVerified

LEMMA CrashInd == ASSUME IndInv, Crash PROVE IndInv'
<1>1. TypeOK'
  BY DEF IndInv, TypeOK, Crash, Idle, Request, OrNull, lineage, outcome
<1>2. \A x \in Requests : /\ req'[x].pc = "verify" => req'[x].token = Null
                          /\ Rotating(x)' => Rotating(x) /\ req'[x] = req[x]
  BY DEF Crash, Rotating, Idle
<1>. QED
  BY <1>1, <1>2, RequestStepInd DEF Crash

LEMMA TickInd == ASSUME IndInv, Tick PROVE IndInv'
<1>1. TypeOK'
  BY DEF IndInv, TypeOK, Tick, lineage, outcome
<1>2. \A x \in Requests : /\ req'[x].pc = "verify" => req'[x].token = Null
                          /\ Rotating(x)' => Rotating(x) /\ req'[x] = req[x]
  BY DEF IndInv, FlightOK, Tick, Rotating
<1>. QED
  BY <1>1, <1>2, RequestStepInd DEF Tick

\* A login stores the first row of a new session.
LEMMA LoginIssueInd ==
    ASSUME IndInv, NEW r \in Requests, NEW t \in Tokens, LoginIssue(r, t)
    PROVE  IndInv'
<1>. USE DEF IndInv
<1>1. /\ req[r] \in Request
      /\ req[r].user \in Users
      /\ req[r].start \in Nat
      /\ req[r].iat \in Nat
  BY DEF TypeOK, LoginIssue, Request
<1>2. /\ rows' \in [Tokens -> Row]
      /\ rows'[t] = [user |-> req[r].user, expiresAt |-> req[r].start + RefreshTtl,
                     revokedAt |-> Null]
      /\ \A x \in Tokens \ {t} : rows'[x] = rows[x]
  BY <1>1, InsertRowEffect DEF LoginIssue
<1>3. session[t] = Null /\ parent[t] = Null /\ rows[t].user = Null
  BY DEF LineageOK, LoginIssue, Fresh, Stored
<1>4. TypeOK'
  <2>1. req' \in [Requests -> Request]
        /\ \A x \in Requests : req'[x].pc = "sign" => req'[x].user \in Users
    BY DEF TypeOK, LoginIssue, Finish, Idle, Request, OrNull
  <2>2. accessUntil' \in [Tokens -> Nat]
    BY <1>1 DEF TypeOK, LoginIssue, Grant
  <2>. QED
    BY <1>2, <2>1, <2>2 DEF TypeOK, LoginIssue, OrNull, outcome
<1>5. /\ session' = [session EXCEPT ![t] = t]
      /\ session'[t] = t
      /\ \A x \in Tokens \ {t} : session'[x] = session[x]
  BY DEF TypeOK, LoginIssue
<1>6. LineageOK'
  BY <1>2, <1>3, <1>5 DEF LineageOK, LoginIssue, Stored, NoRow, TypeOK
<1>7. \A x \in Requests : /\ req'[x].pc = "verify" => req'[x].token = Null
                          /\ Rotating(x)' => Rotating(x) /\ req'[x] = req[x]
  BY DEF TypeOK, FlightOK, LoginIssue, Finish, Rotating, Idle
<1>8. \A x \in Requests : Rotating(x) => req[x].token \in Tokens \ {t}
  BY <1>3 DEF TypeOK, FlightOK, Rotating, Request, OrNull
<1>9. FlightOK'
  BY <1>2, <1>7, <1>8 DEF FlightOK
<1>10. ASSUME NEW s \in Tokens, Pending(s)' PROVE Pending(s)
  BY <1>5, <1>7, <1>8, <1>10 DEF Pending
<1>11. PromiseOK'
  BY <1>2, <1>3, <1>5, <1>10 DEF PromiseOK, LoginIssue, outcome
<1>12. RotatedHasReplacement'
  BY <1>2, <1>3 DEF RotatedHasReplacement, LoginIssue, Stored
<1>. QED
  BY <1>4, <1>6, <1>9, <1>11, <1>12

\* The first turn of refresh(): refused, replayed or accepted.
LEMMA RefreshInd ==
    ASSUME IndInv, NEW r \in Requests, NEW t \in Tokens, Refresh(r, t)
    PROVE  IndInv'
<1>. USE DEF IndInv
<1>1. CASE RefreshRefused(t)
  <2>1. UNCHANGED outcome
    BY <1>1 DEF RefreshRefused, RefreshVerdict, Refresh, NotePresented
  <2>2. TypeOK'
    BY <1>1, <2>1 DEF TypeOK, Refresh, RefreshRefused, lineage, outcome
  <2>3. \A x \in Requests : /\ req'[x].pc = "verify" => req'[x].token = Null
                            /\ Rotating(x)' => Rotating(x) /\ req'[x] = req[x]
    BY <1>1 DEF FlightOK, RefreshRefused, Rotating
  <2>. QED
    BY <1>1, <2>1, <2>2, <2>3, RequestStepInd DEF Refresh, RefreshRefused
<1>2. CASE RefreshReplay(t)
  <2>. DEFINE u == rows[t].user
              S == SessionsOf(u)
  <2>1. /\ Stored(t)
        /\ rows[t].revokedAt # Null
        /\ u \in Users
        /\ now \in Nat
    BY <1>2 DEF RefreshReplay, RefreshVerdict, Stored, TypeOK, Row, OrNull
  <2>2. /\ rows' \in [Tokens -> Row]
        /\ \A x \in Tokens :
             /\ rows'[x].user = rows[x].user
             /\ rows[x].user # u => rows'[x] = rows[x]
             /\ rows[x].user = u => rows'[x].revokedAt # Null
             /\ rows[x].revokedAt # Null => rows'[x] = rows[x]
    BY <1>2, <2>1, RevokeAllEffect DEF RefreshReplay
  <2>3. /\ promise' = [s \in Tokens |->
                         IF s \in S THEN "compromise" ELSE promise[s]]
        /\ overtaken' = (overtaken \ S) \cup { s \in S : Pending(s) }
    BY <2>1 DEF Refresh, NotePresented
  <2>4. S \subseteq Tokens
    BY DEF SessionsOf
  <2>5. TypeOK'
    <3>1. promise' \in [Tokens -> {"none", "logout", "compromise"}]
      BY <2>3 DEF TypeOK
    <3>2. overtaken' \subseteq Tokens
      BY <2>3, <2>4 DEF TypeOK
    <3>. QED
      BY <1>2, <2>2, <3>1, <3>2 DEF TypeOK, Refresh, RefreshReplay, lineage
  <2>6. LineageOK'
    BY <2>2, <2>1 DEF LineageOK, TypeOK, Refresh, lineage, Stored
  <2>7. FlightOK'
    <3>1. \A x \in Requests : Rotating(x) => req[x].token \in Tokens
      BY DEF TypeOK, Rotating, Request, OrNull
    <3>. QED
      BY <1>2, <2>2, <3>1 DEF FlightOK, RefreshReplay, Rotating
  <2>8. \A s \in Tokens : Pending(s)' <=> Pending(s)
    BY <1>2 DEF Pending, Rotating, Refresh, RefreshReplay, lineage
  <2>9. PromiseOK'
    <3>. SUFFICES ASSUME NEW s \in Tokens, promise'[s] # "none"
                  PROVE  /\ session[s] = s
                         /\ \/ s \in overtaken'
                            \/ /\ ~Pending(s)
                               /\ \A x \in Tokens :
                                    session[x] = s => rows'[x].revokedAt # Null
      BY <2>8 DEF PromiseOK, Refresh, lineage
    <3>1. CASE s \in S
      BY <2>2, <2>3, <3>1 DEF SessionsOf, LineageOK, Stored
    <3>2. CASE s \notin S
      BY <2>2, <2>3, <3>2 DEF PromiseOK
    <3>. QED
      BY <3>1, <3>2
  <2>10. RotatedHasReplacement'
    BY <2>2 DEF RotatedHasReplacement, Refresh, lineage, Stored
  <2>. QED
    BY <2>5, <2>6, <2>7, <2>9, <2>10
<1>3. CASE RefreshAccept(r, t)
  <2>1. /\ Unrevoked(t)
        /\ rows[t].user \in Users
        /\ now \in Nat
    BY <1>3 DEF RefreshAccept, RefreshVerdict, Stored, Unrevoked, TypeOK, Row, OrNull
  <2>2. UNCHANGED outcome
    BY <2>1 DEF Refresh, NotePresented, Unrevoked
  <2>3. /\ req'[r] = [pc |-> "sign", user |-> rows[t].user, token |-> t,
                      start |-> now, iat |-> now]
        /\ \A x \in Requests \ {r} : req'[x] = req[x]
        /\ req' \in [Requests -> Request]
    BY <1>3, <2>1 DEF RefreshAccept, TypeOK, Request, OrNull
  <2>4. TypeOK'
    BY <1>3, <2>1, <2>2, <2>3
       DEF TypeOK, Refresh, RefreshAccept, lineage, outcome
  <2>5. LineageOK' /\ RotatedHasReplacement'
    BY <1>3 DEF LineageOK, RotatedHasReplacement, Refresh, RefreshAccept,
                lineage, Stored
  <2>6. FlightOK'
    BY <1>3, <2>3 DEF FlightOK, RefreshAccept, Rotating
  <2>7. \A s \in Tokens \ {session[t]} : Pending(s)' => Pending(s)
    BY <2>3 DEF Pending, Rotating, Refresh, lineage
  <2>8. PromiseOK'
    BY <1>3, <2>1, <2>2, <2>7
       DEF PromiseOK, Refresh, RefreshAccept, lineage, outcome, Unrevoked
  <2>. QED
    BY <2>4, <2>5, <2>6, <2>8
<1>. QED
  BY <1>1, <1>2, <1>3 DEF Refresh

\* What the second turn of refresh() leaves in the table, whether or not it
\* got to its second statement: the replacement, and everything else as it
\* was but for a revoked_at of the presented token.
LEMMA RotationStepEffect ==
    ASSUME IndInv, NEW r \in Requests, NEW t \in Tokens,
           NEW stage \in RotationStages, RotationStep(r, t, stage)
    PROVE  LET p == req[r].token
           IN /\ p \in Tokens \ {t}
              /\ Stored(p)
              /\ ~Stored(t)
              /\ req[r].start \in Nat /\ req[r].iat \in Nat
              /\ rows' \in [Tokens -> Row]
              /\ rows'[t] = [user |-> rows[p].user, revokedAt |-> Null,
                             expiresAt |-> req[r].start + RefreshTtl]
              /\ \A x \in Tokens \ {t} :
                    /\ rows'[x].user = rows[x].user
                    /\ rows'[x].expiresAt = rows[x].expiresAt
                    /\ rows[x].revokedAt # Null => rows'[x] = rows[x]
                    /\ x # p => rows'[x] = rows[x]
              /\ session' = [session EXCEPT ![t] = session[p]]
              /\ parent' = [parent EXCEPT ![t] = p]
              /\ rotated' = rotated \/ rotated' = rotated \cup {p}
<1>. DEFINE p == req[r].token
            u == req[r].user
            n == req[r].start
<1>. USE DEF IndInv
<1>1. /\ p \in Tokens
      /\ u \in Users
      /\ n \in Nat
      /\ req[r].iat \in Nat
      /\ rows[p].user = u
      /\ ~Stored(t)
  BY DEF TypeOK, FlightOK, RotationStep, Rotating, Request, OrNull, Fresh
<1>2. Stored(p) /\ p # t
  BY <1>1 DEF Stored
<1>3. /\ InsertRow(t, u, n) \in [Tokens -> Row]
      /\ InsertRow(t, u, n)[t] =
            [user |-> u, expiresAt |-> n + RefreshTtl, revokedAt |-> Null]
      /\ \A x \in Tokens \ {t} : InsertRow(t, u, n)[x] = rows[x]
  BY <1>1, InsertRowEffect
<1>4. \/ rows' = InsertRow(t, u, n)
      \/ rows' = RevokeByHash(InsertRow(t, u, n), p, n)
  BY DEF RotationStep, RotatedTable
<1>5. /\ rows' \in [Tokens -> Row]
      /\ rows'[t] = InsertRow(t, u, n)[t]
      /\ \A x \in Tokens \ {t} :
            /\ rows'[x].user = rows[x].user
            /\ rows'[x].expiresAt = rows[x].expiresAt
            /\ rows[x].revokedAt # Null => rows'[x] = rows[x]
            /\ x # p => rows'[x] = rows[x]
  <2>1. CASE rows' = InsertRow(t, u, n)
    BY <1>3, <2>1
  <2>2. CASE rows' = RevokeByHash(InsertRow(t, u, n), p, n)
    BY <1>1, <1>2, <1>3, <2>2, RevokeByHashEffect
  <2>. QED
    BY <1>4, <2>1, <2>2
<1>6. rows'[t].user # Null
  BY <1>1, <1>3, <1>5
<1>. QED
  BY <1>1, <1>2, <1>3, <1>5, <1>6 DEF RotationStep

\* The second turn of refresh(), however far it gets and whatever becomes of
\* the other requests.
LEMMA RotationInd ==
    ASSUME IndInv, NEW r \in Requests, NEW t \in Tokens,
           NEW stage \in RotationStages, RotationStep(r, t, stage),
           delivered' \subseteq delivered \cup {t},
           accessUntil' \in [Tokens -> Nat],
           req' \in [Requests -> Request],
           \A x \in Requests : req'[x] = req[x] \/ req'[x] = Idle
    PROVE  IndInv'
<1>. DEFINE p == req[r].token
<1>0. rows'[t] = [user |-> rows[p].user, revokedAt |-> Null,
                  expiresAt |-> req[r].start + RefreshTtl]
  BY RotationStepEffect
<1>1. /\ p \in Tokens \ {t}
      /\ Stored(p)
      /\ ~Stored(t)
      /\ rows' \in [Tokens -> Row]
      /\ rows'[t].user = rows[p].user
      /\ \A x \in Tokens \ {t} :
            /\ rows'[x].user = rows[x].user
            /\ rows[x].revokedAt # Null => rows'[x] = rows[x]
            /\ x # p => rows'[x] = rows[x]
      /\ session' = [session EXCEPT ![t] = session[p]]
      /\ parent' = [parent EXCEPT ![t] = p]
      /\ rotated' = rotated \/ rotated' = rotated \cup {p}
  BY <1>0, RotationStepEffect
<1>. USE DEF IndInv
<1>2. session[p] \in Tokens \ {t} /\ session[t] = Null /\ parent[t] = Null
  BY <1>1 DEF LineageOK, Stored
<1>3. /\ session'[t] = session[p]
      /\ \A x \in Tokens \ {t} : session'[x] = session[x]
      /\ parent'[t] = p
      /\ \A x \in Tokens \ {t} : parent'[x] = parent[x]
  BY <1>1 DEF TypeOK
<1>4. TypeOK'
  <2>1. \A x \in Requests : req'[x].pc = "sign" => req'[x].user \in Users
    BY DEF TypeOK, Idle
  <2>2. session' \in [Tokens -> OrNull(Tokens)] /\ parent' \in [Tokens -> OrNull(Tokens)]
    BY <1>1, <1>2 DEF TypeOK, OrNull
  <2>. QED
    BY <1>1, <2>1, <2>2 DEF TypeOK, RotationStep, outcome
<1>5. LineageOK'
  <2>1. ASSUME NEW x \in Tokens, ~Stored(x)'
        PROVE  rows'[x] = NoRow /\ session'[x] = Null /\ parent'[x] = Null
    BY <1>1, <1>2, <1>3, <2>1 DEF LineageOK, Stored
  <2>2. ASSUME NEW x \in Tokens, Stored(x)'
        PROVE  /\ session'[x] \in Tokens
               /\ session'[session'[x]] = session'[x]
               /\ rows'[session'[x]].user = rows'[x].user
    BY <1>1, <1>2, <1>3, <2>2 DEF LineageOK, Stored
  <2>3. \A x \in delivered' : Stored(x)'
    BY <1>1 DEF LineageOK, Stored, TypeOK
  <2>. QED
    BY <2>1, <2>2, <2>3 DEF LineageOK
<1>6. \A x \in Requests : /\ req'[x].pc = "verify" => req'[x].token = Null
                          /\ Rotating(x)' => Rotating(x) /\ req'[x] = req[x]
  BY DEF FlightOK, Rotating, Idle
<1>7. \A x \in Requests : Rotating(x) => req[x].token \in Tokens \ {t}
  BY <1>1 DEF TypeOK, FlightOK, Rotating, Request, OrNull, Stored
<1>8. FlightOK'
  BY <1>1, <1>6, <1>7 DEF FlightOK
<1>9. ASSUME NEW s \in Tokens, Pending(s)' PROVE Pending(s)
  BY <1>3, <1>6, <1>7, <1>9 DEF Pending
<1>10. Pending(session[p])
  BY <1>2 DEF Pending, RotationStep
<1>11. PromiseOK'
  <2>. SUFFICES ASSUME NEW s \in Tokens, promise[s] # "none"
                PROVE  /\ session'[s] = s
                       /\ \/ s \in overtaken
                          \/ /\ ~Pending(s)'
                             /\ \A x \in Tokens :
                                  session'[x] = s => rows'[x].revokedAt # Null
    BY DEF PromiseOK, RotationStep, outcome
  <2>1. session[s] = s
    BY DEF PromiseOK
  <2>2. session'[s] = s
    BY <1>2, <1>3, <2>1
  <2>3. CASE s = session[p]
    BY <1>10, <2>2, <2>3 DEF PromiseOK
  <2>4. CASE s # session[p]
    BY <1>1, <1>3, <1>9, <2>2, <2>4 DEF PromiseOK
  <2>. QED
    BY <2>3, <2>4
<1>12. RotatedHasReplacement'
  <2>1. ASSUME NEW y \in rotated
        PROVE  \E x \in Tokens : parent'[x] = y /\ Stored(x)'
    <3>1. PICK x \in Tokens : parent[x] = y /\ Stored(x)
      BY DEF RotatedHasReplacement
    <3>. QED
      BY <1>1, <1>3, <3>1 DEF Stored
  <2>2. parent'[t] = p /\ Stored(t)'
    BY <1>1, <1>3 DEF Stored
  <2>. QED
    BY <1>1, <2>1, <2>2 DEF RotatedHasReplacement
<1>. QED
  BY <1>4, <1>5, <1>8, <1>11, <1>12

LEMMA RotationDoneInd ==
    ASSUME IndInv, NEW r \in Requests, NEW t \in Tokens, RotationDone(r, t)
    PROVE  IndInv'
<1>1. /\ RotationStep(r, t, "both") /\ "both" \in RotationStages
      /\ delivered' \subseteq delivered \cup {t}
  BY DEF RotationDone, RotationStages
<1>2. /\ req' \in [Requests -> Request]
      /\ \A x \in Requests : req'[x] = req[x] \/ req'[x] = Idle
  BY DEF IndInv, TypeOK, RotationDone, Finish, Idle, Request, OrNull
<1>3. req[r].iat + AccessTtl \in Nat
  BY DEF IndInv, TypeOK, Request
<1>4. accessUntil' \in [Tokens -> Nat]
  <2>. DEFINE s == session[req[r].token]
              v == req[r].iat + AccessTtl
  <2>1. accessUntil' = [accessUntil EXCEPT
                          ![s] = IF accessUntil[s] < v THEN v ELSE accessUntil[s]]
    BY DEF RotationDone, Grant
  <2>2. s \in Tokens
    BY <1>1, RotationStepEffect DEF IndInv, LineageOK
  <2>. HIDE DEF s, v
  <2>. QED
    BY <1>3, <2>1, <2>2 DEF IndInv, TypeOK, v
<1>. QED
  BY <1>1, <1>2, <1>4, RotationInd

LEMMA RotationCutInd ==
    ASSUME IndInv, NEW r \in Requests, NEW t \in Tokens,
           RotationCut(r, t) \/ CrashMidRotation(r, t)
    PROVE  IndInv'
<1>1. /\ RotationStep(r, t, "first") /\ "first" \in RotationStages
      /\ delivered' \subseteq delivered \cup {t}
      /\ accessUntil' = accessUntil
  BY DEF RotationCut, CrashMidRotation, RotationStages
<1>2. /\ req' \in [Requests -> Request]
      /\ \A x \in Requests : req'[x] = req[x] \/ req'[x] = Idle
  BY DEF IndInv, TypeOK, RotationCut, CrashMidRotation, Finish, Idle, Request,
         OrNull
<1>3. accessUntil' \in [Tokens -> Nat]
  BY <1>1 DEF IndInv, TypeOK
<1>. QED
  BY <1>1, <1>2, <1>3, RotationInd

LEMMA LogoutInd ==
    ASSUME IndInv, NEW t \in Tokens, Logout(t)
    PROVE  IndInv'
<1>. DEFINE s == session[t]
<1>. USE DEF IndInv
<1>1. /\ Stored(t)
      /\ s \in Tokens
      /\ session[s] = s
      /\ now \in Nat
  BY DEF Logout, LineageOK, TypeOK
<1>2. /\ rows' \in [Tokens -> Row]
      /\ rows'[t].revokedAt # Null
      /\ \A x \in Tokens :
            /\ rows'[x].user = rows[x].user
            /\ x # t => rows'[x] = rows[x]
            /\ rows[x].revokedAt # Null => rows'[x] = rows[x]
  <2>1. /\ rows \in [Tokens -> Row]
        /\ rows' = RevokeByHash(rows, t, now)
        /\ rows[t].user # Null
    BY <1>1 DEF Logout, TypeOK, Stored
  <2>. QED
    BY <1>1, <2>1, RevokeByHashEffect
<1>3. /\ promise' \in [Tokens -> {"none", "logout", "compromise"}]
      /\ \A x \in Tokens \ {s} : promise'[x] = promise[x]
  BY DEF Logout, TypeOK
<1>4. TypeOK'
  BY <1>1, <1>2, <1>3 DEF TypeOK, Logout, lineage
<1>5. LineageOK'
  BY <1>1, <1>2 DEF LineageOK, TypeOK, Logout, lineage, Stored
<1>6. FlightOK'
  <2>1. \A x \in Requests : Rotating(x) => req[x].token \in Tokens
    BY DEF TypeOK, Rotating, Request, OrNull
  <2>. QED
    BY <1>2, <2>1 DEF FlightOK, Logout, Rotating
<1>7. \A x \in Tokens : Pending(x)' <=> Pending(x)
  BY DEF Pending, Rotating, Logout, lineage
<1>8. PromiseOK'
  <2>. SUFFICES ASSUME NEW x \in Tokens, promise'[x] # "none"
                PROVE  /\ session[x] = x
                       /\ \/ x \in overtaken'
                          \/ /\ ~Pending(x)
                             /\ \A y \in Tokens :
                                  session[y] = x => rows'[y].revokedAt # Null
    BY <1>7 DEF PromiseOK, Logout, lineage
  <2>1. CASE x = s
    <3>1. CASE Pending(s) \/ (\E y \in Tokens \ {t} :
                                 session[y] = s /\ Unrevoked(y))
      BY <1>1, <2>1, <3>1 DEF Logout
    <3>2. CASE ~Pending(s) /\ ~(\E y \in Tokens \ {t} :
                                   session[y] = s /\ Unrevoked(y))
      BY <1>1, <1>2, <2>1, <3>2 DEF LineageOK, Unrevoked
    <3>. QED
      BY <3>1, <3>2
  <2>2. CASE x # s
    BY <1>2, <1>3, <2>2 DEF PromiseOK, Logout
  <2>. QED
    BY <2>1, <2>2
<1>9. RotatedHasReplacement'
  BY <1>2 DEF RotatedHasReplacement, Logout, lineage, Stored
<1>. QED
  BY <1>4, <1>5, <1>6, <1>8, <1>9

LEMMA NextInd == IndInv /\ [Next]_vars => IndInv'
<1>. SUFFICES ASSUME IndInv, [Next]_vars PROVE IndInv'
  OBVIOUS
<1>1. ASSUME NEW r \in Requests, LoginRefused(r) PROVE IndInv'
  BY <1>1, FinishInd DEF LoginRefused
<1>2. ASSUME NEW r \in Requests, LoginInsertFails(r) PROVE IndInv'
  BY <1>2, FinishInd DEF LoginInsertFails
<1>3. ASSUME NEW r \in Requests, RotationInsertFails(r) PROVE IndInv'
  BY <1>3, FinishInd DEF RotationInsertFails
<1>4. CASE UNCHANGED vars
  BY <1>4 DEF vars, IndInv, TypeOK, LineageOK, FlightOK, PromiseOK,
              RotatedHasReplacement, Stored, Rotating, Pending
<1>. QED
  BY <1>1, <1>2, <1>3, <1>4, LoginLookupInd, LoginVerifiedInd, LoginIssueInd,
     RefreshInd, RotationDoneInd, RotationCutInd, LogoutInd, TickInd, CrashInd
     DEF Next

\* Rows, requests across their awaits and what clients were told agree in every
\* reachable state of the auth service (auth.service.ts).
THEOREM InductiveInvariant == Spec => []IndInv
  BY InitInd, NextInd, PTL DEF Spec

\* The table, the requests and the history have their types, and no access
\* token is signed for an unknown account.
THEOREM TypeCorrect == Spec => []TypeOK
  BY InductiveInvariant, PTL DEF IndInv

\* Under any interleaving, failing statements and crashes, a token revoked by
\* a rotation has a replacement in the table.
THEOREM RotationKeepsTheSession == Spec => []RotatedHasReplacement
  BY InductiveInvariant, PTL DEF IndInv

\* Logout and replay tell the truth about the end of a session, but for the
\* rotations that overtake them.
THEOREM PromiseKept == Spec => []PromisedEndIsKept
<1>1. IndInv => PromisedEndIsKept
  BY DEF IndInv, LineageOK, PromiseOK, PromisedEndIsKept
<1>. QED
  BY <1>1, InductiveInvariant, PTL

-----------------------------------------------------------------------------
(* Action properties.                                                      *)

\* Every kind of step, as far as one row of the table is concerned.
LEMMA RevokedRowStays ==
    ASSUME IndInv, [Next]_vars, NEW x \in Tokens, rows[x].revokedAt # Null
    PROVE  rows'[x] = rows[x]
<1>1. Stored(x)
  BY DEF IndInv, LineageOK, NoRow
<1>2. ASSUME NEW r \in Requests, NEW t \in Tokens, LoginIssue(r, t)
      PROVE  rows'[x] = rows[x]
  BY <1>1, <1>2 DEF LoginIssue, Fresh, InsertRow, IndInv, TypeOK
<1>3. ASSUME NEW r \in Requests, NEW t \in Tokens, Refresh(r, t)
      PROVE  rows'[x] = rows[x]
  <2>1. CASE RefreshReplay(t)
    <3>1. /\ rows' = RevokeAllForUser(rows[t].user, now)
          /\ rows[t].user \in Users
          /\ now \in Nat
      BY <2>1 DEF RefreshReplay, RefreshVerdict, IndInv, TypeOK, Row, OrNull,
                  Stored
    <3>. QED
      BY <3>1, RevokeAllEffect DEF IndInv
  <2>2. CASE ~RefreshReplay(t)
    BY <1>3, <2>2 DEF Refresh, RefreshRefused, RefreshAccept
  <2>. QED
    BY <2>1, <2>2
<1>4. ASSUME NEW r \in Requests, NEW t \in Tokens,
             NEW stage \in RotationStages, RotationStep(r, t, stage)
      PROVE  rows'[x] = rows[x]
  BY <1>1, <1>4, RotationStepEffect
<1>5. ASSUME NEW t \in Tokens, Logout(t)
      PROVE  rows'[x] = rows[x]
  BY <1>5, RevokeByHashEffect DEF Logout, IndInv, TypeOK
<1>6. ASSUME UNCHANGED rows
      PROVE  rows'[x] = rows[x]
  BY <1>6
<1>. QED
  BY <1>2, <1>3, <1>4, <1>5, <1>6
     DEF Next, vars, LoginLookup, LoginRefused, LoginVerified,
         LoginInsertFails, RotationDone, RotationInsertFails, RotationCut,
         CrashMidRotation, Tick, Crash, RotationStages

\* revoked_at is written once and then for good, whoever races for the row.
THEOREM RevocationPermanent == Spec => RevocationIsPermanent
<1>1. IndInv /\ [Next]_vars =>
        [\A t \in Tokens : rows[t].revokedAt # Null => rows'[t] = rows[t]]_vars
  BY RevokedRowStays
<1>. QED
  BY <1>1, InductiveInvariant, PTL DEF Spec, RevocationIsPermanent

\* An over session stays over in a step that adds no row to it, leaves the
\* expiry of its rows and starts no rotation of it.
LEMMA OverStep ==
    ASSUME IndInv, NEW s \in Tokens, Over(s), now' \in Nat, now' >= now,
           session'[s] = session[s],
           \A x \in Tokens : session'[x] = s =>
              /\ session[x] = s
              /\ rows'[x].expiresAt = rows[x].expiresAt
              /\ rows[x].revokedAt # Null => rows'[x].revokedAt # Null,
           Pending(s)' => Pending(s)
    PROVE  Over(s)'
<1>1. \A x \in Tokens : rows[x].expiresAt \in Nat
  BY DEF IndInv, TypeOK, Row
<1>. QED
  BY <1>1 DEF Over, Expired, IndInv, TypeOK

\* A step that leaves the table alone and starts no rotation.
LEMMA OverQuietStep ==
    ASSUME IndInv, NEW s \in Tokens, Over(s), now' \in Nat, now' >= now,
           UNCHANGED <<rows, session, accessUntil>>,
           \A x \in Requests : Rotating(x)' => Rotating(x) /\ req'[x] = req[x]
    PROVE  Over(s)' /\ accessUntil'[s] = accessUntil[s]
<1>1. Pending(s)' => Pending(s)
  BY DEF Pending
<1>. QED
  BY <1>1, OverStep

LEMMA OverLoginIssue ==
    ASSUME IndInv, NEW s \in Tokens, Over(s),
           NEW r \in Requests, NEW t \in Tokens, LoginIssue(r, t)
    PROVE  Over(s)' /\ accessUntil'[s] = accessUntil[s]
<1>. USE DEF IndInv
<1>1. s # t /\ ~Stored(t) /\ session[t] = Null
  BY DEF Over, LineageOK, LoginIssue, Fresh
<1>2. \A x \in Tokens \ {t} : rows'[x] = rows[x] /\ session'[x] = session[x]
  BY DEF LoginIssue, InsertRow, TypeOK
<1>3. session'[t] = t
  BY DEF LoginIssue, TypeOK
<1>4. \A x \in Requests :
         /\ Rotating(x)' => Rotating(x) /\ req'[x] = req[x]
         /\ Rotating(x) => req[x].token \in Tokens \ {t}
  BY <1>1 DEF TypeOK, FlightOK, LoginIssue, Finish, Rotating, Idle, Request,
              OrNull, Stored
<1>5. Pending(s)' => Pending(s)
  BY <1>2, <1>4 DEF Pending
<1>6. Over(s)'
  BY <1>1, <1>2, <1>3, <1>5, OverStep DEF LoginIssue, TypeOK
<1>. QED
  BY <1>1, <1>6 DEF LoginIssue, Grant, TypeOK

LEMMA OverRefresh ==
    ASSUME IndInv, NEW s \in Tokens, Over(s),
           NEW r \in Requests, NEW t \in Tokens, Refresh(r, t)
    PROVE  Over(s)' /\ accessUntil'[s] = accessUntil[s]
<1>. USE DEF IndInv
<1>1. CASE RefreshRefused(t)
  BY <1>1, OverQuietStep DEF RefreshRefused, Refresh, lineage, TypeOK, Rotating
<1>2. CASE RefreshReplay(t)
  <2>1. /\ rows' = RevokeAllForUser(rows[t].user, now)
        /\ rows[t].user \in Users
        /\ now \in Nat
    BY <1>2 DEF RefreshReplay, RefreshVerdict, TypeOK, Row, OrNull, Stored
  <2>2. Pending(s)' => Pending(s)
    BY <1>2 DEF RefreshReplay, Refresh, Pending, Rotating, lineage
  <2>. QED
    BY <2>1, <2>2, RevokeAllEffect, OverStep DEF Refresh, lineage
<1>3. CASE RefreshAccept(r, t)
  <2>1. session[t] # s
    BY <1>3 DEF RefreshAccept, RefreshVerdict, Over
  <2>2. /\ req'[r].token = t
        /\ \A x \in Requests \ {r} : req'[x] = req[x]
    BY <1>3 DEF RefreshAccept, TypeOK
  <2>3. Pending(s)' => Pending(s)
    BY <2>1, <2>2 DEF Refresh, Pending, Rotating, lineage
  <2>. QED
    BY <1>3, <2>3, OverStep DEF Refresh, RefreshAccept, lineage, TypeOK
<1>. QED
  BY <1>1, <1>2, <1>3 DEF Refresh

\* A rotation in flight is of a session that is not over.
LEMMA OverRotation ==
    ASSUME IndInv, NEW s \in Tokens, Over(s),
           NEW r \in Requests, NEW t \in Tokens, NEW stage \in RotationStages,
           RotationStep(r, t, stage),
           \A x \in Requests : req'[x] = req[x] \/ req'[x] = Idle
    PROVE  Over(s)' /\ s # session[req[r].token]
<1>. DEFINE p == req[r].token
<1>1. /\ p \in Tokens \ {t}
      /\ ~Stored(t)
      /\ \A x \in Tokens \ {t} :
            /\ rows'[x].user = rows[x].user
            /\ rows'[x].expiresAt = rows[x].expiresAt
            /\ rows[x].revokedAt # Null => rows'[x] = rows[x]
            /\ x # p => rows'[x] = rows[x]
      /\ session' = [session EXCEPT ![t] = session[p]]
  BY RotationStepEffect
<1>2. s # session[p]
  BY <1>1 DEF Over, Pending, RotationStep
<1>3. s # t
  BY <1>1 DEF Over, IndInv, LineageOK
<1>4. session'[t] # s /\ \A x \in Tokens \ {t} : session'[x] = session[x]
  BY <1>1, <1>2 DEF IndInv, TypeOK
<1>5. \A x \in Requests :
         /\ Rotating(x)' => Rotating(x) /\ req'[x] = req[x]
         /\ Rotating(x) => req[x].token \in Tokens \ {t}
  BY <1>1 DEF IndInv, TypeOK, FlightOK, Rotating, Idle, Request, OrNull, Stored
<1>6. Pending(s)' => Pending(s)
  BY <1>4, <1>5 DEF Pending
<1>7. now' = now /\ now \in Nat
  BY DEF RotationStep, IndInv, TypeOK
<1>. QED
  BY <1>1, <1>2, <1>3, <1>4, <1>6, <1>7, OverStep

LEMMA OverNext ==
    ASSUME IndInv, [Next]_vars, NEW s \in Tokens, Over(s)
    PROVE  Over(s)' /\ accessUntil'[s] = accessUntil[s]
<1>. DEFINE Goal == Over(s)' /\ accessUntil'[s] = accessUntil[s]
<1>1. ASSUME NEW r \in Requests, NEW u \in OrNull(Users), LoginLookup(r, u)
      PROVE  Goal
  BY <1>1, OverQuietStep
     DEF LoginLookup, lineage, IndInv, TypeOK, Rotating, Idle
<1>2. ASSUME NEW r \in Requests,
             LoginRefused(r) \/ LoginInsertFails(r) \/ RotationInsertFails(r)
      PROVE  Goal
  BY <1>2, OverQuietStep
     DEF LoginRefused, LoginInsertFails, RotationInsertFails, Finish, lineage,
         IndInv, TypeOK, Rotating, Idle
<1>3. ASSUME NEW r \in Requests, LoginVerified(r)
      PROVE  Goal
  BY <1>3, OverQuietStep
     DEF LoginVerified, lineage, IndInv, TypeOK, FlightOK, Rotating
<1>4. ASSUME NEW r \in Requests, NEW t \in Tokens, RotationDone(r, t)
      PROVE  Goal
  <2>1. RotationStep(r, t, "both") /\ "both" \in RotationStages
    BY <1>4 DEF RotationDone, RotationStages
  <2>2. \A x \in Requests : req'[x] = req[x] \/ req'[x] = Idle
    BY <1>4 DEF RotationDone, Finish, IndInv, TypeOK
  <2>3. Over(s)' /\ s # session[req[r].token]
    BY <2>1, <2>2, OverRotation
  <2>. QED
    BY <1>4, <2>3 DEF RotationDone, Grant, IndInv, TypeOK
<1>5. ASSUME NEW r \in Requests, NEW t \in Tokens,
             RotationCut(r, t) \/ CrashMidRotation(r, t)
      PROVE  Goal
  <2>1. RotationStep(r, t, "first") /\ "first" \in RotationStages
    BY <1>5 DEF RotationCut, CrashMidRotation, RotationStages
  <2>2. \A x \in Requests : req'[x] = req[x] \/ req'[x] = Idle
    BY <1>5 DEF RotationCut, CrashMidRotation, Finish, IndInv, TypeOK
  <2>. QED
    BY <1>5, <2>1, <2>2, OverRotation DEF RotationCut, CrashMidRotation
<1>6. ASSUME NEW t \in Tokens, Logout(t)
      PROVE  Goal
  <2>1. Pending(s)' => Pending(s)
    BY <1>6 DEF Logout, Pending, Rotating, lineage
  <2>2. rows \in [Tokens -> Row] /\ now \in Nat
    BY DEF IndInv, TypeOK
  <2>. QED
    BY <1>6, <2>1, <2>2, RevokeByHashEffect, OverStep DEF Logout, lineage
<1>7. ASSUME Tick \/ Crash \/ UNCHANGED vars
      PROVE  Goal
  BY <1>7, OverQuietStep
     DEF Tick, Crash, vars, lineage, IndInv, TypeOK, Rotating, Idle
<1>. QED
  BY <1>1, <1>2, <1>3, <1>4, <1>5, <1>6, <1>7, OverLoginIssue, OverRefresh
     DEF Next

\* An ended session is never revived and issues no further access token.
THEOREM OverForGood == Spec => OverIsFinal
<1>1. IndInv /\ [Next]_vars =>
        [\A s \in Tokens : Over(s) =>
            /\ Over(s)'
            /\ accessUntil'[s] = accessUntil[s]]_vars
  BY OverNext
<1>. QED
  BY <1>1, InductiveInvariant, PTL DEF Spec, OverIsFinal

-----------------------------------------------------------------------------
(* RefreshTokens implements Sessions.                                      *)

LEMMA RefinesInit == Init => Promised!Init
  BY DEF Init, Promised!Init, SessionStatus, SessionOwner

LEMMA StatusType == SessionStatus \in [Tokens -> Promised!Status]
  BY DEF SessionStatus, Promised!Status

\* The set of sessions and their owners stay as they are.
SameSessions ==
    \A s \in Tokens : /\ session'[s] = s <=> session[s] = s
                      /\ session[s] = s => rows'[s].user = rows[s].user

LEMMA SameOwners ==
    ASSUME SameSessions
    PROVE  SessionOwner' = SessionOwner
  BY DEF SameSessions, SessionOwner

\* Rotations end without starting any; at most the one of session r0 stores a
\* replacement.
LEMMA SettleStep ==
    ASSUME SameSessions, NEW r0 \in Tokens \cup {Null},
           \A s \in Tokens \ {r0} : session[s] = s =>
              (Live(s)' <=> Live(s)) /\ (Pending(s)' => Pending(s)),
           r0 \in Tokens => Live(r0)' /\ (Live(r0) \/ Pending(r0))
    PROVE  Promised!Settle(r0)
<1>1. SessionStatus' \in [Tokens -> Promised!Status]
  BY DEF SessionStatus, Promised!Status
<1>2. ASSUME NEW s \in Tokens
      PROVE  \/ SessionStatus'[s] = SessionStatus[s]
             \/ /\ SessionStatus[s] = "closing"
                /\ SessionStatus'[s] = IF s = r0 THEN "live" ELSE "ended"
  BY DEF SameSessions, SessionStatus
<1>. QED
  BY <1>1, <1>2, SameOwners DEF Promised!Settle

\* Rows of user u are revoked and nothing else happens.
LEMMA RevokeStep ==
    ASSUME SameSessions, NEW u \in Users,
           \A s \in Tokens : session[s] = s =>
              /\ Live(s)' => Live(s)
              /\ rows[s].user # u => (Live(s)' <=> Live(s))
              /\ Pending(s)' <=> Pending(s)
    PROVE  Promised!Revoke(u)
<1>1. SessionStatus' \in [Tokens -> Promised!Status]
  BY DEF SessionStatus, Promised!Status
<1>2. ASSUME NEW s \in Tokens
      PROVE  \/ SessionStatus'[s] = SessionStatus[s]
             \/ /\ SessionOwner[s] = u
                /\ SessionStatus[s] = "live"
                /\ SessionStatus'[s] \in {"closing", "ended"}
  BY DEF SameSessions, SessionStatus, SessionOwner
<1>. QED
  BY <1>1, <1>2, SameOwners DEF Promised!Revoke

\* A step that leaves the table alone and starts no rotation.
LEMMA QuietSettles ==
    ASSUME UNCHANGED <<rows, session>>,
           \A x \in Requests : Rotating(x)' => Rotating(x) /\ req'[x] = req[x]
    PROVE  Promised!Next
<1>1. SameSessions
  BY DEF SameSessions
<1>2. \A s \in Tokens : (Live(s)' <=> Live(s)) /\ (Pending(s)' => Pending(s))
  BY DEF Live, Unrevoked, Stored, Pending
<1>3. Promised!Settle(Null)
  BY <1>1, <1>2, SettleStep
<1>. QED
  BY <1>3 DEF Promised!Next

LEMMA LoginOpens ==
    ASSUME IndInv, NEW r \in Requests, NEW t \in Tokens, LoginIssue(r, t)
    PROVE  Promised!Next
<1>. USE DEF IndInv
<1>. DEFINE u == req[r].user
<1>1. u \in Users /\ req[r].start \in Nat /\ ~Stored(t) /\ session[t] = Null
  BY DEF TypeOK, LoginIssue, Fresh, LineageOK, Request
<1>2. /\ rows'[t] = [user |-> u, expiresAt |-> req[r].start + RefreshTtl,
                     revokedAt |-> Null]
      /\ \A x \in Tokens \ {t} : rows'[x] = rows[x]
  BY <1>1, InsertRowEffect DEF LoginIssue
<1>3. session'[t] = t /\ \A x \in Tokens \ {t} : session'[x] = session[x]
  BY DEF LoginIssue, TypeOK
<1>4. \A x \in Requests :
         /\ Rotating(x)' <=> Rotating(x)
         /\ Rotating(x) => req'[x] = req[x] /\ req[x].token \in Tokens \ {t}
  BY <1>1 DEF TypeOK, FlightOK, LoginIssue, Finish, Rotating, Idle, Request,
              OrNull, Stored
<1>5. \A s \in Tokens \ {t} : (Live(s)' <=> Live(s)) /\ (Pending(s)' <=> Pending(s))
  <2>1. ASSUME NEW s \in Tokens \ {t} PROVE Live(s)' <=> Live(s)
    BY <1>1, <1>2, <1>3 DEF Live, Unrevoked, Stored
  <2>2. ASSUME NEW s \in Tokens \ {t} PROVE Pending(s)' <=> Pending(s)
    BY <1>3, <1>4 DEF Pending
  <2>. QED
    BY <2>1, <2>2
<1>6. Live(t)'
  BY <1>1, <1>2, <1>3 DEF Live, Unrevoked, Stored
<1>7. /\ SessionStatus[t] = "none"
      /\ SessionStatus' = [SessionStatus EXCEPT ![t] = "live"]
  <2>1. SessionStatus[t] = "none" /\ SessionStatus'[t] = "live"
    BY <1>1, <1>3, <1>6 DEF SessionStatus
  <2>2. ASSUME NEW s \in Tokens \ {t} PROVE SessionStatus'[s] = SessionStatus[s]
    BY <1>3, <1>5 DEF SessionStatus
  <2>3. /\ SessionStatus = [s \in Tokens |-> SessionStatus[s]]
        /\ SessionStatus' = [s \in Tokens |-> SessionStatus'[s]]
    BY DEF SessionStatus
  <2>. QED
    BY <2>1, <2>2, <2>3
<1>8. SessionOwner' = [SessionOwner EXCEPT ![t] = u]
  <2>1. SessionOwner'[t] = u
    BY <1>2, <1>3 DEF SessionOwner
  <2>2. ASSUME NEW s \in Tokens \ {t} PROVE SessionOwner'[s] = SessionOwner[s]
    BY <1>2, <1>3 DEF SessionOwner
  <2>3. /\ SessionOwner = [s \in Tokens |-> SessionOwner[s]]
        /\ SessionOwner' = [s \in Tokens |-> SessionOwner'[s]]
    BY DEF SessionOwner
  <2>. QED
    BY <2>1, <2>2, <2>3
<1>. QED
  BY <1>1, <1>7, <1>8 DEF Promised!Next, Promised!Open

\* Refused requests change nothing, a replay revokes one user's sessions, and
\* an accepted rotation is of a session that is live.
LEMMA RefreshRefines ==
    ASSUME IndInv, NEW r \in Requests, NEW t \in Tokens, Refresh(r, t)
    PROVE  Promised!Next
<1>. USE DEF IndInv
<1>1. CASE RefreshRefused(t)
  BY <1>1, QuietSettles DEF RefreshRefused, Refresh, lineage, Rotating
<1>2. CASE RefreshReplay(t)
  <2>. DEFINE u == rows[t].user
  <2>1. /\ rows' = RevokeAllForUser(u, now)
        /\ u \in Users
        /\ now \in Nat
    BY <1>2 DEF RefreshReplay, RefreshVerdict, TypeOK, Row, OrNull, Stored
  <2>2. \A x \in Tokens :
          /\ rows'[x].user = rows[x].user
          /\ rows[x].user # u => rows'[x] = rows[x]
          /\ rows[x].revokedAt # Null => rows'[x] = rows[x]
    BY <2>1, RevokeAllEffect
  <2>3. SameSessions
    BY <2>2 DEF SameSessions, Refresh, lineage
  <2>4. ASSUME NEW s \in Tokens, session[s] = s
        PROVE  /\ Live(s)' => Live(s)
               /\ rows[s].user # u => (Live(s)' <=> Live(s))
               /\ Pending(s)' <=> Pending(s)
    <3>1. \A x \in Tokens : Unrevoked(x)' => Unrevoked(x)
      BY <2>2 DEF Unrevoked, Stored
    <3>2. rows[s].user # u =>
             \A x \in Tokens : session[x] = s => rows'[x] = rows[x]
      BY <2>2, <2>4 DEF LineageOK, Stored
    <3>3. session' = session
      BY DEF Refresh, lineage
    <3>4. (Live(s)' => Live(s)) /\ (rows[s].user # u => (Live(s)' <=> Live(s)))
      BY <3>1, <3>2, <3>3 DEF Live, Unrevoked, Stored
    <3>5. Pending(s)' <=> Pending(s)
      BY <1>2, <3>3 DEF RefreshReplay, Pending, Rotating
    <3>. QED
      BY <3>4, <3>5
  <2>5. Promised!Revoke(u)
    BY <2>1, <2>3, <2>4, RevokeStep
  <2>. QED
    BY <2>1, <2>5 DEF Promised!Next
<1>3. CASE RefreshAccept(r, t)
  <2>1. /\ UNCHANGED <<rows, session>>
        /\ Unrevoked(t)
    BY <1>3 DEF RefreshAccept, RefreshVerdict, Refresh, lineage, Unrevoked, Stored
  <2>2. /\ req'[r].token = t
        /\ \A x \in Requests \ {r} : req'[x] = req[x]
    BY <1>3 DEF RefreshAccept, TypeOK
  <2>3. session[t] \in Tokens /\ Live(session[t])
    BY <2>1 DEF LineageOK, Live, Unrevoked
  <2>4. SameSessions
    BY <2>1 DEF SameSessions
  <2>5. \A s \in Tokens : Live(s)' <=> Live(s)
    BY <2>1 DEF Live, Unrevoked, Stored
  <2>6. \A s \in Tokens \ {session[t]} : Pending(s)' => Pending(s)
    BY <2>1, <2>2 DEF Pending, Rotating
  <2>7. Promised!Settle(session[t])
    BY <2>3, <2>4, <2>5, <2>6, SettleStep
  <2>. QED
    BY <2>3, <2>7 DEF Promised!Next
<1>. QED
  BY <1>1, <1>2, <1>3 DEF Refresh

\* A rotation that gets to its insert leaves its session live, whatever else
\* of the step fails and whichever other requests die with it.
LEMMA RotationRefines ==
    ASSUME IndInv, NEW r \in Requests, NEW t \in Tokens,
           NEW stage \in RotationStages, RotationStep(r, t, stage),
           \A x \in Requests : req'[x] = req[x] \/ req'[x] = Idle
    PROVE  Promised!Next
<1>. DEFINE p == req[r].token
<1>1. /\ p \in Tokens \ {t}
      /\ Stored(p)
      /\ ~Stored(t)
      /\ rows'[t] = [user |-> rows[p].user, revokedAt |-> Null,
                     expiresAt |-> req[r].start + RefreshTtl]
      /\ \A x \in Tokens \ {t} :
            /\ rows'[x].user = rows[x].user
            /\ rows'[x].expiresAt = rows[x].expiresAt
            /\ rows[x].revokedAt # Null => rows'[x] = rows[x]
            /\ x # p => rows'[x] = rows[x]
      /\ session' = [session EXCEPT ![t] = session[p]]
  BY RotationStepEffect
<1>. USE DEF IndInv
<1>0. PICK s0 \in Tokens : s0 = session[p]
  BY <1>1 DEF LineageOK
<1>2. s0 \in Tokens \ {t} /\ session[t] = Null /\ session[s0] = s0
  BY <1>0, <1>1 DEF LineageOK, Stored
<1>3. session'[t] = s0 /\ \A x \in Tokens \ {t} : session'[x] = session[x]
  BY <1>0, <1>1 DEF TypeOK
<1>4. SameSessions
  BY <1>1, <1>2, <1>3 DEF SameSessions
<1>5. ASSUME NEW s \in Tokens \ {s0} PROVE Live(s)' <=> Live(s)
  BY <1>1, <1>2, <1>3, <1>5 DEF Live, Unrevoked, Stored
<1>6. ASSUME NEW s \in Tokens PROVE Pending(s)' => Pending(s)
  <2>1. \A x \in Requests :
           /\ Rotating(x)' => Rotating(x) /\ req'[x] = req[x]
           /\ Rotating(x) => req[x].token \in Tokens \ {t}
    BY <1>1 DEF TypeOK, FlightOK, Rotating, Idle, Request, OrNull, Stored
  <2>. QED
    BY <1>3, <2>1 DEF Pending
<1>7. Live(s0)' /\ Pending(s0)
  <2>1. Pending(s0)
    BY <1>0 DEF Pending, RotationStep
  <2>2. rows'[t].user # Null /\ rows'[t].revokedAt = Null
    BY <1>1 DEF Stored
  <2>. QED
    BY <1>3, <2>1, <2>2 DEF Live, Unrevoked, Stored
<1>8. Promised!Settle(s0)
  BY <1>2, <1>4, <1>5, <1>6, <1>7, SettleStep
<1>. QED
  BY <1>2, <1>8 DEF Promised!Next

\* A logout revokes a token of one session of one user.
LEMMA LogoutRefines ==
    ASSUME IndInv, NEW t \in Tokens, Logout(t)
    PROVE  Promised!Next
<1>. USE DEF IndInv
<1>. DEFINE u == rows[t].user
<1>1. /\ Stored(t)
      /\ u \in Users
      /\ rows \in [Tokens -> Row]
      /\ now \in Nat
      /\ rows' = RevokeByHash(rows, t, now)
      /\ session' = session
      /\ req' = req
  BY DEF Logout, LineageOK, TypeOK, Stored, Row, OrNull, lineage
<1>2. \A x \in Tokens :
        /\ rows'[x].user = rows[x].user
        /\ x # t => rows'[x] = rows[x]
        /\ rows[x].revokedAt # Null => rows'[x] = rows[x]
  BY <1>1, RevokeByHashEffect
<1>3. SameSessions
  BY <1>1, <1>2 DEF SameSessions
<1>4. ASSUME NEW s \in Tokens, session[s] = s
      PROVE  /\ Live(s)' => Live(s)
             /\ rows[s].user # u => (Live(s)' <=> Live(s))
             /\ Pending(s)' <=> Pending(s)
  <2>1. \A x \in Tokens : Unrevoked(x)' => Unrevoked(x)
    BY <1>2 DEF Unrevoked, Stored
  <2>2. rows[s].user # u => session[t] # s
    BY <1>1 DEF LineageOK
  <2>3. (Live(s)' => Live(s)) /\ (rows[s].user # u => (Live(s)' <=> Live(s)))
    BY <1>1, <1>2, <2>1, <2>2 DEF Live, Unrevoked, Stored
  <2>4. Pending(s)' <=> Pending(s)
    BY <1>1 DEF Pending, Rotating
  <2>. QED
    BY <2>3, <2>4
<1>5. Promised!Revoke(u)
  BY <1>1, <1>3, <1>4, RevokeStep
<1>. QED
  BY <1>1, <1>5 DEF Promised!Next

LEMMA RefinesNext ==
    ASSUME IndInv, Next
    PROVE  Promised!Next
<1>1. ASSUME NEW r \in Requests, NEW u \in OrNull(Users), LoginLookup(r, u)
      PROVE  Promised!Next
  BY <1>1, QuietSettles DEF LoginLookup, lineage, IndInv, TypeOK, Rotating, Idle
<1>2. ASSUME NEW r \in Requests,
             LoginRefused(r) \/ LoginInsertFails(r) \/ RotationInsertFails(r)
      PROVE  Promised!Next
  BY <1>2, QuietSettles
     DEF LoginRefused, LoginInsertFails, RotationInsertFails, Finish, lineage,
         IndInv, TypeOK, Rotating, Idle
<1>3. ASSUME NEW r \in Requests, LoginVerified(r)
      PROVE  Promised!Next
  BY <1>3, QuietSettles
     DEF LoginVerified, lineage, IndInv, TypeOK, FlightOK, Rotating
<1>4. ASSUME NEW r \in Requests, NEW t \in Tokens, RotationDone(r, t)
      PROVE  Promised!Next
  <2>1. RotationStep(r, t, "both") /\ "both" \in RotationStages
    BY <1>4 DEF RotationDone, RotationStages
  <2>2. \A x \in Requests : req'[x] = req[x] \/ req'[x] = Idle
    BY <1>4 DEF RotationDone, Finish, IndInv, TypeOK
  <2>. QED
    BY <2>1, <2>2, RotationRefines
<1>5. ASSUME NEW r \in Requests, NEW t \in Tokens,
             RotationCut(r, t) \/ CrashMidRotation(r, t)
      PROVE  Promised!Next
  <2>1. RotationStep(r, t, "first") /\ "first" \in RotationStages
    BY <1>5 DEF RotationCut, CrashMidRotation, RotationStages
  <2>2. \A x \in Requests : req'[x] = req[x] \/ req'[x] = Idle
    BY <1>5 DEF RotationCut, CrashMidRotation, Finish, IndInv, TypeOK
  <2>. QED
    BY <2>1, <2>2, RotationRefines
<1>6. ASSUME Tick \/ Crash
      PROVE  Promised!Next
  BY <1>6, QuietSettles DEF Tick, Crash, lineage, Rotating, Idle
<1>. QED
  BY <1>1, <1>2, <1>3, <1>4, <1>5, <1>6, LoginOpens, RefreshRefines,
     LogoutRefines DEF Next

\* Every behaviour of the service is one that Sessions allows.
THEOREM Refinement == Spec => ImplementsSessions
<1>1. IndInv /\ [Next]_vars => [Promised!Next]_(Promised!vars)
  <2>1. UNCHANGED vars => UNCHANGED Promised!vars
    BY DEF vars, Promised!vars, SessionStatus, SessionOwner, Live, Unrevoked,
           Stored, Pending, Rotating
  <2>. QED
    BY <2>1, RefinesNext
<1>. QED
  BY <1>1, RefinesInit, InductiveInvariant, PTL
     DEF Spec, ImplementsSessions, Promised!Spec

\* Through the refinement the service inherits what Sessions promises: for any
\* interleaving, failure or crash, an ended session stays ended and no session
\* changes hands.
THEOREM SessionsEndForGood == Spec => Promised!EndedForGood
<1>1. [Promised!Next]_(Promised!vars) =>
        [\A s \in Tokens :
            /\ SessionStatus[s] = "ended" => SessionStatus'[s] = "ended"
            /\ SessionStatus[s] # "none" =>
                 SessionStatus'[s] # "none" /\ SessionOwner'[s] = SessionOwner[s]]_
          (Promised!vars)
  <2>. SUFFICES ASSUME Promised!Next, NEW s \in Tokens
                PROVE  /\ SessionStatus[s] = "ended" => SessionStatus'[s] = "ended"
                       /\ SessionStatus[s] # "none" =>
                            /\ SessionStatus'[s] # "none"
                            /\ SessionOwner'[s] = SessionOwner[s]
    OBVIOUS
  <2>1. CASE \E x \in Tokens, u \in Users : Promised!Open(x, u)
    BY <2>1, StatusType DEF Promised!Open, SessionOwner
  <2>2. CASE \E u \in Users : Promised!Revoke(u)
    BY <2>2 DEF Promised!Revoke
  <2>3. CASE \E r \in Tokens \cup {Null} : Promised!Settle(r)
    BY <2>3 DEF Promised!Settle
  <2>. QED
    BY <2>1, <2>2, <2>3 DEF Promised!Next
<1>. QED
  BY <1>1, Refinement, PTL
     DEF ImplementsSessions, Promised!Spec, Promised!EndedForGood

\* A step of the service takes down sessions of one user only, whichever of its
\* statements fail (auth.repository.ts:291-300, the WHERE user_id = ?).
THEOREM OneUserAtATime == Spec => Promised!OneOwnerAtATime
<1>1. [Promised!Next]_(Promised!vars) =>
        [\A s, q \in Tokens :
            /\ SessionStatus[s] = "live" /\ SessionStatus'[s] # "live"
            /\ SessionStatus[q] = "live" /\ SessionStatus'[q] # "live"
            => SessionOwner[s] = SessionOwner[q]]_(Promised!vars)
  <2>. SUFFICES ASSUME Promised!Next, NEW s \in Tokens, NEW q \in Tokens,
                       SessionStatus[s] = "live", SessionStatus'[s] # "live",
                       SessionStatus[q] = "live", SessionStatus'[q] # "live"
                PROVE  SessionOwner[s] = SessionOwner[q]
    OBVIOUS
  <2>1. ~ \E x \in Tokens, u \in Users : Promised!Open(x, u)
    BY StatusType DEF Promised!Open
  <2>2. ~ \E r \in Tokens \cup {Null} : Promised!Settle(r)
    BY DEF Promised!Settle
  <2>3. PICK u \in Users : Promised!Revoke(u)
    BY <2>1, <2>2 DEF Promised!Next
  <2>. QED
    BY <2>3 DEF Promised!Revoke
<1>. QED
  BY <1>1, Refinement, PTL
     DEF ImplementsSessions, Promised!Spec, Promised!OneOwnerAtATime

-----------------------------------------------------------------------------
(* The two claims of the documentation that the runs refute, and the one   *)
(* interleaving each of them hangs on.                                     *)

\* A delivered replacement has a revoked parent, and a token in rotation has
\* no delivered replacement yet.
ExchangedOnce ==
    /\ SingleUse
    /\ \A t \in delivered : parent[t] # Null =>
          parent[t] \in Tokens /\ rows[parent[t]].revokedAt # Null
    /\ \A r \in Requests : Rotating(r) =>
          \A t \in delivered : parent[t] # req[r].token

\* A step that delivers nothing keeps it, when every rotation after the step
\* was one before or is of an unrevoked token.
LEMMA ExchangedOnceStays ==
    ASSUME IndInv, ExchangedOnce, [Next]_vars, delivered' = delivered,
           \A t \in delivered : parent'[t] = parent[t],
           \A r \in Requests : Rotating(r)' =>
              \/ Rotating(r) /\ req'[r] = req[r]
              \/ req'[r].token \in Tokens /\ rows[req'[r].token].revokedAt = Null
    PROVE  ExchangedOnce'
<1>1. SingleUse'
  BY DEF ExchangedOnce, SingleUse
<1>2. \A t \in delivered : parent[t] # Null =>
         parent[t] \in Tokens /\ rows'[parent[t]].revokedAt # Null
  BY RevokedRowStays DEF ExchangedOnce
<1>3. ASSUME NEW r \in Requests, Rotating(r)', NEW t \in delivered
      PROVE  parent[t] # req'[r].token
  <2>1. CASE Rotating(r) /\ req'[r] = req[r]
    BY <2>1 DEF ExchangedOnce
  <2>2. CASE req'[r].token \in Tokens /\ rows[req'[r].token].revokedAt = Null
    BY <2>2 DEF ExchangedOnce
  <2>. QED
    BY <1>3, <2>1, <2>2
<1>. QED
  BY <1>1, <1>2, <1>3 DEF ExchangedOnce

\* A token that was not stored has no children, nor is it one, before a step
\* stores it.
LEMMA UnstoredIsApart ==
    ASSUME IndInv, NEW t \in Tokens, ~Stored(t)
    PROVE  /\ t \notin delivered
           /\ parent[t] = Null
  BY DEF IndInv, LineageOK

\* The one step that hands out a replacement: its parent is revoked by then,
\* and was nobody else's to exchange.
LEMMA ExchangedOnceDone ==
    ASSUME IndInv, ExchangedOnce, RotationsApart,
           NEW r \in Requests, NEW t \in Tokens, RotationDone(r, t)
    PROVE  ExchangedOnce'
<1>. DEFINE p == req[r].token
<1>0. RotationStep(r, t, "both") /\ "both" \in RotationStages
  BY DEF RotationDone, RotationStages
<1>1. /\ p \in Tokens \ {t}
      /\ Stored(p)
      /\ ~Stored(t)
      /\ req[r].start \in Nat
      /\ parent' = [parent EXCEPT ![t] = p]
  BY <1>0, RotationStepEffect
<1>2. /\ parent'[t] = p
      /\ \A x \in Tokens \ {t} : parent'[x] = parent[x]
  BY <1>1 DEF IndInv, TypeOK
<1>3. delivered' = delivered \cup {t} /\ delivered \subseteq Tokens \ {t}
  BY <1>1, UnstoredIsApart DEF RotationDone, IndInv, TypeOK
<1>4. Rotating(r)
  BY <1>0 DEF RotationStep
<1>5. \A x \in delivered : parent[x] # p
  BY <1>4 DEF ExchangedOnce
<1>6. SingleUse'
  BY <1>2, <1>3, <1>5 DEF ExchangedOnce, SingleUse
<1>7. rows'[p].revokedAt # Null
  <2>. DEFINE u == req[r].user
              n == req[r].start
  <2>1. TypeOK /\ u \in Users /\ n \in Nat
    BY <1>1, <1>4 DEF IndInv, TypeOK, Rotating
  <2>2. rows' = RevokeByHash(InsertRow(t, u, n), p, n)
    BY <1>0 DEF RotationStep, RotatedTable
  <2>. HIDE DEF u, n
  <2>3. /\ InsertRow(t, u, n) \in [Tokens -> Row]
        /\ InsertRow(t, u, n)[t] =
             [user |-> u, expiresAt |-> n + RefreshTtl, revokedAt |-> Null]
        /\ \A x \in Tokens \ {t} : InsertRow(t, u, n)[x] = rows[x]
    BY <2>1, InsertRowEffect
  <2>. QED
    BY <1>1, <2>1, <2>2, <2>3, RevokeByHashEffect DEF Stored
<1>8. \A x \in delivered' : parent'[x] # Null =>
         parent'[x] \in Tokens /\ rows'[parent'[x]].revokedAt # Null
  <2>1. [Next]_vars
    BY DEF Next
  <2>. QED
    BY <1>1, <1>2, <1>3, <1>7, <2>1, RevokedRowStays DEF ExchangedOnce
<1>9. ASSUME NEW q \in Requests, Rotating(q)', NEW x \in delivered'
      PROVE  parent'[x] # req'[q].token
  <2>1. Rotating(q) /\ req'[q] = req[q] /\ q # r
    BY <1>9 DEF RotationDone, Finish, Rotating, Idle, IndInv, TypeOK
  <2>2. req[q].token # p
    BY <1>4, <2>1 DEF RotationsApart
  <2>3. CASE x = t
    BY <1>2, <2>1, <2>2, <2>3
  <2>4. CASE x # t
    BY <1>2, <1>3, <1>9, <2>1, <2>4 DEF ExchangedOnce
  <2>. QED
    BY <2>3, <2>4
<1>. QED
  BY <1>6, <1>8, <1>9 DEF ExchangedOnce

LEMMA ExchangedOnceLogin ==
    ASSUME IndInv, ExchangedOnce,
           NEW r \in Requests, NEW t \in Tokens, LoginIssue(r, t)
    PROVE  ExchangedOnce'
<1>1. /\ ~Stored(t) /\ t \notin delivered /\ parent[t] = Null
      /\ parent' = parent
      /\ delivered' = delivered \cup {t}
  BY UnstoredIsApart DEF LoginIssue, Fresh
<1>2. SingleUse'
  BY <1>1 DEF ExchangedOnce, SingleUse
<1>3. \A x \in delivered' : parent'[x] # Null =>
         parent'[x] \in Tokens /\ rows'[parent'[x]].revokedAt # Null
  <2>1. [Next]_vars
    BY DEF Next
  <2>. QED
    BY <1>1, <2>1, RevokedRowStays DEF ExchangedOnce
<1>4. ASSUME NEW q \in Requests, Rotating(q)', NEW x \in delivered'
      PROVE  parent'[x] # req'[q].token
  <2>1. Rotating(q) /\ req'[q] = req[q] /\ req[q].token # Null
    BY <1>4 DEF LoginIssue, Finish, Rotating, Idle, IndInv, TypeOK
  <2>. QED
    BY <1>1, <2>1 DEF ExchangedOnce
<1>. QED
  BY <1>2, <1>3, <1>4 DEF ExchangedOnce

LEMMA ExchangedOnceNext ==
    ASSUME IndInv, ExchangedOnce, RotationsApart, [Next]_vars
    PROVE  ExchangedOnce'
<1>1. ASSUME NEW r \in Requests,
             \/ \E u \in OrNull(Users) : LoginLookup(r, u)
             \/ LoginRefused(r) \/ LoginVerified(r) \/ LoginInsertFails(r)
             \/ RotationInsertFails(r)
      PROVE  ExchangedOnce'
  <2>1. delivered' = delivered /\ parent' = parent
    BY <1>1 DEF LoginLookup, LoginRefused, LoginVerified, LoginInsertFails,
                RotationInsertFails, lineage
  <2>2. /\ req \in [Requests -> Request]
        /\ req[r].pc = "verify" => req[r].token = Null
    BY DEF IndInv, TypeOK, FlightOK
  <2>3. ASSUME NEW q \in Requests, q # r PROVE req'[q] = req[q]
    <3>1. CASE \E u \in OrNull(Users) : LoginLookup(r, u)
      BY <2>2, <2>3, <3>1 DEF LoginLookup
    <3>2. CASE LoginVerified(r)
      BY <2>2, <2>3, <3>2 DEF LoginVerified
    <3>3. CASE Finish(r)
      BY <2>2, <2>3, <3>3 DEF Finish
    <3>. QED
      BY <1>1, <3>1, <3>2, <3>3
         DEF LoginRefused, LoginInsertFails, RotationInsertFails
  <2>4. ~Rotating(r)'
    <3>1. CASE \E u \in OrNull(Users) : LoginLookup(r, u)
      BY <2>2, <3>1 DEF LoginLookup, Rotating
    <3>2. CASE LoginVerified(r)
      <4>1. req'[r].token = req[r].token
        BY <2>2, <3>2 DEF LoginVerified, Request
      <4>. QED
        BY <2>2, <3>2, <4>1 DEF LoginVerified, Rotating
    <3>3. CASE Finish(r)
      BY <2>2, <3>3 DEF Finish, Rotating, Idle
    <3>. QED
      BY <1>1, <3>1, <3>2, <3>3
         DEF LoginRefused, LoginInsertFails, RotationInsertFails
  <2>5. \A q \in Requests : Rotating(q)' => Rotating(q) /\ req'[q] = req[q]
    BY <2>3, <2>4 DEF Rotating
  <2>. QED
    BY <2>1, <2>5, ExchangedOnceStays
<1>2. ASSUME NEW r \in Requests, NEW t \in Tokens, Refresh(r, t)
      PROVE  ExchangedOnce'
  <2>1. delivered' = delivered /\ parent' = parent
    BY <1>2 DEF Refresh, lineage
  <2>2. CASE RefreshAccept(r, t)
    <3>1. rows[t].revokedAt = Null
      BY <2>2 DEF RefreshAccept, RefreshVerdict
    <3>2. \A q \in Requests : Rotating(q)' =>
             \/ Rotating(q) /\ req'[q] = req[q]
             \/ req'[q].token = t
      BY <2>2 DEF RefreshAccept, Rotating, IndInv, TypeOK
    <3>. QED
      BY <2>1, <3>1, <3>2, ExchangedOnceStays
  <2>3. CASE UNCHANGED req
    BY <2>1, <2>3, ExchangedOnceStays DEF Rotating
  <2>. QED
    BY <1>2, <2>2, <2>3 DEF Refresh, RefreshRefused, RefreshReplay
<1>3. ASSUME NEW r \in Requests, NEW t \in Tokens,
             RotationCut(r, t) \/ CrashMidRotation(r, t)
      PROVE  ExchangedOnce'
  <2>1. RotationStep(r, t, "first") /\ "first" \in RotationStages
    BY <1>3 DEF RotationCut, CrashMidRotation, RotationStages
  <2>2. ~Stored(t) /\ parent' = [parent EXCEPT ![t] = req[r].token]
    BY <2>1, RotationStepEffect
  <2>3. \A x \in delivered : parent'[x] = parent[x]
    BY <2>2, UnstoredIsApart DEF IndInv, TypeOK
  <2>4. \A q \in Requests : Rotating(q)' => Rotating(q) /\ req'[q] = req[q]
    BY <1>3 DEF RotationCut, CrashMidRotation, Finish, Rotating, Idle, IndInv,
                TypeOK
  <2>. QED
    BY <1>3, <2>3, <2>4, ExchangedOnceStays DEF RotationCut, CrashMidRotation
<1>4. ASSUME \/ \E t \in Tokens : Logout(t)
             \/ Tick \/ Crash \/ UNCHANGED vars
      PROVE  ExchangedOnce'
  <2>1. delivered' = delivered /\ parent' = parent
    BY <1>4 DEF Logout, Tick, Crash, vars, lineage
  <2>2. \A q \in Requests : Rotating(q)' => Rotating(q) /\ req'[q] = req[q]
    BY <1>4 DEF Logout, Tick, Crash, vars, Rotating, Idle
  <2>. QED
    BY <2>1, <2>2, ExchangedOnceStays
<1>. QED
  BY <1>1, <1>2, <1>3, <1>4, ExchangedOnceDone, ExchangedOnceLogin DEF Next

\* A refresh token is single-use, whatever else interleaves, fails or crashes,
\* in every run where no two rotations of one token are at their await
\* together (auth.service.ts:211; the run refresh_single_use shows
\* that it is needed).  The hypothesis is met by clients that refresh one
\* at a time, as the web client does in one tab.
THEOREM SingleUseWhenApart == Spec /\ []RotationsApart => []SingleUse
<1>1. Init => ExchangedOnce
  BY DEF Init, ExchangedOnce, SingleUse, Rotating, Idle
<1>2. ExchangedOnce => SingleUse
  BY DEF ExchangedOnce
<1>. QED
  BY <1>1, <1>2, ExchangedOnceNext, InductiveInvariant, PTL DEF Spec

\* A session promised to be over by a replay was not overtaken.
Unovertaken == \A s \in Tokens : promise[s] = "compromise" => s \notin overtaken

LEMMA UnovertakenNext ==
    ASSUME IndInv, Unovertaken, ReplayIsQuiet, [Next]_vars
    PROVE  Unovertaken'
<1>1. CASE UNCHANGED outcome
  BY <1>1 DEF Unovertaken, outcome
<1>2. ASSUME NEW r \in Requests, NEW t \in Tokens, Refresh(r, t)
      PROVE  Unovertaken'
  <2>. DEFINE S == SessionsOf(rows[t].user)
  <2>1. CASE Stored(t) /\ rows[t].revokedAt # Null
    <3>1. /\ promise' = [s \in Tokens |->
                           IF s \in S THEN "compromise" ELSE promise[s]]
          /\ overtaken' = (overtaken \ S) \cup { s \in S : Pending(s) }
      BY <1>2, <2>1 DEF Refresh, NotePresented
    <3>2. \A s \in S : ~Pending(s)
      BY <1>2, <2>1 DEF ReplayIsQuiet, RefreshVerdict
    <3>. QED
      BY <3>1, <3>2 DEF Unovertaken
  <2>2. CASE ~(Stored(t) /\ rows[t].revokedAt # Null)
    BY <1>1, <1>2, <2>2 DEF Refresh, NotePresented
  <2>. QED
    BY <2>1, <2>2
<1>3. ASSUME NEW t \in Tokens, Logout(t)
      PROVE  Unovertaken'
  <2>. DEFINE s == session[t]
  <2>1. s \in Tokens
    BY <1>3 DEF Logout, IndInv, LineageOK
  <2>2. CASE promise[s] = "compromise"
    <3>1. /\ ~Pending(s)
          /\ \A x \in Tokens : session[x] = s => ~Unrevoked(x)
      BY <2>1, <2>2 DEF Unovertaken, IndInv, PromiseOK, Unrevoked
    <3>2. overtaken' = overtaken \ {s}
      BY <1>3, <3>1 DEF Logout
    <3>3. \A x \in Tokens : promise'[x] = "compromise" => promise[x] = "compromise"
      BY <1>3, <2>1 DEF Logout, IndInv, TypeOK
    <3>. QED
      BY <3>2, <3>3 DEF Unovertaken
  <2>3. CASE promise[s] # "compromise"
    <3>1. \A x \in Tokens : promise'[x] = "compromise" =>
             promise[x] = "compromise" /\ x # s
      BY <1>3, <2>1, <2>3 DEF Logout, IndInv, TypeOK
    <3>2. overtaken' \subseteq overtaken \cup {s}
      BY <1>3 DEF Logout
    <3>. QED
      BY <3>1, <3>2 DEF Unovertaken
  <2>. QED
    BY <2>2, <2>3
<1>. QED
  BY <1>1, <1>2, <1>3
     DEF Next, LoginLookup, LoginRefused, LoginVerified, LoginIssue,
         LoginInsertFails, RotationDone, RotationStep, RotationInsertFails,
         RotationCut, CrashMidRotation, Tick, Crash, vars, outcome

\* A detected replay ends every session of its user and they stay ended, in
\* every run where no rotation of that user is at its await when the replay is
\* detected (auth.service.ts:219-221; the run RefreshReplayEnds has the
\* counterexample without it).  Logins afterwards open sessions that nothing
\* was promised about.
THEOREM ReplayEndsWhenQuiet ==
    Spec /\ [][ReplayIsQuiet]_vars => []ReplayEndsEverySession
<1>1. Init => Unovertaken
  BY DEF Init, Unovertaken
<1>2. IndInv /\ Unovertaken /\ [Next]_vars /\ [ReplayIsQuiet]_vars => Unovertaken'
  <2>1. UNCHANGED vars /\ Unovertaken => Unovertaken'
    BY DEF vars, Unovertaken
  <2>. QED
    BY <2>1, UnovertakenNext
<1>3. IndInv /\ Unovertaken => ReplayEndsEverySession
  BY DEF IndInv, LineageOK, PromiseOK, Unovertaken, ReplayEndsEverySession,
         Unrevoked
<1>. QED
  BY <1>1, <1>2, <1>3, InductiveInvariant, PTL DEF Spec
=============================================================================

------------------------- MODULE Authenticate_proofs -------------------------
(***************************************************************************)
(* Proofs about Authenticate, for any addresses, spellings, ids and any    *)
(* number of requests and seed commands.  The argument:                    *)
(*   AuthInv says, of every point of the hook, what a request has passed   *)
(*   to be there, and of the table that provisioned rows are normalised;   *)
(*   rows are only ever added, so what a request saw in it stays so;       *)
(*   each property follows from AuthInv, or from AuthInv and one step.     *)
(***************************************************************************)
EXTENDS Authenticate, TLAPS

USE NormalAssumption

\* A request that has a principal.
Within(q) == q.pc \in {"in", "answered", "noProfile"}

\* What holds of a request at each point of the hook.
Sound(q) ==
    /\ q.edge # Null => q.assertion # Null /\ q.edge = Normal[q.assertion]
    /\ q.draw = Null => ~q.created
    /\ q.pc = "idle" => q = Idle
    /\ q.pc \in {"bearer", "hashing", "insert", "reread"} \/ Within(q)
         => (q.assertion # Null => q.edge # Null)
    /\ q.pc \in {"assertion", "bearer", "hashing", "insert"} => q.draw = Null
    /\ q.pc = "assertion" => q.assertion # Null
    /\ q.pc = "bearer" => q.bearer # Null
    /\ q.pc \in {"hashing", "insert", "reread"} =>
         q.edge # Null /\ q.bearer = Null /\ ~q.crossSite
    /\ q.pc = "reread" =>
         /\ users[q.edge] # NoUser
         /\ q.draw # Null
         /\ q.created <=> users[q.edge].id = q.draw
    /\ Within(q) =>
         /\ q.created <=> q.draw # Null /\ q.user = q.draw
         /\ IF q.bearer # Null
            THEN q.user = q.bearer /\ q.mode = "password"
            ELSE /\ q.edge # Null
                 /\ q.mode = "access"
                 /\ users[q.edge].id = q.user
         /\ q.pc = "noProfile" => q.mode = "password"

AuthInv ==
    /\ TypeOK
    /\ \A r \in Requests : Sound(req[r])
    /\ \A e \in Emails : users[e].password = "unusable" => Normal[e] = e

-----------------------------------------------------------------------------
(* Three ways a step may go.                                               *)

LEMMA InitInv == Init => AuthInv
  BY DEF Init, AuthInv, TypeOK, Sound, Within, Idle, NoUser, NoSeed, Request,
         Seed, OrNull

\* A principal exactly from the moment the request is let in.
HasPrincipal(q) == Within(q) <=> q.user # Null

\* One request moves on, the table stays.
LEMMA RequestMoves ==
    ASSUME AuthInv, NEW r \in Requests, NEW q \in Request,
           Sound(q), HasPrincipal(q),
           req' = [req EXCEPT ![r] = q], UNCHANGED <<users, seed>>
    PROVE  AuthInv'
<1>1. TypeOK'
  BY DEF AuthInv, TypeOK, HasPrincipal, Within
<1>2. \A x \in Requests : Sound(req[x])'
  BY DEF AuthInv, TypeOK, Sound, Within
<1>. QED
  BY <1>1, <1>2 DEF AuthInv

\* A row stays what it is; one is added, and a provisioned one only under a
\* normalised address.
TableGrows ==
    /\ users' \in [Emails -> User \cup {NoUser}]
    /\ \A e \in Emails : users[e] # NoUser => users'[e] = users[e]

\* What a request relies on survives the table's growth.
LEMMA SoundStays ==
    ASSUME AuthInv, TableGrows, NEW r \in Requests,
           \/ req[r].pc = "reread"
           \/ Within(req[r]) /\ req[r].bearer = Null
    PROVE  users'[req[r].edge] = users[req[r].edge]
<1>1. req[r] \in Request /\ Sound(req[r]) /\ HasPrincipal(req[r])
  BY DEF AuthInv, TypeOK, HasPrincipal, Within
<1>2. req[r].edge \in Emails
  BY <1>1 DEF Sound, Within, Request, OrNull
<1>3. users[req[r].edge] # NoUser
  BY <1>1 DEF Sound, HasPrincipal, NoUser
<1>. QED
  BY <1>2, <1>3 DEF TableGrows

\* InsertUser adds a row where there was none and touches no other.
LEMMA InsertGrows ==
    ASSUME AuthInv, NEW e \in Emails, NEW i \in Ids,
           NEW p \in {"seed", "unusable"}, InsertUser(e, i, p)
    PROVE  /\ TableGrows
           /\ \A f \in Emails : f # e => users'[f] = users[f]
           /\ users'[e] = IF users[e] = NoUser THEN [id |-> i, password |-> p]
                          ELSE users[e]
           /\ users'[e] # NoUser
<1>1. users \in [Emails -> User \cup {NoUser}]
  BY DEF AuthInv, TypeOK
<1>2. [id |-> i, password |-> p] \in User
  BY DEF User
<1>3. users' = [users EXCEPT ![e] =
                  IF users[e] = NoUser THEN [id |-> i, password |-> p]
                  ELSE users[e]]
  BY DEF InsertUser
<1>4. [id |-> i, password |-> p] # NoUser
  BY DEF NoUser
<1>. QED
  BY <1>1, <1>2, <1>3, <1>4 DEF TableGrows

-----------------------------------------------------------------------------
(* One lemma per action.                                                   *)

LEMMA ArriveInv ==
    ASSUME AuthInv, NEW r \in Requests, NEW a \in OrNull(Emails),
           NEW b \in OrNull(Ids), NEW c \in BOOLEAN, Arrive(r, a, b, c)
    PROVE  AuthInv'
<1>. DEFINE q == [Idle EXCEPT !.assertion = a, !.bearer = b, !.crossSite = c]
            pc == IF a # Null THEN "assertion" ELSE Proceed(q)
            arrived == [q EXCEPT !.pc = pc]
<1>1. req' = [req EXCEPT ![r] = arrived] /\ UNCHANGED <<users, seed>>
  BY DEF Arrive, Enter
<1>2. arrived \in Request
  BY DEF Request, Idle, Proceed, OrNull
<1>3. Sound(arrived) /\ HasPrincipal(arrived)
  BY DEF Sound, HasPrincipal, Within, Idle, Proceed
<1>. QED
  BY <1>1, <1>2, <1>3, RequestMoves

LEMMA AssertionVerifiedInv ==
    ASSUME AuthInv, NEW r \in Requests, AssertionVerified(r)
    PROVE  AuthInv'
<1>. DEFINE q == [req[r] EXCEPT !.edge = Normal[req[r].assertion]]
            verified == [q EXCEPT !.pc = Proceed(q)]
<1>0. /\ req[r] \in Request /\ Sound(req[r]) /\ HasPrincipal(req[r])
      /\ req[r].pc = "assertion"
  BY DEF AuthInv, TypeOK, HasPrincipal, Within, AssertionVerified
<1>1. req' = [req EXCEPT ![r] = verified] /\ UNCHANGED <<users, seed>>
  BY DEF AssertionVerified, Enter
<1>2. Normal[req[r].assertion] \in Emails
  BY <1>0 DEF Request, OrNull, Sound
<1>3. verified \in Request
  BY <1>0, <1>2 DEF Request, OrNull, Proceed
<1>4. Sound(verified) /\ HasPrincipal(verified)
  BY <1>0, <1>2 DEF Sound, HasPrincipal, Within, Proceed, Request
<1>. QED
  BY <1>1, <1>3, <1>4, RequestMoves

\* A request that is turned away keeps what it has.
LEMMA RefusedInv ==
    ASSUME AuthInv, NEW r \in Requests, AssertionRejected(r) \/ BearerRejected(r)
    PROVE  AuthInv'
<1>. DEFINE q == [req[r] EXCEPT !.pc = "refused"]
<1>0. /\ req[r] \in Request /\ Sound(req[r]) /\ HasPrincipal(req[r])
      /\ req[r].pc \in {"assertion", "bearer"}
  BY DEF AuthInv, TypeOK, HasPrincipal, Within, AssertionRejected, BearerRejected
<1>1. req' = [req EXCEPT ![r] = q] /\ UNCHANGED <<users, seed>>
  BY DEF AssertionRejected, BearerRejected
<1>2. q \in Request /\ Sound(q) /\ HasPrincipal(q)
  BY <1>0 DEF Request, Sound, HasPrincipal, Within
<1>. QED
  BY <1>1, <1>2, RequestMoves

LEMMA BearerVerifiedInv ==
    ASSUME AuthInv, NEW r \in Requests, BearerVerified(r)
    PROVE  AuthInv'
<1>. DEFINE q == [req[r] EXCEPT !.pc = "in", !.user = req[r].bearer,
                                !.mode = "password"]
<1>0. /\ req[r] \in Request /\ Sound(req[r])
      /\ req[r].pc = "bearer"
  BY DEF AuthInv, TypeOK, BearerVerified
<1>1. req' = [req EXCEPT ![r] = q] /\ UNCHANGED <<users, seed>>
  BY DEF BearerVerified
<1>2. q \in Request
  BY <1>0 DEF Request
<1>3. Sound(q) /\ HasPrincipal(q)
  BY <1>0 DEF Request, Sound, HasPrincipal, Within
<1>. QED
  BY <1>1, <1>2, <1>3, RequestMoves

\* A request that is admitted with a row of the table.
LEMMA AdmitInv ==
    ASSUME AuthInv, NEW r \in Requests, NEW created \in BOOLEAN,
           req[r].pc \in {"hashing", "reread"},
           users[req[r].edge] # NoUser,
           created <=> req[r].draw # Null /\ users[req[r].edge].id = req[r].draw,
           Admit(r, users[req[r].edge].id, created),
           UNCHANGED <<users, seed>>
    PROVE  AuthInv'
<1>. DEFINE id == users[req[r].edge].id
            q == [req[r] EXCEPT !.pc = "in", !.user = id, !.created = created,
                                !.mode = "access"]
<1>0. req[r] \in Request /\ Sound(req[r])
  BY DEF AuthInv, TypeOK
<1>1. req' = [req EXCEPT ![r] = q]
  BY DEF Admit
<1>2. req[r].edge \in Emails
  BY <1>0 DEF Sound, Request, OrNull
<1>3. id \in Ids
  BY <1>2 DEF AuthInv, TypeOK, User
<1>4. q \in Request
  BY <1>0, <1>3 DEF Request, OrNull
<1>5. Sound(q) /\ HasPrincipal(q)
  BY <1>0, <1>3 DEF Request, Sound, HasPrincipal, Within
<1>. QED
  BY <1>1, <1>4, <1>5, RequestMoves

LEMMA LookupInv ==
    ASSUME AuthInv, NEW r \in Requests, Lookup(r)
    PROVE  AuthInv'
<1>0. req[r] \in Request /\ Sound(req[r]) /\ HasPrincipal(req[r])
  BY DEF AuthInv, TypeOK, HasPrincipal, Within
<1>1. CASE users[req[r].edge] # NoUser
  <2>1. req[r].draw = Null
    BY <1>0 DEF Lookup, Sound
  <2>. QED
    BY <1>1, <2>1, AdmitInv DEF Lookup
<1>2. CASE users[req[r].edge] = NoUser
  <2>. DEFINE q == [req[r] EXCEPT !.pc = "insert"]
  <2>1. req' = [req EXCEPT ![r] = q] /\ UNCHANGED <<users, seed>>
    BY <1>2 DEF Lookup
  <2>2. q \in Request /\ Sound(q) /\ HasPrincipal(q)
    BY <1>0 DEF Lookup, Request, Sound, HasPrincipal, Within
  <2>. QED
    BY <2>1, <2>2, RequestMoves
<1>. QED
  BY <1>1, <1>2

LEMMA RereadInv ==
    ASSUME AuthInv, NEW r \in Requests, Reread(r)
    PROVE  AuthInv'
<1>1. /\ users[req[r].edge] # NoUser
      /\ req[r].created <=> /\ req[r].draw # Null
                            /\ users[req[r].edge].id = req[r].draw
      /\ req[r].created \in BOOLEAN
  BY DEF AuthInv, TypeOK, Request, Sound, Reread
<1>. QED
  BY <1>1, AdmitInv DEF Reread

LEMMA InsertInv ==
    ASSUME AuthInv, NEW r \in Requests, NEW i \in Ids, Insert(r, i)
    PROVE  AuthInv'
<1>. DEFINE e == req[r].edge
<1>0. /\ req[r] \in Request /\ Sound(req[r]) /\ HasPrincipal(req[r])
      /\ req[r].pc = "insert"
  BY DEF AuthInv, TypeOK, HasPrincipal, Within, Insert
<1>1. e \in Emails /\ Normal[e] = e
  BY <1>0 DEF Sound, Request, OrNull
<1>2. /\ TableGrows
      /\ \A f \in Emails : f # e => users'[f] = users[f]
      /\ users'[e] = IF users[e] = NoUser THEN [id |-> i, password |-> "unusable"]
                     ELSE users[e]
      /\ users'[e] # NoUser
  BY <1>1, InsertGrows DEF Insert
<1>3. users' # users <=> users'[e].id = i
  <2>1. users[e].id # i
    BY <1>1 DEF Insert, Fresh, Known
  <2>2. users[e] = NoUser => users'[e].id = i
    BY <1>2
  <2>. QED
    BY <1>2, <2>1, <2>2 DEF AuthInv, TypeOK, TableGrows
<1>. PICK created \in BOOLEAN : created <=> users' # users
  OBVIOUS
<1>. DEFINE q == [req[r] EXCEPT !.pc = "reread", !.draw = i, !.created = created]
<1>4. req' = [req EXCEPT ![r] = q] /\ seed' = seed
  BY DEF Insert
<1>5. q \in Request /\ HasPrincipal(q)
  BY <1>0 DEF Request, OrNull, HasPrincipal, Within
<1>6. req'[r] = q
  BY <1>4 DEF AuthInv, TypeOK
<1>7. Sound(req[r])'
  BY <1>0, <1>1, <1>2, <1>3, <1>6 DEF Sound, Within, Request
<1>8. ASSUME NEW x \in Requests, x # r PROVE Sound(req[x])'
  <2>1. req'[x] = req[x] /\ Sound(req[x])
    BY <1>4, <1>8 DEF AuthInv, TypeOK
  <2>2. \/ req[x].pc = "reread"
        \/ Within(req[x]) /\ req[x].bearer = Null
        => users'[req[x].edge] = users[req[x].edge]
    BY <1>2, SoundStays
  <2>. QED
    BY <2>1, <2>2 DEF Sound, Within
<1>9. TypeOK'
  BY <1>2, <1>4, <1>5 DEF AuthInv, TypeOK, HasPrincipal, Within, TableGrows
<1>. QED
  BY <1>1, <1>2, <1>7, <1>8, <1>9 DEF AuthInv

\* A request that is over forgets what it had.
LEMMA EndInv ==
    ASSUME AuthInv, NEW r \in Requests, StatementFails(r) \/ Respond(r)
    PROVE  AuthInv'
<1>1. PICK q \in {Idle, [Idle EXCEPT !.pc = "failed"]} :
        req' = [req EXCEPT ![r] = q] /\ UNCHANGED <<users, seed>>
  BY DEF StatementFails, Respond
<1>2. Idle \in Request /\ HasPrincipal(Idle)
  BY DEF Idle, Request, OrNull, HasPrincipal, Within
<1>3. Sound(Idle)
  BY DEF Idle, Sound, Within
<1>. DEFINE failed == [Idle EXCEPT !.pc = "failed"]
<1>4. failed \in Request /\ HasPrincipal(failed) /\ Sound(failed)
  BY DEF Idle, Request, OrNull, HasPrincipal, Sound, Within
<1>. QED
  BY <1>1, <1>2, <1>3, <1>4, RequestMoves

\* /me finds the account of an edge request.
LEMMA MeInv ==
    ASSUME AuthInv, NEW r \in Requests, Me(r)
    PROVE  AuthInv'
<1>. DEFINE pc == IF Known(req[r].user) THEN "answered" ELSE "noProfile"
            q == [req[r] EXCEPT !.pc = pc]
<1>0. /\ req[r] \in Request /\ Sound(req[r]) /\ HasPrincipal(req[r])
      /\ req[r].pc = "in"
  BY DEF AuthInv, TypeOK, HasPrincipal, Within, Me
<1>1. req' = [req EXCEPT ![r] = q] /\ UNCHANGED <<users, seed>>
  BY DEF Me
<1>2. req[r].mode # "password" => Known(req[r].user)
  BY <1>0 DEF Sound, Within, Request, OrNull, Known
<1>3. q \in Request /\ Sound(q) /\ HasPrincipal(q)
  BY <1>0, <1>2 DEF Request, Sound, HasPrincipal, Within
<1>. QED
  BY <1>1, <1>3, RequestMoves

LEMMA CrashInv == ASSUME AuthInv, Crash PROVE AuthInv'
<1>1. TypeOK'
  BY DEF AuthInv, TypeOK, Crash, Idle, Request, OrNull
<1>2. \A x \in Requests : Sound(req[x])'
  BY DEF Crash, Sound, Within, Idle
<1>. QED
  BY <1>1, <1>2 DEF AuthInv, Crash

LEMMA SeedInv ==
    ASSUME AuthInv, NEW s \in Seeds,
           \/ \E e \in Emails : SeedLookup(s, e)
           \/ \E i \in Ids : SeedInsert(s, i)
           \/ SeedExit(s)
    PROVE  AuthInv'
<1>1. CASE \/ \E e \in Emails : SeedLookup(s, e)
           \/ SeedExit(s)
  <2>1. UNCHANGED <<users, req>>
    BY <1>1 DEF SeedLookup, SeedExit
  <2>2. ASSUME NEW e \in Emails, SeedLookup(s, e)
        PROVE  seed' \in [Seeds -> Seed]
    BY <2>2 DEF AuthInv, TypeOK, SeedLookup, Seed, OrNull
  <2>3. SeedExit(s) => seed' \in [Seeds -> Seed]
    BY DEF AuthInv, TypeOK, SeedExit, NoSeed, Seed, OrNull
  <2>. QED
    BY <1>1, <2>1, <2>2, <2>3 DEF AuthInv, TypeOK, Sound, Within
<1>2. ASSUME NEW i \in Ids, SeedInsert(s, i)
      PROVE  AuthInv'
  <2>. DEFINE e == seed[s].email
  <2>1. CASE e \in Emails
    <3>1. /\ TableGrows
          /\ \A f \in Emails : f # e => users'[f] = users[f]
          /\ users'[e] = IF users[e] = NoUser THEN [id |-> i, password |-> "seed"]
                         ELSE users[e]
      BY <1>2, <2>1, InsertGrows DEF SeedInsert
    <3>2. seed' \in [Seeds -> Seed] /\ req' = req
      BY <1>2 DEF SeedInsert, AuthInv, TypeOK, Seed
    <3>3. TypeOK'
      BY <3>1, <3>2 DEF AuthInv, TypeOK, TableGrows
    <3>4. \A x \in Requests : Sound(req[x])'
      BY <3>1, <3>2, SoundStays DEF AuthInv, Sound, Within
    <3>. QED
      BY <3>1, <3>3, <3>4 DEF AuthInv
  <2>2. CASE e \notin Emails
    <3>1. users' = users
      BY <1>2, <2>2 DEF SeedInsert, InsertUser, AuthInv, TypeOK
    <3>2. seed' \in [Seeds -> Seed] /\ req' = req
      BY <1>2 DEF SeedInsert, AuthInv, TypeOK, Seed
    <3>. QED
      BY <3>1, <3>2 DEF AuthInv, TypeOK, Sound, Within
  <2>. QED
    BY <2>1, <2>2
<1>. QED
  BY <1>1, <1>2

-----------------------------------------------------------------------------
(* The theorems.                                                           *)

LEMMA NextInv == ASSUME AuthInv, [Next]_vars PROVE AuthInv'
<1>1. ASSUME NEW r \in Requests, RequestStep(r) PROVE AuthInv'
  BY <1>1, ArriveInv, AssertionVerifiedInv, RefusedInv, BearerVerifiedInv,
     LookupInv, InsertInv, RereadInv, EndInv, MeInv DEF RequestStep
<1>2. CASE UNCHANGED vars
  BY <1>2 DEF vars, AuthInv, TypeOK, Sound, Within
<1>3. Runnable \subseteq Requests
  BY DEF Runnable
<1>. QED
  BY <1>1, <1>2, <1>3, CrashInv, SeedInv DEF Next

\* Every point of the hook is reached only by requests that passed what stands
\* before it, whatever seed commands do meanwhile.
THEOREM AuthInvariant == Spec => []AuthInv
  BY InitInv, NextInv, PTL DEF Spec

\* Every variable keeps its type, and only who was let in has a principal.
THEOREM AuthTypeCorrect == Spec => []TypeOK
<1>1. AuthInv => TypeOK
  BY DEF AuthInv
<1>. QED
  BY <1>1, AuthInvariant, PTL

\* A request acts for whom its credentials name (authenticate.ts:142-155).
THEOREM PrincipalCorrect == Spec => []PrincipalIsCaller
<1>1. AuthInv => PrincipalIsCaller
  BY DEF AuthInv, TypeOK, PrincipalIsCaller, Admitted, Sound, Within
<1>. QED
  BY <1>1, AuthInvariant, PTL

\* An edge request that is let in has a profile (auth.repository.ts:190-192).
THEOREM EdgeCallersHaveProfiles == Spec => []EdgeCallerHasProfile
<1>1. AuthInv => EdgeCallerHasProfile
  BY DEF AuthInv, EdgeCallerHasProfile, Sound, Within
<1>. QED
  BY <1>1, AuthInvariant, PTL

\* A creation is reported exactly when the stored row is the one inserted
\* (auth.repository.ts:151-152).
THEOREM CreationsReported == Spec => []CreatedIsTrue
<1>1. AuthInv => CreatedIsTrue
  BY DEF AuthInv, TypeOK, CreatedIsTrue, Admitted, Sound, Within
<1>. QED
  BY <1>1, AuthInvariant, PTL

\* One provisioned account per person, however the address is spelled
\* (cloudflare-access.ts:188-190).
THEOREM OneAccount == Spec => []OneAccountPerPerson
<1>1. AuthInv => OneAccountPerPerson
  BY DEF AuthInv, OneAccountPerPerson
<1>. QED
  BY <1>1, AuthInvariant, PTL

\* What a step may do to the table.
LEMMA StepGrows ==
    ASSUME AuthInv, [Next]_vars
    PROVE  \/ UNCHANGED users
           \/ \E r \in Requests, i \in Ids : Insert(r, i)
           \/ \E s \in Seeds, i \in Ids : SeedInsert(s, i)
<1>1. Runnable \subseteq Requests
  BY DEF Runnable
<1>. QED
  BY <1>1 DEF Next, RequestStep, vars, Arrive, AssertionVerified,
     AssertionRejected, BearerVerified, BearerRejected, Lookup, Reread,
     StatementFails, Me, Respond, Crash, SeedLookup, SeedExit

\* An account is never replaced (seed.ts:137-139).
THEOREM AccountsStable == Spec => AccountsAreStable
<1>1. ASSUME AuthInv, [Next]_vars
      PROVE  \A e \in Emails : users[e] # NoUser => users'[e] = users[e]
  <2>1. users \in [Emails -> User \cup {NoUser}]
    BY <1>1 DEF AuthInv, TypeOK
  <2>2. ASSUME NEW e, NEW i \in Ids, NEW p, InsertUser(e, i, p), NEW f \in Emails,
               users[f] # NoUser
        PROVE  users'[f] = users[f]
    BY <2>1, <2>2 DEF InsertUser
  <2>. QED
    BY <1>1, <2>2, StepGrows DEF Insert, SeedInsert
<1>. QED
  BY <1>1, AuthInvariant, PTL DEF Spec, AccountsAreStable

\* Only a request admitted on its edge identity has an account created for it
\* (authenticate.ts:193-197).
THEOREM ProvisioningEntitled == Spec => ProvisioningIsEntitled
<1>1. ASSUME AuthInv, [Next]_vars
      PROVE  \A e \in Emails :
               users[e] = NoUser /\ users'[e].password = "unusable" =>
                 \E r \in Requests : /\ req[r].pc = "insert"
                                     /\ req[r].edge = e
                                     /\ req[r].bearer = Null
                                     /\ ~req[r].crossSite
  <2>. SUFFICES ASSUME NEW e \in Emails,
                       users[e] = NoUser, users'[e].password = "unusable"
                PROVE  \E r \in Requests : /\ req[r].pc = "insert"
                                           /\ req[r].edge = e
                                           /\ req[r].bearer = Null
                                           /\ ~req[r].crossSite
    OBVIOUS
  <2>1. users \in [Emails -> User \cup {NoUser}]
    BY <1>1 DEF AuthInv, TypeOK
  <2>2. users' # users
    BY DEF NoUser
  <2>3. ASSUME NEW s \in Seeds, NEW i \in Ids, SeedInsert(s, i) PROVE FALSE
    BY <2>1, <2>3 DEF SeedInsert, InsertUser, NoUser
  <2>4. ASSUME NEW r \in Requests, NEW i \in Ids, Insert(r, i)
        PROVE  /\ req[r].pc = "insert" /\ req[r].edge = e
               /\ req[r].bearer = Null /\ ~req[r].crossSite
    <3>1. req[r].pc = "insert" /\ req[r].edge = e
      BY <2>1, <2>4 DEF Insert, InsertUser, NoUser
    <3>. QED
      BY <1>1, <3>1 DEF AuthInv, Sound
  <2>. QED
    BY <1>1, <2>2, <2>3, <2>4, StepGrows
<1>. QED
  BY <1>1, AuthInvariant, PTL DEF Spec, ProvisioningIsEntitled
=============================================================================

------------------------------ MODULE Sessions ------------------------------
(***************************************************************************)
(* What the authentication service promises about sessions, with no        *)
(* tokens, rows, clock or requests in sight.  A session is opened by a     *)
(* password login.  It is                                                  *)
(*   "live"     while some refresh token of it has not been revoked,       *)
(*   "closing"  when every token of it is revoked but a refresh that was   *)
(*              accepted earlier has still to store its replacement, and   *)
(*   "ended"    when neither is the case.                                  *)
(* "ended" is final.  The step from "closing" back to "live" is the price  *)
(* of the await between the check and the write in auth.service.ts.        *)
(***************************************************************************)
CONSTANTS SessionIds, Owners, Nobody

VARIABLES status, owner

vars == <<status, owner>>

Status == {"none", "live", "closing", "ended"}

TypeOK ==
    /\ status \in [SessionIds -> Status]
    /\ owner \in [SessionIds -> Owners \cup {Nobody}]

Init ==
    /\ status = [s \in SessionIds |-> "none"]
    /\ owner = [s \in SessionIds |-> Nobody]

\* A login opens a session; no identifier is ever used twice.
Open(s, u) ==
    /\ status[s] = "none"
    /\ status' = [status EXCEPT ![s] = "live"]
    /\ owner' = [owner EXCEPT ![s] = u]

\* A revocation takes live sessions of one owner down, and nobody else's:
\* those with a refresh in flight are closing, the others over at once.
Revoke(u) ==
    /\ status' \in [SessionIds -> Status]
    /\ \A s \in SessionIds :
          \/ status'[s] = status[s]
          \/ /\ owner[s] = u
             /\ status[s] = "live"
             /\ status'[s] \in {"closing", "ended"}
    /\ UNCHANGED owner

\* Refreshes in flight come to an end: at most one of them, of session r,
\* stores its replacement (none when r is Nobody), the others are lost.
Settle(r) ==
    /\ status' \in [SessionIds -> Status]
    /\ \A s \in SessionIds :
          \/ status'[s] = status[s]
          \/ /\ status[s] = "closing"
             /\ status'[s] = IF s = r THEN "live" ELSE "ended"
    /\ UNCHANGED owner

Next ==
    \/ \E s \in SessionIds, u \in Owners : Open(s, u)
    \/ \E u \in Owners : Revoke(u)
    \/ \E r \in SessionIds \cup {Nobody} : Settle(r)

Spec == Init /\ [][Next]_vars

-----------------------------------------------------------------------------
(* What a reader may conclude, and whatever implements Sessions inherits.  *)

\* A session that ended is never live or closing again, and a session never
\* passes from one owner to another.
EndedForGood ==
    [][\A s \in SessionIds :
          /\ status[s] = "ended" => status'[s] = "ended"
          /\ status[s] # "none" => status'[s] # "none" /\ owner'[s] = owner[s]]_vars

\* One step takes down live sessions of one owner only: whatever compromise or
\* logout is handled, no other user is signed out by it.
OneOwnerAtATime ==
    [][\A s, q \in SessionIds :
          /\ status[s] = "live" /\ status'[s] # "live"
          /\ status[q] = "live" /\ status'[q] # "live"
          => owner[s] = owner[q]]_vars
=============================================================================

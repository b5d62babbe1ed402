---------------------------- MODULE MCWebClient -----------------------------
(***************************************************************************)
(* Instances of WebClient for TLC.  One has a liveness property, for which *)
(* symmetry is not sound: it runs under OrderedSpec, in which the server   *)
(* issues its tokens, which are numbers there, in their order.  Every      *)
(* behaviour is one of these with its tokens renamed.                      *)
(***************************************************************************)
EXTENDS WebClient, TLC

InOrder == \A t, u \in Tokens :
    server[u] = "unused" /\ u < t => server'[t] = "unused"
OrderedSpec == Init /\ [][Next /\ InOrder]_vars /\ Fairness
=============================================================================

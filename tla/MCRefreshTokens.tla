--------------------------- MODULE MCRefreshTokens --------------------------
(***************************************************************************)
(* Instances of RefreshTokens for TLC.  Tokens, requests and users are     *)
(* interchangeable, so the runs, which check no liveness, use symmetry.    *)
(***************************************************************************)
EXTENDS RefreshTokens, TLC

Symmetry == Permutations(Tokens) \cup Permutations(Requests)
              \cup Permutations(Users)
=============================================================================

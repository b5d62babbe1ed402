--------------------------- MODULE MCAuthenticate ---------------------------
(***************************************************************************)
(* Instances of Authenticate for TLC: one person whose address has two     *)
(* spellings.                                                              *)
(***************************************************************************)
EXTENDS Authenticate, TLC

CONSTANTS lower, upper

MCNormal == [e \in Emails |-> lower]

Symmetry == Permutations(Ids) \cup Permutations(Requests)
=============================================================================

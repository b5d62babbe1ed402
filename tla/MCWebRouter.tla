---------------------------- MODULE MCWebRouter -----------------------------
(***************************************************************************)
(* Instances of WebRouter for TLC.  The runs check liveness, so no         *)
(* symmetry.                                                               *)
(***************************************************************************)
EXTENDS WebRouter
=============================================================================

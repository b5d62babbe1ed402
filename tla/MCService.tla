----------------------------- MODULE MCService ------------------------------
(***************************************************************************)
(* Instances of Service for TLC: environments in which the secret, the     *)
(* switch and values of Access and the port take the forms that matter.    *)
(***************************************************************************)
EXTENDS Service, TLC

Symmetry == Permutations(Files)

\* A .env that boots with passwords only, and changes to it.
Plain == [v \in Variables |-> IF v \in {"JWT_SECRET", "DB_PATH"} THEN "fit"
                              ELSE "unset"]
With(changes) ==
    [v \in Variables |-> IF v \in DOMAIN changes THEN changes[v] ELSE Plain[v]]

Access(switch, aud, secret) ==
    With([CF_ACCESS_ENABLED |-> switch, CF_ACCESS_AUD |-> aud,
          CF_ACCESS_TEAM_DOMAIN |-> "fit", JWT_SECRET |-> secret])

SomeEnvironments ==
    {Plain, With([PORT |-> "fit"]), Access("fit", "fit", "fit"),
     Access("fit", "blank", "fit"), Access("fit", "blank", "unset"),
     Access("off", "odd", "fit"), Access("alien", "odd", "odd")}
FewEnvironments == {Plain}
=============================================================================

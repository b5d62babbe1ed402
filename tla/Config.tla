------------------------------- MODULE Config -------------------------------
(***************************************************************************)
(* The environment variables of the API and what loadConfig makes of them  *)
(* (apps/api/src/config.ts).  Only the form of a value matters:            *)
(*   unset, blank   not there; the program takes a blank for an unset one  *)
(*   alien          of no type or member the schema knows                  *)
(*   odd            of the right type, refused by a check on its content   *)
(*                  or, for free text, taken although nothing can use it   *)
(*   fit            what the program expects ("true" for the switch)       *)
(*   off            the switch set to "false"                              *)
(***************************************************************************)
EXTENDS Naturals

Enumerated == {"NODE_ENV", "LOG_LEVEL", "CF_ACCESS_ENABLED"}
FreeText == {"DB_PATH", "ACCESS_TOKEN_TTL", "REFRESH_TOKEN_TTL"}
Patterned == {"JWT_SECRET", "CF_ACCESS_TEAM_DOMAIN", "CF_ACCESS_AUD"}
Variables == Enumerated \cup FreeText \cup Patterned \cup {"PORT"}

\* The variables without a default, and those the switch makes mandatory.
Required == {"JWT_SECRET"}
AccessRequired == {"CF_ACCESS_TEAM_DOMAIN", "CF_ACCESS_AUD"}

Forms == {"unset", "blank", "alien", "odd", "fit", "off"}
FormsOf(v) ==
    {"unset", "blank", "fit"}
      \cup (IF v \in Enumerated \cup {"PORT"} THEN {"alien"} ELSE {})
      \cup (IF v \in Enumerated THEN {} ELSE {"odd"})
      \cup (IF v = "CF_ACCESS_ENABLED" THEN {"off"} ELSE {})

Present(env) == {v \in Variables : env[v] \notin {"unset", "blank"}}
AccessAsked(env) == env["CF_ACCESS_ENABLED"] = "fit"

\* What the schema finds wrong with single variables.
Misfits(env) ==
    {v \in Present(env) : \/ env[v] = "alien"
                          \/ env[v] = "odd" /\ v \notin FreeText}
      \cup (Required \ Present(env))

\* A missing value or one of the wrong type stops Zod before superRefine; a
\* failed length or pattern does not.
Aborts(env) == \/ Required \ Present(env) # {}
               \/ \E v \in Variables : env[v] = "alien"

\* Mutant: the cross-field rule forgotten
Unmet_None(env) == {}

\* The rule across fields: Access needs both of its values.
Unmet(env) ==
    IF AccessAsked(env) /\ ~Aborts(env) THEN AccessRequired \ Present(env)
    ELSE {}

\* Mutant: only the first fault is reported
Offending_First(env) ==
    IF Misfits(env) # {} THEN {CHOOSE v \in Misfits(env) : TRUE}
    ELSE Unmet(env)

\* The variables a ConfigValidationError names; none when the boot goes on.
Offending(env) == Misfits(env) \cup Unmet(env)

Accepted(env) == Offending(env) = {}

\* buildCfAccessVerifier, for a configuration loadConfig returned.
HasVerifier(env) == AccessAsked(env)
HalfConfigured(env) == AccessAsked(env) /\ AccessRequired \ Present(env) # {}

=============================================================================

---------------------------- MODULE Credentials -----------------------------
(***************************************************************************)
(* Who a caller proves to be, and for how long:                            *)
(*   apps/api/src/lib/tokens.ts              access tokens, TTL arithmetic *)
(*   apps/api/src/lib/cloudflare-access.ts   the edge's tokens             *)
(*   apps/api/src/lib/password.ts, modules/auth/auth.service.ts  passwords *)
(* jose (6.2), which does the cryptography, is external: a token tells its *)
(* key and whether its date has passed, and the first check of jose that   *)
(* it fails decides what is thrown.                                        *)
(***************************************************************************)
EXTENDS Integers

Keys == {"secret", "team", "foreign"}   \* ours, the edge's, any other
Claims == {"sub", "iat", "exp", "email"}

JWT_ALGORITHM == "HS256"
CF_ACCESS_ALGORITHM == "RS256"
Algorithms == {JWT_ALGORITHM, CF_ACCESS_ALGORITHM, "none"}

\* A token: kid says which key it names, iss and aud whether they are the
\* values we expect, claims those it has with the right type ("email" with
\* something in it), due whether its exp has passed.
Garbage == [form |-> "text"]
Signed(alg, key, kid, iss, aud, claims, due) ==
    [form |-> "jwt", alg |-> alg, key |-> key, kid |-> kid, iss |-> iss,
     aud |-> aud, claims |-> claims, due |-> due]

-----------------------------------------------------------------------------
(* Issuers.                                                                *)

ACCESS_TOKEN_CLAIMS == {"sub", "iat", "exp"}
SignAccessToken(due) ==
    Signed(JWT_ALGORITHM, "secret", "none", "none", "none",
           ACCESS_TOKEN_CLAIMS, due)

\* The edge signs for every application of the account, for people and, with
\* no email, for machines; kid is "new" when it rotated its keys since ours
\* were fetched.
EdgeToken(kid, aud, claims, due) ==
    Signed(CF_ACCESS_ALGORITHM, "team", kid, "ours", aud, claims, due)

Ours == {SignAccessToken(due) : due \in BOOLEAN}
Edge == {EdgeToken(kid, aud, claims, due) :
           kid \in {"known", "new"}, aud \in {"ours", "other"},
           claims \in {Claims, {"iat", "exp"}}, due \in BOOLEAN}
Forged == {Signed(alg, "foreign", kid, iss, aud, claims, due) :
             alg \in Algorithms, kid \in {"known", "new"},
             iss \in {"ours", "other"}, aud \in {"ours", "other"},
             claims \in SUBSET Claims, due \in BOOLEAN}
Tokens == Ours \cup Edge \cup Forged \cup {Garbage}

-----------------------------------------------------------------------------
(* jose: what jwtVerify throws first, "nothing" if the token is good.      *)

ClaimsError(token, pinned) ==
    IF "iss" \in pinned /\ token.iss # "ours" THEN "ClaimInvalid iss"
    ELSE IF "aud" \in pinned /\ token.aud # "ours" THEN "ClaimInvalid aud"
    ELSE IF "exp" \in token.claims /\ token.due THEN "JWTExpired"
    ELSE "nothing"

\* With a key set a kid that is not in it is looked up again and then refused.
\* Only a fetch that takes too long has an error of its own; one that cannot
\* connect, or is not answered with keys, throws a general error.
KeySets == {"fetched", "slow", "invalid", "unreachable"}
KeySetError(token, keySet) ==
    CASE keySet = "slow" -> "JWKSTimeout"
      [] keySet = "invalid" -> "JWKSInvalid"
      [] keySet = "unreachable" -> "TypeError"
      [] OTHER -> IF token.kid = "new" THEN "JWKSNoMatchingKey" ELSE "nothing"

JwtVerify(token, alg, key, keyError, pinned) ==
    IF token = Garbage THEN "JWSInvalid"
    ELSE IF token.alg # alg THEN "JOSEAlgNotAllowed"
    ELSE IF keyError # "nothing" THEN keyError
    ELSE IF token.key # key THEN "JWSSignatureVerificationFailed"
    ELSE ClaimsError(token, pinned)

-----------------------------------------------------------------------------
(* The two verifiers: "ok", or why the token is refused.                   *)

TOKEN_FAILURE == {"EXPIRED", "INVALID_SIGNATURE", "MALFORMED"}
CF_ACCESS_FAILURE ==
    TOKEN_FAILURE \cup {"NO_EMAIL_CLAIM", "WRONG_AUDIENCE", "WRONG_ISSUER",
                        "KEYS_UNAVAILABLE"}

\* Mutant: whatever is wrong with the keys or their fetch counts as a forgery.
ClassifyVerificationFailure_Rest(cause) ==
    CASE cause = "JWTExpired" -> "EXPIRED"
      [] cause = "JWSInvalid" -> "MALFORMED"
      [] OTHER -> "INVALID_SIGNATURE"

ClassifyVerificationFailure(cause) ==
    CASE cause = "JWTExpired" -> "EXPIRED"
      [] cause \in {"JWSSignatureVerificationFailed", "JOSEAlgNotAllowed"} ->
           "INVALID_SIGNATURE"
      [] OTHER -> "MALFORMED"

ClassifyAccessFailure(cause) ==
    CASE cause \in {"JWKSNoMatchingKey", "JWKSTimeout", "JWKSInvalid"} ->
           "KEYS_UNAVAILABLE"
      [] cause = "ClaimInvalid aud" -> "WRONG_AUDIENCE"
      [] cause = "ClaimInvalid iss" -> "WRONG_ISSUER"
      [] OTHER -> ClassifyVerificationFailure(cause)

VerifyAccessToken(token) ==
    LET cause == JwtVerify(token, JWT_ALGORITHM, "secret", "nothing", {})
    IN  IF cause # "nothing" THEN ClassifyVerificationFailure(cause)
        ELSE IF ~(ACCESS_TOKEN_CLAIMS \subseteq token.claims) THEN "MALFORMED"
        ELSE "ok"

\* Mutant: the audience is not pinned.
VerifyCfAccessToken_AnyApp(token, keySet) ==
    LET cause == JwtVerify(token, CF_ACCESS_ALGORITHM, "team",
                           IF token = Garbage THEN "nothing"
                           ELSE KeySetError(token, keySet), {"iss"})
    IN  IF cause # "nothing" THEN ClassifyAccessFailure(cause)
        ELSE IF "email" \notin token.claims THEN "NO_EMAIL_CLAIM"
        ELSE IF "sub" \notin token.claims THEN "MALFORMED"
        ELSE "ok"

VerifyCfAccessToken(token, keySet) ==
    LET cause == JwtVerify(token, CF_ACCESS_ALGORITHM, "team",
                           IF token = Garbage THEN "nothing"
                           ELSE KeySetError(token, keySet), {"iss", "aud"})
    IN  IF cause # "nothing" THEN ClassifyAccessFailure(cause)
        ELSE IF "email" \notin token.claims THEN "NO_EMAIL_CLAIM"
        ELSE IF "sub" \notin token.claims THEN "MALFORMED"
        ELSE "ok"

\* An Authorization header: its scheme, and what is behind the blank.
Schemes == {"Bearer", "bearer", "Basic"}
Blank == [form |-> "blank"]
Headers == {[scheme |-> "none"]} \cup
           [scheme: Schemes, rest: Ours \cup Edge \cup {Garbage, Blank}] \cup
           [scheme: {"Bearer"}, rest: Forged]

\* What authenticate tries to verify; Blank when there is nothing to try.
ExtractBearerToken(header) ==
    IF header.scheme \in {"Bearer", "bearer"} THEN header.rest ELSE Blank

-----------------------------------------------------------------------------
(* Passwords.  A hash is genuine Argon2id or some other text; to verify one  *)
(* costs the same whatever it is the hash of, other text costs nothing.      *)

HashPassword(plaintext) == [genuine |-> TRUE, of |-> plaintext]
VerifyPassword(hash, password) ==
    [ok |-> hash.genuine /\ hash.of = password,
     cost |-> IF hash.genuine THEN 1 ELSE 0]

\* Mutant: an account with no password is marked by a text that is no hash.
UnusablePasswordHash_Marker == [genuine |-> FALSE, of |-> "!cloudflare-access"]

\* Random bytes nobody keeps.
UnusablePasswordHash == HashPassword("random bytes")

\* The hash of a text that is nobody's password.
TIMING_DECOY_PASSWORD_HASH == HashPassword("decoy")

\* Whose address is typed: nobody's, that of an account with a password, or
\* that of one the edge's identity provisioned.
Addresses == {"unknown", "seeded", "provisioned"}
Passwords == {"the password", "another one"}

\* What the caller learns of a login: whether it is accepted, and its cost.
Login(address, password) ==
    CASE address = "unknown" ->
           [VerifyPassword(TIMING_DECOY_PASSWORD_HASH, password)
              EXCEPT !.ok = FALSE]
      [] address = "seeded" ->
           VerifyPassword(HashPassword("the password"), password)
      [] address = "provisioned" ->
           VerifyPassword(UnusablePasswordHash, password)

-----------------------------------------------------------------------------
(* TTLs.  An amount has one decimal: amounts are in tenths.                *)

DURATION_UNIT_SECONDS ==
    [s |-> 1, m |-> 60, h |-> 3600, d |-> 86400, w |-> 604800]

Durations == [amount: Nat, unit: DOMAIN DURATION_UNIT_SECONDS \cup {"y"}]
Wrong == -1    \* thrown: an unknown unit, or no duration at all

\* In tenths of a second.
ParseDurationToSeconds(ttl) ==
    IF ttl.unit \in DOMAIN DURATION_UNIT_SECONDS
    THEN ttl.amount * DURATION_UNIT_SECONDS[ttl.unit] ELSE Wrong

\* Mutant: seconds are taken for milliseconds.
ExpiresAtFrom_Seconds(ttl, now) == now + ParseDurationToSeconds(ttl) \div 10

\* Instants are in milliseconds.
ExpiresAtFrom(ttl, now) == now + ParseDurationToSeconds(ttl) * 100

IsRefreshTokenExpired(expiresAt, now) == expiresAt <= now

\* jose reads the same strings with a table of its own, which has years, and
\* rounds; its clock has whole seconds.
Secs(ttl) ==
    LET seconds == IF ttl.unit = "y" THEN 31557600
                   ELSE DURATION_UNIT_SECONDS[ttl.unit]
    IN  (ttl.amount * seconds + 5) \div 10
ExpOf(ttl, now) == now \div 1000 + Secs(ttl)
IsAccessTokenDue(exp, now) == exp <= now \div 1000
=============================================================================

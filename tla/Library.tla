------------------------------ MODULE Library -------------------------------
(***************************************************************************)
(* Callers of the parts of the system that keep no state: money            *)
(* arithmetic, where amounts are parsed one after the other and added up,  *)
(* the HTTP contract, one exchange after the other, credentials, one after *)
(* the other, and the two expiries of a session.  Each is checked against  *)
(* what it promises for every input of the instance.                       *)
(***************************************************************************)
EXTENDS Money, HttpContract, Credentials

CONSTANTS Texts,        \* the strings a caller may want to parse
          MaxAmounts,   \* bound on the amounts added up
          Ttls,         \* the TTLs the operator may configure
          Instants,     \* when a session may start, in milliseconds
          Delays        \* how long its access token may take to be signed

ASSUME LibraryAssumption ==
    /\ Texts \subseteq
         {NoDecimal} \cup [kind: {"decimal"}, sign: Signs, whole: Nat,
                           decimals: 0 .. 3, fraction: 0 .. 999]
    /\ \A s \in Texts \ {NoDecimal} : s.fraction < <<1, 10, 100, 1000>>[s.decimals + 1]
    /\ MaxAmounts \in Nat
    /\ Ttls \subseteq Durations
    /\ Instants \subseteq Nat /\ Delays \subseteq Nat

VARIABLES text,       \* the string parsed last
          amounts,    \* what the strings parsed so far came to
          exchange,   \* the request, what befell it and the outcome
          attempt,    \* the credential presented, and where
          session     \* the TTLs of a session, its two starts, the present

calls == <<exchange, attempt, session>>
vars == <<text, amounts, calls>>

None == [is |-> "none"]
Exchanges ==
    UNION {[req: {r}, fate: FatesOf(r.route), way: Ways] : r \in Requests}
Attempts ==
    [is: {"bearer"}, header: Headers]
      \cup [is: {"edge"}, token: Tokens, keySet: KeySets]
      \cup [is: {"login"}, address: Addresses, password: Passwords]
Sessions == [access: Ttls, refresh: Ttls, start: Instants, signed: Nat, now: Nat]

\* Amounts that were accepted are integers in the range.
TypeOK ==
    /\ text \in Texts \cup {Absent}
    /\ amounts \in Seq(Int)
    /\ Len(amounts) <= MaxAmounts
    /\ \A i \in DOMAIN amounts : IsSafe(amounts[i])
    /\ exchange = None \/ exchange \in Exchanges
    /\ attempt = None \/ attempt \in Attempts
    /\ session = None \/ session \in Sessions

Init ==
    /\ text = Absent /\ amounts = <<>>
    /\ exchange = None /\ attempt = None /\ session = None

\* A string that is refused throws: the caller drops the sum.
Parse ==
    /\ calls = <<None, None, None>>
    /\ Len(amounts) < MaxAmounts
    /\ text' \in Texts
    /\ amounts' = IF IsValidMoneyString(text')
                  THEN Append(amounts, ParseMoneyToMinorUnits(text')) ELSE <<>>
    /\ UNCHANGED calls

Forget ==
    /\ text # Absent
    /\ text' = Absent
    /\ amounts' = <<>>
    /\ UNCHANGED calls

Idle == text = Absent /\ calls = <<None, None, None>>

Exchange ==
    /\ Idle
    /\ exchange' \in Exchanges
    /\ UNCHANGED <<text, amounts, attempt, session>>

Present ==
    /\ Idle
    /\ attempt' \in Attempts
    /\ UNCHANGED <<text, amounts, exchange, session>>

\* login and refresh read the clock when they are entered, for the refresh
\* token; jose reads it again when it signs the access token, after the awaits.
\* They sign, then mint: a refresh TTL that does not parse throws, and there is
\* no session.
Start ==
    /\ Idle
    /\ \E access, refresh \in Ttls, start \in Instants, delay \in Delays :
         /\ ParseDurationToSeconds(refresh) # Wrong
         /\ session' = [access |-> access, refresh |-> refresh,
                        start |-> start, signed |-> start + delay,
                        now |-> start + delay]
    /\ UNCHANGED <<text, amounts, exchange, attempt>>

\* Until the refresh token has just expired, or just not.
Wait ==
    /\ session # None
    /\ \E before \in {0, 1} :
         LET end == ExpiresAtFrom(session.refresh, session.start) - before
         IN  end > session.now /\ session' = [session EXCEPT !.now = end]
    /\ UNCHANGED <<text, amounts, exchange, attempt>>

Done ==
    /\ calls # <<None, None, None>>
    /\ exchange' = None /\ attempt' = None /\ session' = None
    /\ UNCHANGED <<text, amounts>>

Next == Parse \/ Forget \/ Exchange \/ Present \/ Start \/ Wait \/ Done

Spec == Init /\ [][Next]_vars

-----------------------------------------------------------------------------
(* Money.                                                                  *)

Value(s) ==   \* in thousandths: the reference meaning of a decimal string
    LET magnitude == 1000 * s.whole
                       + s.fraction * <<1000, 100, 10, 1>>[s.decimals + 1]
    IN  IF s.sign = "-" THEN -magnitude ELSE magnitude

\* A string is taken exactly when hundredths in the range can hold its value,
\* and then for that value: nothing is rounded, "1.005" is refused.
ParsedExactly ==
    text \notin {Absent, NoDecimal} =>
        IF text.decimals <= 2 /\ IsSafe(Value(text) \div 10)
        THEN 10 * ParseMoneyToMinorUnits(text) = Value(text)
        ELSE ParseMoneyToMinorUnits(text) = Refused

\* What is written to JSON reads back as the same amount, its sign and its
\* last digit included, and so does what a sum comes to.
RoundTrip ==
    \A n \in {amounts[i] : i \in DOMAIN amounts} \cup {AddMinorUnits(amounts)} :
        n # Refused =>
            ParseMoneyToMinorUnits(FormatMinorUnitsToMoney(n)) = n

\* A sum is exact or refused.  It is refused only when some beginning of it
\* leaves the range; amounts of one sign are refused only when their total
\* does, amounts of both signs may be refused in one order and not in another.
\* Taking away what was added last gives the sum before it, and a difference
\* is the sum with the negated amount, refused with it.
Total(s) ==
    LET total[i \in 0 .. Len(s)] == IF i = 0 THEN 0 ELSE total[i - 1] + s[i]
    IN  total[Len(s)]
SumsAreExact ==
    /\ AddMinorUnits(amounts) # Refused =>
         /\ AddMinorUnits(amounts) = Total(amounts)
         /\ IsSafe(Total(amounts))
    /\ AddMinorUnits(amounts) = Refused =>
         /\ \E i \in DOMAIN amounts : ~IsSafe(Total(SubSeq(amounts, 1, i)))
         /\ \/ ~IsSafe(Total(amounts))
            \/ \E i, j \in DOMAIN amounts : amounts[i] < 0 /\ amounts[j] > 0
    /\ \A i \in DOMAIN amounts :
         LET before == AddMinorUnits(SubSeq(amounts, 1, i - 1))
             after == AddMinorUnits(SubSeq(amounts, 1, i))
         IN  before # Refused =>
               /\ after # Refused =>
                    SubtractMinorUnits(after, amounts[i]) = before
               /\ SubtractMinorUnits(before, NegateMinorUnits(amounts[i])) = after

-----------------------------------------------------------------------------
(* HTTP.                                                                   *)

Open == exchange # None
Reply == Serve(exchange.req, exchange.fate)
Result == Receive(exchange.req.route, Reply, exchange.way)

\* Whatever goes wrong in the API, a body it cannot read included, the client
\* gets an error it can read and show: the code is the one of the status, the
\* text was written for clients, and there are fields exactly for a validation
\* error, the wrong ones of the request.
ErrorsAreUnderstood ==
    Open /\ exchange.way = "intact" /\ Result.kind \notin {"value", "nothing"} =>
        LET error == Result.body
        IN  /\ error # Absent
            /\ StatusOf(error.code) = Result.status
            /\ ErrorMessageOf(Result, "client's") = "fixed"
            /\ IF error.code = "VALIDATION_ERROR"
               THEN error.fields = exchange.req.wrong
               ELSE error.fields = Absent

\* The client sets out to refresh only because the API refused its credentials,
\* and stores as a pair only what the API answered to a login or a refresh: no
\* lost answer, page of a proxy or failure of another kind is taken for either.
\* What it drops its tokens for is another matter: any failure of the refresh
\* itself, a lost answer included, and any logout (refresh.ts:62-66).
TokensOnlyWhenTold ==
    Open =>
        LET route == exchange.req.route
            thrown == Thrown(exchange.req, exchange.fate)
        IN  /\ SetsOutToRefresh(route, Result) <=>
                 /\ exchange.way = "intact" /\ route = "me"
                 /\ thrown = "unauthenticated"
            /\ StoresPair(route, Result) <=>
                 /\ exchange.way = "intact" /\ route \in {"login", "refresh"}
                 /\ thrown = "nothing"

\* The document has every route that is served, and with it every status the
\* route answers with but the 500 of a failure.
RepliesAreDeclared ==
    Open /\ exchange.req.route # Unknown =>
        /\ exchange.req.route \in Documented
        /\ Reply.status \in Declared(exchange.req.route) \cup {500}

-----------------------------------------------------------------------------
(* Credentials.                                                            *)

Presented == IF attempt.is = "edge" THEN attempt.token
             ELSE ExtractBearerToken(attempt.header)
Verdict == IF attempt.is = "edge"
           THEN VerifyCfAccessToken(attempt.token, attempt.keySet)
           ELSE IF Presented = Blank THEN "nothing to verify"
           ELSE VerifyAccessToken(Presented)

\* Each door takes exactly what its issuer signed, for a person, for this
\* application and in date; at the edge's door, if its key is at hand.
AcceptedAreIssued ==
    /\ attempt.is = "bearer" =>
         (Verdict = "ok" <=> Presented = SignAccessToken(FALSE))
    /\ attempt.is = "edge" =>
         (Verdict = "ok" <=>
            /\ Presented = EdgeToken("known", "ours", Claims, FALSE)
            /\ attempt.keySet = "fetched")

\* The key set was not had in time or is none, or has not the token's key.
KeyMissing == \/ attempt.keySet \in {"slow", "invalid"}
              \/ attempt.keySet = "fetched" /\ Presented.kid = "new"

\* What the log says of a refused token is so, but for a key set that cannot
\* be fetched at all, of which OutagesAreNamed speaks: what was expired, or
\* meant for another application or a machine, was signed by the issuer; keys
\* are said to be unavailable of a token of the edge exactly if its key is
\* missing; no token of the issuer is logged as a forgery, and as malformed
\* only what is no token.
RefusalsAreExplained ==
    attempt.is \in {"bearer", "edge"} =>
        LET issued == IF attempt.is = "edge" THEN Edge ELSE Ours
        IN  /\ Verdict \in {"EXPIRED", "WRONG_AUDIENCE", "WRONG_ISSUER",
                            "NO_EMAIL_CLAIM"} => Presented \in issued
            /\ Verdict = "EXPIRED" => Presented.due
            /\ Verdict = "KEYS_UNAVAILABLE" => KeyMissing
            /\ attempt.is = "edge" /\ Presented \in Edge /\ KeyMissing =>
                 Verdict = "KEYS_UNAVAILABLE"
            /\ Verdict = "MALFORMED" =>
                 \/ Presented = Garbage
                 \/ attempt.is = "edge" /\ attempt.keySet = "unreachable"
            /\ Presented \in issued => Verdict # "INVALID_SIGNATURE"

\* A refused login tells nothing of the account: it costs one verification,
\* whether there is no account, the password is wrong, or it has none.
RefusedLoginsLookAlike ==
    attempt.is = "login" =>
        LET login == Login(attempt.address, attempt.password)
        IN  /\ login.cost = 1
            /\ login.ok <=> /\ attempt.address = "seeded"
                            /\ attempt.password = "the password"

\* Though the two TTLs are read by two parsers, counted by two clocks and from
\* two instants, an access token is not accepted any more once the refresh
\* token issued with it has expired, if its TTL, in whole seconds, is shorter
\* by at least the seconds that began between the two instants.  Of two equal
\* TTLs the access token's may be the one that ends later.
AccessDiesFirst ==
    LET seconds(ttl) == ParseDurationToSeconds(ttl)
        begun == session.signed \div 1000 - session.start \div 1000
    IN  /\ session # None
        /\ seconds(session.access) # Wrong
        /\ seconds(session.access) % 10 = 0
        /\ seconds(session.access) + 10 * begun <= seconds(session.refresh)
        /\ IsRefreshTokenExpired(ExpiresAtFrom(session.refresh, session.start),
                                 session.now)
        => IsAccessTokenDue(ExpOf(session.access, session.signed), session.now)

-----------------------------------------------------------------------------
(* What the documentation says and the code does not do.                   *)

\* cloudflare-access.ts:139-146: a genuine token that cannot be verified
\* because the key set could not be fetched is logged as KEYS_UNAVAILABLE.
OutagesAreNamed ==
    attempt.is = "edge" /\ Presented \in Edge /\ attempt.keySet # "fetched"
        => Verdict = "KEYS_UNAVAILABLE"
=============================================================================

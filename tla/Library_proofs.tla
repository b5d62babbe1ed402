--------------------------- MODULE Library_proofs ---------------------------
(***************************************************************************)
(* Proofs about Library, for any strings, range, TTLs and instants and for *)
(* every request and credential: what one amount is parsed to and printed  *)
(* as, which token dies first, what an exchange comes to and what a door   *)
(* takes.  The sums are in Sums_proofs.                                    *)
(***************************************************************************)
EXTENDS Library, TLAPS

-----------------------------------------------------------------------------
(* Money.                                                                  *)

Strings == [kind: {"decimal"}, sign: Signs, whole: Nat, decimals: 0 .. 3,
            fraction: 0 .. 999]

LEMMA TextFacts ==
    ASSUME NEW s \in Texts, s # NoDecimal
    PROVE  s \in Strings /\ s.fraction < <<1, 10, 100, 1000>>[s.decimals + 1]
  BY LibraryAssumption DEF Strings

\* A string with at most two decimals has a whole number of hundredths.
LEMMA MagnitudeIsValue ==
    ASSUME NEW s \in Strings, s.fraction < <<1, 10, 100, 1000>>[s.decimals + 1],
           s.decimals <= 2
    PROVE  /\ Magnitude(s) \in Nat
           /\ Value(s) = IF s.sign = "-" THEN -(10 * Magnitude(s)) ELSE 10 * Magnitude(s)
<1>1. s.decimals \in {0, 1, 2} /\ s.whole \in Nat /\ s.fraction \in Nat
  BY DEF Strings
<1>2. CASE s.decimals = 0
  <2>1. s.fraction = 0
    BY <1>1, <1>2
  <2>. QED
    BY <1>1, <1>2, <2>1 DEF Magnitude, Hundredths, Value
<1>3. CASE s.decimals = 1
  BY <1>1, <1>3 DEF Magnitude, Hundredths, Value
<1>4. CASE s.decimals = 2
  BY <1>1, <1>4 DEF Magnitude, Hundredths, Value
<1>. QED
  BY <1>1, <1>2, <1>3, <1>4

LEMMA ParseFacts ==
    ASSUME NEW s \in Strings, s.fraction < <<1, 10, 100, 1000>>[s.decimals + 1]
    PROVE  IF s.decimals <= 2 /\ IsSafe(Value(s) \div 10)
           THEN 10 * ParseMoneyToMinorUnits(s) = Value(s)
           ELSE ParseMoneyToMinorUnits(s) = Refused
<1>1. s.kind = "decimal" /\ s.decimals \in 0 .. 3
  BY DEF Strings
<1>2. CASE s.decimals > 2
  BY <1>1, <1>2 DEF ParseMoneyToMinorUnits, MaxDecimals
<1>3. CASE s.decimals <= 2
  <2>. DEFINE m == Magnitude(s)
  <2>1. /\ m \in Nat
        /\ Value(s) = IF s.sign = "-" THEN -(10 * m) ELSE 10 * m
    BY <1>3, MagnitudeIsValue
  <2>2. Value(s) \div 10 = IF s.sign = "-" THEN -m ELSE m
    <3>. HIDE DEF m
    <3>. QED
      BY <2>1
  <2>3. IsSafe(Value(s) \div 10) <=> IsSafe(m)
    <3>. HIDE DEF m
    <3>. QED
      BY <2>1, <2>2, MoneyAssumption DEF IsSafe
  <2>4. ParseMoneyToMinorUnits(s) = IF ~IsSafe(m) THEN Refused
                                    ELSE IF s.sign = "-" THEN -m ELSE m
    BY <1>1, <1>3 DEF ParseMoneyToMinorUnits, MaxDecimals
  <2>. HIDE DEF m
  <2>. QED
    BY <1>3, <2>1, <2>3, <2>4
<1>. QED
  BY <1>1, <1>2, <1>3

LEMMA ReadsBack ==
    ASSUME NEW n \in Int, NEW a \in Nat, IsSafe(a), n = IF n < 0 THEN -a ELSE a,
           NEW s, s.kind = "decimal", s.sign = IF n < 0 THEN "-" ELSE "none",
           s.whole = a \div 100, s.decimals = 2, s.fraction = a % 100
    PROVE  ParseMoneyToMinorUnits(s) = n
<1>1. 100 * (a \div 100) + (a % 100) = a
  OBVIOUS
<1>2. Magnitude(s) = a
  BY <1>1 DEF Magnitude, Hundredths
<1>3. s.sign = "-" <=> n < 0
  OBVIOUS
<1>. QED
  BY <1>2, <1>3 DEF ParseMoneyToMinorUnits, MaxDecimals

\* What formatMinorUnitsToMoney prints for an amount in the range reads back as
\* that amount (money.ts).
THEOREM FormatReadsBack ==
    ASSUME NEW n \in Int, IsSafe(n)
    PROVE  ParseMoneyToMinorUnits(FormatMinorUnitsToMoney(n)) = n
<1>1. Abs(n) \in Nat /\ IsSafe(Abs(n)) /\ n = IF n < 0 THEN -Abs(n) ELSE Abs(n)
  BY MoneyAssumption DEF Abs, IsSafe
<1>2. LET s == FormatMinorUnitsToMoney(n)
      IN  /\ s.kind = "decimal" /\ s.sign = IF n < 0 THEN "-" ELSE "none"
          /\ s.whole = Abs(n) \div 100 /\ s.decimals = 2 /\ s.fraction = Abs(n) % 100
  BY DEF FormatMinorUnitsToMoney, Decimal
<1>. QED
  BY <1>1, <1>2, ReadsBack

-----------------------------------------------------------------------------
(* The invariant.                                                          *)

LEMMA NextTypes == ASSUME TypeOK, [Next]_vars PROVE TypeOK'
<1>1. CASE UNCHANGED vars
  BY <1>1 DEF vars, calls, TypeOK
<1>2. CASE Parse
  <2>1. /\ text' \in Texts /\ UNCHANGED <<exchange, attempt, session>>
        /\ Len(amounts) < MaxAmounts /\ amounts \in Seq(Int)
    BY <1>2 DEF Parse, calls, TypeOK
  <2>2. CASE IsValidMoneyString(text')
    <3>1. /\ ParseMoneyToMinorUnits(text') \in Int
          /\ IsSafe(ParseMoneyToMinorUnits(text'))
      <4>1. text' # NoDecimal
        BY <2>2 DEF IsValidMoneyString, ParseMoneyToMinorUnits, NoDecimal
      <4>2. text' \in Strings
        BY <2>1, <4>1, TextFacts
      <4>3. Magnitude(text') \in Int
        <5>1. text'.whole \in Nat /\ text'.fraction \in Nat
          BY <4>2 DEF Strings
        <5>. QED
          BY <5>1 DEF Magnitude, Hundredths
      <4>. QED
        BY <2>2, <4>3, MoneyAssumption
           DEF IsValidMoneyString, ParseMoneyToMinorUnits, IsSafe
    <3>2. amounts' = Append(amounts, ParseMoneyToMinorUnits(text'))
      BY <1>2, <2>2 DEF Parse
    <3>3. /\ amounts' \in Seq(Int) /\ Len(amounts') = Len(amounts) + 1
          /\ \A i \in DOMAIN amounts' : IsSafe(amounts'[i])
      BY <2>1, <3>1, <3>2 DEF TypeOK
    <3>. QED
      BY <2>1, <3>3, LibraryAssumption DEF TypeOK
  <2>3. CASE ~IsValidMoneyString(text')
    BY <1>2, <2>1, <2>3, LibraryAssumption DEF Parse, TypeOK
  <2>. QED
    BY <2>2, <2>3
<1>3. CASE Forget
  BY <1>3, LibraryAssumption DEF Forget, calls, TypeOK
<1>4. CASE Exchange
  BY <1>4 DEF Exchange, TypeOK
<1>5. CASE Present
  BY <1>5 DEF Present, TypeOK
<1>6. CASE Start
  <2>1. PICK access, refresh \in Ttls, start \in Instants, delay \in Delays :
          session' = [access |-> access, refresh |-> refresh, start |-> start,
                      signed |-> start + delay, now |-> start + delay]
    BY <1>6 DEF Start
  <2>2. start \in Nat /\ delay \in Nat
    BY LibraryAssumption
  <2>3. session' \in Sessions
    BY <2>1, <2>2 DEF Sessions
  <2>. QED
    BY <1>6, <2>3 DEF Start, TypeOK
<1>7. CASE Wait
  <2>1. session \in Sessions
    BY <1>7 DEF Wait, TypeOK
  <2>2. PICK before \in {0, 1} :
          LET end == ExpiresAtFrom(session.refresh, session.start) - before
          IN  end > session.now /\ session' = [session EXCEPT !.now = end]
    BY <1>7 DEF Wait
  <2>3. ParseDurationToSeconds(session.refresh) \in Int
    BY <2>1, LibraryAssumption
       DEF ParseDurationToSeconds, DURATION_UNIT_SECONDS, Wrong, Sessions, Durations
  <2>4. ExpiresAtFrom(session.refresh, session.start) - before \in Nat
    BY <2>1, <2>2, <2>3, LibraryAssumption DEF ExpiresAtFrom, Sessions
  <2>5. session' \in Sessions
    BY <2>1, <2>2, <2>4 DEF Sessions
  <2>. QED
    BY <1>7, <2>5 DEF Wait, TypeOK
<1>8. CASE Done
  BY <1>8 DEF Done, TypeOK
<1>. QED
  BY <1>1, <1>2, <1>3, <1>4, <1>5, <1>6, <1>7, <1>8 DEF Next

\* Amounts that parseMoneyToMinorUnits accepted are integers in the range
\* (money.ts).
THEOREM LibraryTypeCorrect == Spec => []TypeOK
<1>1. Init => TypeOK
  BY LibraryAssumption DEF Init, TypeOK
<1>. QED
  BY <1>1, NextTypes, PTL DEF Spec

\* A string is taken exactly when hundredths in the range can hold its value,
\* and then for that value (money.ts: parseMoneyToMinorUnits).
THEOREM ParsingIsExact == Spec => []ParsedExactly
<1>1. TypeOK => ParsedExactly
  BY TextFacts, ParseFacts DEF TypeOK, ParsedExactly
<1>. QED
  BY <1>1, LibraryTypeCorrect, PTL

\* An access token is not accepted any more once the refresh token issued with
\* it has expired, however long it took to be signed, if its TTL, in whole
\* seconds, is shorter by the seconds that began meanwhile (auth.service.ts,
\* tokens.ts).
THEOREM AccessTokenDiesFirst == Spec => []AccessDiesFirst
<1>1. TypeOK => AccessDiesFirst
  <2>. DEFINE A == ParseDurationToSeconds(session.access)
              R == ParseDurationToSeconds(session.refresh)
              begun == session.signed \div 1000 - session.start \div 1000
  <2>. SUFFICES ASSUME TypeOK, session # None, A # Wrong, A % 10 = 0,
                       A + 10 * begun <= R,
                       IsRefreshTokenExpired(
                         ExpiresAtFrom(session.refresh, session.start), session.now)
                PROVE  IsAccessTokenDue(ExpOf(session.access, session.signed),
                                        session.now)
    BY DEF AccessDiesFirst
  <2>1. session \in Sessions
    BY DEF TypeOK
  <2>2. session.start \in Nat /\ session.signed \in Nat /\ session.now \in Nat
    <3>1. Instants \subseteq Nat
      BY LibraryAssumption
    <3>. QED
      BY <2>1, <3>1 DEF Sessions
  <2>3. A \in Int /\ R \in Int
    BY <2>1, LibraryAssumption
       DEF ParseDurationToSeconds, DURATION_UNIT_SECONDS, Wrong, Sessions, Durations
  <2>4. session.start + R * 100 <= session.now
    BY DEF IsRefreshTokenExpired, ExpiresAtFrom
  <2>5. Secs(session.access) = (A + 5) \div 10
    BY <2>1 DEF Secs, ParseDurationToSeconds, DURATION_UNIT_SECONDS, Wrong
  <2>6. /\ session.signed \div 1000 \in Int /\ session.start \div 1000 \in Int
        /\ begun \in Int
        /\ session.signed \div 1000 = session.start \div 1000 + begun
    BY <2>2
  <2>. HIDE DEF A, R, begun
  <2>7. (A + 5) \div 10 = A \div 10 /\ A = 10 * (A \div 10) /\ A \div 10 \in Int
    BY <2>3
  <2>8. session.start + 1000 * (A \div 10 + begun) <= session.now
    BY <2>2, <2>3, <2>4, <2>6, <2>7
  <2>9. session.start \div 1000 + (A \div 10 + begun) <= session.now \div 1000
    <3>. DEFINE n == A \div 10 + begun
    <3>1. n \in Int /\ session.start + 1000 * n <= session.now
      BY <2>6, <2>7, <2>8
    <3>. HIDE DEF n
    <3>2. session.start \div 1000 + n <= session.now \div 1000
      BY <2>2, <3>1
    <3>. QED
      BY <3>2 DEF n
  <2>10. ExpOf(session.access, session.signed) <= session.now \div 1000
    BY <2>2, <2>5, <2>6, <2>7, <2>9 DEF ExpOf
  <2>. QED
    BY <2>10 DEF IsAccessTokenDue
<1>. QED
  BY <1>1, LibraryTypeCorrect, PTL

-----------------------------------------------------------------------------
(* HTTP.                                                                   *)

LEMMA ExchangeFacts ==
    ASSUME NEW e \in Exchanges
    PROVE  /\ e.req.route \in Routes \cup {Unknown}
           /\ e.fate \in FatesOf(e.req.route) /\ e.fate \in Fates /\ e.way \in Ways
           /\ e.req.wrong \in SUBSET FieldsOf(e.req.route)
           /\ e.req.route \in Posts => e.req.body \in {"json", "none"} \cup Unparsable
           /\ e.req.route \notin Posts => e.req.body = "none" /\ e.req.wrong = {}
<1>1. PICK r \in Requests : e \in [req: {r}, fate: FatesOf(r.route), way: Ways]
  BY DEF Exchanges
<1>2. e.req = r /\ e.fate \in FatesOf(r.route) /\ e.way \in Ways
  BY <1>1
<1>3. \/ /\ r.route \in Posts /\ r.body = "json" /\ r.wrong \in SUBSET FieldsOf(r.route)
      \/ /\ r.route \in Posts /\ r.body \in Unparsable \cup {"none"} /\ r.wrong = {}
      \/ /\ r.route \in {"health", "me", Unknown} /\ r.body = "none" /\ r.wrong = {}
  BY DEF Requests
<1>4. FatesOf(r.route) \subseteq Fates
  BY <1>3 DEF FatesOf, Fates, Posts
<1>. QED
  BY <1>2, <1>3, <1>4 DEF Routes, Posts, Unknown

\* The six answers of the API.
Served(req, fate) ==
    LET reply == Serve(req, fate)
        thrown == Thrown(req, fate)
        route == req.route
    IN  \/ route = Unknown /\ reply = ErrorReply("NOT_FOUND", "fixed", Absent)
        \/ route = "health" /\ reply \in {JsonReply(200), JsonReply(503)}
        \/ /\ route \in {"login", "refresh", "me"} /\ thrown = "nothing"
           /\ reply = JsonReply(200)
        \/ route = "logout" /\ thrown = "nothing" /\ reply = EmptyReply
        \/ /\ route \in Posts /\ thrown = "validation"
           /\ reply = ErrorReply("VALIDATION_ERROR", "fixed", req.wrong)
        \/ /\ route \in {"login", "refresh", "me"} /\ thrown = "unauthenticated"
           /\ reply = ErrorReply("UNAUTHENTICATED", "fixed", Absent)
        \/ /\ route \in Routes \ {"health"}
           /\ thrown \in {"framework", "unexpected", "serialization"}
           /\ reply = ErrorReply("INTERNAL", "fixed", Absent)

LEMMA ServeFacts ==
    ASSUME NEW e \in Exchanges
    PROVE  Served(e.req, e.fate)
<1>. DEFINE route == e.req.route
            thrown == Thrown(e.req, e.fate)
<1>1. /\ route \in {"login", "refresh", "logout", "health", "me", Unknown}
      /\ e.fate \in FatesOf(route) /\ e.fate \in Fates
      /\ route \notin Posts => e.req.body = "none"
  BY ExchangeFacts DEF Routes, Posts
<1>2. CASE route = Unknown
  BY <1>2 DEF Served, Serve
<1>3. CASE route = "health"
  BY <1>3 DEF Served, Serve, Answer, Unknown
<1>4. CASE route \in {"login", "refresh", "logout", "me"}
  <2>1. thrown \in {"framework", "validation", "unauthenticated", "unexpected",
                    "serialization", "nothing"}
    BY DEF Thrown
  <2>2. thrown = "validation" => route \in Posts
    BY DEF Thrown
  <2>3. thrown = "unauthenticated" => route # "logout"
    BY <1>1, <1>4 DEF Thrown, FatesOf
  <2>4. Serve(e.req, e.fate) = IF thrown = "nothing" THEN Answer(route, e.fate)
                               ELSE HandleError(thrown, e.req.wrong)
    BY <1>4 DEF Serve, Unknown
  <2>5. Answer(route, e.fate) = IF route = "logout" THEN EmptyReply ELSE JsonReply(200)
    BY <1>4 DEF Answer
  <2>6. HandleError(thrown, e.req.wrong) =
          IF thrown = "validation"
          THEN ErrorReply("VALIDATION_ERROR", "fixed", e.req.wrong)
          ELSE IF thrown = "unauthenticated"
          THEN ErrorReply("UNAUTHENTICATED", "fixed", Absent)
          ELSE ErrorReply("INTERNAL", "fixed", Absent)
    BY DEF HandleError
  <2>7. route \in Routes \ {"health"}
    BY <1>4 DEF Routes, Posts
  <2>. HIDE DEF thrown, route
  <2>. QED
    BY <1>4, <2>1, <2>2, <2>3, <2>4, <2>5, <2>6, <2>7 DEF Served, route, thrown
<1>. QED
  BY <1>1, <1>2, <1>3, <1>4

\* What the client makes of an error of the API, and of its other answers.
LEMMA ReceiveError ==
    ASSUME NEW code \in Codes, NEW fields, NEW route,
           route = "health" => code # "SERVICE_UNAVAILABLE"
    PROVE  LET reply == ErrorReply(code, "fixed", fields)
           IN  Receive(route, reply, "intact") =
                 [kind |-> "apiError", status |-> StatusOf(code),
                  message |-> "fixed", body |-> Envelope(code, "fixed", fields)]
<1>. DEFINE reply == ErrorReply(code, "fixed", fields)
<1>1. StatusOf(code) \in {400, 401, 404, 409, 500, 503}
      /\ (StatusOf(code) = 503 => code = "SERVICE_UNAVAILABLE")
  BY DEF Codes, StatusOf
<1>2. /\ reply.status = StatusOf(code) /\ reply.body = Envelope(code, "fixed", fields)
      /\ reply.body.kind = "envelope" /\ reply.body.message = "fixed"
  BY DEF ErrorReply, Envelope
<1>3. Delivered(reply, "intact") = reply
  BY DEF Delivered
<1>. HIDE DEF reply
<1>4. ~IsSuccess(route, reply.status)
  BY <1>1, <1>2 DEF IsSuccess, AcceptStatuses
<1>5. Receive(route, reply, "intact") = ToApiError(reply)
  BY <1>3, <1>4 DEF Receive
<1>6. ToApiError(reply) =
        [kind |-> "apiError", status |-> StatusOf(code),
         message |-> "fixed", body |-> Envelope(code, "fixed", fields)]
  BY <1>2 DEF ToApiError
<1>. QED
  BY <1>5, <1>6 DEF reply

LEMMA ReceiveAnswer ==
    ASSUME NEW route
    PROVE  /\ Receive(route, JsonReply(200), "intact").kind = "value"
           /\ Receive(route, EmptyReply, "intact").kind = "nothing"
           /\ Receive("health", JsonReply(503), "intact").kind = "value"
  BY DEF Receive, JsonReply, EmptyReply, Delivered, IsSuccess, AcceptStatuses

\* Whatever goes wrong in the API, an answer that arrives is an error the
\* client can read and show (errorHandler.ts, http.ts).
THEOREM ErrorsUnderstood == Spec => []ErrorsAreUnderstood
<1>1. TypeOK => ErrorsAreUnderstood
  <2>. SUFFICES ASSUME TypeOK, Open, exchange.way = "intact",
                       Result.kind \notin {"value", "nothing"}
                PROVE  /\ Result.body # Absent
                       /\ StatusOf(Result.body.code) = Result.status
                       /\ ErrorMessageOf(Result, "client's") = "fixed"
                       /\ IF Result.body.code = "VALIDATION_ERROR"
                          THEN Result.body.fields = exchange.req.wrong
                          ELSE Result.body.fields = Absent
    BY DEF ErrorsAreUnderstood
  <2>1. exchange \in Exchanges
    BY DEF TypeOK, Open
  <2>2. PICK code, fields :
          /\ code \in Codes \ {"SERVICE_UNAVAILABLE"}
          /\ Reply = ErrorReply(code, "fixed", fields)
          /\ fields = IF code = "VALIDATION_ERROR" THEN exchange.req.wrong ELSE Absent
          /\ code = "VALIDATION_ERROR" => exchange.req.route \in Posts
    <3>1. Served(exchange.req, exchange.fate)
      BY <2>1, ServeFacts
    <3>2. /\ ~(exchange.req.route = "health" /\ Reply \in {JsonReply(200), JsonReply(503)})
          /\ Reply # JsonReply(200) /\ Reply # EmptyReply
      BY ReceiveAnswer DEF Result
    <3>3. \E code \in {"NOT_FOUND", "VALIDATION_ERROR", "UNAUTHENTICATED", "INTERNAL"} :
            /\ Reply = ErrorReply(code, "fixed", IF code = "VALIDATION_ERROR"
                                    THEN exchange.req.wrong ELSE Absent)
            /\ code = "VALIDATION_ERROR" => exchange.req.route \in Posts
      BY <3>1, <3>2 DEF Served, Reply
    <3>. QED
      BY <3>3 DEF Codes
  <2>3. Result = [kind |-> "apiError", status |-> StatusOf(code),
                  message |-> "fixed", body |-> Envelope(code, "fixed", fields)]
    BY <2>2, ReceiveError DEF Result
  <2>4. /\ Result.body = Envelope(code, "fixed", fields)
        /\ Result.body.code = code /\ Result.body.fields = fields
        /\ Result.status = StatusOf(code) /\ Result.message = "fixed"
    BY <2>3 DEF Envelope
  <2>5. Result.body # Absent
    <3>1. fields \in {Absent} \cup UNION {SUBSET FieldsOf(r) : r \in Posts}
      BY <2>1, <2>2, ExchangeFacts
    <3>. QED
      BY <2>2, <2>4, <3>1, HttpAssumption
  <2>. QED
    BY <2>2, <2>4, <2>5 DEF ErrorMessageOf
<1>. QED
  BY <1>1, LibraryTypeCorrect, PTL

\* The client sets out to refresh only for a refusal of the API, and stores as
\* a pair only an answer of it, whatever befalls the answer on its way (http.ts,
\* errors.ts, client.ts, endpoints.ts, refresh.ts).
THEOREM TokensWhenTold == Spec => []TokensOnlyWhenTold
<1>1. TypeOK => TokensOnlyWhenTold
  <2>. DEFINE route == exchange.req.route
              thrown == Thrown(exchange.req, exchange.fate)
              Goal == /\ IsUnauthorized(Result) <=>
                           /\ exchange.way = "intact" /\ route # "health"
                           /\ thrown = "unauthenticated"
                      /\ route \in {"login", "refresh"} =>
                           (Result.kind = "value" <=>
                              exchange.way = "intact" /\ thrown = "nothing")
  <2>. SUFFICES ASSUME TypeOK, Open PROVE Goal
    <3>1. Goal => /\ SetsOutToRefresh(route, Result) <=>
                       /\ exchange.way = "intact" /\ route = "me"
                       /\ thrown = "unauthenticated"
                  /\ StoresPair(route, Result) <=>
                       /\ exchange.way = "intact" /\ route \in {"login", "refresh"}
                       /\ thrown = "nothing"
      <4>. HIDE DEF thrown, route
      <4>1. route = "me" => route # "health"
        OBVIOUS
      <4>. QED
        BY <4>1 DEF SetsOutToRefresh, StoresPair
    <3>. QED
      BY <3>1 DEF TokensOnlyWhenTold
  <2>1. exchange \in Exchanges /\ exchange.way \in Ways
    BY ExchangeFacts DEF TypeOK, Open
  <2>2. CASE exchange.way = "lost"
    BY <2>2 DEF Result, Receive, Error, IsUnauthorized
  <2>3. CASE exchange.way = "proxyError"
    <3>1. Result.kind = "apiError" /\ Result.status = 502
      BY <2>3 DEF Result, Receive, Delivered, IsSuccess, AcceptStatuses, ToApiError,
                  Error
    <3>. QED
      BY <2>3, <3>1 DEF IsUnauthorized
  <2>4. CASE exchange.way = "loginPage"
    <3>1. Result.kind = "syntaxError"
      BY <2>4 DEF Result, Receive, Delivered, IsSuccess, Error
    <3>. QED
      BY <2>4, <3>1 DEF IsUnauthorized
  <2>5. CASE exchange.way = "intact"
    <3>1. Served(exchange.req, exchange.fate)
      BY <2>1, ServeFacts
    <3>2. CASE route = Unknown /\ Reply = ErrorReply("NOT_FOUND", "fixed", Absent)
      <4>1. Result.status = 404
        BY <2>5, <3>2, ReceiveError DEF Result, Codes, StatusOf
      <4>2. thrown # "unauthenticated" /\ route \notin {"login", "refresh"}
        BY <2>1, <3>2, ExchangeFacts DEF Thrown, FatesOf, Unknown, Posts
      <4>. QED
        BY <4>1, <4>2 DEF IsUnauthorized
    <3>3. CASE route = "health" /\ Reply \in {JsonReply(200), JsonReply(503)}
      BY <2>5, <3>3, ReceiveAnswer DEF Result, IsUnauthorized
    <3>4. CASE /\ thrown = "nothing"
               /\ \/ Reply = JsonReply(200)
                  \/ Reply = EmptyReply /\ route = "logout"
      BY <2>5, <3>4, ReceiveAnswer DEF Result, IsUnauthorized
    <3>5. CASE thrown = "validation"
               /\ Reply = ErrorReply("VALIDATION_ERROR", "fixed", exchange.req.wrong)
      <4>1. Result.status = 400 /\ Result.kind = "apiError"
        BY <2>5, <3>5, ReceiveError DEF Result, Codes, StatusOf
      <4>. QED
        BY <3>5, <4>1 DEF IsUnauthorized
    <3>6. CASE route # "health" /\ thrown = "unauthenticated"
               /\ Reply = ErrorReply("UNAUTHENTICATED", "fixed", Absent)
      <4>1. Result.status = 401 /\ Result.kind = "apiError"
        BY <2>5, <3>6, ReceiveError DEF Result, Codes, StatusOf
      <4>. QED
        BY <2>5, <3>6, <4>1 DEF IsUnauthorized
    <3>7. CASE thrown \in {"framework", "unexpected", "serialization"}
               /\ Reply = ErrorReply("INTERNAL", "fixed", Absent)
      <4>1. Result.status = 500 /\ Result.kind = "apiError"
        BY <2>5, <3>7, ReceiveError DEF Result, Codes, StatusOf
      <4>. QED
        BY <3>7, <4>1 DEF IsUnauthorized
    <3>8. \/ route = Unknown /\ Reply = ErrorReply("NOT_FOUND", "fixed", Absent)
          \/ route = "health" /\ Reply \in {JsonReply(200), JsonReply(503)}
          \/ /\ thrown = "nothing"
             /\ \/ Reply = JsonReply(200)
                \/ Reply = EmptyReply /\ route = "logout"
          \/ /\ thrown = "validation"
             /\ Reply = ErrorReply("VALIDATION_ERROR", "fixed", exchange.req.wrong)
          \/ /\ route # "health" /\ thrown = "unauthenticated"
             /\ Reply = ErrorReply("UNAUTHENTICATED", "fixed", Absent)
          \/ /\ thrown \in {"framework", "unexpected", "serialization"}
             /\ Reply = ErrorReply("INTERNAL", "fixed", Absent)
      BY <3>1 DEF Served, Reply
    <3>. HIDE DEF route, thrown, Goal
    <3>. QED
      BY <3>2, <3>3, <3>4, <3>5, <3>6, <3>7, <3>8
  <2>. HIDE DEF Goal
  <2>. QED
    BY <2>1, <2>2, <2>3, <2>4, <2>5 DEF Ways
<1>. QED
  BY <1>1, LibraryTypeCorrect, PTL

\* The document declares every route and status but the 500 of a failure
\* (openapi.ts, server.ts, auth.routes.ts).
THEOREM RepliesDeclared == Spec => []RepliesAreDeclared
<1>1. Routes \subseteq Documented
  <2>1. Registered[2] = "openapi" /\ Registered[3] = "health"
        /\ Registered[4] = "auth" /\ Len(Registered) = 4
    BY DEF Registered
  <2>2. {"health", "auth"} \subseteq After("openapi")
    <3>1. /\ 3 \in {j \in 1 .. Len(Registered) :
                      \E k \in 1 .. j - 1 : Registered[k] = "openapi"}
          /\ 4 \in {j \in 1 .. Len(Registered) :
                      \E k \in 1 .. j - 1 : Registered[k] = "openapi"}
      BY <2>1
    <3>. QED
      BY <2>1, <3>1 DEF After
  <2>3. RoutesIn("health") = {"health"} /\ RoutesIn("auth") = Posts \cup {"me"}
    BY DEF RoutesIn
  <2>. QED
    BY <2>2, <2>3 DEF Documented, Routes
<1>2. TypeOK => RepliesAreDeclared
  <2>. SUFFICES ASSUME TypeOK, Open, exchange.req.route # Unknown
                PROVE  /\ exchange.req.route \in Documented
                       /\ Reply.status \in Declared(exchange.req.route) \cup {500}
    BY DEF RepliesAreDeclared
  <2>1. exchange \in Exchanges
    BY DEF TypeOK, Open
  <2>2. exchange.req.route \in Routes
    BY <2>1, ExchangeFacts
  <2>3. Served(exchange.req, exchange.fate)
    BY <2>1, ServeFacts
  <2>4. \/ exchange.req.route = "health" /\ Reply.status \in {200, 503}
        \/ exchange.req.route \in {"login", "refresh", "me"} /\ Reply.status \in {200, 401}
        \/ exchange.req.route = "logout" /\ Reply.status = 204
        \/ exchange.req.route \in Posts /\ Reply.status = 400
        \/ Reply.status = 500
    BY <2>3 DEF Served, Reply, JsonReply, EmptyReply, ErrorReply, StatusOf
  <2>5. Reply.status \in Declared(exchange.req.route) \cup {500}
    BY <2>4 DEF Declared, Posts
  <2>. QED
    BY <1>1, <2>2, <2>5
<1>. QED
  BY <1>2, LibraryTypeCorrect, PTL

-----------------------------------------------------------------------------
(* Credentials.                                                            *)

LEMMA AttemptFacts ==
    ASSUME TypeOK
    PROVE  /\ attempt.is = "bearer" => attempt.header \in Headers
           /\ attempt.is = "edge" => attempt.token \in Tokens /\ attempt.keySet \in KeySets
           /\ attempt.is = "login" =>
                attempt.address \in Addresses /\ attempt.password \in Passwords
<1>1. CASE attempt = None
  BY <1>1 DEF None
<1>2. CASE attempt \in Attempts
  BY <1>2 DEF Attempts
<1>. QED
  BY <1>1, <1>2 DEF TypeOK

LEMMA OursFacts ==
    ASSUME NEW t \in Ours
    PROVE  /\ t # Garbage /\ t.alg = "HS256" /\ t.key = "secret"
           /\ t.claims = ACCESS_TOKEN_CLAIMS /\ t = SignAccessToken(t.due)
           /\ t.due \in BOOLEAN
<1>1. PICK due \in BOOLEAN : t = SignAccessToken(due)
  BY Zenon DEF Ours
<1>2. /\ t.form = "jwt" /\ t.alg = "HS256" /\ t.key = "secret"
      /\ t.claims = ACCESS_TOKEN_CLAIMS
  BY <1>1 DEF SignAccessToken, Signed, JWT_ALGORITHM
<1>3. t.due = due
  BY <1>1, Zenon DEF SignAccessToken, Signed
<1>4. t # Garbage
  BY <1>2 DEF Garbage
<1>. QED
  BY <1>1, <1>2, <1>3, <1>4, Zenon

LEMMA EdgeFacts ==
    ASSUME NEW t \in Edge
    PROVE  /\ t # Garbage /\ t.alg = "RS256" /\ t.key = "team" /\ t.iss = "ours"
           /\ t.kid \in {"known", "new"} /\ t.aud \in {"ours", "other"}
           /\ t.claims \in {Claims, {"iat", "exp"}} /\ t.due \in BOOLEAN
           /\ t = EdgeToken(t.kid, t.aud, t.claims, t.due)
<1>1. PICK kid \in {"known", "new"}, aud \in {"ours", "other"},
           claims \in {Claims, {"iat", "exp"}}, due \in BOOLEAN :
             t = EdgeToken(kid, aud, claims, due)
  BY DEF Edge
<1>2. /\ t.form = "jwt" /\ t.alg = "RS256" /\ t.key = "team" /\ t.iss = "ours"
      /\ t.kid = kid /\ t.aud = aud /\ t.claims = claims
  BY <1>1 DEF EdgeToken, Signed, CF_ACCESS_ALGORITHM
<1>3. t.due = due
  BY <1>1, Zenon DEF EdgeToken, Signed
<1>4. t # Garbage
  BY <1>2 DEF Garbage
<1>5. /\ t.kid \in {"known", "new"} /\ t.aud \in {"ours", "other"}
      /\ t.claims \in {Claims, {"iat", "exp"}}
  BY <1>2
<1>6. t = EdgeToken(t.kid, t.aud, t.claims, t.due)
  BY <1>1, <1>2, <1>3
<1>7. t.due \in BOOLEAN
  BY <1>3, Zenon
<1>. QED
  BY <1>2, <1>4, <1>5, <1>6, <1>7, Zenon

LEMMA ForgedFacts ==
    ASSUME NEW t \in Forged
    PROVE  /\ t # Garbage /\ t.key = "foreign" /\ t.kid \in {"known", "new"}
<1>1. PICK alg \in Algorithms, kid \in {"known", "new"},
           iss \in {"ours", "other"}, aud \in {"ours", "other"},
           claims \in SUBSET Claims, due \in BOOLEAN :
             t = Signed(alg, "foreign", kid, iss, aud, claims, due)
  BY DEF Forged
<1>2. t.form = "jwt" /\ t.key = "foreign" /\ t.kid = kid
  BY <1>1 DEF Signed
<1>3. t # Garbage
  BY <1>2 DEF Garbage
<1>. QED
  BY <1>1, <1>2, <1>3

LEMMA BlankFacts ==
    ASSUME NEW t \in Tokens
    PROVE  t # Blank
<1>. SUFFICES ASSUME t = Blank PROVE FALSE
  OBVIOUS
<1>1. t.form = "blank"
  BY DEF Blank
<1>2. CASE t = Garbage
  BY <1>1, <1>2 DEF Garbage
<1>3. CASE t \in Ours
  BY <1>1, <1>3, OursFacts DEF SignAccessToken, Signed
<1>4. CASE t \in Edge
  BY <1>1, <1>4, EdgeFacts DEF EdgeToken, Signed
<1>5. CASE t \in Forged
  BY <1>1, <1>5 DEF Forged, Signed
<1>. QED
  BY <1>2, <1>3, <1>4, <1>5 DEF Tokens

\* What the API's own door says of each kind of token.
LEMMA BearerVerdicts ==
    ASSUME NEW t \in Tokens
    PROVE  /\ t \in Ours => \/ t.due /\ VerifyAccessToken(t) = "EXPIRED"
                            \/ ~t.due /\ VerifyAccessToken(t) = "ok"
           /\ t \in Edge \cup Forged => VerifyAccessToken(t) = "INVALID_SIGNATURE"
           /\ t = Garbage => VerifyAccessToken(t) = "MALFORMED"
<1>. DEFINE cause == JwtVerify(t, JWT_ALGORITHM, "secret", "nothing", {})
<1>1. ASSUME t \in Ours
      PROVE  \/ t.due /\ VerifyAccessToken(t) = "EXPIRED"
             \/ ~t.due /\ VerifyAccessToken(t) = "ok"
  <2>1. cause = ClaimsError(t, {})
    BY <1>1, OursFacts, Zenon DEF JwtVerify, JWT_ALGORITHM
  <2>2. "exp" \in t.claims /\ ACCESS_TOKEN_CLAIMS \subseteq t.claims
    BY <1>1, OursFacts DEF ACCESS_TOKEN_CLAIMS
  <2>3. CASE t.due
    <3>1. cause = "JWTExpired"
      BY <2>1, <2>2, <2>3 DEF ClaimsError
    <3>. QED
      BY <2>3, <3>1 DEF VerifyAccessToken, ClassifyVerificationFailure
  <2>4. CASE ~t.due
    <3>1. cause = "nothing"
      BY <2>1, <2>4 DEF ClaimsError
    <3>. QED
      BY <2>2, <2>4, <3>1 DEF VerifyAccessToken
  <2>. QED
    BY <2>3, <2>4
<1>2. ASSUME t \in Edge \cup Forged
      PROVE  VerifyAccessToken(t) = "INVALID_SIGNATURE"
  <2>1. t # Garbage /\ t.key # "secret"
    BY <1>2, EdgeFacts, ForgedFacts
  <2>2. cause \in {"JOSEAlgNotAllowed", "JWSSignatureVerificationFailed"}
    BY <2>1 DEF JwtVerify
  <2>. QED
    BY <2>2 DEF VerifyAccessToken, ClassifyVerificationFailure
<1>3. ASSUME t = Garbage
      PROVE  VerifyAccessToken(t) = "MALFORMED"
  <2>1. cause = "JWSInvalid"
    BY <1>3 DEF JwtVerify
  <2>. QED
    BY <2>1 DEF VerifyAccessToken, ClassifyVerificationFailure
<1>. QED
  BY <1>1, <1>2, <1>3

\* And the edge's, whose tokens it reads once it has found their key.
Read(t, verdict) ==
    \/ t.aud # "ours" /\ verdict = "WRONG_AUDIENCE"
    \/ t.aud = "ours" /\ t.due /\ verdict = "EXPIRED"
    \/ t.aud = "ours" /\ ~t.due /\ "email" \notin t.claims /\ verdict = "NO_EMAIL_CLAIM"
    \/ t.aud = "ours" /\ ~t.due /\ "email" \in t.claims /\ verdict = "ok"

\* KeyMissing, of a token and the state of the key set.
KeysMissing(t, keySet) ==
    \/ keySet \in {"slow", "invalid"}
    \/ keySet = "fetched" /\ t.kid = "new"

LEMMA EdgeVerdicts ==
    ASSUME NEW t \in Tokens, NEW keySet \in KeySets
    PROVE  LET verdict == VerifyCfAccessToken(t, keySet)
           IN  /\ t \in Ours => verdict = "INVALID_SIGNATURE"
               /\ t = Garbage => verdict = "MALFORMED"
               /\ t \in Edge \cup Forged =>
                    \/ /\ verdict = "KEYS_UNAVAILABLE"
                       /\ KeysMissing(t, keySet)
                    \/ verdict = "MALFORMED" /\ keySet = "unreachable"
                    \/ t \in Forged /\ verdict = "INVALID_SIGNATURE"
                    \/ /\ t \in Edge /\ keySet = "fetched" /\ t.kid = "known"
                       /\ Read(t, verdict)
<1>. DEFINE verdict == VerifyCfAccessToken(t, keySet)
            keyError == KeySetError(t, keySet)
            cause == JwtVerify(t, CF_ACCESS_ALGORITHM, "team",
                               IF t = Garbage THEN "nothing" ELSE keyError,
                               {"iss", "aud"})
<1>1. verdict = IF cause # "nothing" THEN ClassifyAccessFailure(cause)
                ELSE IF "email" \notin t.claims THEN "NO_EMAIL_CLAIM"
                ELSE IF "sub" \notin t.claims THEN "MALFORMED" ELSE "ok"
  BY Zenon DEF VerifyCfAccessToken
<1>2. ASSUME t \in Ours PROVE verdict = "INVALID_SIGNATURE"
  <2>1. cause = "JOSEAlgNotAllowed"
    BY <1>2, OursFacts DEF JwtVerify, CF_ACCESS_ALGORITHM
  <2>. HIDE DEF cause, verdict
  <2>. QED
    BY <1>1, <2>1 DEF ClassifyAccessFailure, ClassifyVerificationFailure
<1>3. ASSUME t = Garbage PROVE verdict = "MALFORMED"
  <2>1. cause = "JWSInvalid"
    BY <1>3 DEF JwtVerify
  <2>. HIDE DEF cause, verdict
  <2>. QED
    BY <1>1, <2>1 DEF ClassifyAccessFailure, ClassifyVerificationFailure
<1>4. /\ keySet = "slow" => keyError = "JWKSTimeout"
      /\ keySet = "invalid" => keyError = "JWKSInvalid"
      /\ keySet = "unreachable" => keyError = "TypeError"
      /\ keySet = "fetched" => keyError = IF t.kid = "new" THEN "JWKSNoMatchingKey"
                                          ELSE "nothing"
  BY DEF KeySetError
<1>5. keySet \in {"slow", "invalid", "unreachable", "fetched"}
  BY DEF KeySets
<1>6. ASSUME t \in Edge \cup Forged, keyError # "nothing", cause = keyError
      PROVE  \/ /\ verdict = "KEYS_UNAVAILABLE"
                /\ KeysMissing(t, keySet)
             \/ verdict = "MALFORMED" /\ keySet = "unreachable"
  <2>. HIDE DEF cause, verdict, keyError
  <2>1. CASE keyError = "TypeError"
    <3>1. verdict = "MALFORMED"
      BY <1>1, <1>6, <2>1 DEF ClassifyAccessFailure, ClassifyVerificationFailure
    <3>2. keySet = "unreachable"
      BY <1>4, <1>5, <2>1
    <3>. QED
      BY <3>1, <3>2
  <2>2. CASE keyError \in {"JWKSTimeout", "JWKSInvalid", "JWKSNoMatchingKey"}
    <3>1. ClassifyAccessFailure(cause) = "KEYS_UNAVAILABLE"
      <4>1. ClassifyAccessFailure("JWKSTimeout") = "KEYS_UNAVAILABLE"
        BY DEF ClassifyAccessFailure
      <4>2. ClassifyAccessFailure("JWKSInvalid") = "KEYS_UNAVAILABLE"
        BY DEF ClassifyAccessFailure
      <4>3. ClassifyAccessFailure("JWKSNoMatchingKey") = "KEYS_UNAVAILABLE"
        BY DEF ClassifyAccessFailure
      <4>. QED
        BY <1>6, <2>2, <4>1, <4>2, <4>3
    <3>2. verdict = "KEYS_UNAVAILABLE"
      BY <1>1, <1>6, <3>1
    <3>3. KeysMissing(t, keySet)
      BY <1>4, <1>5, <2>2 DEF KeysMissing
    <3>. QED
      BY <3>2, <3>3
  <2>. QED
    BY <1>4, <1>5, <1>6, <2>1, <2>2
<1>7. ASSUME t \in Edge
      PROVE  \/ keyError # "nothing" /\ cause = keyError
             \/ /\ keySet = "fetched" /\ t.kid = "known"
                /\ Read(t, verdict)
  <2>1. /\ t # Garbage /\ t.alg = CF_ACCESS_ALGORITHM /\ t.key = "team"
        /\ t.iss = "ours" /\ t.kid \in {"known", "new"} /\ "exp" \in t.claims
        /\ "email" \in t.claims => "sub" \in t.claims
    BY <1>7, EdgeFacts DEF CF_ACCESS_ALGORITHM, Claims
  <2>2. CASE keyError # "nothing"
    BY <2>1, <2>2 DEF JwtVerify
  <2>3. CASE keyError = "nothing"
    <3>1. keySet = "fetched" /\ t.kid = "known"
      <4>. HIDE DEF keyError
      <4>. QED
        BY <1>4, <1>5, <2>1, <2>3
    <3>2. cause = ClaimsError(t, {"iss", "aud"})
      BY <2>1, <2>3 DEF JwtVerify
    <3>. HIDE DEF cause, verdict
    <3>3. CASE t.aud # "ours"
      <4>1. cause = "ClaimInvalid aud"
        BY <2>1, <3>2, <3>3 DEF ClaimsError
      <4>. QED
        BY <1>1, <3>1, <3>3, <4>1 DEF ClassifyAccessFailure, Read
    <3>4. CASE t.aud = "ours" /\ t.due
      <4>1. cause = "JWTExpired"
        BY <2>1, <3>2, <3>4 DEF ClaimsError
      <4>. QED
        BY <1>1, <3>1, <3>4, <4>1
           DEF ClassifyAccessFailure, ClassifyVerificationFailure, Read
    <3>5. CASE t.aud = "ours" /\ ~t.due
      <4>1. cause = "nothing"
        BY <2>1, <3>2, <3>5 DEF ClaimsError
      <4>. QED
        BY <1>1, <2>1, <3>1, <3>5, <4>1 DEF Read
    <3>. QED
      BY <3>3, <3>4, <3>5
  <2>. QED
    BY <2>2, <2>3
<1>8. ASSUME t \in Forged
      PROVE  \/ keyError # "nothing" /\ cause = keyError
             \/ verdict = "INVALID_SIGNATURE"
  <2>1. t # Garbage /\ t.key # "team"
    BY <1>8, ForgedFacts
  <2>2. \/ keyError # "nothing" /\ cause = keyError
        \/ cause \in {"JOSEAlgNotAllowed", "JWSSignatureVerificationFailed"}
    BY <2>1 DEF JwtVerify
  <2>3. ASSUME cause \in {"JOSEAlgNotAllowed", "JWSSignatureVerificationFailed"}
        PROVE  verdict = "INVALID_SIGNATURE"
    <3>. HIDE DEF cause, verdict
    <3>1. /\ cause \notin {"JWKSNoMatchingKey", "JWKSTimeout", "JWKSInvalid"}
          /\ cause \notin {"ClaimInvalid aud", "ClaimInvalid iss", "JWTExpired", "nothing"}
      BY <2>3
    <3>2. ClassifyAccessFailure(cause) = ClassifyVerificationFailure(cause)
      BY <3>1 DEF ClassifyAccessFailure
    <3>3. ClassifyVerificationFailure(cause) = "INVALID_SIGNATURE"
      <4>1. ClassifyVerificationFailure("JOSEAlgNotAllowed") = "INVALID_SIGNATURE"
        BY DEF ClassifyVerificationFailure
      <4>2. ClassifyVerificationFailure("JWSSignatureVerificationFailed") =
              "INVALID_SIGNATURE"
        BY DEF ClassifyVerificationFailure
      <4>. QED
        BY <2>3, <4>1, <4>2
    <3>. QED
      BY <1>1, <3>1, <3>2, <3>3
  <2>. QED
    BY <2>2, <2>3
<1>. HIDE DEF cause, keyError, verdict
<1>9. ASSUME t \in Edge \cup Forged
      PROVE  \/ /\ verdict = "KEYS_UNAVAILABLE"
                /\ KeysMissing(t, keySet)
             \/ verdict = "MALFORMED" /\ keySet = "unreachable"
             \/ t \in Forged /\ verdict = "INVALID_SIGNATURE"
             \/ /\ t \in Edge /\ keySet = "fetched" /\ t.kid = "known"
                /\ Read(t, verdict)
  BY <1>6, <1>7, <1>8, <1>9
<1>. QED
  BY <1>2, <1>3, <1>9 DEF verdict

\* Which of its tokens an issuer signs for a person, for us and in date.
LEMMA GoodAccessToken ==
    /\ SignAccessToken(FALSE) \in Ours
    /\ ~SignAccessToken(FALSE).due
    /\ \A t \in Ours : ~t.due => t = SignAccessToken(FALSE)
<1>1. SignAccessToken(FALSE) \in Ours
  BY DEF Ours
<1>2. ~SignAccessToken(FALSE).due
  BY DEF SignAccessToken, Signed
<1>3. ASSUME NEW t \in Ours, ~t.due PROVE t = SignAccessToken(FALSE)
  <2>1. t = SignAccessToken(t.due) /\ t.due \in BOOLEAN
    BY OursFacts
  <2>2. t.due = FALSE
    BY <1>3, <2>1
  <2>. QED
    BY <2>1, <2>2, Zenon
<1>. QED
  BY <1>1, <1>2, <1>3, Zenon

GoodEdge == EdgeToken("known", "ours", Claims, FALSE)

LEMMA GoodEdgeToken ==
    /\ GoodEdge \in Edge
    /\ GoodEdge.kid = "known" /\ GoodEdge.aud = "ours" /\ ~GoodEdge.due
    /\ "email" \in GoodEdge.claims
    /\ \A t \in Edge : t.kid = "known" /\ t.aud = "ours" /\ ~t.due
                         /\ "email" \in t.claims => t = GoodEdge
<1>1. GoodEdge \in Edge
  <2>1. /\ "known" \in {"known", "new"} /\ "ours" \in {"ours", "other"}
        /\ Claims \in {Claims, {"iat", "exp"}} /\ FALSE \in BOOLEAN
    OBVIOUS
  <2>2. ASSUME NEW kid \in {"known", "new"}, NEW aud \in {"ours", "other"},
               NEW claims \in {Claims, {"iat", "exp"}}, NEW due \in BOOLEAN
        PROVE  EdgeToken(kid, aud, claims, due) \in Edge
    BY DEF Edge
  <2>. QED
    BY <2>1, <2>2, Zenon DEF GoodEdge
<1>2. /\ GoodEdge.kid = "known" /\ GoodEdge.aud = "ours" /\ ~GoodEdge.due
      /\ "email" \in GoodEdge.claims
  BY DEF GoodEdge, EdgeToken, Signed, Claims
<1>3. ASSUME NEW t \in Edge, t.kid = "known", t.aud = "ours", ~t.due,
             "email" \in t.claims
      PROVE  t = GoodEdge
  <2>1. /\ t = EdgeToken(t.kid, t.aud, t.claims, t.due) /\ t.due \in BOOLEAN
        /\ t.claims \in {Claims, {"iat", "exp"}}
    BY EdgeFacts
  <2>2. t.due = FALSE
    BY <1>3, <2>1
  <2>3. t.claims = Claims
    BY <1>3, <2>1
  <2>. QED
    BY <1>3, <2>1, <2>2, <2>3, Zenon DEF GoodEdge
<1>. QED
  BY <1>1, <1>2, <1>3, Zenon

LEMMA KindsDiffer ==
    ASSUME NEW t
    PROVE  /\ t \in Ours => t \notin Edge \cup Forged /\ t # Garbage
           /\ t \in Edge => t \notin Forged /\ t # Garbage
           /\ t \in Forged => t # Garbage
  BY OursFacts, EdgeFacts, ForgedFacts

\* What is behind the blank of an Authorization header.
LEMMA HeaderFacts ==
    ASSUME NEW h \in Headers
    PROVE  ExtractBearerToken(h) \in Tokens \cup {Blank}
<1>1. CASE h.scheme \in {"Bearer", "bearer"}
  <2>1. \/ h \in [scheme: Schemes, rest: Ours \cup Edge \cup {Garbage, Blank}]
        \/ h \in [scheme: {"Bearer"}, rest: Forged]
    BY <1>1 DEF Headers
  <2>2. h.rest \in Tokens \cup {Blank}
    BY <2>1 DEF Tokens
  <2>. QED
    BY <1>1, <2>2 DEF ExtractBearerToken
<1>2. CASE h.scheme \notin {"Bearer", "bearer"}
  BY <1>2 DEF ExtractBearerToken
<1>. QED
  BY <1>1, <1>2

\* What Presented and Verdict are at either door.
LEMMA BearerFacts ==
    ASSUME TypeOK, attempt.is = "bearer"
    PROVE  \/ Presented = Blank /\ Verdict = "nothing to verify"
           \/ /\ Presented \in Tokens /\ Presented # Blank
              /\ Verdict = VerifyAccessToken(Presented)
<1>1. Presented = ExtractBearerToken(attempt.header)
  BY DEF Presented
<1>2. Presented \in Tokens \cup {Blank}
  BY <1>1, AttemptFacts, HeaderFacts
<1>3. Verdict = IF Presented = Blank THEN "nothing to verify"
                ELSE VerifyAccessToken(Presented)
  <2>1. attempt.is # "edge"
    OBVIOUS
  <2>. QED
    BY <2>1, Zenon DEF Verdict
<1>4. CASE Presented = Blank
  <2>1. Verdict = "nothing to verify"
    BY <1>3, <1>4, Zenon
  <2>. QED
    BY <1>4, <2>1
<1>5. CASE Presented # Blank
  <2>1. Verdict = VerifyAccessToken(Presented)
    BY <1>3, <1>5, Zenon
  <2>. QED
    BY <1>2, <1>5, <2>1
<1>. QED
  BY <1>4, <1>5

\* Each door accepts exactly what its issuer signed, for a person, for this
\* application and in date (tokens.ts, cloudflare-access.ts).
THEOREM DoorsTakeOnlyTheirs == Spec => []AcceptedAreIssued
<1>1. TypeOK => AcceptedAreIssued
  <2>. SUFFICES ASSUME TypeOK PROVE AcceptedAreIssued
    OBVIOUS
  <2>1. ASSUME attempt.is = "bearer"
        PROVE  Verdict = "ok" <=> Presented = SignAccessToken(FALSE)
    <3>1. CASE Presented = Blank /\ Verdict = "nothing to verify"
      <4>1. Presented # SignAccessToken(FALSE)
        <5>1. SignAccessToken(FALSE) \in Tokens
          BY GoodAccessToken DEF Tokens
        <5>. QED
          BY <3>1, <5>1, BlankFacts, Zenon
      <4>. QED
        BY <3>1, <4>1
    <3>2. CASE Presented \in Tokens /\ Verdict = VerifyAccessToken(Presented)
      <4>1. CASE Presented \in Ours
        <5>1. \/ Presented.due /\ Verdict = "EXPIRED"
              \/ ~Presented.due /\ Verdict = "ok"
          BY <3>2, <4>1, BearerVerdicts
        <5>2. CASE Presented.due
          <6>1. Presented # SignAccessToken(FALSE)
            BY <5>2, GoodAccessToken, Zenon
          <6>2. Verdict # "ok"
            BY <5>1, <5>2
          <6>. QED
            BY <6>1, <6>2
        <5>3. CASE ~Presented.due
          <6>1. Presented = SignAccessToken(FALSE)
            BY <4>1, <5>3, GoodAccessToken, Zenon
          <6>2. Verdict = "ok"
            BY <5>1, <5>3
          <6>. QED
            BY <6>1, <6>2
        <5>. QED
          BY <5>2, <5>3
      <4>2. CASE Presented \notin Ours
        <5>1. Verdict \in {"INVALID_SIGNATURE", "MALFORMED"}
          BY <3>2, <4>2, BearerVerdicts DEF Tokens
        <5>2. Presented # SignAccessToken(FALSE)
          BY <4>2, GoodAccessToken
        <5>. QED
          BY <5>1, <5>2
      <4>. QED
        BY <4>1, <4>2
    <3>. QED
      BY <2>1, <3>1, <3>2, BearerFacts
  <2>2. ASSUME attempt.is = "edge"
        PROVE  Verdict = "ok" <=>
                 /\ Presented = EdgeToken("known", "ours", Claims, FALSE)
                 /\ attempt.keySet = "fetched"
    <3>1. /\ Presented = attempt.token /\ attempt.token \in Tokens
          /\ attempt.keySet \in KeySets
          /\ Verdict = VerifyCfAccessToken(attempt.token, attempt.keySet)
      BY <2>2, AttemptFacts DEF Presented, Verdict
    <3>2. CASE attempt.token \in Edge
      <4>1. attempt.token \notin Forged
        BY <3>2, KindsDiffer
      <4>3. \/ /\ Verdict \in {"KEYS_UNAVAILABLE", "MALFORMED"}
               /\ \/ attempt.keySet \in {"slow", "invalid", "unreachable"}
                  \/ attempt.token.kid = "new"
            \/ /\ attempt.keySet = "fetched" /\ attempt.token.kid = "known"
               /\ Read(attempt.token, Verdict)
        BY <3>1, <3>2, <4>1, EdgeVerdicts DEF KeysMissing
      <4>4. CASE Verdict = "ok"
        <5>1. /\ attempt.keySet = "fetched" /\ attempt.token.kid = "known"
              /\ attempt.token.aud = "ours" /\ ~attempt.token.due
              /\ "email" \in attempt.token.claims
          BY <4>3, <4>4 DEF Read
        <5>2. attempt.token = GoodEdge
          BY <3>2, <5>1, GoodEdgeToken, Zenon
        <5>. QED
          BY <3>1, <4>4, <5>1, <5>2 DEF GoodEdge
      <4>5. CASE attempt.token = GoodEdge /\ attempt.keySet = "fetched"
        <5>1. /\ attempt.token.kid = "known" /\ attempt.token.aud = "ours"
              /\ ~attempt.token.due /\ "email" \in attempt.token.claims
          <6>1. attempt.token = GoodEdge
            BY <4>5
          <6>. QED
            BY <6>1, GoodEdgeToken, Zenon
        <5>2. Read(attempt.token, Verdict)
          BY <4>3, <4>5, <5>1
        <5>3. Verdict = "ok"
          BY <5>1, <5>2 DEF Read
        <5>. QED
          BY <3>1, <4>5, <5>3 DEF GoodEdge
      <4>. QED
        BY <3>1, <4>4, <4>5 DEF GoodEdge
    <3>3. CASE attempt.token \notin Edge
      <4>1. Verdict \in {"INVALID_SIGNATURE", "MALFORMED", "KEYS_UNAVAILABLE"}
        BY <3>1, <3>3, EdgeVerdicts DEF Tokens
      <4>2. attempt.token # EdgeToken("known", "ours", Claims, FALSE)
        BY <3>3, GoodEdgeToken DEF GoodEdge
      <4>. QED
        BY <3>1, <4>1, <4>2
    <3>. QED
      BY <3>2, <3>3
  <2>. QED
    BY <2>1, <2>2 DEF AcceptedAreIssued
<1>. QED
  BY <1>1, LibraryTypeCorrect, PTL

\* What the log says of a refused token is so, but for a key set that cannot be
\* fetched at all: no token of the issuer is called a forgery, a missing key is
\* named, and MALFORMED is left for what is no token and for that one case
\* (tokens.ts: classifyVerificationFailure; cloudflare-access.ts:
\* classifyAccessFailure).
THEOREM RefusalsExplained == Spec => []RefusalsAreExplained
<1>1. TypeOK => RefusalsAreExplained
  <2>. SUFFICES ASSUME TypeOK PROVE RefusalsAreExplained
    OBVIOUS
  <2>. DEFINE Explained(issued) ==
         /\ Verdict \in {"EXPIRED", "WRONG_AUDIENCE", "WRONG_ISSUER",
                         "NO_EMAIL_CLAIM"} => Presented \in issued
         /\ Verdict = "EXPIRED" => Presented.due
         /\ Verdict = "KEYS_UNAVAILABLE" => KeyMissing
         /\ attempt.is = "edge" /\ Presented \in Edge /\ KeyMissing =>
              Verdict = "KEYS_UNAVAILABLE"
         /\ Verdict = "MALFORMED" =>
              \/ Presented = Garbage
              \/ attempt.is = "edge" /\ attempt.keySet = "unreachable"
         /\ Presented \in issued => Verdict # "INVALID_SIGNATURE"
  <2>1. ASSUME attempt.is = "bearer" PROVE Explained(Ours)
    <3>. attempt.is # "edge"
      BY <2>1
    <3>1. CASE Presented = Blank /\ Verdict = "nothing to verify"
      BY <3>1
    <3>2. CASE Presented \in Tokens /\ Verdict = VerifyAccessToken(Presented)
      <4>1. CASE Presented \in Ours
        <5>1. \/ Presented.due /\ Verdict = "EXPIRED"
              \/ ~Presented.due /\ Verdict = "ok"
          BY <3>2, <4>1, BearerVerdicts
        <5>. QED
          BY <4>1, <5>1
      <4>2. CASE Presented \notin Ours
        <5>1. \/ Verdict = "INVALID_SIGNATURE"
              \/ Presented = Garbage /\ Verdict = "MALFORMED"
          BY <3>2, <4>2, BearerVerdicts DEF Tokens
        <5>. QED
          BY <4>2, <5>1
      <4>. QED
        BY <4>1, <4>2
    <3>. QED
      BY <2>1, <3>1, <3>2, BearerFacts
  <2>2. ASSUME attempt.is = "edge" PROVE Explained(Edge)
    <3>1. /\ Presented = attempt.token /\ attempt.token \in Tokens
          /\ attempt.keySet \in KeySets
          /\ Verdict = VerifyCfAccessToken(attempt.token, attempt.keySet)
      BY <2>2, AttemptFacts DEF Presented, Verdict
    <3>2. KeyMissing <=> KeysMissing(attempt.token, attempt.keySet)
      BY <3>1 DEF KeyMissing, KeysMissing
    <3>3. CASE attempt.token \in Edge
      <4>1. attempt.token \notin Forged
        BY <3>3, KindsDiffer
      <4>2. \/ Verdict = "KEYS_UNAVAILABLE" /\ KeyMissing
            \/ /\ Verdict = "MALFORMED" /\ attempt.keySet = "unreachable"
               /\ ~KeyMissing
            \/ Read(attempt.token, Verdict) /\ ~KeyMissing
        BY <3>1, <3>2, <3>3, <4>1, EdgeVerdicts DEF KeysMissing
      <4>. QED
        BY <2>2, <3>1, <3>3, <4>2 DEF Read
    <3>4. CASE attempt.token \in Forged
      <4>1. attempt.token \notin Edge
        BY <3>4, KindsDiffer
      <4>2. \/ Verdict = "KEYS_UNAVAILABLE" /\ KeyMissing
            \/ Verdict = "MALFORMED" /\ attempt.keySet = "unreachable"
            \/ Verdict = "INVALID_SIGNATURE"
        BY <3>1, <3>2, <3>4, <4>1, EdgeVerdicts
      <4>. QED
        BY <2>2, <3>1, <4>1, <4>2
    <3>5. CASE attempt.token \in Ours \cup {Garbage}
      <4>1. attempt.token \notin Edge
        BY <3>5, KindsDiffer
      <4>2. \/ Verdict = "INVALID_SIGNATURE"
            \/ Verdict = "MALFORMED" /\ attempt.token = Garbage
        BY <3>1, <3>5, EdgeVerdicts
      <4>. QED
        BY <3>1, <4>1, <4>2
    <3>. QED
      BY <3>1, <3>3, <3>4, <3>5 DEF Tokens
  <2>3. attempt.is = "bearer" => attempt.is # "edge"
    OBVIOUS
  <2>. QED
    BY <2>1, <2>2, <2>3 DEF RefusalsAreExplained
<1>. QED
  BY <1>1, LibraryTypeCorrect, PTL

\* A refused login costs what an accepted one does, and only the right password
\* of an account that has one is accepted (auth.service.ts: login).
THEOREM LoginsLookAlike == Spec => []RefusedLoginsLookAlike
<1>1. TypeOK => RefusedLoginsLookAlike
  <2>. SUFFICES ASSUME TypeOK, attempt.is = "login" PROVE RefusedLoginsLookAlike
    BY DEF RefusedLoginsLookAlike
  <2>. DEFINE password == attempt.password
              login == Login(attempt.address, password)
              Right == attempt.address = "seeded" /\ password = "the password"
  <2>1. /\ attempt.address \in {"unknown", "seeded", "provisioned"}
        /\ password \in {"the password", "another one"}
    BY AttemptFacts DEF Addresses, Passwords
  <2>2. ASSUME NEW plaintext
        PROVE  LET verified == VerifyPassword(HashPassword(plaintext), password)
               IN  verified.cost = 1 /\ (verified.ok <=> plaintext = password)
    BY DEF VerifyPassword, HashPassword
  <2>. DEFINE Goal == login.cost = 1 /\ (login.ok <=> Right)
  <2>3. ASSUME attempt.address = "unknown" PROVE Goal
    <3>1. login = [VerifyPassword(HashPassword("decoy"), password) EXCEPT !.ok = FALSE]
      BY <2>3 DEF Login, TIMING_DECOY_PASSWORD_HASH
    <3>2. login.cost = 1
      BY <2>2, <3>1 DEF VerifyPassword, HashPassword
    <3>3. ~login.ok
      BY <3>1 DEF VerifyPassword, HashPassword
    <3>. QED
      BY <2>3, <3>2, <3>3
  <2>4. ASSUME attempt.address = "seeded" PROVE Goal
    <3>1. login = VerifyPassword(HashPassword("the password"), password)
      BY <2>4 DEF Login
    <3>2. login.cost = 1 /\ (login.ok <=> "the password" = password)
      BY <2>2, <3>1
    <3>. QED
      BY <2>4, <3>2
  <2>5. ASSUME attempt.address = "provisioned" PROVE Goal
    <3>1. login = VerifyPassword(HashPassword("random bytes"), password)
      BY <2>5 DEF Login, UnusablePasswordHash
    <3>2. login.cost = 1 /\ (login.ok <=> "random bytes" = password)
      BY <2>2, <3>1
    <3>. QED
      BY <2>1, <2>5, <3>2
  <2>6. Goal
    BY <2>1, <2>3, <2>4, <2>5
  <2>. QED
    BY <2>6 DEF RefusedLoginsLookAlike
<1>. QED
  BY <1>1, LibraryTypeCorrect, PTL
=============================================================================

---------------------------- MODULE HttpContract ----------------------------
(***************************************************************************)
(* One HTTP exchange, from the request to what the web client makes of the *)
(* answer:                                                                 *)
(*   apps/api/src/modules/auth, modules/health      what a route takes,    *)
(*                                     answers and declares                *)
(*   apps/api/src/plugins/errorHandler.ts, lib/errors.ts   errors          *)
(*   packages/contracts                the envelope, the shared schemas    *)
(*   apps/web/src/api/http.ts, errors.ts    the transport of the client    *)
(*   apps/web/src/api/endpoints.ts     what it does with an outcome        *)
(* What is between the two, nginx and the edge, may lose an answer or put  *)
(* one of its own in the place of it.                                      *)
(***************************************************************************)
EXTENDS Naturals, Sequences

CONSTANT Absent   \* a key that is not in the JSON object

Posts == {"login", "refresh", "logout"}
Routes == Posts \cup {"health", "me"}
Unknown == "unknown"                      \* any other URL

Codes == {"VALIDATION_ERROR", "UNAUTHENTICATED", "NOT_FOUND", "CONFLICT",
          "INTERNAL", "SERVICE_UNAVAILABLE"}
StatusOf(code) ==
    CASE code = "VALIDATION_ERROR" -> 400
      [] code = "UNAUTHENTICATED" -> 401
      [] code = "NOT_FOUND" -> 404
      [] code = "CONFLICT" -> 409
      [] code = "INTERNAL" -> 500
      [] code = "SERVICE_UNAVAILABLE" -> 503

\* The fields a body must have, and how a body may fail to have them: it is no
\* JSON, not declared as JSON, or too long; it is not there; fields are wrong.
FieldsOf(route) == CASE route = "login" -> {"email", "password"}
                     [] route \in {"refresh", "logout"} -> {"refresh_token"}
                     [] OTHER -> {}
Unparsable == {"notJson", "notTyped", "tooLong"}

\* What the code behind a route may do: answer, find no valid credential,
\* throw anything else, or answer what the response schema refuses.
Fates == {"answers", "unauthenticated", "throws", "misshapen"}

Requests ==
    (UNION {[route: {r}, body: {"json"}, wrong: SUBSET FieldsOf(r)] : r \in Posts})
      \cup [route: Posts, body: Unparsable \cup {"none"}, wrong: {{}}]
      \cup [route: {"health", "me", Unknown}, body: {"none"}, wrong: {{}}]

-----------------------------------------------------------------------------
(* The API.                                                                *)

\* The first thing that goes wrong: authenticate is an onRequest hook, so it
\* runs before anything is parsed; then the body is parsed, then validated;
\* then the handler runs, and its answer is serialised.
Thrown(req, fate) ==
    IF req.body \in Unparsable THEN "framework"
    ELSE IF req.route \in Posts /\ (req.body = "none" \/ req.wrong # {})
         THEN "validation"
    ELSE IF fate = "unauthenticated" THEN "unauthenticated"
    ELSE IF fate = "throws" THEN "unexpected"
    ELSE IF fate = "misshapen" THEN "serialization"
    ELSE "nothing"

Envelope(code, message, fields) ==
    [kind |-> "envelope", code |-> code, message |-> message, fields |-> fields]

\* What is not there is not taken for an envelope.
ASSUME HttpAssumption ==
    \A code \in Codes,
       fields \in {Absent} \cup (UNION {SUBSET FieldsOf(r) : r \in Posts}) :
        Absent # Envelope(code, "fixed", fields)

ErrorReply(code, message, fields) ==
    [status |-> StatusOf(code), body |-> Envelope(code, message, fields)]
JsonReply(status) == [status |-> status, body |-> [kind |-> "value"]]
EmptyReply == [status |-> 204, body |-> [kind |-> "empty"]]

\* Mutant: what the framework threw keeps the status it came with.
HandleError_Framework(thrown, wrong) ==
    CASE thrown = "validation" -> ErrorReply("VALIDATION_ERROR", "fixed", wrong)
      [] thrown = "unauthenticated" ->
           ErrorReply("UNAUTHENTICATED", "fixed", Absent)
      [] thrown = "framework" ->
           [status |-> 415, body |-> Envelope("INTERNAL", "fixed", Absent)]
      [] OTHER -> ErrorReply("INTERNAL", "fixed", Absent)

\* registerErrorHandler.  The errors the framework raises itself are none the
\* handler knows and are answered like any unexpected one.  "fixed" is a text
\* of ours, "cause" would be that of the thrown error.
HandleError(thrown, wrong) ==
    CASE thrown = "validation" -> ErrorReply("VALIDATION_ERROR", "fixed", wrong)
      [] thrown = "unauthenticated" ->
           ErrorReply("UNAUTHENTICATED", "fixed", Absent)
      [] OTHER -> ErrorReply("INTERNAL", "fixed", Absent)

\* health never throws: its two answers have the same shape.
Answer(route, fate) ==
    CASE route = "logout" -> EmptyReply
      [] route = "health" -> JsonReply(IF fate = "answers" THEN 200 ELSE 503)
      [] OTHER -> JsonReply(200)

Serve(req, fate) ==
    IF req.route = Unknown THEN ErrorReply("NOT_FOUND", "fixed", Absent)
    ELSE IF req.route = "health" THEN Answer("health", fate)
    ELSE IF Thrown(req, fate) = "nothing" THEN Answer(req.route, fate)
    ELSE HandleError(Thrown(req, fate), req.wrong)

\* The fates a route's code can have.
FatesOf(route) ==
    CASE route \in {"login", "refresh", "me"} -> Fates
      [] route = "logout" -> {"answers", "throws"}
      [] route = "health" -> {"answers", "throws"}
      [] OTHER -> {"answers"}

\* Mutant: the health module is registered before the document's hook.
Registered_Early == <<"errors", "health", "openapi", "auth">>

\* buildServer registers in this order; the document has the routes of the
\* modules after it, with the statuses their schemas declare.
Registered == <<"errors", "openapi", "health", "auth">>

RoutesIn(module) == CASE module = "health" -> {"health"}
                      [] module = "auth" -> Posts \cup {"me"}
                      [] OTHER -> {}
After(module) == {Registered[i] : i \in {j \in 1 .. Len(Registered) :
                    \E k \in 1 .. j - 1 : Registered[k] = module}}
Documented == UNION {RoutesIn(m) : m \in After("openapi")}
Declared(route) == CASE route \in {"login", "refresh"} -> {200, 400, 401}
                     [] route = "logout" -> {204, 400}
                     [] route = "me" -> {200, 401}
                     [] route = "health" -> {200, 503}

-----------------------------------------------------------------------------
(* The way back, and the client.                                           *)

\* nginx or the edge: the answer arrives, is lost, is an error page of the
\* proxy, or is the login page the edge redirects to.
Ways == {"intact", "lost", "proxyError", "loginPage"}
Delivered(reply, way) ==
    CASE way = "intact" -> reply
      [] way = "proxyError" -> [status |-> 502, body |-> [kind |-> "html"]]
      [] way = "loginPage" -> [status |-> 200, body |-> [kind |-> "html"]]

\* fetchHealth takes a 503 for an answer.
AcceptStatuses(route) == IF route = "health" THEN {200, 503} ELSE {}
IsSuccess(route, status) == status \in 200 .. 299 \/ status \in AcceptStatuses(route)

\* Errors carry a message: that of the envelope, one of the client's own, or,
\* as nothing catches what fetch and response.json throw, the browser's.
Error(kind, message) == [kind |-> kind, message |-> message]

\* toApiError: ErrorResponseSchema decides whether there is an envelope.
ToApiError(reply) ==
    LET enveloped == reply.body.kind = "envelope"
    IN  [kind |-> "apiError", status |-> reply.status,
         message |-> IF enveloped THEN reply.body.message ELSE "client's",
         body |-> IF enveloped THEN reply.body ELSE Absent]

\* rawRequest: fetch rejects when nothing arrives, and so does reading JSON
\* where there is none.
Receive(route, reply, way) ==
    IF way = "lost" THEN Error("networkError", "browser's")
    ELSE LET got == Delivered(reply, way)
         IN  IF ~IsSuccess(route, got.status) THEN ToApiError(got)
             ELSE IF got.status = 204 THEN [kind |-> "nothing"]
             ELSE IF got.body.kind = "html"
                  THEN Error("syntaxError", "browser's")
             ELSE [kind |-> "value", status |-> got.status]

\* Mutant: every failed answer makes the client refresh.
IsUnauthorized_Any(result) == result.kind = "apiError"

IsUnauthorized(result) == result.kind = "apiError" /\ result.status = 401

\* GET /me is the one request that goes through apiRequest, which sets out to
\* refresh if there is a refresh token; a refused login, refresh or logout is
\* not followed by a refresh.
SetsOutToRefresh(route, result) == route = "me" /\ IsUnauthorized(result)

\* login and performRefresh take what rawRequest resolves to for a pair.
StoresPair(route, result) == route \in {"login", "refresh"} /\ result.kind = "value"

\* What the login page shows of an error.
ErrorMessageOf(error, fallback) ==
    IF error.message # "" THEN error.message ELSE fallback
=============================================================================

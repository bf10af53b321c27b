------------------------------ MODULE HttpAccess ------------------------------
(***************************************************************************)
(* The way of one HTTP call through the middleware of app.ts and routes.ts:*)
(* express.json, the health routes, the internal router behind serviceAuth,*)
(* the public router behind userAuth with a role guard per route, and the  *)
(* controller with its schema and the use-case's checks of the body.  One  *)
(* action per layer; a call that fails in one goes to the error mapper.    *)
(* What the handlers do to the tables is in the other modules: here they   *)
(* may refuse for a reason of theirs (404, 409), fail at a query or at the *)
(* publication, or succeed.                                                *)
(***************************************************************************)
EXTENDS RequestValidation

CONSTANTS
    NoToken,    \* the header is missing or is not a Bearer header
    Headers,    \* what the two authorization headers of a call may hold
    SomeBodies  \* the bodies a call may have

\* What a JWT is to the verifiers: the key that signed it with HS256, and its claims.
Tokens ==
    [key : {"user", "service", "other"}, expired : BOOLEAN,
     sub : {"uuid", "hexdash", "svc", "text", "none"}, aud : {"user-service", "other"},
     role : {"customer", "driver", "admin", "none"}]

ASSUME HeadersOK == NoToken \notin Tokens /\ Headers \subseteq Tokens \cup {NoToken}
ASSUME BodiesOK  == SomeBodies \subseteq Bodies

VARIABLES
    call,       \* the call: method, path, the two headers, does express.json
                \* take its body, can the parameter of its path be decoded?
    stage,      \* the layer it has reached
    body,       \* what its body says, once a controller looks at it
    fault,      \* did a query or the publication throw through no fault of the call?
    status      \* the answer: an HTTP status; 0 as long as there is none

vars == <<call, stage, body, fault, status>>

-----------------------------------------------------------------------------
Methods == {"GET", "POST", "PATCH", "PUT", "DELETE"}

HealthPaths == {"/healthz", "/readyz"}

InternalPaths == {"/internal/drivers/:userId", "/internal/addresses/:addressId", "/internal/*"}

UserPaths == {"/me", "/me/default-address", "/me/addresses", "/me/addresses/:id", "/me/driver",
              "/me/availability", "/me/*"}

ParamPaths == {"/internal/drivers/:userId", "/internal/addresses/:addressId", "/me/addresses/:id"}

\* "*" and "/*" stand for every path that no route names.
Calls ==
    {c \in [method : Methods, path : HealthPaths \cup InternalPaths \cup UserPaths \cup {"/*"},
            user : Headers, service : Headers, json : BOOLEAN, decodes : BOOLEAN] :
        c.path \notin ParamPaths => c.decodes}

Route(c) == <<c.method, c.path>>

InternalRoutes == {<<"GET", "/internal/drivers/:userId">>, <<"GET", "/internal/addresses/:addressId">>}

NotAdminRoutes ==
    {<<"PATCH", "/me">>, <<"PUT", "/me/default-address">>, <<"GET", "/me/addresses">>,
     <<"POST", "/me/addresses">>, <<"PATCH", "/me/addresses/:id">>, <<"DELETE", "/me/addresses/:id">>}

DriverRoutes == {<<"PATCH", "/me/driver">>, <<"PUT", "/me/availability">>}

PublicRoutes == {<<"GET", "/me">>} \cup NotAdminRoutes \cup DriverRoutes

\* An error mapper that passes on the status of any error (mutant).
OwnStatus(err) ==
    CASE err = "validation_failed" -> 400
      [] err = "unauthorized"      -> 401
      [] err = "role_required"     -> 403
      [] err = "not_found"         -> 404
      [] err = "conflict"          -> 409
      [] OTHER                     -> 413

\* errors.ts and the error mapper: whatever is no DomainError is a 500.
StatusOf(err) ==
    CASE err = "validation_failed" -> 400
      [] err = "unauthorized"      -> 401
      [] err = "role_required"     -> 403
      [] err = "not_found"         -> 404
      [] err = "conflict"          -> 409
      [] OTHER                     -> 500

TypeOK ==
    /\ call \in Calls
    /\ stage \in {"json", "routes", "internal", "public", "handler", "done"}
    /\ body \in Bodies
    /\ fault \in BOOLEAN
    /\ status \in {0, 200, 400, 401, 403, 404, 409, 500, 503}

Init ==
    /\ call \in Calls
    /\ stage = "json"
    /\ body = [f \in Fields |-> Absent]
    /\ fault = FALSE
    /\ status = 0

-----------------------------------------------------------------------------
(* Tokens and guards *)

\* jsonwebtoken's verify.
Genuine(t, key) == t # NoToken /\ t.key = key /\ ~t.expired

ValidUser(t) == Genuine(t, "user") /\ t.sub # "none" /\ t.role # "none"

\* Verifiers that forget the audience (mutant).
AnyAudience(t) == Genuine(t, "service") /\ t.sub = "svc"

ValidService(t) == Genuine(t, "service") /\ t.aud = "user-service" /\ t.sub = "svc"

\* The public router mounted before the internal one (mutant).
PublicFirst(path) == IF path \in InternalPaths \cup UserPaths THEN "public" ELSE "done"

\* The router a path comes to first.
FirstRouter(path) ==
    IF path \in InternalPaths THEN "internal" ELSE IF path \in UserPaths THEN "public" ELSE "done"

\* requireRole and rejectRole.
RoleAllows(route, role) ==
    /\ route \in DriverRoutes => role = "driver"
    /\ route \in NotAdminRoutes => role # "admin"

-----------------------------------------------------------------------------
(* The layers *)

Go(to) == stage' = to /\ UNCHANGED <<call, body, fault, status>>

Answer(s) == stage' = "done" /\ status' = s /\ UNCHANGED <<call, body, fault>>

Fail(err) == Answer(StatusOf(err))

\* body-parser's error carries the status 400 or 413, which nobody reads.
ParseJson ==
    /\ stage = "json"
    /\ \/ call.json /\ Go("routes")
       \/ ~call.json /\ Fail("unhandled")

\* The health routes ask for nothing; Express itself answers what no router takes.
MatchRouter ==
    /\ stage = "routes"
    /\ \/ call.method = "GET" /\ call.path \in HealthPaths /\ Answer(200)
       \/ call.method = "GET" /\ call.path = "/readyz" /\ Answer(503)
       \/ /\ ~(call.method = "GET" /\ call.path \in HealthPaths)
          /\ IF FirstRouter(call.path) = "done" THEN Answer(404) ELSE Go(FirstRouter(call.path))

\* Express decodes a path's parameter before it compares the method and runs
\* the guards of the route; a bad percent-encoding is an error of its own.
\* A call without a route here falls through to the public router.
PassInternal ==
    /\ stage = "internal"
    /\ \/ ~ValidService(call.service) /\ Fail("unauthorized")
       \/ ValidService(call.service) /\ ~call.decodes /\ Fail("unhandled")
       \/ ValidService(call.service) /\ call.decodes
          /\ Go(IF Route(call) \in InternalRoutes THEN "handler" ELSE "public")

PassPublic ==
    /\ stage = "public"
    /\ \/ ~ValidUser(call.user) /\ Fail("unauthorized")
       \/ ValidUser(call.user) /\ ~call.decodes /\ Fail("unhandled")
       \/ /\ ValidUser(call.user) /\ call.decodes
          /\ \/ Route(call) \notin PublicRoutes /\ Answer(404)
             \/ Route(call) \in PublicRoutes /\ ~RoleAllows(Route(call), call.user.role)
                /\ Fail("role_required")
             \/ Route(call) \in PublicRoutes /\ RoleAllows(Route(call), call.user.role)
                /\ Go("handler")

-----------------------------------------------------------------------------
(* The controllers *)

AddressFields == {"label", "street", "city", "country", "lat", "lng"}

FieldsOf(route) ==
    CASE route = <<"PATCH", "/me">>        -> {"displayName", "phone"}
      [] route = <<"PATCH", "/me/driver">> -> {"licensePlate"}
      [] route \in {<<"POST", "/me/addresses">>, <<"PATCH", "/me/addresses/:id">>} -> AddressFields
      [] OTHER                             -> {}

\* Only POST requires its fields, and only a phone may be null.
SchemaAdmits(route, b) ==
    \A f \in FieldsOf(route) :
        CASE b[f] = Absent -> route # <<"POST", "/me/addresses">>
          [] b[f] = Null   -> f = "phone"
          [] OTHER         -> Admitted(f, b[f])

\* The synthetic profile of an admin needs no query.
NeedsNoQuery(c) == Route(c) = <<"GET", "/me">> /\ c.user.role = "admin"

\* UserId.of admits any 36 digits and dashes; Prisma refuses to query a uuid
\* column with them.  These routes query by the address, and find it another's.
QueryByAddress ==
    {<<"PATCH", "/me/addresses/:id">>, <<"DELETE", "/me/addresses/:id">>, <<"PUT", "/me/default-address">>}

ForUser(c) == Route(c) \in PublicRoutes

LatWithoutLng(b) == (b["lat"] = Absent) # (b["lng"] = Absent)

Refuses(route, b) == \E f \in FieldsOf(route) : Given(b[f]) /\ ~Accepted(f, b[f])

ColumnsRefuse(route, b) ==
    \E f \in FieldsOf(route) : Given(b[f]) /\ ~ColumnHolds(f, Stored(f, b[f]))

Subject(c) == IF ForUser(c) THEN c.user.sub ELSE "uuid"

\* What is thrown before the first query; wellTyped: ids, enums and JSON types are right.
EarlyError(b, wellTyped) ==
    IF ~wellTyped \/ ~SchemaAdmits(Route(call), b) THEN "validation_failed"
    ELSE IF Subject(call) \notin {"uuid", "hexdash"} THEN "invalid_user_id"
    ELSE IF Route(call) = <<"PATCH", "/me/addresses/:id">> /\ LatWithoutLng(b) THEN "validation_failed"
    ELSE "none"

\* The answers of a use-case whose queries and publication work.
Outcomes(b) ==
    IF NeedsNoQuery(call) THEN {200}
    ELSE IF Subject(call) = "hexdash"
         THEN {StatusOf(IF Route(call) \in QueryByAddress THEN "not_found" ELSE "unhandled")}
    ELSE IF Refuses(Route(call), b) \/ ColumnsRefuse(Route(call), b)
         THEN {StatusOf("not_found"), StatusOf("unhandled")}
    ELSE {200, StatusOf("not_found"), StatusOf("conflict")}

\* faulty: the database fails, an update finds its row taken away by another
\* operation, or the channel is closed.
Handle(b, wellTyped, faulty) ==
    LET err == EarlyError(b, wellTyped) IN
    /\ stage = "handler"
    /\ \A f \in Fields \ FieldsOf(Route(call)) : b[f] = Absent
    /\ faulty => err = "none" /\ ~NeedsNoQuery(call)
    /\ fault' = faulty
    /\ body' = b
    /\ status' \in IF err # "none" THEN {StatusOf(err)}
                  ELSE IF faulty THEN {StatusOf("unhandled")} ELSE Outcomes(b)
    /\ stage' = "done"
    /\ UNCHANGED call

Done == stage = "done" /\ UNCHANGED vars

Next ==
    \/ ParseJson
    \/ MatchRouter
    \/ PassInternal
    \/ PassPublic
    \/ \E b \in SomeBodies, wellTyped, faulty \in BOOLEAN : Handle(b, wellTyped, faulty)
    \/ Done

Spec == Init /\ [][Next]_vars

-----------------------------------------------------------------------------
(* Properties *)

\* README "HTTP endpoints", the column "Auth".
Documented(c) ==
    LET byUser(roles) == ValidUser(c.user) /\ c.user.role \in roles IN
    CASE Route(c) = <<"GET", "/me">>    -> byUser({"customer", "driver", "admin"})
      [] Route(c) \in NotAdminRoutes    -> byUser({"customer", "driver"})
      [] Route(c) \in DriverRoutes      -> byUser({"driver"})
      [] Route(c) \in InternalRoutes    -> /\ c.service # NoToken
                                           /\ c.service.key = "service" /\ ~c.service.expired
                                           /\ c.service.aud = "user-service" /\ c.service.sub = "svc"
      [] OTHER                          -> FALSE

\* A controller is reached only by the calls its documented row admits,
\* whichever routers and guards the call has passed.
HandlersAreGated == stage = "handler" => Documented(call)

\* A call its documented row admits is never refused for want of credentials:
\* the internal routes do not ask for a user's token.
DocumentedAreAdmitted == Documented(call) => status \notin {401, 403}

\* A body that is accepted fits the columns and can be read back from them.
AcceptedCanBeReadBack ==
    status = 200 =>
        \A f \in Fields : Given(body[f]) =>
            ColumnHolds(f, Stored(f, body[f])) /\ Reloads(f, Stored(f, body[f]))

\* A call ends as a 500 only for a body express.json refuses, a path it cannot
\* decode, a token whose subject is no uuid, a query or a publication that
\* fails, or one of the three places where the schemas admit more than the value
\* objects and columns take: nowhere else do the limits disagree.
OnlyKnownGaps ==
    status = 500 =>
        \/ ~call.json \/ ~call.decodes
        \/ call.user # NoToken /\ call.user.sub # "uuid"
        \/ fault
        \/ \E f \in Fields : Given(body[f]) /\ BeyondSchema(f, body[f])
=============================================================================

-------------------------- MODULE HttpAccess_proofs --------------------------
(***************************************************************************)
(* Who reaches a controller, who is refused, and what the limits on a body *)
(* let through, proved for any set of headers and of bodies: texts of any  *)
(* length and any number as a coordinate.                                  *)
(*                                                                         *)
(* The guards of a layer are known only as long as the call is in it.  Inv *)
(* adds what a call has proved by reaching a layer, and that nobody looks  *)
(* at the body before a controller does.                                   *)
(***************************************************************************)
EXTENDS HttpAccess, TLAPS

\* A call that reaches the public router is none of the internal API, whether
\* it came there directly or fell through.
PublicIsNotInternal == stage = "public" => Route(call) \notin InternalRoutes

InternalByPath == stage = "internal" => call.path \in InternalPaths

Unanswered == stage # "done" => status = 0 /\ body = [f \in Fields |-> Absent]

Inv ==
    /\ TypeOK
    /\ PublicIsNotInternal
    /\ InternalByPath
    /\ Unanswered
    /\ HandlersAreGated
    /\ DocumentedAreAdmitted
    /\ AcceptedCanBeReadBack
    /\ OnlyKnownGaps

-----------------------------------------------------------------------------
(* The limits of a single value *)

\* A value of the kind a field takes.
Takes(f, v) == IF f \in TextFields THEN v \in Texts ELSE v \in Angles

LEMMA FieldNames ==
    /\ TextFields = {"displayName", "phone", "label", "street", "city", "country", "licensePlate"}
    /\ AngleFields = {"lat", "lng"}
    /\ Fields = TextFields \cup AngleFields
BY DEF TextFields, AngleFields, Fields, SchemaMax, AngleLimit

LEMMA GivenIsTaken ==
    ASSUME NEW b \in Bodies, NEW f \in Fields, Given(b[f])
    PROVE  Takes(f, b[f])
BY FieldNames DEF Bodies, Given, Takes

\* Within the schema's limits, only the three known gaps make the value objects
\* or the columns refuse a value.
LEMMA SchemaSuffices ==
    ASSUME NEW f \in Fields, NEW v, Takes(f, v), Admitted(f, v), ~BeyondSchema(f, v)
    PROVE  Accepted(f, v) /\ ColumnHolds(f, Stored(f, v))
<1>1. CASE f \in AngleFields
  BY <1>1, FieldNames DEF Admitted, Accepted, ColumnHolds
<1>2. CASE f = "phone"
  <2>1. v \in Texts /\ v.length \in 7 .. 20 /\ v.trimmed >= 7 /\ v.storable
    BY <1>2, FieldNames DEF Takes, Admitted, BeyondSchema, SchemaMin, SchemaMax, Texts
  <2>2. Accepted(f, v)
    <3>1. v.trimmed \in 7 .. 20
      BY <2>1 DEF Texts
    <3> QED
      BY <1>2, <3>1, FieldNames DEF Accepted, PhoneOf
  <2>3. Stored(f, v).length = v.trimmed /\ Stored(f, v).storable
    BY <1>2, <2>1, FieldNames DEF Stored, Texts
  <2> QED
    BY <1>2, <2>1, <2>2, <2>3 DEF ColumnHolds, ColumnMax, Texts
<1>3. CASE f \in TextFields \ {"phone"}
  <2>1. v \in Texts /\ v.length \in SchemaMin[f] .. SchemaMax[f] /\ v.storable
    BY <1>3, FieldNames DEF Takes, Admitted, BeyondSchema
  <2>2. Stored(f, v) = v
    BY <1>3, FieldNames DEF Stored
  <2>3. f = "country" => v.letters
    BY DEF BeyondSchema
  <2> QED
    BY <1>3, <2>1, <2>2, <2>3, FieldNames
       DEF Accepted, CountryOf, ColumnHolds, SchemaMin, SchemaMax, EntityMax, ColumnMax, Texts
<1> QED
  BY <1>1, <1>2, <1>3, FieldNames

\* Trimming a phone and rounding a coordinate do not leave the limits.
LEMMA StoredReloads ==
    ASSUME NEW f \in Fields, NEW v, Takes(f, v), Admitted(f, v), Accepted(f, v)
    PROVE  Reloads(f, Stored(f, v))
<1>1. CASE f = "phone"
  <2>1. v \in Texts
    BY <1>1, FieldNames DEF Takes
  <2>2. Stored(f, v).trimmed = v.trimmed
    BY <1>1, <2>1, FieldNames DEF Stored, Texts
  <2> QED
    BY <1>1, <2>2, FieldNames DEF Reloads, Accepted, PhoneOf
<1>2. CASE f = "country"
  BY <1>2, FieldNames DEF Reloads, Stored
<1>3. CASE f \in AngleFields
  <2>1. Stored(f, v) = [angle |-> 10 * ((v.angle + 5) \div 10)]
    BY <1>3, FieldNames DEF Stored
  <2>2. v.angle \in Int
    BY <1>3, FieldNames DEF Takes, Angles
  <2>3. PICK n \in {90, 180} : AngleLimit[f] = n * 10000000
    BY <1>3, FieldNames DEF AngleLimit, Degree
  <2>4. -AngleLimit[f] <= v.angle /\ v.angle <= AngleLimit[f]
    BY <1>3 DEF Admitted, InRange
  <2>5. InRange(f, Stored(f, v))
    BY <2>1, <2>2, <2>3, <2>4 DEF InRange
  <2> QED
    BY <1>3, <2>5, FieldNames DEF Reloads, Accepted
<1>4. CASE f \notin {"phone", "country"} \cup AngleFields
  BY <1>4 DEF Reloads
<1> QED
  BY <1>1, <1>2, <1>3, <1>4

-----------------------------------------------------------------------------
(* The statuses of errors *)

LEMMA ErrorStatuses ==
    /\ StatusOf("validation_failed") = 400
    /\ StatusOf("unauthorized") = 401
    /\ StatusOf("role_required") = 403
    /\ StatusOf("not_found") = 404
    /\ StatusOf("conflict") = 409
    /\ StatusOf("unhandled") = 500
    /\ StatusOf("invalid_user_id") = 500
BY DEF StatusOf

LEMMA RoutesApart == PublicRoutes \cap InternalRoutes = {}
BY DEF PublicRoutes, NotAdminRoutes, DriverRoutes, InternalRoutes

LEMMA InternalRoutesByPath ==
    ASSUME NEW c \in Calls, Route(c) \in InternalRoutes
    PROVE  c.path \in InternalPaths
BY DEF Route, InternalRoutes, InternalPaths

LEMMA UserHeader ==
    ASSUME NEW c \in Calls, ValidUser(c.user)
    PROVE  c.user \in Tokens /\ c.user.role \in {"customer", "driver", "admin"}
BY HeadersOK DEF Calls, ValidUser, Genuine, Tokens

\* The guards of the public router are the documented rows of its routes.
LEMMA PublicGuards ==
    ASSUME NEW c \in Calls, Route(c) \in PublicRoutes
    PROVE  Documented(c) <=> ValidUser(c.user) /\ RoleAllows(Route(c), c.user.role)
<1>0. Route(c) \notin InternalRoutes
  BY RoutesApart
<1>1. CASE Route(c) = <<"GET", "/me">>
  <2>1. Route(c) \notin NotAdminRoutes /\ Route(c) \notin DriverRoutes
    BY <1>1 DEF NotAdminRoutes, DriverRoutes
  <2>2. Documented(c) <=> ValidUser(c.user) /\ c.user.role \in {"customer", "driver", "admin"}
    BY <1>0, <1>1, <2>1 DEF Documented
  <2> QED
    BY <2>1, <2>2, UserHeader DEF RoleAllows
<1>2. CASE Route(c) \in NotAdminRoutes
  <2>1. Route(c) # <<"GET", "/me">> /\ Route(c) \notin DriverRoutes
    BY <1>2 DEF NotAdminRoutes, DriverRoutes
  <2>2. Documented(c) <=> ValidUser(c.user) /\ c.user.role \in {"customer", "driver"}
    BY <1>0, <1>2, <2>1 DEF Documented
  <2> QED
    BY <1>2, <2>1, <2>2, UserHeader DEF RoleAllows
<1>3. CASE Route(c) \in DriverRoutes
  <2>1. Route(c) # <<"GET", "/me">> /\ Route(c) \notin NotAdminRoutes
    BY <1>3 DEF NotAdminRoutes, DriverRoutes
  <2>2. Documented(c) <=> ValidUser(c.user) /\ c.user.role \in {"driver"}
    BY <1>0, <1>3, <2>1 DEF Documented
  <2> QED
    BY <1>3, <2>1, <2>2 DEF RoleAllows
<1> QED
  BY <1>1, <1>2, <1>3 DEF PublicRoutes

\* The guard of the internal router is the documented row of its routes.
LEMMA InternalGuard ==
    ASSUME NEW c \in Calls, Route(c) \in InternalRoutes
    PROVE  Documented(c) <=> ValidService(c.service)
<1>1. Route(c) # <<"GET", "/me">> /\ Route(c) \notin NotAdminRoutes /\ Route(c) \notin DriverRoutes
  BY RoutesApart DEF PublicRoutes
<1> QED
  BY <1>1 DEF Documented, ValidService, Genuine

LEMMA OnlyRoutesAreDocumented ==
    ASSUME NEW c \in Calls, Documented(c)
    PROVE  Route(c) \in PublicRoutes \cup InternalRoutes
BY DEF Documented, PublicRoutes

LEMMA UserPathsApart == UserPaths \cap InternalPaths = {} /\ HealthPaths \cap InternalPaths = {}
BY DEF UserPaths, InternalPaths, HealthPaths

LEMMA RoutesNeedNoHealthPath ==
    ASSUME NEW c \in Calls, Route(c) \in PublicRoutes \cup InternalRoutes
    PROVE  c.path \in UserPaths \cup InternalPaths
BY DEF Route, PublicRoutes, NotAdminRoutes, DriverRoutes, InternalRoutes, UserPaths, InternalPaths

-----------------------------------------------------------------------------
(* The steps before a controller *)

LEMMA InitInv == Init => Inv
<1> SUFFICES ASSUME Init PROVE Inv
  OBVIOUS
<1>1. TypeOK
  BY FieldNames DEF Init, TypeOK, Bodies
<1>2. PublicIsNotInternal /\ InternalByPath /\ Unanswered
  BY DEF Init, PublicIsNotInternal, InternalByPath, Unanswered
<1>3. HandlersAreGated /\ DocumentedAreAdmitted /\ AcceptedCanBeReadBack /\ OnlyKnownGaps
  BY DEF Init, HandlersAreGated, DocumentedAreAdmitted, AcceptedCanBeReadBack, OnlyKnownGaps
<1> QED
  BY <1>1, <1>2, <1>3 DEF Inv

\* A call that is passed on keeps everything but what its new layer asks of it.
LEMMA GoInv ==
    ASSUME Inv, stage # "done", NEW to \in {"routes", "internal", "public", "handler"}, Go(to),
           to = "internal" => call.path \in InternalPaths,
           to = "public" => Route(call) \notin InternalRoutes,
           to = "handler" => Documented(call)
    PROVE  Inv'
<1>1. stage' = to /\ call' = call /\ body' = body /\ fault' = fault /\ status' = status /\ status = 0
  BY DEF Go, Inv, Unanswered
<1>2. TypeOK'
  BY <1>1 DEF Inv, TypeOK
<1>3. PublicIsNotInternal' /\ InternalByPath'
  BY <1>1 DEF PublicIsNotInternal, InternalByPath
<1>4. Unanswered'
  BY <1>1 DEF Inv, Unanswered
<1>5. HandlersAreGated'
  BY <1>1 DEF HandlersAreGated
<1>6. DocumentedAreAdmitted' /\ AcceptedCanBeReadBack' /\ OnlyKnownGaps'
  BY <1>1 DEF DocumentedAreAdmitted, AcceptedCanBeReadBack, OnlyKnownGaps
<1> QED
  BY <1>2, <1>3, <1>4, <1>5, <1>6 DEF Inv

\* An answer before a controller: nobody has seen the body.
LEMMA AnswerInv ==
    ASSUME Inv, stage # "done", NEW s \in {200, 401, 403, 404, 500, 503}, Answer(s),
           s \in {401, 403} => ~Documented(call),
           s = 500 => ~call.json \/ ~call.decodes
    PROVE  Inv'
<1>1. stage' = "done" /\ call' = call /\ body' = body /\ fault' = fault /\ status' = s
  BY DEF Answer
<1>2. TypeOK'
  BY <1>1 DEF Inv, TypeOK
<1>3. PublicIsNotInternal' /\ InternalByPath' /\ Unanswered' /\ HandlersAreGated'
  BY <1>1 DEF PublicIsNotInternal, InternalByPath, Unanswered, HandlersAreGated
<1>4. DocumentedAreAdmitted'
  BY <1>1 DEF DocumentedAreAdmitted
<1>5. \A f \in Fields : ~Given(body'[f])
  BY <1>1 DEF Inv, Unanswered, Given
<1>6. AcceptedCanBeReadBack'
  BY <1>5 DEF AcceptedCanBeReadBack
<1>7. OnlyKnownGaps'
  BY <1>1 DEF OnlyKnownGaps
<1> QED
  BY <1>2, <1>3, <1>4, <1>6, <1>7 DEF Inv

LEMMA ParseJsonInv == ASSUME Inv, ParseJson PROVE Inv'
<1>1. CASE call.json /\ Go("routes")
  BY <1>1, GoInv DEF ParseJson
<1>2. CASE ~call.json /\ Fail("unhandled")
  BY <1>2, AnswerInv, ErrorStatuses DEF ParseJson, Fail
<1> QED
  BY <1>1, <1>2 DEF ParseJson

LEMMA MatchRouterInv == ASSUME Inv, MatchRouter PROVE Inv'
<1>0. stage # "done" /\ call \in Calls
  BY DEF MatchRouter, Inv, TypeOK
<1>1. ASSUME NEW s \in {200, 404, 503}, Answer(s) PROVE Inv'
  BY <1>0, <1>1, AnswerInv
<1>2. CASE FirstRouter(call.path) = "internal" /\ Go("internal")
  <2>1. call.path \in InternalPaths
    BY <1>2 DEF FirstRouter
  <2> QED
    BY <1>0, <1>2, <2>1, GoInv
<1>3. CASE FirstRouter(call.path) = "public" /\ Go("public")
  <2>1. call.path \notin InternalPaths
    BY <1>3 DEF FirstRouter
  <2>2. Route(call) \notin InternalRoutes
    BY <1>0, <2>1, InternalRoutesByPath
  <2> QED
    BY <1>0, <1>3, <2>2, GoInv
<1>4. FirstRouter(call.path) \in {"internal", "public", "done"}
  BY DEF FirstRouter
<1> QED
  BY <1>1, <1>2, <1>3, <1>4 DEF MatchRouter

LEMMA PassInternalInv == ASSUME Inv, PassInternal PROVE Inv'
<1>0. stage = "internal" /\ call \in Calls /\ call.path \in InternalPaths
  BY DEF PassInternal, Inv, TypeOK, InternalByPath
<1>1. Route(call) \notin PublicRoutes
  BY <1>0 DEF Route, PublicRoutes, NotAdminRoutes, DriverRoutes, InternalPaths
<1>2. CASE ~ValidService(call.service) /\ Fail("unauthorized")
  <2>1. ~Documented(call)
    BY <1>0, <1>1, <1>2, OnlyRoutesAreDocumented, InternalGuard
  <2> QED
    BY <1>0, <1>2, <2>1, AnswerInv, ErrorStatuses DEF Fail
<1>3. CASE ValidService(call.service) /\ Route(call) \in InternalRoutes /\ Go("handler")
  BY <1>0, <1>3, InternalGuard, GoInv
<1>4. CASE Route(call) \notin InternalRoutes /\ Go("public")
  BY <1>0, <1>4, GoInv
<1>5. CASE ~call.decodes /\ Fail("unhandled")
  BY <1>0, <1>5, AnswerInv, ErrorStatuses DEF Fail
<1> QED
  BY <1>2, <1>3, <1>4, <1>5 DEF PassInternal

LEMMA PassPublicInv == ASSUME Inv, PassPublic PROVE Inv'
<1>0. stage = "public" /\ call \in Calls /\ Route(call) \notin InternalRoutes
  BY DEF PassPublic, Inv, TypeOK, PublicIsNotInternal
<1>1. Documented(call) => Route(call) \in PublicRoutes
  BY <1>0, OnlyRoutesAreDocumented
<1>2. CASE ~ValidUser(call.user) /\ Fail("unauthorized")
  <2>1. ~Documented(call)
    BY <1>0, <1>1, <1>2, PublicGuards
  <2> QED
    BY <1>0, <1>2, <2>1, AnswerInv, ErrorStatuses DEF Fail
<1>3. CASE Answer(404)
  BY <1>0, <1>3, AnswerInv
<1>4. CASE Route(call) \in PublicRoutes /\ ~RoleAllows(Route(call), call.user.role) /\ Fail("role_required")
  <2>1. ~Documented(call)
    BY <1>0, <1>4, PublicGuards
  <2> QED
    BY <1>0, <1>4, <2>1, AnswerInv, ErrorStatuses DEF Fail
<1>5. CASE /\ ValidUser(call.user)
           /\ Route(call) \in PublicRoutes
           /\ RoleAllows(Route(call), call.user.role)
           /\ Go("handler")
  <2>1. Documented(call)
    BY <1>0, <1>5, PublicGuards
  <2> QED
    BY <1>0, <1>5, <2>1, GoInv
<1>6. CASE ~call.decodes /\ Fail("unhandled")
  BY <1>0, <1>6, AnswerInv, ErrorStatuses DEF Fail
<1> QED
  BY <1>2, <1>3, <1>4, <1>5, <1>6 DEF PassPublic

-----------------------------------------------------------------------------
(* The step of the controllers *)

\* A body the schema, the value objects and the columns let through can be
\* read back.
LEMMA ThroughAllLimits ==
    ASSUME NEW c \in Calls, NEW b \in Bodies,
           \A f \in Fields \ FieldsOf(Route(c)) : b[f] = Absent,
           SchemaAdmits(Route(c), b), ~Refuses(Route(c), b), ~ColumnsRefuse(Route(c), b)
    PROVE  \A f \in Fields : Given(b[f]) =>
               ColumnHolds(f, Stored(f, b[f])) /\ Reloads(f, Stored(f, b[f]))
<1> TAKE f \in Fields
<1> HAVE Given(b[f])
<1>1. f \in FieldsOf(Route(c))
  BY DEF Given
<1>2. Admitted(f, b[f])
  BY <1>1 DEF SchemaAdmits, Given
<1>3. Accepted(f, b[f]) /\ ColumnHolds(f, Stored(f, b[f]))
  BY <1>1 DEF Refuses, ColumnsRefuse
<1> QED
  BY <1>2, <1>3, GivenIsTaken, StoredReloads

\* What the schema admits is refused later only at one of the known gaps.
LEMMA RefusedBeyondSchema ==
    ASSUME NEW route, FieldsOf(route) \subseteq Fields, NEW b \in Bodies, SchemaAdmits(route, b),
           Refuses(route, b) \/ ColumnsRefuse(route, b)
    PROVE  \E f \in Fields : Given(b[f]) /\ BeyondSchema(f, b[f])
<1>1. PICK f \in FieldsOf(route) :
          Given(b[f]) /\ (~Accepted(f, b[f]) \/ ~ColumnHolds(f, Stored(f, b[f])))
  BY DEF Refuses, ColumnsRefuse
<1>2. Admitted(f, b[f])
  BY <1>1 DEF SchemaAdmits, Given
<1> QED
  BY <1>1, <1>2, GivenIsTaken, SchemaSuffices

LEMMA FieldsOfRoutes == \A route : FieldsOf(route) \subseteq Fields
BY FieldNames DEF FieldsOf, AddressFields

LEMMA HandleInv ==
    ASSUME Inv, NEW b \in SomeBodies, NEW wellTyped \in BOOLEAN, NEW faulty \in BOOLEAN,
           Handle(b, wellTyped, faulty)
    PROVE  Inv'
<1> DEFINE route == Route(call)
           sub == Subject(call)
           fits == SchemaAdmits(route, b) /\ ~Refuses(route, b) /\ ~ColumnsRefuse(route, b)
<1>0. /\ stage = "handler" /\ stage' = "done" /\ call' = call /\ body' = b /\ b \in Bodies
      /\ fault' = faulty
      /\ call \in Calls /\ Documented(call)
      /\ \A f \in Fields \ FieldsOf(route) : b[f] = Absent
  BY BodiesOK DEF Handle, Inv, TypeOK, HandlersAreGated
<1>1. status' \in {200, 400, 404, 409, 500}
  BY ErrorStatuses DEF Handle, EarlyError, Outcomes
<1>2. status' = 200 => NeedsNoQuery(call) \/ fits
  BY ErrorStatuses DEF Handle, EarlyError, Outcomes
<1>3. status' = 500 =>
          \/ sub # "uuid"
          \/ fault'
          \/ SchemaAdmits(route, b) /\ (Refuses(route, b) \/ ColumnsRefuse(route, b))
  BY ErrorStatuses DEF Handle, EarlyError, Outcomes
<1>4. TypeOK'
  BY <1>0, <1>1 DEF TypeOK
<1>5. PublicIsNotInternal' /\ InternalByPath' /\ Unanswered' /\ HandlersAreGated'
  BY <1>0 DEF PublicIsNotInternal, InternalByPath, Unanswered, HandlersAreGated
<1>6. DocumentedAreAdmitted'
  BY <1>1 DEF DocumentedAreAdmitted
<1>7. AcceptedCanBeReadBack'
  <2>1. CASE NeedsNoQuery(call)
    <3>1. FieldsOf(route) = {}
      BY <2>1 DEF NeedsNoQuery, FieldsOf
    <3>2. \A f \in Fields : ~Given(body'[f])
      BY <1>0, <3>1 DEF Given
    <3> QED
      BY <3>2 DEF AcceptedCanBeReadBack
  <2>2. CASE fits
    BY <1>0, <2>2, ThroughAllLimits DEF AcceptedCanBeReadBack
  <2> QED
    BY <1>2, <2>1, <2>2 DEF AcceptedCanBeReadBack
<1>8. OnlyKnownGaps'
  <2> SUFFICES ASSUME status' = 500 PROVE OnlyKnownGaps'
    BY DEF OnlyKnownGaps
  <2>1. CASE sub # "uuid"
    <3>1. route \in PublicRoutes /\ call.user.sub # "uuid"
      BY <2>1 DEF Subject, ForUser
    <3>2. call.user # NoToken
      BY <1>0, <3>1, PublicGuards DEF ValidUser, Genuine
    <3> QED
      BY <1>0, <3>1, <3>2 DEF OnlyKnownGaps
  <2>2. CASE SchemaAdmits(route, b) /\ (Refuses(route, b) \/ ColumnsRefuse(route, b))
    BY <1>0, <2>2, FieldsOfRoutes, RefusedBeyondSchema DEF OnlyKnownGaps
  <2>3. CASE fault'
    BY <2>3 DEF OnlyKnownGaps
  <2> QED
    BY <1>3, <2>1, <2>2, <2>3
<1> QED
  BY <1>4, <1>5, <1>6, <1>7, <1>8 DEF Inv

-----------------------------------------------------------------------------
(* The theorems *)

LEMMA StutterInv == ASSUME Inv, UNCHANGED vars PROVE Inv'
BY DEF Inv, vars, TypeOK, PublicIsNotInternal, InternalByPath, Unanswered, HandlersAreGated,
       DocumentedAreAdmitted, AcceptedCanBeReadBack, OnlyKnownGaps

LEMMA NextInv == Inv /\ [Next]_vars => Inv'
<1> SUFFICES ASSUME Inv, [Next]_vars PROVE Inv'
  OBVIOUS
<1>1. CASE ParseJson
  BY <1>1, ParseJsonInv
<1>2. CASE MatchRouter
  BY <1>2, MatchRouterInv
<1>3. CASE PassInternal
  BY <1>3, PassInternalInv
<1>4. CASE PassPublic
  BY <1>4, PassPublicInv
<1>5. ASSUME NEW b \in SomeBodies, NEW wellTyped \in BOOLEAN, NEW faulty \in BOOLEAN,
             Handle(b, wellTyped, faulty)
      PROVE  Inv'
  BY <1>5, HandleInv
<1>6. CASE Done
  BY <1>6, StutterInv DEF Done
<1>7. CASE UNCHANGED vars
  BY <1>7, StutterInv
<1> QED
  BY <1>1, <1>2, <1>3, <1>4, <1>5, <1>6, <1>7 DEF Next

LEMMA InvAlways == Spec => []Inv
BY InitInv, NextInv, PTL DEF Spec

\* Type correctness of a call on its way through the layers.
THEOREM TypeCorrect == Spec => []TypeOK
<1>1. Inv => TypeOK
  BY DEF Inv
<1> QED
  BY <1>1, InvAlways, PTL

\* The mount order and the guards of routes.ts let nobody reach a controller
\* but those the README's endpoint table admits.
THEOREM NobodyElseIsServed == Spec => []HandlersAreGated
<1>1. Inv => HandlersAreGated
  BY DEF Inv
<1> QED
  BY <1>1, InvAlways, PTL

\* And they refuse none of them: the internal subtree asks for no user token.
THEOREM NobodyIsTurnedAway == Spec => []DocumentedAreAdmitted
<1>1. Inv => DocumentedAreAdmitted
  BY DEF Inv
<1> QED
  BY <1>1, InvAlways, PTL

\* Bodies of any length that the schemas, value objects and columns accept can
\* be read back: nobody's rows become unreadable.
THEOREM AcceptedReadBack == Spec => []AcceptedCanBeReadBack
<1>1. Inv => AcceptedCanBeReadBack
  BY DEF Inv
<1> QED
  BY <1>1, InvAlways, PTL

\* A call that express.json and the router take, whose subject is a uuid and
\* whose queries work is answered 500 only at the three gaps of BeyondSchema:
\* for every other text and number the limits of schemas, value objects and
\* columns agree.
THEOREM LimitsAgree == Spec => []OnlyKnownGaps
<1>1. Inv => OnlyKnownGaps
  BY DEF Inv
<1> QED
  BY <1>1, InvAlways, PTL
=============================================================================

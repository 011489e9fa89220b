------------------------------ MODULE LegacyApi ------------------------------
(***************************************************************************)
(* The HTTP surface of the legacy backend (backend/server): which roles    *)
(* each route admits, which status the error middleware gives each error,  *)
(* and which statuses the served OpenAPI document says each operation can  *)
(* answer with.  An operation is named after its handler.                  *)
(***************************************************************************)
EXTENDS Integers, FiniteSets

CONSTANTS Users,       \* accounts
          RoleOf,      \* [Users -> Roles]
          NodeEnv,     \* process.env.NODE_ENV
          MaxHits,     \* requests of an address in a window, max of the rate limiter
          None

Roles == {"STUDENT", "FACULTY", "ADMIN"}

ASSUME ApiAssumption ==
  /\ RoleOf \in [Users -> Roles] /\ None \notin Users \union Roles
  /\ MaxHits \in Nat

-----------------------------------------------------------------------------
(* routes: the roles restrictTo lets through; Anyone marks a public route. *)

Anyone == Roles \union {None}

AuthRoutes ==
  [signup |-> Anyone, login |-> Anyone, refresh |-> Anyone, logout |-> Roles]

GpuResourceRoutes ==
  [getAvailableGpuResources |-> Roles,
   getAllGpuResources |-> {"ADMIN"}, createGpuResource |-> {"ADMIN"},
   updateGpuResource |-> {"ADMIN"}, deleteGpuResource |-> {"ADMIN"}]

GpuRequestRoutes ==
  [createGpuRequest |-> {"STUDENT"}, getMyRequests |-> Roles,
   getPendingRequests |-> {"FACULTY"}, getAllRequests |-> {"ADMIN"},
   approveRequest |-> {"FACULTY"}, rejectRequest |-> {"FACULTY"},
   completeGpuRequest |-> {"FACULTY", "ADMIN"}]

AdminRoutes ==
  [getDashboardSummary |-> {"ADMIN"}, getAllAuditLogs |-> {"ADMIN"},
   createUser |-> {"ADMIN"}, getUsageAnalytics |-> {"ADMIN"}]

RestrictTo(op) ==
  CASE op \in DOMAIN AuthRoutes        -> AuthRoutes[op]
    [] op \in DOMAIN GpuResourceRoutes -> GpuResourceRoutes[op]
    [] op \in DOMAIN GpuRequestRoutes  -> GpuRequestRoutes[op]
    [] op \in DOMAIN AdminRoutes       -> AdminRoutes[op]

-----------------------------------------------------------------------------
(* Errors: the status an error carries itself (none for those of the       *)
(* driver and of jsonwebtoken) and what the error middleware makes of it.  *)

AppError(code) == [name |-> "AppError", statusCode |-> code]
Thrown(name)   == [name |-> name, statusCode |-> 500]

TransformedStatus_NoCast ==  \* mutant
  [DuplicateKey |-> 400, ValidationError |-> 400, JsonWebTokenError |-> 401, TokenExpiredError |-> 401]
TransformedStatus ==
  [CastError |-> 400, DuplicateKey |-> 400, ValidationError |-> 400,
   JsonWebTokenError |-> 401, TokenExpiredError |-> 401]

\* In development the error is sent as it came; otherwise the known ones
\* are turned into operational errors and the rest are a 500.
ErrorStatus(err) ==
  IF err.name \in DOMAIN TransformedStatus /\ NodeEnv # "development"
  THEN TransformedStatus[err.name]
  ELSE err.statusCode

\* What protect finds in the Authorization header.
Tokens == {"absent", "malformed", "expired", "valid"}

Ok == 0

\* The rate limiter, before anything else of a request to /api: it answers by
\* itself what comes after the first MaxHits requests of the window.
TooMany == 429
Limited(hits) == hits >= MaxHits

\* protect and restrictTo, before the handler: Ok, or the status answered.
Admission(op, user, token, hits) ==
  IF Limited(hits) THEN TooMany
  ELSE IF RestrictTo(op) = Anyone THEN Ok
  ELSE CASE token = "absent"    -> ErrorStatus(AppError(401))
         [] token = "malformed" -> ErrorStatus(Thrown("JsonWebTokenError"))
         [] token = "expired"   -> ErrorStatus(Thrown("TokenExpiredError"))
         [] token = "valid" /\ user = None -> ErrorStatus(AppError(401))
         [] token = "valid" /\ user # None ->
              IF RoleOf[user] \in RestrictTo(op) THEN Ok
              ELSE ErrorStatus(AppError(403))

-----------------------------------------------------------------------------
(* getPaginationParams and the copies of it in two other controllers:      *)
(* None is a query value parseInt makes NaN of, or one that is absent.     *)

Pagination(page, limit, default, largest) ==
  LET p  == IF page = None \/ page < 1 THEN 1 ELSE page
      l0 == IF limit = None \/ limit = 0 THEN default ELSE limit
      l  == IF l0 > largest THEN largest ELSE l0
  IN [page |-> p, limit |-> l, skip |-> (p - 1) * l]

\* find().skip(n) of a negative n is an error of the server; a negative limit
\* is taken by its absolute value.
ListStatus(query) ==
  LET params == Pagination(query.page, query.limit, 20, 100)
  IN IF params.skip < 0 THEN ErrorStatus(Thrown("MongoServerError")) ELSE 200

-----------------------------------------------------------------------------
(* docs/openapi.js, served at /api-docs: the statuses of each operation.   *)

DocumentedAuth ==
  [signup |-> {201, 400}, login |-> {200, 400, 401},
   refresh |-> {200, 401}, logout |-> {200, 401}]

DocumentedGpuResources ==
  [getAvailableGpuResources |-> {200, 401},
   getAllGpuResources |-> {200, 401, 403},
   createGpuResource |-> {201, 400, 401, 403},
   updateGpuResource |-> {200, 400, 401, 403, 404},
   deleteGpuResource |-> {204, 400, 401, 403, 404}]

DocumentedGpuRequests ==
  [createGpuRequest |-> {201, 400, 401, 403},
   getMyRequests |-> {200, 401},
   getPendingRequests |-> {200, 401, 403},
   getAllRequests |-> {200, 401, 403}]

DocumentedDecisions ==
  [approveRequest |-> {200, 400, 401, 403, 404, 409},
   rejectRequest |-> {200, 401, 403, 404},
   completeGpuRequest |-> {200, 400, 401, 403, 404}]

DocumentedAdmin ==
  [getDashboardSummary |-> {200, 401, 403},
   getAllAuditLogs |-> {200, 401, 403},
   createUser |-> {201, 400, 401, 403},
   getUsageAnalytics |-> {200, 401, 403}]

Documented(op) ==
  CASE op \in DOMAIN DocumentedAuth         -> DocumentedAuth[op]
    [] op \in DOMAIN DocumentedGpuResources -> DocumentedGpuResources[op]
    [] op \in DOMAIN DocumentedGpuRequests  -> DocumentedGpuRequests[op]
    [] op \in DOMAIN DocumentedDecisions    -> DocumentedDecisions[op]
    [] op \in DOMAIN DocumentedAdmin        -> DocumentedAdmin[op]
=============================================================================

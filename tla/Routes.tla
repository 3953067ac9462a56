------------------------------- MODULE Routes --------------------------------
(***************************************************************************)
(* Which handler a request reaches: the routers in the order index.ts and  *)
(* routes/*.ts register them, and the checks in front of each handler.     *)
(*                                                                         *)
(* A path is a sequence of segments, and ":" in a route's path stands for  *)
(* a parameter.  A request is                                              *)
(*   method, path                                                          *)
(*   token   "none" (missing, malformed or expired), or the account type   *)
(*           a valid token names                                           *)
(*   apiKey  whether validateApiKey lets it pass                           *)
(*   valid   whether its query and its body are what the route's           *)
(*           validators ask for                                            *)
(* Parameters are positive integers or the names of services.              *)
(***************************************************************************)
EXTENDS Integers, Sequences, FiniteSetsExt

Route(method, path, needs, handler) ==
  [method |-> method, path |-> path, needs |-> needs, handler |-> handler]

\* What stands in front of a handler besides what its router asks of all requests:
\* "token", "admin" and "ADMIN" (roles), "apiKey", "id" (validateUserId or
\* validateBillId), "valid" (validatePayBill or validatePagination)
UserRoutes == <<
  Route("POST", <<"users", "signup">>, {}, "signup"),
  Route("POST", <<"users", "login">>, {}, "login"),
  Route("GET", <<"users", "profile", ":">>, {"token"}, "getProfile"),
  Route("GET", <<"users", "db", "tables">>, {"token", "admin", "apiKey"}, "dbTables") >>

UsageRoutes == <<
  Route("POST", <<"usage", "calls">>, {}, "logCall"),
  Route("POST", <<"usage", "sms">>, {}, "logSMS"),
  Route("POST", <<"usage", "data">>, {}, "logData") >>

BillingRoutes == <<
  Route("POST", <<"billing", "generate", ":">>, {"id"}, "generateBill"),
  Route("GET", <<"billing", "user", ":">>, {"id", "valid"}, "getBills"),
  Route("POST", <<"billing", "pay">>, {"valid"}, "payBill"),
  Route("GET", <<"billing", ":">>, {"id"}, "getBillDetails"),
  Route("GET", <<"billing", "ledger", ":">>, {"id", "valid"}, "getLedger"),
  Route("GET", <<"billing", "dlq">>, {"ADMIN"}, "getDLQ"),
  Route("PUT", <<"billing", "dlq", ":", "resolve">>, {"ADMIN"}, "resolveDLQ"),
  Route("PUT", <<"billing", "dlq", ":", "discard">>, {"ADMIN"}, "discardDLQ"),
  Route("GET", <<"billing", "reconcile", ":">>, {"ADMIN", "id"}, "reconcile"),
  Route("GET", <<"billing", "search">>, {"valid"}, "searchBills") >>

RateRoutes == <<
  Route("PUT", <<"rates", ":">>, {}, "updateRate"),
  Route("GET", <<"rates", ":">>, {}, "getRates") >>

AllRoutes == UserRoutes \o UsageRoutes \o BillingRoutes \o RateRoutes

\* RouterNeeds, did rateRoutes.ts ask no role
RouterNeedsNoRole(router) ==
  CASE router \in {"usage", "billing"} -> {"token"}
    [] router = "rates"               -> {"token", "apiKey"}
    [] OTHER                          -> {}

\* What router.use asks of every request under a router, known path or not
RouterNeeds(router) ==
  CASE router \in {"usage", "billing"} -> {"token"}
    [] router = "rates"               -> {"token", "admin", "apiKey"}
    [] OTHER                          -> {}

-----------------------------------------------------------------------------
MatchesPath(pattern, path) ==
  /\ Len(pattern) = Len(path)
  /\ \A i \in DOMAIN pattern : pattern[i] \in {path[i], ":"}

Matching(r) ==
  {i \in DOMAIN AllRoutes :
     AllRoutes[i].method = r.method /\ MatchesPath(AllRoutes[i].path, r.path)}

\* Express takes the first route that matches.
RouteOf(r) == AllRoutes[Min(Matching(r))]

Needs(r) ==
  RouterNeeds(r.path[1]) \cup (IF Matching(r) = {} THEN {} ELSE RouteOf(r).needs)

\* isInt({ min: 1 }) on the parameter of the route that was matched
ParameterIsId(r) ==
  \A i \in DOMAIN r.path : RouteOf(r).path[i] = ":" => r.path[i] = "1"

Authenticated(r) == "token" \in Needs(r) => r.token # "none"

InRole(r) == \A role \in Needs(r) \cap {"admin", "ADMIN"} : r.token = role

ApiKeyPasses(r) == "apiKey" \in Needs(r) => r.apiKey

Validated(r) ==
  /\ "id" \in Needs(r) => ParameterIsId(r)
  /\ "valid" \in Needs(r) => r.valid

\* The request reaches a handler.
Admitted(r) ==
  Authenticated(r) /\ InRole(r) /\ ApiKeyPasses(r) /\ Matching(r) # {} /\ Validated(r)
=============================================================================

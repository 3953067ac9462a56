----------------------------- MODULE HttpLayer -------------------------------
(***************************************************************************)
(* Requests on their way to their handlers: the routes, the limiter of     *)
(* signup and login in the memory of each pod, the two account handlers    *)
(* statement by statement, and every other handler as one step.            *)
(*                                                                         *)
(* The limiters of all requests and of /billing only hold requests back:   *)
(* one that they refuse is a request not made.                             *)
(***************************************************************************)
EXTENDS Accounts, Routes

CONSTANTS
  Pods,
  Workers,     \* places for requests in flight, on any pod
  Requests,    \* what clients send: the fields Routes describes, and
               \* client (getClientIp, the key of authRateLimit), ip (req.ip,
               \* the key of login_attempts), email, and right (whether the
               \* password is the account's)
  AuthMax,     \* authRateLimit's max, 5 in the code
  MaxHits,     \* bound: the requests of an address a limiter counts in a window
  NoRequest

ASSUME HttpAssumption ==
  /\ IsFiniteSet(Workers)
  /\ \A r \in Requests :
       /\ r.client \in Ips /\ r.ip \in Ips /\ r.email \in Emails
       /\ r.token \in {"none", "user", "admin"}   \* login signs account_type, an ENUM
  /\ AuthMax \in Nat \ {0}
  /\ MaxHits \in Nat

VARIABLES
  hits,      \* authRateLimit's count for each pod and address
  pc,        \* where each request is
  req,       \* each request, its pod, and whether hits still counts it
  failed,    \* history: of the requests hits counts, how many let through have failed
  late       \* history: hits given back for requests of an earlier window

httpVars == <<hits, pc, req, failed, late>>
vars == <<accountVars, httpVars>>

\* The handler each request reaches
HandlerOf == [r \in {r \in Requests : Admitted(r)} |-> RouteOf(r).handler]

AccountHandlers == {"signup", "login"}
LoginSteps == {"countAttempts", "compare", "record", "clear"}
InFlight == [r : Requests, pod : Pods, counted : BOOLEAN]

Init ==
  /\ AccountsInit
  /\ hits = [p \in Pods |-> [ip \in Ips |-> 0]]
  /\ pc = [w \in Workers |-> "idle"]
  /\ req = [w \in Workers |-> NoRequest]
  /\ failed = [p \in Pods |-> [ip \in Ips |-> 0]]
  /\ late = [p \in Pods |-> [ip \in Ips |-> 0]]

-----------------------------------------------------------------------------
(***************************************************************************)
(* Statuses.                                                               *)
(***************************************************************************)

\* The name of an AppError: the class never sets it.
AppErrorName == "Error"

\* An AppError thrown inside a handler's own try block: the catch block knows it
\* by its name and turns everything else into a dbError.
Caught(status) == IF AppErrorName = "AppError" THEN status ELSE 500

-----------------------------------------------------------------------------
(***************************************************************************)
(* Arrival.                                                                *)
(***************************************************************************)

Goto(w, step, r) ==
  /\ pc' = [pc EXCEPT ![w] = step]
  /\ req' = [req EXCEPT ![w] = r]

\* A check in front of the handler refuses the request.
Refuse(w, r, p) ==
  /\ pc[w] = "idle" /\ r \notin DOMAIN HandlerOf
  /\ Goto(w, "refused", [r |-> r, pod |-> p, counted |-> FALSE])
  /\ UNCHANGED <<accountVars, hits, failed, late>>

Serve(w, r, p) ==
  /\ pc[w] = "idle"
  /\ r \in DOMAIN HandlerOf /\ HandlerOf[r] \notin AccountHandlers
  /\ Goto(w, "handler", [r |-> r, pod |-> p, counted |-> FALSE])
  /\ UNCHANGED <<accountVars, hits, failed, late>>

\* authRateLimit counts the request, and lets it through up to its max.
HitAuthLimit(r, p) ==
  /\ r \in DOMAIN HandlerOf /\ HandlerOf[r] \in AccountHandlers
  /\ hits[p][r.client] < MaxHits
  /\ hits' = [hits EXCEPT ![p][r.client] = @ + 1]
  /\ UNCHANGED <<accountVars, failed, late>>

LetThrough(w, r, p) ==
  /\ pc[w] = "idle" /\ HitAuthLimit(r, p) /\ hits'[p][r.client] <= AuthMax
  /\ Goto(w, IF HandlerOf[r] = "signup" THEN "signup" ELSE "countAttempts",
          [r |-> r, pod |-> p, counted |-> TRUE])

TooManyHits(w, r, p) ==
  /\ pc[w] = "idle" /\ HitAuthLimit(r, p) /\ hits'[p][r.client] > AuthMax
  /\ UNCHANGED <<pc, req>>

-----------------------------------------------------------------------------
(***************************************************************************)
(* Answers.                                                                *)
(***************************************************************************)

\* GivesBack, were failures skipped as well
GivesBackAll(w, status) == hits[req[w].pod][req[w].r.client] > 0

\* skipSuccessfulRequests gives a success its hit back, whatever window the count
\* belongs to by now.
GivesBack(w, status) == hits[req[w].pod][req[w].r.client] > 0 /\ status < 400

\* w's request is answered.
Answer(w, status) ==
  LET p  == req[w].pod
      ip == req[w].r.client
  IN  /\ Goto(w, "idle", NoRequest)
      /\ hits' = IF GivesBack(w, status) THEN [hits EXCEPT ![p][ip] = @ - 1] ELSE hits
      /\ failed' = IF req[w].counted /\ status >= 400
                   THEN [failed EXCEPT ![p][ip] = @ + 1] ELSE failed
      /\ late' = IF ~req[w].counted /\ GivesBack(w, status)
                 THEN [late EXCEPT ![p][ip] = @ + 1] ELSE late

\* The answer of a refused request, or of any handler but signup and login, is sent.
Close(w) ==
  /\ pc[w] \in {"refused", "handler"}
  /\ Goto(w, "idle", NoRequest)
  /\ UNCHANGED <<accountVars, hits, failed, late>>

\* A statement of signup or login fails.
Fails(w) ==
  /\ pc[w] \in {"signup"} \cup LoginSteps
  /\ Answer(w, 500)
  /\ UNCHANGED accountVars

-----------------------------------------------------------------------------
(***************************************************************************)
(* signup and login.                                                       *)
(***************************************************************************)

\* validatePassword refuses the password.
WeakPassword(w) ==
  /\ pc[w] = "signup" /\ ~req[w].r.valid
  /\ Answer(w, Caught(400))
  /\ UNCHANGED accountVars

\* The account is stored, and the answer says so unless the statement's
\* acknowledgement is lost.
SignUp(w) ==
  /\ pc[w] = "signup" /\ req[w].r.valid
  /\ InsertUser(req[w].r.email)
  /\ Answer(w, 201) \/ Answer(w, 500)
  /\ UNCHANGED attempts

\* ER_DUP_ENTRY: thrown by the catch block itself, and so not caught again
EmailTaken(w) ==
  /\ pc[w] = "signup" /\ req[w].r.valid /\ req[w].r.email \in users
  /\ Answer(w, 400)
  /\ UNCHANGED accountVars

\* RefuseLogin, did it renew the attempts of the address it finds locked
RefuseLoginRenewing(w) ==
  /\ pc[w] = "countAttempts"
  /\ req[w].r.valid => Locked(req[w].r.ip)
  /\ Answer(w, 500)
  /\ attempts' = [a \in Rows |-> IF a \in RowsOf(req[w].r.ip)
                                 THEN [attempts[a] EXCEPT !.age = 0] ELSE attempts[a]]
  /\ UNCHANGED users

\* No email or no password, or the address is locked
RefuseLogin(w) ==
  /\ pc[w] = "countAttempts"
  /\ req[w].r.valid => Locked(req[w].r.ip)
  /\ Answer(w, Caught(IF req[w].r.valid THEN 401 ELSE 400))
  /\ UNCHANGED accountVars

CountAttempts(w) ==
  /\ pc[w] = "countAttempts" /\ req[w].r.valid
  /\ ~Locked(req[w].r.ip)
  /\ Goto(w, "compare", req[w])
  /\ UNCHANGED <<accountVars, hits, failed, late>>

\* The account is read and its password compared.
Compare(w) ==
  /\ pc[w] = "compare"
  /\ Goto(w, IF req[w].r.email \in users /\ req[w].r.right THEN "clear" ELSE "record", req[w])
  /\ UNCHANGED <<accountVars, hits, failed, late>>

Record(w) ==
  /\ pc[w] = "record"
  /\ RecordAttempt(req[w].r.ip, req[w].r.email)
  /\ Answer(w, Caught(401)) \/ Answer(w, 500)
  /\ UNCHANGED users

Clear(w) ==
  /\ pc[w] = "clear"
  /\ ClearAttempts(req[w].r.ip, req[w].r.email)
  /\ Answer(w, 200) \/ Answer(w, 500)
  /\ UNCHANGED users

-----------------------------------------------------------------------------
(***************************************************************************)
(* Time and crashes.                                                       *)
(***************************************************************************)

TimePasses == AttemptsAge /\ UNCHANGED <<users, httpVars>>

\* The request of w came from ip to p.
From(w, p, ip) == pc[w] # "idle" /\ req[w].pod = p /\ req[w].r.client = ip

\* The limiter's window for an address ends on pod p.
WindowEnds(p, ip) ==
  /\ hits[p][ip] > 0
  /\ hits' = [hits EXCEPT ![p][ip] = 0]
  /\ failed' = [failed EXCEPT ![p][ip] = 0]
  /\ late' = [late EXCEPT ![p][ip] = 0]
  /\ req' = [w \in Workers |->
               IF From(w, p, ip) THEN [req[w] EXCEPT !.counted = FALSE] ELSE req[w]]
  /\ UNCHANGED <<accountVars, pc>>

\* A pod dies, and its counts and requests with it.
PodDies(p) ==
  LET gone == {w \in Workers : pc[w] # "idle" /\ req[w].pod = p}
      zero == [ip \in Ips |-> 0]
  IN  /\ hits' = [hits EXCEPT ![p] = zero]
      /\ failed' = [failed EXCEPT ![p] = zero]
      /\ late' = [late EXCEPT ![p] = zero]
      /\ pc' = [w \in Workers |-> IF w \in gone THEN "idle" ELSE pc[w]]
      /\ req' = [w \in Workers |-> IF w \in gone THEN NoRequest ELSE req[w]]
      /\ UNCHANGED accountVars

-----------------------------------------------------------------------------
Arrive(w, r, p) ==
  Refuse(w, r, p) \/ Serve(w, r, p) \/ LetThrough(w, r, p) \/ TooManyHits(w, r, p)

LoginStep(w) == RefuseLogin(w) \/ CountAttempts(w) \/ Compare(w) \/ Record(w) \/ Clear(w)

SignupStep(w) == WeakPassword(w) \/ SignUp(w) \/ EmailTaken(w)

Step(w) == Close(w) \/ Fails(w) \/ SignupStep(w) \/ LoginStep(w)

Next ==
  \/ \E w \in Workers, p \in Pods, r \in Requests : Arrive(w, r, p)
  \/ \E w \in Workers : Step(w)
  \/ \E p \in Pods, ip \in Ips : WindowEnds(p, ip)
  \/ \E p \in Pods : PodDies(p)
  \/ TimePasses

Spec == Init /\ [][Next]_vars

\* The clock moves.
FairSpec == Spec /\ WF_vars(TimePasses)

-----------------------------------------------------------------------------
(***************************************************************************)
(* Properties.                                                             *)
(***************************************************************************)

\* Every variable holds a value of its kind.
TypeOK ==
  /\ AccountsTypeOK
  /\ hits \in [Pods -> [Ips -> 0..MaxHits]]
  /\ pc \in [Workers -> {"idle", "refused", "handler", "signup"} \cup LoginSteps]
  /\ req \in [Workers -> InFlight \cup {NoRequest}]
  /\ \A w \in Workers : pc[w] # "idle" => req[w] \in InFlight
  /\ failed \in [Pods -> [Ips -> Nat]]
  /\ late \in [Pods -> [Ips -> Nat]]

\* The logins of ip that have passed the count of its attempts and may still fail
PastCount(ip) ==
  {w \in Workers : pc[w] \in {"compare", "record", "clear"} /\ req[w].r.ip = ip}

\* userController.ts lines 39-48: an address is locked after MaxAttempts failures.
\* The count and the INSERT of a failure are apart, so logins in flight may add
\* one failure each, and no more: not across pods, retries, or answers lost.
LockoutBounded ==
  \A ip \in Ips : Cardinality(RowsOf(ip)) < MaxAttempts + Cardinality(Workers)

\* A lock is not prolonged by logins made while it stands: it is lifted when time
\* passes, however often the address tries.
LockoutLifts == \A ip \in Ips : Locked(ip) ~> ~Locked(ip)

Running(p, ip) == {w \in Workers : From(w, p, ip) /\ req[w].counted}

\* authRateLimit: of the signups and logins of an address that a pod lets through
\* in one window, at most AuthMax fail, besides one for each success that began
\* in an earlier window and gave its hit back in this one.
AuthBudget ==
  \A p \in Pods, ip \in Ips :
    failed[p][ip] + Cardinality(Running(p, ip)) <= AuthMax + late[p][ip]

\* The API overview (readme lines 110-127; for dbTables, swagger.ts line 227): the
\* path of each handler, and whether it asks for a token or an administrator.
Documented(handler, method, path, auth) ==
  [handler |-> handler, method |-> method, path |-> path, auth |-> auth]

ApiOverview == {
  Documented("signup", "POST", <<"users", "signup">>, "none"),
  Documented("login", "POST", <<"users", "login">>, "none"),
  Documented("getProfile", "GET", <<"users", "profile", ":">>, "token"),
  Documented("dbTables", "GET", <<"users", "db", "tables">>, "admin"),
  Documented("logCall", "POST", <<"usage", "calls">>, "token"),
  Documented("logSMS", "POST", <<"usage", "sms">>, "token"),
  Documented("logData", "POST", <<"usage", "data">>, "token"),
  Documented("generateBill", "POST", <<"billing", "generate", ":">>, "token"),
  Documented("getBills", "GET", <<"billing", "user", ":">>, "token"),
  Documented("payBill", "POST", <<"billing", "pay">>, "token"),
  Documented("getBillDetails", "GET", <<"billing", ":">>, "token"),
  Documented("getLedger", "GET", <<"billing", "ledger", ":">>, "token"),
  Documented("searchBills", "GET", <<"billing", "search">>, "token"),
  Documented("reconcile", "GET", <<"billing", "reconcile", ":">>, "admin"),
  Documented("getDLQ", "GET", <<"billing", "dlq">>, "admin"),
  Documented("resolveDLQ", "PUT", <<"billing", "dlq", ":", "resolve">>, "admin"),
  Documented("discardDLQ", "PUT", <<"billing", "dlq", ":", "discard">>, "admin"),
  Documented("updateRate", "PUT", <<"rates", ":">>, "admin"),
  Documented("getRates", "GET", <<"rates", ":">>, "admin") }

\* The values the overview means by a parameter: a service for rates, else an id
Parameters(d) == IF d.path[1] = "rates" THEN {"CALL"} ELSE {"1"}

\* The documented endpoint a request is made to
Asks(r, d) ==
  /\ r.method = d.method /\ Len(r.path) = Len(d.path)
  /\ \A i \in DOMAIN r.path :
       r.path[i] = d.path[i] \/ (d.path[i] = ":" /\ r.path[i] \in Parameters(d))

HasAuth(r, auth) ==
  CASE auth = "none"  -> TRUE
    [] auth = "token" -> r.token # "none"
    [] auth = "admin" -> r.token = "admin"

\* No handler runs for a request without the token and the account type that the
\* API overview asks for, whichever router, order or parameter led to it.
ServedAreEntitled ==
  \A w \in Workers, d \in ApiOverview :
    pc[w] = "handler" /\ HandlerOf[req[w].r] = d.handler => HasAuth(req[w].r, d.auth)

\* readme lines 110-127: a well-formed request to a documented endpoint, with the
\* token it asks for, gets past the checks in front of the endpoint's handler.
EntitledAreServed ==
  \A w \in Workers, d \in ApiOverview :
    pc[w] = "refused" =>
      LET r == req[w].r
      IN  ~(Asks(r, d) /\ HasAuth(r, d.auth) /\ r.valid /\ r.apiKey)
=============================================================================

------------------------------- MODULE MCHttp --------------------------------
(***************************************************************************)
(* HttpLayer with a handful of requests: signups and logins of each        *)
(* outcome, and one request for each way through the other routes.         *)
(***************************************************************************)
EXTENDS HttpLayer

CONSTANTS ip1, ann

LOCAL Ask(method, path, token, apiKey, valid, right) ==
  [method |-> method, path |-> path, token |-> token, apiKey |-> apiKey, valid |-> valid,
   client |-> ip1, ip |-> ip1, email |-> ann, right |-> right]

MCLogins == {
  Ask("POST", <<"users", "signup">>, "none", FALSE, TRUE, TRUE),
  Ask("POST", <<"users", "signup">>, "none", FALSE, FALSE, TRUE),
  Ask("POST", <<"users", "login">>, "none", FALSE, TRUE, TRUE),
  Ask("POST", <<"users", "login">>, "none", FALSE, TRUE, FALSE),
  Ask("POST", <<"users", "login">>, "none", FALSE, FALSE, FALSE) }

\* One request for each check in front of a handler, and some that pass them all
MCOthers == {
  Ask("GET", <<"billing", "dlq">>, "admin", TRUE, TRUE, TRUE),
  Ask("GET", <<"billing", "1">>, "user", TRUE, TRUE, TRUE),
  Ask("POST", <<"billing", "pay">>, "user", TRUE, FALSE, TRUE),
  Ask("GET", <<"users", "profile", "1">>, "none", TRUE, TRUE, TRUE),
  Ask("PUT", <<"rates", "CALL">>, "user", TRUE, TRUE, TRUE),
  Ask("PUT", <<"rates", "CALL">>, "admin", FALSE, TRUE, TRUE),
  Ask("PUT", <<"rates", "CALL">>, "admin", TRUE, TRUE, TRUE),
  Ask("POST", <<"stripe", "pay">>, "user", FALSE, TRUE, TRUE) }

MCRequests == MCLogins \cup MCOthers
=============================================================================

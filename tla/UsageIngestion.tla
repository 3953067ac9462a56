--------------------------- MODULE UsageIngestion ---------------------------
(***************************************************************************)
(* Usage ingestion: logCall, logSMS and logData of                         *)
(* src/src/controllers/usageController.ts, which differ only in the field  *)
(* that holds the quantity, and the dead letter queue they feed.  Clients  *)
(* send a CDR again when they get no answer, and also when they do.        *)
(***************************************************************************)
EXTENDS DeadLetterQueue

CONSTANTS
  Wellformed,    \* the submissions validateCDR accepts
  Storable,      \* those of them whose row meets the constraints of user_logs:
                 \* the user exists and the stored quantity is positive
  Key,           \* Key[s]: the idempotencyKey of s as the column holds it, or NoKey
  NoKey,
  NoCdr,         \* the submission of an idle worker
  Workers,       \* requests served at the same time
  MaxSends       \* bound: deliveries of requests

ASSUME SubmissionAssumption == Storable \subseteq Wellformed /\ Wellformed \subseteq Submissions
ASSUME NoCdrAssumption == NoCdr \notin Submissions
ASSUME MaxSendsAssumption == MaxSends \in Nat
\* Bound: a request puts at most two items into the queue, so it never fills up.
ASSUME RoomAssumption == MaxItems >= 2 * MaxSends

VARIABLES
  copies,    \* copies[s]: the rows of user_logs that hold s
  pc,        \* pc[w]: the next statement of worker w
  cdr,       \* cdr[w]: the submission it handles, or NoCdr
  answers,   \* answers[s]: the status codes clients got for s
  lost,      \* history: submissions whose write to the queue failed, and was
             \* only logged
  sends      \* deliveries so far

vars == <<dlqVars, copies, pc, cdr, answers, lost, sends>>

Init ==
  /\ DlqInit
  /\ copies = [s \in Submissions |-> 0]
  /\ pc = [w \in Workers |-> "idle"]
  /\ cdr = [w \in Workers |-> NoCdr]
  /\ answers = [s \in Submissions |-> {}]
  /\ lost = {}
  /\ sends = 0

\* KeyTaken, had idempotency_key no UNIQUE index
KeyIgnored(s) == FALSE

\* The UNIQUE index on idempotency_key; without a key the controller makes up a
\* fresh one, which never is taken.
KeyTaken(s) ==
  /\ Key[s] # NoKey
  /\ \E t \in Submissions : Key[t] = Key[s] /\ copies[t] > 0

Inserts(s) == s \in Storable /\ ~KeyTaken(s)

\* The client gets the answer, or the answer is lost.
Answer(s, status) ==
  \/ answers' = [answers EXCEPT ![s] = @ \cup {status}]
  \/ UNCHANGED answers

Goto(w, step) == pc' = [pc EXCEPT ![w] = step]

Finish(w) ==
  /\ Goto(w, "idle")
  /\ cdr' = [cdr EXCEPT ![w] = NoCdr]

-----------------------------------------------------------------------------
\* A request arrives and is validated, without an await in between.
Receive(w, s) ==
  /\ pc[w] = "idle"
  /\ sends < MaxSends
  /\ sends' = sends + 1
  /\ cdr' = [cdr EXCEPT ![w] = s]
  /\ Goto(w, IF s \in Wellformed THEN "insert" ELSE "refused")
  /\ UNCHANGED <<dlqVars, copies, answers, lost>>

\* INSERT IGNORE stores the row.
InsertRow(w) ==
  LET s == cdr[w]
  IN  /\ pc[w] = "insert"
      /\ Inserts(s)
      /\ copies' = [copies EXCEPT ![s] = @ + 1]
      /\ Answer(s, 201)
      /\ Finish(w)
      /\ UNCHANGED <<dlqVars, lost, sends>>

\* INSERT IGNORE stores nothing: the key is taken, or IGNORE has turned a broken
\* constraint into a warning.  affectedRows is 0, "Duplicate request ignored".
InsertIgnored(w) ==
  /\ pc[w] = "insert"
  /\ ~Inserts(cdr[w])
  /\ Answer(cdr[w], 200)
  /\ Finish(w)
  /\ UNCHANGED <<dlqVars, copies, lost, sends>>

\* The statement fails, or its acknowledgement is lost after MySQL ran it.
InsertFails(w) ==
  /\ pc[w] = "insert"
  /\ \/ UNCHANGED copies
     \/ Inserts(cdr[w]) /\ copies' = [copies EXCEPT ![cdr[w]] = @ + 1]
  /\ Goto(w, "failed")
  /\ UNCHANGED <<dlqVars, cdr, answers, lost, sends>>

\* dlq.enqueue: a failed write is logged and swallowed, and so is one that MySQL
\* ran and whose acknowledgement got lost.
SendToDlq(s, code) ==
  \/ Enqueue(s, code) /\ UNCHANGED lost
  \/ (Enqueue(s, code) \/ UNCHANGED dlqVars) /\ lost' = lost \cup {s}

\* validateCDR found an error: enqueue it and throw a validationError, which the
\* catch block of the same handler catches.
EnqueueRefused(w) ==
  /\ pc[w] = "refused"
  /\ SendToDlq(cdr[w], "VALIDATION_ERROR")
  /\ Goto(w, "failed")
  /\ UNCHANGED <<copies, cdr, answers, sends>>

\* EnqueueFailed, did the catch block only report the failure
ReportFailed(w) ==
  /\ pc[w] = "failed"
  /\ Answer(cdr[w], 500)
  /\ Finish(w)
  /\ UNCHANGED <<dlqVars, copies, lost, sends>>

\* The catch block: no AppError has the name 'AppError', so that every error,
\* the validation error too, is enqueued and answered as a database error.
EnqueueFailed(w) ==
  /\ pc[w] = "failed"
  /\ SendToDlq(cdr[w], "PROCESSING_ERROR")
  /\ Answer(cdr[w], 500)
  /\ Finish(w)
  /\ UNCHANGED <<copies, sends>>

\* The pod dies.
Crash(w) ==
  /\ pc[w] # "idle"
  /\ Finish(w)
  /\ UNCHANGED <<dlqVars, copies, answers, lost, sends>>

\* An administrator decides an item (the service as it is called; whether a role
\* lets a request through is not this module's concern).
Review(a, i) ==
  /\ Resolve(a, i) \/ Discard(a, i)
  /\ UNCHANGED <<copies, pc, cdr, answers, lost, sends>>

Next ==
  \/ \E w \in Workers :
       \/ \E s \in Submissions : Receive(w, s)
       \/ InsertRow(w) \/ InsertIgnored(w) \/ InsertFails(w)
       \/ EnqueueRefused(w) \/ EnqueueFailed(w) \/ Crash(w)
  \/ \E a \in Admins, i \in ItemIds : Review(a, i)

Spec == Init /\ [][Next]_vars

-----------------------------------------------------------------------------
TypeOK ==
  /\ DlqTypeOK
  /\ copies \in [Submissions -> Nat]
  /\ pc \in [Workers -> {"idle", "insert", "refused", "failed"}]
  /\ cdr \in [Workers -> Submissions \cup {NoCdr}]
  /\ answers \in [Submissions -> SUBSET {200, 201, 500}]
  /\ lost \subseteq Submissions
  /\ sends \in 0..MaxSends

\* readme line 49: retrying a CDR with its key charges nobody twice.  Whatever
\* answers are lost, pods die or deliveries overlap, at most one row of user_logs
\* holds a key.
KeyStoredOnce ==
  \A s, t \in Submissions :
    Key[s] # NoKey /\ Key[s] = Key[t] /\ copies[s] > 0 /\ copies[t] > 0 =>
      s = t /\ copies[s] = 1

\* What a client was told is so: a CDR answered 201 is stored, a key answered as
\* a duplicate has a row or the row was not storable, and a CDR answered 500 is in
\* the dead letter queue unless writing it there failed.
AnswerIsTrue ==
  \A s \in Submissions :
    /\ 201 \in answers[s] => copies[s] > 0
    /\ 200 \in answers[s] => KeyTaken(s) \/ s \notin Storable
    /\ 500 \in answers[s] => Kept(s) \/ s \in lost

\* The queue is a record: an item keeps its payload, and a decision is never
\* overwritten, by whichever administrator comes second.
DecisionsStand ==
  [][\A i \in ItemIds :
       dlq[i] # NoItem =>
         /\ dlq'[i] # NoItem /\ dlq'[i].source = dlq[i].source
         /\ dlq[i].status # "PENDING" => dlq'[i] = dlq[i]]_vars

\* models/User.ts line 100: no data is silently dropped.  A well-formed CDR that
\* was answered is stored, itself or under its key, or in the queue, or lost with an
\* entry in the log.
NothingDropped ==
  \A s \in Wellformed :
    answers[s] # {} => copies[s] > 0 \/ KeyTaken(s) \/ Kept(s) \/ s \in lost

\* readme line 252: the request of a malformed CDR returns the validation error,
\* never a database error.
ValidationErrorReported ==
  \A s \in Submissions \ Wellformed : 500 \notin answers[s]
=============================================================================

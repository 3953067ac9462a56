-------------------------- MODULE IngestionProofs ---------------------------
(***************************************************************************)
(* What usage ingestion guarantees for any number of clients, retries,     *)
(* failures and administrators.  The three properties are proved from one  *)
(* inductive invariant.  It adds to them that a busy worker has a          *)
(* submission and that identifiers AUTO_INCREMENT has not reached have no  *)
(* row: without the latter an INSERT could replace an item of the queue,   *)
(* and an answer 500 would no longer be true.                              *)
(***************************************************************************)
EXTENDS UsageIngestion, TLAPS

Busy == \A w \in Workers : pc[w] # "idle" => cdr[w] \in Submissions

Unreached == \A i \in ItemIds : i >= nextItem => dlq[i] = NoItem

IngestionInv ==
  /\ TypeOK
  /\ Busy
  /\ Unreached
  /\ KeyStoredOnce
  /\ AnswerIsTrue

USE MaxItemsAssumption, NoItemAssumption, SubmissionAssumption, NoCdrAssumption,
    MaxSendsAssumption

LEMMA IngestionInit == Init => IngestionInv
<1> SUFFICES ASSUME Init PROVE IngestionInv
  OBVIOUS
<1>1. TypeOK
  BY DEF Init, DlqInit, TypeOK, DlqTypeOK, ItemIds
<1>2. KeyStoredOnce /\ AnswerIsTrue
  BY DEF Init, KeyStoredOnce, AnswerIsTrue
<1> QED
  BY <1>1, <1>2 DEF Init, DlqInit, IngestionInv, Busy, Unreached

-----------------------------------------------------------------------------
(***************************************************************************)
(* The queue                                                               *)
(***************************************************************************)

\* What a statement on the queue may do: it leaves every item its payload and every
\* decision alone, and it keeps the queue well formed.
QueueStep ==
  /\ DlqTypeOK'
  /\ Unreached'
  /\ \A i \in ItemIds :
       dlq[i] # NoItem =>
         /\ dlq'[i] # NoItem /\ dlq'[i].source = dlq[i].source
         /\ dlq[i].status # "PENDING" => dlq'[i] = dlq[i]

LEMMA EnqueueStep ==
  ASSUME DlqTypeOK, Unreached, NEW s \in Submissions,
         NEW code \in {"VALIDATION_ERROR", "PROCESSING_ERROR"}, Enqueue(s, code)
  PROVE  QueueStep /\ Kept(s)'
<1> DEFINE new == [source |-> s, code |-> code, status |-> "PENDING", resolved_by |-> Nobody]
<1>1. new \in Item /\ new # NoItem /\ new.source = s
  BY DEF Item
<1>2. /\ nextItem \in ItemIds
      /\ dlq[nextItem] = NoItem
      /\ dlq' = [dlq EXCEPT ![nextItem] = new]
      /\ nextItem' = nextItem + 1
  BY DEF Enqueue, Unreached, ItemIds
<1> HIDE DEF new
<1>3. DlqTypeOK'
  BY <1>1, <1>2 DEF DlqTypeOK, ItemIds
<1>4. Unreached'
  BY <1>2 DEF Unreached, DlqTypeOK, ItemIds
<1>5. dlq'[nextItem] = new
  BY <1>2 DEF DlqTypeOK
<1>6. Kept(s)'
  BY <1>1, <1>2, <1>5 DEF Kept
<1>7. \A i \in ItemIds : dlq[i] # NoItem => dlq'[i] = dlq[i]
  BY <1>2 DEF DlqTypeOK
<1> QED
  BY <1>3, <1>4, <1>6, <1>7 DEF QueueStep

LEMMA DecideStep ==
  ASSUME DlqTypeOK, Unreached, NEW a \in Admins, NEW i \in ItemIds,
         Resolve(a, i) \/ Discard(a, i)
  PROVE  QueueStep
<1>1. PICK status \in {"RESOLVED", "DISCARDED"} : Decide(a, i, status)
  BY DEF Resolve, Discard
<1> DEFINE new == [dlq[i] EXCEPT !.status = status, !.resolved_by = a]
<1>2. dlq[i] # NoItem /\ dlq[i] \in Item /\ dlq[i].status = "PENDING"
  BY <1>1 DEF Decide, DlqTypeOK
<1>3. new \in Item /\ new # NoItem /\ new.source = dlq[i].source
  BY <1>2 DEF Item
<1>4. dlq' = [dlq EXCEPT ![i] = new] /\ nextItem' = nextItem
  BY <1>1 DEF Decide, DlqTypeOK
<1> HIDE DEF new
<1>5. DlqTypeOK'
  BY <1>3, <1>4 DEF DlqTypeOK
<1>6. dlq'[i] = new /\ \A j \in ItemIds : j # i => dlq'[j] = dlq[j]
  BY <1>4 DEF DlqTypeOK
<1>7. Unreached'
  BY <1>2, <1>4, <1>6 DEF Unreached, DlqTypeOK
<1> QED
  BY <1>2, <1>3, <1>5, <1>6, <1>7 DEF QueueStep

LEMMA IdleQueueStep ==
  ASSUME DlqTypeOK, Unreached, UNCHANGED dlqVars
  PROVE  QueueStep
  BY DEF QueueStep, DlqTypeOK, Unreached, dlqVars

LEMMA SendStep ==
  ASSUME DlqTypeOK, Unreached, lost \subseteq Submissions, NEW s \in Submissions,
         NEW code \in {"VALIDATION_ERROR", "PROCESSING_ERROR"}, SendToDlq(s, code)
  PROVE  /\ QueueStep
         /\ lost \subseteq lost' /\ lost' \subseteq Submissions
         /\ Kept(s)' \/ s \in lost'
<1>1. CASE Enqueue(s, code) /\ UNCHANGED lost
  BY <1>1, EnqueueStep
<1>2. CASE Enqueue(s, code) /\ lost' = lost \cup {s}
  BY <1>2, EnqueueStep
<1>3. CASE UNCHANGED dlqVars /\ lost' = lost \cup {s}
  BY <1>3, IdleQueueStep
<1> QED
  BY <1>1, <1>2, <1>3 DEF SendToDlq

\* An item stays in the queue.
LEMMA StaysKept ==
  ASSUME QueueStep, NEW s \in Submissions, Kept(s)
  PROVE  Kept(s)'
  BY DEF QueueStep, Kept

-----------------------------------------------------------------------------
(***************************************************************************)
(* The usage log                                                           *)
(***************************************************************************)

\* What a statement on user_logs may do: nothing, or store one row whose key is free.
LogStep(s) ==
  \/ copies' = copies
  \/ Inserts(s) /\ copies' = [copies EXCEPT ![s] = @ + 1]

LEMMA LogUntouched ==
  ASSUME UNCHANGED copies, NEW s \in Submissions
  PROVE  LogStep(s)
  BY DEF LogStep

LEMMA LogStepKeepsKeys ==
  ASSUME copies \in [Submissions -> Nat], KeyStoredOnce, NEW s \in Submissions, LogStep(s)
  PROVE  /\ copies' \in [Submissions -> Nat]
         /\ KeyStoredOnce'
         /\ \A t \in Submissions : copies[t] > 0 => copies'[t] > 0
         /\ \A t \in Submissions : KeyTaken(t) => KeyTaken(t)'
<1>1. CASE copies' = copies
  BY <1>1 DEF KeyStoredOnce, KeyTaken
<1>2. CASE Inserts(s) /\ copies' = [copies EXCEPT ![s] = @ + 1]
  <2>1. /\ copies' \in [Submissions -> Nat]
        /\ copies'[s] = copies[s] + 1
        /\ \A t \in Submissions : t # s => copies'[t] = copies[t]
    BY <1>2
  <2>2. \A t \in Submissions : Key[s] # NoKey /\ Key[t] = Key[s] => copies[t] = 0
    BY <1>2 DEF Inserts, KeyTaken
  <2>3. KeyStoredOnce'
    BY <2>1, <2>2 DEF KeyStoredOnce
  <2>4. \A t \in Submissions : copies[t] > 0 => copies'[t] > 0
    BY <2>1
  <2> QED
    BY <2>1, <2>3, <2>4 DEF KeyTaken
<1> QED
  BY <1>1, <1>2 DEF LogStep

\* Answers that were true stay true when nobody is answered.
LEMMA AnswersStayTrue ==
  ASSUME AnswerIsTrue, QueueStep, lost \subseteq lost',
         \A t \in Submissions : copies[t] > 0 => copies'[t] > 0,
         \A t \in Submissions : KeyTaken(t) => KeyTaken(t)',
         NEW t \in Submissions
  PROVE  /\ 201 \in answers[t] => copies'[t] > 0
         /\ 200 \in answers[t] => KeyTaken(t)' \/ t \notin Storable
         /\ 500 \in answers[t] => Kept(t)' \/ t \in lost'
  BY StaysKept DEF AnswerIsTrue

\* An answer is true when what it says holds after the step.
LEMMA TrueAnswer ==
  ASSUME IngestionInv, QueueStep, lost \subseteq lost',
         NEW s \in Submissions, LogStep(s), NEW status \in {200, 201, 500},
         Answer(s, status),
         status = 201 => copies'[s] > 0,
         status = 200 => KeyTaken(s)' \/ s \notin Storable,
         status = 500 => Kept(s)' \/ s \in lost'
  PROVE  AnswerIsTrue' /\ answers' \in [Submissions -> SUBSET {200, 201, 500}]
<1>1. answers \in [Submissions -> SUBSET {200, 201, 500}]
  BY DEF IngestionInv, TypeOK
<1>2. /\ answers' \in [Submissions -> SUBSET {200, 201, 500}]
      /\ \A t \in Submissions : answers'[t] \subseteq answers[t] \cup {status}
      /\ \A t \in Submissions : t # s => answers'[t] = answers[t]
  BY <1>1 DEF Answer
<1>3. \A t \in Submissions :
        /\ 201 \in answers[t] => copies'[t] > 0
        /\ 200 \in answers[t] => KeyTaken(t)' \/ t \notin Storable
        /\ 500 \in answers[t] => Kept(t)' \/ t \in lost'
  BY AnswersStayTrue, LogStepKeepsKeys DEF IngestionInv, TypeOK
<1>4. ASSUME NEW t \in Submissions
      PROVE  /\ 201 \in answers'[t] => copies'[t] > 0
             /\ 200 \in answers'[t] => KeyTaken(t)' \/ t \notin Storable
             /\ 500 \in answers'[t] => Kept(t)' \/ t \in lost'
  <2>1. CASE t = s
    BY <1>2, <1>3, <2>1
  <2>2. CASE t # s
    BY <1>2, <1>3, <2>2
  <2> QED
    BY <2>1, <2>2
<1> QED
  BY <1>2, <1>4 DEF AnswerIsTrue

-----------------------------------------------------------------------------
(***************************************************************************)
(* The steps                                                               *)
(***************************************************************************)

\* The conjuncts about workers and deliveries
WorkersOK ==
  /\ pc \in [Workers -> {"idle", "insert", "refused", "failed"}]
  /\ cdr \in [Workers -> Submissions \cup {NoCdr}]
  /\ sends \in 0..MaxSends
  /\ Busy

LEMMA GotoKeepsWorkers ==
  ASSUME WorkersOK, NEW w \in Workers, pc[w] # "idle",
         NEW step \in {"idle", "insert", "refused", "failed"}, Goto(w, step),
         UNCHANGED <<cdr, sends>>
  PROVE  WorkersOK'
  BY DEF WorkersOK, Busy, Goto

LEMMA FinishKeepsWorkers ==
  ASSUME WorkersOK, NEW w \in Workers, Finish(w), UNCHANGED sends
  PROVE  WorkersOK'
  BY DEF WorkersOK, Busy, Finish, Goto

\* The parts of the invariant put together
LEMMA Assemble ==
  ASSUME IngestionInv, QueueStep, WorkersOK', lost' \subseteq Submissions,
         NEW s \in Submissions, LogStep(s),
         AnswerIsTrue' /\ answers' \in [Submissions -> SUBSET {200, 201, 500}]
  PROVE  IngestionInv'
<1>1. copies' \in [Submissions -> Nat] /\ KeyStoredOnce'
  BY LogStepKeepsKeys DEF IngestionInv, TypeOK
<1> QED
  BY <1>1 DEF IngestionInv, TypeOK, WorkersOK, QueueStep

\* The same for a step that answers nobody
LEMMA AssembleSilent ==
  ASSUME IngestionInv, QueueStep, WorkersOK', lost \subseteq lost', lost' \subseteq Submissions,
         NEW s \in Submissions, LogStep(s), UNCHANGED answers
  PROVE  IngestionInv'
<1>1. answers \in [Submissions -> SUBSET {200, 201, 500}]
  BY DEF IngestionInv, TypeOK
<1>2. AnswerIsTrue'
  <2>1. \A t \in Submissions :
          /\ 201 \in answers[t] => copies'[t] > 0
          /\ 200 \in answers[t] => KeyTaken(t)' \/ t \notin Storable
          /\ 500 \in answers[t] => Kept(t)' \/ t \in lost'
    BY AnswersStayTrue, LogStepKeepsKeys DEF IngestionInv, TypeOK
  <2> QED
    BY <2>1 DEF AnswerIsTrue
<1> QED
  BY <1>1, <1>2, Assemble

\* The same for a step that does not touch user_logs, with no submission at hand
LEMMA FrameKeepsIngestionInv ==
  ASSUME IngestionInv, QueueStep, WorkersOK', UNCHANGED <<copies, answers, lost>>
  PROVE  IngestionInv'
<1>1. CASE Submissions = {}
  BY <1>1 DEF IngestionInv, TypeOK, WorkersOK, QueueStep, KeyStoredOnce, AnswerIsTrue
<1>2. CASE Submissions # {}
  <2>1. PICK s \in Submissions : TRUE
    BY <1>2
  <2> QED
    BY <2>1, AssembleSilent, LogUntouched DEF IngestionInv, TypeOK
<1> QED
  BY <1>1, <1>2

LEMMA IngestionStep ==
  ASSUME IngestionInv, [Next]_vars
  PROVE  IngestionInv' /\ QueueStep
<1>1. /\ DlqTypeOK /\ Unreached /\ WorkersOK /\ lost \subseteq Submissions
      /\ \A w \in Workers : pc[w] # "idle" => cdr[w] \in Submissions
  BY DEF IngestionInv, TypeOK, WorkersOK, Busy
<1>2. ASSUME NEW w \in Workers, NEW s \in Submissions, Receive(w, s)
      PROVE  IngestionInv' /\ QueueStep
  <2>1. WorkersOK'
    BY <1>1, <1>2 DEF Receive, WorkersOK, Busy, Goto
  <2>2. QueueStep
    BY <1>1, <1>2, IdleQueueStep DEF Receive
  <2> QED
    BY <1>1, <1>2, <2>1, <2>2, AssembleSilent, LogUntouched DEF Receive
<1>3. ASSUME NEW w \in Workers, InsertRow(w)
      PROVE  IngestionInv' /\ QueueStep
  <2>0. PICK s \in Submissions : s = cdr[w]
    BY <1>1, <1>3 DEF InsertRow
  <2>1. LogStep(s) /\ Answer(s, 201) /\ lost' = lost
    BY <2>0, <1>1, <1>3 DEF InsertRow, LogStep
  <2>2. copies'[s] > 0
    BY <2>0, <1>3, <2>1 DEF InsertRow, IngestionInv, TypeOK
  <2>3. QueueStep
    BY <1>1, <1>3, IdleQueueStep DEF InsertRow
  <2>4. WorkersOK'
    BY <1>1, <1>3, FinishKeepsWorkers DEF InsertRow
  <2>5. AnswerIsTrue' /\ answers' \in [Submissions -> SUBSET {200, 201, 500}]
    BY <2>1, <2>2, <2>3, TrueAnswer
  <2> QED
    BY <1>1, <2>1, <2>3, <2>4, <2>5, Assemble
<1>4. ASSUME NEW w \in Workers, InsertIgnored(w)
      PROVE  IngestionInv' /\ QueueStep
  <2>0. PICK s \in Submissions : s = cdr[w]
    BY <1>1, <1>4 DEF InsertIgnored
  <2>1. LogStep(s) /\ Answer(s, 200) /\ lost' = lost
    BY <2>0, <1>1, <1>4, LogUntouched DEF InsertIgnored, Answer
  <2>2. KeyTaken(s)' \/ s \notin Storable
    BY <2>0, <1>4 DEF InsertIgnored, Inserts, KeyTaken
  <2>3. QueueStep
    BY <1>1, <1>4, IdleQueueStep DEF InsertIgnored
  <2>4. WorkersOK'
    BY <1>1, <1>4, FinishKeepsWorkers DEF InsertIgnored
  <2>5. AnswerIsTrue' /\ answers' \in [Submissions -> SUBSET {200, 201, 500}]
    BY <2>1, <2>2, <2>3, TrueAnswer
  <2> QED
    BY <1>1, <2>1, <2>3, <2>4, <2>5, Assemble
<1>5. ASSUME NEW w \in Workers, InsertFails(w)
      PROVE  IngestionInv' /\ QueueStep
  <2>1. cdr[w] \in Submissions /\ LogStep(cdr[w]) /\ UNCHANGED <<answers, lost>>
    BY <1>1, <1>5 DEF InsertFails, LogStep
  <2>2. QueueStep
    BY <1>1, <1>5, IdleQueueStep DEF InsertFails
  <2>3. WorkersOK'
    BY <1>1, <1>5, GotoKeepsWorkers DEF InsertFails
  <2> QED
    BY <1>1, <2>1, <2>2, <2>3, AssembleSilent
<1>6. ASSUME NEW w \in Workers, EnqueueRefused(w)
      PROVE  IngestionInv' /\ QueueStep
  <2>1. /\ cdr[w] \in Submissions /\ LogStep(cdr[w]) /\ UNCHANGED answers
        /\ SendToDlq(cdr[w], "VALIDATION_ERROR")
    BY <1>1, <1>6, LogUntouched DEF EnqueueRefused
  <2>2. QueueStep /\ lost \subseteq lost' /\ lost' \subseteq Submissions
    BY <1>1, <2>1, SendStep
  <2>3. WorkersOK'
    BY <1>1, <1>6, GotoKeepsWorkers DEF EnqueueRefused
  <2> QED
    BY <2>1, <2>2, <2>3, AssembleSilent
<1>7. ASSUME NEW w \in Workers, EnqueueFailed(w)
      PROVE  IngestionInv' /\ QueueStep
  <2>0. PICK s \in Submissions : s = cdr[w]
    BY <1>1, <1>7 DEF EnqueueFailed
  <2>1. /\ LogStep(s) /\ Answer(s, 500)
        /\ SendToDlq(s, "PROCESSING_ERROR")
    BY <2>0, <1>1, <1>7, LogUntouched DEF EnqueueFailed, Answer, SendToDlq, Enqueue
  <2>2. WorkersOK'
    BY <1>1, <1>7, FinishKeepsWorkers DEF EnqueueFailed
  <2>3. QueueStep /\ lost \subseteq lost' /\ lost' \subseteq Submissions /\ (Kept(s)' \/ s \in lost')
    BY <1>1, <2>1, SendStep
  <2>4. AnswerIsTrue' /\ answers' \in [Submissions -> SUBSET {200, 201, 500}]
    BY <2>1, <2>3, TrueAnswer
  <2> QED
    BY <2>1, <2>2, <2>3, <2>4, Assemble
<1>8. ASSUME NEW w \in Workers, Crash(w)
      PROVE  IngestionInv' /\ QueueStep
  <2>1. cdr[w] \in Submissions /\ LogStep(cdr[w]) /\ UNCHANGED <<answers, lost>>
    BY <1>1, <1>8, LogUntouched DEF Crash
  <2>2. QueueStep
    BY <1>1, <1>8, IdleQueueStep DEF Crash
  <2>3. WorkersOK'
    BY <1>1, <1>8, FinishKeepsWorkers DEF Crash
  <2> QED
    BY <1>1, <2>1, <2>2, <2>3, AssembleSilent
<1>9. ASSUME NEW a \in Admins, NEW i \in ItemIds, Review(a, i)
      PROVE  IngestionInv' /\ QueueStep
  <2>1. QueueStep
    BY <1>1, <1>9, DecideStep DEF Review
  <2>2. WorkersOK'
    BY <1>1, <1>9 DEF Review, WorkersOK, Busy
  <2>3. IngestionInv'
    BY <1>1, <1>9, <2>1, <2>2, FrameKeepsIngestionInv DEF Review
  <2> QED
    BY <2>1, <2>3
<1>10. ASSUME UNCHANGED vars
       PROVE  IngestionInv' /\ QueueStep
  <2>1. QueueStep
    BY <1>1, <1>10, IdleQueueStep DEF vars
  <2>2. WorkersOK'
    BY <1>1, <1>10 DEF vars, WorkersOK, Busy
  <2> QED
    BY <1>1, <1>10, <2>1, <2>2, FrameKeepsIngestionInv DEF vars
<1> QED
  BY <1>2, <1>3, <1>4, <1>5, <1>6, <1>7, <1>8, <1>9, <1>10 DEF Next

LEMMA AlwaysIngestionInv == Spec => []IngestionInv
<1>1. IngestionInv /\ [Next]_vars => IngestionInv'
  BY IngestionStep
<1> QED
  BY <1>1, IngestionInit, PTL DEF Spec

-----------------------------------------------------------------------------
\* Every reachable state of usage ingestion and the dead letter queue is well typed.
THEOREM IngestionTypeCorrect == Spec => []TypeOK
<1>1. IngestionInv => TypeOK
  BY DEF IngestionInv
<1> QED
  BY <1>1, AlwaysIngestionInv, PTL

\* However often and however concurrently a CDR is sent, and whatever fails, at most
\* one row of user_logs holds its idempotency key.
THEOREM KeysStayUnique == Spec => []KeyStoredOnce
<1>1. IngestionInv => KeyStoredOnce
  BY DEF IngestionInv
<1> QED
  BY <1>1, AlwaysIngestionInv, PTL

\* What a client was told about its CDR is so from then on.
THEOREM AnswersAreTrue == Spec => []AnswerIsTrue
<1>1. IngestionInv => AnswerIsTrue
  BY DEF IngestionInv
<1> QED
  BY <1>1, AlwaysIngestionInv, PTL

\* An item of the queue keeps its payload, and no decision about it is overwritten.
THEOREM DecisionsAreFinal == Spec => DecisionsStand
<1>1. IngestionInv /\ [Next]_vars =>
        [\A i \in ItemIds :
           dlq[i] # NoItem =>
             /\ dlq'[i] # NoItem /\ dlq'[i].source = dlq[i].source
             /\ dlq[i].status # "PENDING" => dlq'[i] = dlq[i]]_vars
  BY IngestionStep DEF QueueStep
<1> QED
  BY <1>1, AlwaysIngestionInv, PTL DEF Spec, DecisionsStand
=============================================================================

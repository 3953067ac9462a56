-------------------------- MODULE DeadLetterQueue ---------------------------
(***************************************************************************)
(* The table dead_letter_queue and the statements of                       *)
(* src/src/services/deadLetterService.ts that change it.  Each of them is  *)
(* one autocommitted statement, and so one step.  The statuses RETRIED and *)
(* the column retry_count are never written by the service.                *)
(***************************************************************************)
EXTENDS Integers

CONSTANTS
  Submissions,   \* the CDRs clients send
  Admins,        \* users.id of administrators
  Nobody,        \* NULL in resolved_by
  NoItem,        \* an identifier without a row
  MaxItems       \* bound: AUTO_INCREMENT values of dead_letter_queue

ItemIds == 1..MaxItems

Item == [source : Submissions,                                  \* raw_payload
         code : {"VALIDATION_ERROR", "PROCESSING_ERROR"},
         status : {"PENDING", "RESOLVED", "DISCARDED"},
         resolved_by : Admins \cup {Nobody}]

ASSUME MaxItemsAssumption == MaxItems \in Nat
ASSUME NoItemAssumption == NoItem \notin Item

VARIABLES dlq, nextItem

dlqVars == <<dlq, nextItem>>

DlqInit ==
  /\ dlq = [i \in ItemIds |-> NoItem]
  /\ nextItem = 1

\* Enqueue, were the column error_code left out of the INSERT
EnqueueUncoded(s, code) ==
  /\ nextItem \in ItemIds
  /\ dlq' = [dlq EXCEPT ![nextItem] = [source |-> s, code |-> "NULL", status |-> "PENDING",
                                       resolved_by |-> Nobody]]
  /\ nextItem' = nextItem + 1

\* enqueue, when the INSERT succeeds
Enqueue(s, code) ==
  /\ nextItem \in ItemIds
  /\ dlq' = [dlq EXCEPT ![nextItem] = [source |-> s, code |-> code, status |-> "PENDING",
                                       resolved_by |-> Nobody]]
  /\ nextItem' = nextItem + 1

\* Decide, had the UPDATE no AND status = 'PENDING'
DecideAnyway(a, i, status) ==
  /\ dlq[i] # NoItem
  /\ dlq' = [dlq EXCEPT ![i].status = status, ![i].resolved_by = a]
  /\ UNCHANGED nextItem

\* resolve and discard: UPDATE ... WHERE id = ? AND status = 'PENDING'.  A call
\* that finds no such row changes nothing and answers false.
Decide(a, i, status) ==
  /\ dlq[i] # NoItem
  /\ dlq[i].status = "PENDING"
  /\ dlq' = [dlq EXCEPT ![i].status = status, ![i].resolved_by = a]
  /\ UNCHANGED nextItem

Resolve(a, i) == Decide(a, i, "RESOLVED")
Discard(a, i) == Decide(a, i, "DISCARDED")

DlqTypeOK ==
  /\ dlq \in [ItemIds -> Item \cup {NoItem}]
  /\ nextItem \in 1..(MaxItems + 1)

\* s is kept in the queue.
Kept(s) == \E i \in ItemIds : dlq[i] # NoItem /\ dlq[i].source = s
=============================================================================

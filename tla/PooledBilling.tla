--------------------------- MODULE PooledBilling ----------------------------
(***************************************************************************)
(* Billing and reconciliation on the connection pools of the pods: every   *)
(* service method takes one connection before its first statement and      *)
(* gives it back in its finally block.  A request may wait for a           *)
(* connection, and a request that has one for a row lock.                  *)
(***************************************************************************)
EXTENDS Reconciliation, ConnectionPool

ASSUME ClientAssumption == /\ Clients = Workers \cup Auditors
                           /\ Workers \cap Auditors = {}

\* What the code runs on; suspect is a history variable.
sysVars == <<vars, audit, poolVars>>

PooledInit == Init /\ AuditInit /\ PoolInit

\* c is about to enter calculateBill, createBill, payBill or reconcileLedger.
Enters(c) ==
  \/ c \in Workers /\ pc[c] \in {"calculate", "insertBill", "lockBill"}
  \/ c \in Auditors /\ audit[c].step = "readLast"

\* const connection = await pool.getConnection(), outside the try block
TakeConnection(c) ==
  /\ Enters(c)
  /\ GetConnection(c)
  /\ UNCHANGED <<vars, audit>>

\* Returns, were the connection given back after the commit and not in a finally
\* block
ReturnsAfterCommit(w) == pc[w] \in {"calculate", "commit"}

\* finally { connection.release() }: w leaves its service method in this step, by a
\* return or by an exception.  (generateBill goes on to createBill.)
Returns(w) == pc[w] = "calculate" \/ pc'[w] = "idle"

\* BillingStep, did ReadBalance use pool.query, and so a second connection
BillingStepNested(w) ==
  /\ w \in owners
  /\ pc[w] = "readBalance" => lent[PodOf[w]] < ConnectionLimit
  /\ Step(w)
  /\ IF Returns(w) THEN Release(w) ELSE UNCHANGED poolVars
  /\ UNCHANGED audit

\* The next statement of w, on its connection
BillingStep(w) ==
  /\ w \in owners
  /\ Step(w)
  /\ IF Returns(w) THEN Release(w) ELSE UNCHANGED poolVars
  /\ UNCHANGED audit

AuditorStep(a) ==
  /\ a \in owners
  /\ AuditStep(a)
  /\ IF InFlight(a)' THEN UNCHANGED poolVars ELSE Release(a)
  /\ UNCHANGED vars

\* The request fails where it is: before, while or after it waits for a connection.
\* A pod that dies is a failure of all its requests.
RequestFails(c) ==
  /\ \/ c \in Workers /\ Abort(c) /\ UNCHANGED audit
     \/ c \in Auditors /\ AuditFails(c) /\ UNCHANGED vars
  /\ LetGo(c)

PooledStart(w) == Start(w) /\ UNCHANGED <<audit, poolVars>>
PooledAudit(a) == (\E u \in Users : StartAudit(a, u)) /\ UNCHANGED <<vars, poolVars>>

PooledNext ==
  /\ \/ Environment /\ UNCHANGED <<audit, poolVars>>
     \/ \E w \in Workers : PooledStart(w) \/ BillingStep(w)
     \/ \E a \in Auditors : PooledAudit(a) \/ AuditorStep(a)
     \/ \E c \in Clients : TakeConnection(c) \/ RequestFails(c)
  /\ WatchAudits

PooledSpec == PooledInit /\ [][PooledNext]_<<sysVars, suspect>>

\* A method that can call getConnection does, a statement that can run runs, and
\* InnoDB queues the waiters of a row lock.  The order of the pool's queue is part
\* of its steps and needs no fairness.
PooledFairness ==
  /\ \A a \in Auditors : WF_sysVars(TakeConnection(a) \/ AuditorStep(a))
  /\ \A w \in Workers : /\ WF_sysVars(TakeConnection(w) \/ BillingStep(w))
                        /\ SF_sysVars(BillingStep(w) /\ pc[w] \in {"markCdrs", "lockBill"})

PooledFairSpec == PooledSpec /\ PooledFairness

-----------------------------------------------------------------------------
\* c is in the middle of a transaction.
InTransaction(c) ==
  \/ c \in Workers /\ pc[c] # "idle" /\ ~Enters(c)
  \/ c \in Auditors /\ InFlight(c) /\ ~Enters(c)

\* "All connections are released in finally blocks - never leaked, even on
\* exceptions" (readme): in each pod, every connection handed out belongs to a request
\* in flight, every open transaction has one, and nobody waits while one is free.
ConnectionsAccountedFor ==
  /\ \A p \in Pods :
       /\ lent[p] = Cardinality({c \in owners : PodOf[c] = p})
       /\ lent[p] <= ConnectionLimit
       /\ queue[p] # <<>> => lent[p] = ConnectionLimit
  /\ \A c \in Clients :
       /\ InTransaction(c) => c \in owners
       /\ c \in owners \/ Waits(c) => InTransaction(c) \/ Enters(c)
       /\ ~(c \in owners /\ Waits(c))

\* However few connections there are, no request or audit in flight stays in flight for
\* ever, be it waiting for a connection or for a row lock.
ClientsServed ==
  /\ \A w \in Workers : []<>(pc[w] = "idle")
  /\ \A a \in Auditors : []<>~InFlight(a)
=============================================================================

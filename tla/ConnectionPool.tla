--------------------------- MODULE ConnectionPool ---------------------------
(***************************************************************************)
(* The mysql2 pool that src/src/database/connection.ts creates, one in     *)
(* each pod: waitForConnections, connectionLimit, queueLimit 0 (a queue    *)
(* without bound) and no acquire timeout.  mysql2 is external and modelled *)
(* from how the services use it.  A connection that breaks is replaced, so *)
(* that only the number handed out matters.                                *)
(***************************************************************************)
EXTENDS Integers, Sequences, FiniteSets

CONSTANTS
  Clients,          \* the requests that use a pool
  Pods,
  PodOf,            \* PodOf[c]: the pod that serves c
  ConnectionLimit   \* 10

ASSUME PoolAssumption == /\ IsFiniteSet(Clients)
                         /\ PodOf \in [Clients -> Pods]
                         /\ ConnectionLimit \in Nat \ {0}

VARIABLES
  lent,     \* lent[p]: how many connections the pool of p has handed out
  owners,   \* the clients that have one
  queue     \* queue[p]: the clients that wait for one

poolVars == <<lent, owners, queue>>

PoolInit ==
  /\ lent = [p \in Pods |-> 0]
  /\ owners = {}
  /\ queue = [p \in Pods |-> <<>>]

Line(c)  == queue[PodOf[c]]
Waits(c) == \E i \in DOMAIN Line(c) : Line(c)[i] = c

\* pool.getConnection: a connection if the limit allows, a place in the queue if not.
GetConnection(c) ==
  LET p == PodOf[c]
  IN  /\ c \notin owners
      /\ ~Waits(c)
      /\ \/ /\ lent[p] < ConnectionLimit
            /\ lent' = [lent EXCEPT ![p] = @ + 1]
            /\ owners' = owners \cup {c}
            /\ UNCHANGED queue
         \/ /\ lent[p] >= ConnectionLimit
            /\ queue' = [queue EXCEPT ![p] = Append(@, c)]
            /\ UNCHANGED <<lent, owners>>

\* connection.release: straight to the first in the queue, if there is one.
Release(c) ==
  LET p == PodOf[c]
  IN  /\ c \in owners
      /\ \/ /\ queue[p] = <<>>
            /\ lent' = [lent EXCEPT ![p] = @ - 1]
            /\ owners' = owners \ {c}
            /\ UNCHANGED queue
         \/ /\ queue[p] # <<>>
            /\ owners' = (owners \ {c}) \cup {Head(queue[p])}
            /\ queue' = [queue EXCEPT ![p] = Tail(@)]
            /\ UNCHANGED lent

\* getConnection fails (no connection can be made), or the pod of c dies.
LeaveQueue(c) ==
  /\ \E i \in DOMAIN Line(c) :
       /\ Line(c)[i] = c
       /\ queue' = [queue EXCEPT ![PodOf[c]] = SubSeq(@, 1, i - 1) \o SubSeq(@, i + 1, Len(@))]
  /\ UNCHANGED <<lent, owners>>

\* c is over, wherever it was.
LetGo(c) ==
  \/ Release(c)
  \/ LeaveQueue(c)
  \/ c \notin owners /\ ~Waits(c) /\ UNCHANGED poolVars
=============================================================================

----------------------------- MODULE HttpProofs ------------------------------
(***************************************************************************)
(* The lockout of an address and the budget of its signups and logins,     *)
(* for any number of pods, requests in flight, addresses and accounts, and *)
(* any limits.                                                             *)
(*                                                                         *)
(* Both are counting arguments.  What a login in flight may still add to   *)
(* login_attempts is added to what is there already, and the sum passes    *)
(* the limit only by the number of requests in flight.  The failures and   *)
(* the running requests of a window together never exceed its hits, apart  *)
(* from the hits given back for another window.                            *)
(*                                                                         *)
(* The third theorem is about the table of routes: a handler runs only for *)
(* requests entitled to it.                                                *)
(***************************************************************************)
EXTENDS HttpLayer, SumsProofs, FiniteSetTheorems, TLAPS

USE AccountsAssumption, NoRowAssumption, HttpAssumption

-----------------------------------------------------------------------------
(***************************************************************************)
(* Types.                                                                  *)
(***************************************************************************)

LEMMA InitTyped == Init => TypeOK
  BY DEF Init, AccountsInit, TypeOK, AccountsTypeOK, Attempt

\* What the steps of requests leave to show of TypeOK
RequestsTyped ==
  /\ pc \in [Workers -> {"idle", "refused", "handler", "signup"} \cup LoginSteps]
  /\ req \in [Workers -> InFlight \cup {NoRequest}]
  /\ \A w \in Workers : pc[w] # "idle" => req[w] \in InFlight

CountsTyped ==
  /\ hits \in [Pods -> [Ips -> 0..MaxHits]]
  /\ failed \in [Pods -> [Ips -> Nat]]
  /\ late \in [Pods -> [Ips -> Nat]]

LEMMA TypeParts == TypeOK <=> AccountsTypeOK /\ RequestsTyped /\ CountsTyped
  BY DEF TypeOK, RequestsTyped, CountsTyped

\* A step that moves one request keeps pc and req in agreement.
LEMMA GotoTyped ==
  ASSUME RequestsTyped, NEW w \in Workers, NEW step, NEW x, Goto(w, step, x),
         step \in {"idle", "refused", "handler", "signup"} \cup LoginSteps,
         IF step = "idle" THEN x = NoRequest ELSE x \in InFlight
  PROVE  RequestsTyped'
  BY DEF RequestsTyped, Goto

\* A request that is answered: the counts stay counts, and w is idle again.
LEMMA AnswerTyped ==
  ASSUME RequestsTyped, CountsTyped, NEW w \in Workers, pc[w] # "idle", NEW s \in Int,
         Answer(w, s)
  PROVE  RequestsTyped' /\ CountsTyped'
<1> DEFINE p == req[w].pod
           ip == req[w].r.client
<1>1. p \in Pods /\ ip \in Ips
  BY DEF RequestsTyped, InFlight
<1>2. hits[p] \in [Ips -> 0..MaxHits] /\ failed[p] \in [Ips -> Nat] /\ late[p] \in [Ips -> Nat]
  BY <1>1 DEF CountsTyped
<1>3. CountsTyped'
  BY <1>1, <1>2 DEF Answer, GivesBack, CountsTyped
<1>4. RequestsTyped'
  BY GotoTyped DEF Answer
<1> QED
  BY <1>3, <1>4

\* The steps of a handler that end it
LEMMA EndingSteps ==
  ASSUME NEW w \in Workers,
         Fails(w) \/ SignupStep(w) \/ RefuseLogin(w) \/ Record(w) \/ Clear(w)
  PROVE  pc[w] \in {"signup"} \cup LoginSteps /\ \E s \in Int : Answer(w, s)
<1>1. CASE Fails(w)
  BY <1>1 DEF Fails
<1>2. CASE SignupStep(w)
  BY <1>2 DEF SignupStep, WeakPassword, SignUp, EmailTaken, Caught
<1>3. CASE RefuseLogin(w)
  BY <1>3 DEF RefuseLogin, Caught, LoginSteps
<1>4. CASE Record(w) \/ Clear(w)
  BY <1>4 DEF Record, Clear, Caught, LoginSteps
<1> QED
  BY <1>1, <1>2, <1>3, <1>4

LEMMA AccountsTypedNext ==
  ASSUME TypeOK, [Next]_vars
  PROVE  AccountsTypeOK'
<1>0. AccountsTypeOK /\ RequestsTyped
  BY TypeParts
<1>1. ASSUME UNCHANGED accountVars PROVE AccountsTypeOK'
  BY <1>0, <1>1 DEF accountVars, AccountsTypeOK
<1>2. ASSUME NEW w \in Workers, Record(w) PROVE AccountsTypeOK'
  <2>1. req[w].r.ip \in Ips /\ req[w].r.email \in Emails
    BY <1>0, <1>2 DEF Record, RequestsTyped, InFlight
  <2>2. [ip |-> req[w].r.ip, email |-> req[w].r.email, age |-> 0] \in Attempt
    BY <2>1 DEF Attempt
  <2> QED
    BY <1>0, <1>2, <2>2 DEF Record, RecordAttempt, AccountsTypeOK
<1>3. ASSUME NEW w \in Workers, Clear(w) PROVE AccountsTypeOK'
  BY <1>0, <1>3 DEF Clear, ClearAttempts, AccountsTypeOK
<1>4. ASSUME NEW w \in Workers, SignUp(w) PROVE AccountsTypeOK'
  <2>1. req[w].r.email \in Emails
    BY <1>0, <1>4 DEF SignUp, RequestsTyped, InFlight
  <2> QED
    BY <1>0, <1>4, <2>1 DEF SignUp, InsertUser, AccountsTypeOK
<1>5. ASSUME TimePasses PROVE AccountsTypeOK'
  <2>1. ASSUME NEW r \in Rows, attempts[r] # NoRow, attempts[r].age + 1 < AttemptWindow
        PROVE  [attempts[r] EXCEPT !.age = @ + 1] \in Attempt
    BY <1>0, <2>1 DEF AccountsTypeOK, Attempt
  <2> QED
    BY <1>0, <1>5, <2>1 DEF TimePasses, AttemptsAge, AccountsTypeOK
<1>6. ASSUME NEW w \in Workers, Step(w), ~Record(w), ~Clear(w), ~SignUp(w)
      PROVE  UNCHANGED accountVars
  BY <1>6 DEF Step, Close, Fails, SignupStep, WeakPassword, EmailTaken, LoginStep,
              RefuseLogin, CountAttempts, Compare
<1>7. ASSUME NEW w \in Workers, NEW p \in Pods, NEW r \in Requests, Arrive(w, r, p)
      PROVE  UNCHANGED accountVars
  BY <1>7 DEF Arrive, Refuse, Serve, LetThrough, TooManyHits, HitAuthLimit
<1>8. ASSUME NEW p \in Pods, PodDies(p) \/ \E ip \in Ips : WindowEnds(p, ip)
      PROVE  UNCHANGED accountVars
  BY <1>8 DEF PodDies, WindowEnds
<1>9. CASE UNCHANGED vars
  BY <1>1, <1>9 DEF vars
<1> QED
  BY <1>1, <1>2, <1>3, <1>4, <1>5, <1>6, <1>7, <1>8, <1>9 DEF Next

LEMMA RequestsTypedNext ==
  ASSUME TypeOK, [Next]_vars
  PROVE  RequestsTyped' /\ CountsTyped'
<1>0. RequestsTyped /\ CountsTyped
  BY TypeParts
<1>1. ASSUME NEW w \in Workers, NEW p \in Pods, NEW r \in Requests,
             Refuse(w, r, p) \/ Serve(w, r, p)
      PROVE  RequestsTyped' /\ CountsTyped'
  <2>1. [r |-> r, pod |-> p, counted |-> FALSE] \in InFlight
    BY DEF InFlight
  <2> QED
    BY <1>0, <1>1, <2>1, GotoTyped DEF Refuse, Serve, CountsTyped
<1>2. ASSUME NEW w \in Workers, NEW p \in Pods, NEW r \in Requests,
             LetThrough(w, r, p) \/ TooManyHits(w, r, p)
      PROVE  RequestsTyped' /\ CountsTyped'
  <2>1. r.client \in Ips
    OBVIOUS
  <2>2. hits[p] \in [Ips -> 0..MaxHits]
    BY <1>0 DEF CountsTyped
  <2>3. HitAuthLimit(r, p)
    BY <1>2 DEF LetThrough, TooManyHits
  <2>4. hits[p][r.client] + 1 \in 0..MaxHits
    BY <2>1, <2>2, <2>3 DEF HitAuthLimit
  <2>5. CountsTyped'
    BY <1>0, <2>1, <2>3, <2>4 DEF HitAuthLimit, CountsTyped
  <2>6. CASE TooManyHits(w, r, p)
    BY <1>0, <2>5, <2>6 DEF TooManyHits, RequestsTyped
  <2>7. CASE LetThrough(w, r, p)
    <3>1. [r |-> r, pod |-> p, counted |-> TRUE] \in InFlight
      BY DEF InFlight
    <3> QED
      BY <1>0, <2>5, <2>7, <3>1, GotoTyped DEF LetThrough, LoginSteps
  <2> QED
    BY <1>2, <2>6, <2>7
<1>3. ASSUME NEW w \in Workers, Close(w)
      PROVE  RequestsTyped' /\ CountsTyped'
  BY <1>0, <1>3, GotoTyped DEF Close, CountsTyped
<1>4. ASSUME NEW w \in Workers, CountAttempts(w) \/ Compare(w)
      PROVE  RequestsTyped' /\ CountsTyped'
  <2>1. req[w] \in InFlight
    BY <1>0, <1>4 DEF CountAttempts, Compare, RequestsTyped
  <2>2. CountsTyped'
    BY <1>0, <1>4 DEF CountAttempts, Compare, CountsTyped
  <2>3. PICK step \in {"compare", "clear", "record"} : Goto(w, step, req[w])
    BY <1>4 DEF CountAttempts, Compare
  <2>4. step \in LoginSteps /\ step # "idle"
    BY DEF LoginSteps
  <2>5. RequestsTyped'
    BY <1>0, <2>1, <2>3, <2>4, GotoTyped
  <2> QED
    BY <2>2, <2>5
<1>5. ASSUME NEW w \in Workers,
             Fails(w) \/ SignupStep(w) \/ RefuseLogin(w) \/ Record(w) \/ Clear(w)
      PROVE  RequestsTyped' /\ CountsTyped'
  <2>1. pc[w] # "idle" /\ \E s \in Int : Answer(w, s)
    BY <1>5, EndingSteps DEF LoginSteps
  <2> QED
    BY <1>0, <2>1, AnswerTyped
<1>6. ASSUME NEW p \in Pods, NEW ip \in Ips, WindowEnds(p, ip)
      PROVE  RequestsTyped' /\ CountsTyped'
  <2>1. \A w \in Workers :
          From(w, p, ip) => [req[w] EXCEPT !.counted = FALSE] \in InFlight
    BY <1>0 DEF From, RequestsTyped, InFlight
  <2>2. hits[p] \in [Ips -> 0..MaxHits] /\ failed[p] \in [Ips -> Nat] /\ late[p] \in [Ips -> Nat]
    BY <1>0 DEF CountsTyped
  <2>3. CountsTyped'
    BY <1>0, <1>6, <2>2 DEF WindowEnds, CountsTyped
  <2> QED
    BY <1>0, <1>6, <2>1, <2>3 DEF WindowEnds, RequestsTyped
<1>7. ASSUME NEW p \in Pods, PodDies(p)
      PROVE  RequestsTyped' /\ CountsTyped'
  BY <1>0, <1>7 DEF PodDies, RequestsTyped, CountsTyped
<1>8. ASSUME UNCHANGED httpVars PROVE RequestsTyped' /\ CountsTyped'
  BY <1>0, <1>8 DEF httpVars, RequestsTyped, CountsTyped
<1>9. TimePasses \/ UNCHANGED vars => UNCHANGED httpVars
  BY DEF TimePasses, vars
<1> QED
  BY <1>1, <1>2, <1>3, <1>4, <1>5, <1>6, <1>7, <1>8, <1>9 DEF Next, Arrive, Step, LoginStep

LEMMA TypeNext == TypeOK /\ [Next]_vars => TypeOK'
<1>1. ASSUME TypeOK, [Next]_vars PROVE TypeOK'
  BY <1>1, AccountsTypedNext, RequestsTypedNext DEF TypeOK, RequestsTyped, CountsTyped
<1> QED
  BY <1>1

\* In every reachable state the tables, the counts and the requests are well typed.
THEOREM HttpTypeCorrect == Spec => []TypeOK
  BY InitTyped, TypeNext, PTL DEF Spec

-----------------------------------------------------------------------------
(***************************************************************************)
(* The lockout.                                                            *)
(***************************************************************************)

\* The failures of ip there are and those that may still come
LockoutInv ==
  \A ip \in Ips :
    Cardinality(RowsOf(ip)) + Cardinality(PastCount(ip)) < MaxAttempts + Cardinality(Workers)

LEMMA FiniteParts ==
  ASSUME NEW ip
  PROVE  /\ IsFiniteSet(RowsOf(ip)) /\ IsFiniteSet(PastCount(ip))
         /\ Cardinality(RowsOf(ip)) \in Nat /\ Cardinality(PastCount(ip)) \in Nat
         /\ Cardinality(PastCount(ip)) <= Cardinality(Workers)
         /\ Cardinality(Workers) \in Nat
<1>1. RowsOf(ip) \subseteq Rows /\ PastCount(ip) \subseteq Workers
  BY DEF RowsOf, PastCount
<1> QED
  BY <1>1, FS_Subset, FS_CardinalityType

\* Smaller sets keep the sum below its limit.
LEMMA FewerKeepLockout ==
  ASSUME NEW ip, NEW rows, NEW past, rows \subseteq RowsOf(ip), past \subseteq PastCount(ip),
         Cardinality(RowsOf(ip)) + Cardinality(PastCount(ip)) < MaxAttempts + Cardinality(Workers)
  PROVE  Cardinality(rows) + Cardinality(past) < MaxAttempts + Cardinality(Workers)
<1>1. Cardinality(rows) \in Nat /\ Cardinality(rows) <= Cardinality(RowsOf(ip))
  BY FiniteParts, FS_Subset, FS_CardinalityType
<1>2. Cardinality(past) \in Nat /\ Cardinality(past) <= Cardinality(PastCount(ip))
  BY FiniteParts, FS_Subset, FS_CardinalityType
<1> QED
  BY <1>1, <1>2, FiniteParts

\* A login passes the count: it may now add a failure, as any of the others.
LEMMA CountKeepsLockout ==
  ASSUME TypeOK, LockoutInv, NEW w \in Workers, CountAttempts(w)
  PROVE  LockoutInv'
<1> SUFFICES ASSUME NEW ip \in Ips
             PROVE  Cardinality(RowsOf(ip)') + Cardinality(PastCount(ip)')
                      < MaxAttempts + Cardinality(Workers)
  BY DEF LockoutInv
<1>1. RowsOf(ip)' = RowsOf(ip)
  BY DEF CountAttempts, accountVars, RowsOf
<1>2. CASE req[w].r.ip = ip
  <2>1. Cardinality(RowsOf(ip)) < MaxAttempts
    BY <1>2, FiniteParts DEF CountAttempts, Locked
  <2>2. PastCount(ip)' \subseteq Workers
    BY DEF PastCount
  <2>3. Cardinality(PastCount(ip)') <= Cardinality(Workers) /\ Cardinality(PastCount(ip)') \in Nat
    BY <2>2, FS_Subset, FS_CardinalityType
  <2> QED
    BY <1>1, <2>1, <2>3, FiniteParts
<1>3. CASE req[w].r.ip # ip
  <2>1. PastCount(ip)' \subseteq PastCount(ip)
    BY <1>3 DEF CountAttempts, Goto, PastCount, TypeOK
  <2> QED
    BY <1>1, <2>1, FewerKeepLockout DEF LockoutInv
<1> QED
  BY <1>2, <1>3

\* A failure is recorded by a login that no longer may add one.
LEMMA RecordKeepsLockout ==
  ASSUME TypeOK, LockoutInv, NEW w \in Workers, Record(w)
  PROVE  LockoutInv'
<1> SUFFICES ASSUME NEW ip \in Ips
             PROVE  Cardinality(RowsOf(ip)') + Cardinality(PastCount(ip)')
                      < MaxAttempts + Cardinality(Workers)
  BY DEF LockoutInv
<1>0. attempts \in [Rows -> Attempt \cup {NoRow}] /\ req[w] \in InFlight
  BY DEF TypeOK, AccountsTypeOK, Record
<1>1. PICK r \in Rows :
        /\ attempts[r] = NoRow
        /\ attempts' = [attempts EXCEPT ![r] =
             [ip |-> req[w].r.ip, email |-> req[w].r.email, age |-> 0]]
  BY DEF Record, RecordAttempt
<1>2. [ip |-> req[w].r.ip, email |-> req[w].r.email, age |-> 0] # NoRow
  BY <1>0 DEF InFlight, Attempt
<1>3. Goto(w, "idle", NoRequest)
  BY DEF Record, Answer
<1>4. PastCount(ip)' = PastCount(ip) \ {w}
  BY <1>3 DEF Goto, PastCount, TypeOK
<1>5. CASE req[w].r.ip = ip
  <2>1. RowsOf(ip)' = RowsOf(ip) \cup {r} /\ r \notin RowsOf(ip)
    BY <1>0, <1>1, <1>2, <1>5 DEF RowsOf
  <2>2. w \in PastCount(ip)
    BY <1>5 DEF Record, PastCount
  <2>3. Cardinality(RowsOf(ip)') = Cardinality(RowsOf(ip)) + 1
    BY <2>1, FiniteParts, FS_AddElement
  <2>4. Cardinality(PastCount(ip)') = Cardinality(PastCount(ip)) - 1
    BY <2>2, <1>4, FiniteParts, FS_RemoveElement
  <2> QED
    BY <2>3, <2>4, FiniteParts DEF LockoutInv
<1>6. CASE req[w].r.ip # ip
  <2>1. RowsOf(ip)' \subseteq RowsOf(ip)
    BY <1>0, <1>1, <1>2, <1>6 DEF RowsOf
  <2> QED
    BY <1>4, <2>1, FewerKeepLockout DEF LockoutInv
<1> QED
  BY <1>5, <1>6

\* No other step adds a failure, or a login past its count.
LEMMA OtherStepsAddNone ==
  ASSUME TypeOK, [Next]_vars, NEW ip \in Ips,
         \A w \in Workers : ~CountAttempts(w) /\ ~Record(w)
  PROVE  RowsOf(ip)' \subseteq RowsOf(ip) /\ PastCount(ip)' \subseteq PastCount(ip)
<1>1. ASSUME NEW w \in Workers, NEW p \in Pods, NEW r \in Requests, Arrive(w, r, p)
      PROVE  RowsOf(ip)' = RowsOf(ip) /\ PastCount(ip)' \subseteq PastCount(ip)
  BY <1>1 DEF Arrive, Refuse, Serve, LetThrough, TooManyHits, HitAuthLimit, Goto, accountVars,
              RowsOf, PastCount, TypeOK
<1>2. ASSUME NEW w \in Workers, Goto(w, "idle", NoRequest)
      PROVE  PastCount(ip)' \subseteq PastCount(ip)
  BY <1>2 DEF Goto, PastCount, TypeOK
<1>3. ASSUME NEW w \in Workers, Close(w) \/ Fails(w) \/ SignupStep(w) \/ RefuseLogin(w)
      PROVE  RowsOf(ip)' = RowsOf(ip) /\ Goto(w, "idle", NoRequest)
  BY <1>3 DEF Close, Fails, SignupStep, WeakPassword, SignUp, EmailTaken, RefuseLogin, Answer,
              accountVars, RowsOf
<1>4. ASSUME NEW w \in Workers, Clear(w)
      PROVE  RowsOf(ip)' \subseteq RowsOf(ip) /\ Goto(w, "idle", NoRequest)
  BY <1>4 DEF Clear, ClearAttempts, Answer, RowsOf
<1>5. ASSUME NEW w \in Workers, Compare(w)
      PROVE  RowsOf(ip)' = RowsOf(ip) /\ PastCount(ip)' \subseteq PastCount(ip)
  BY <1>5 DEF Compare, Goto, accountVars, RowsOf, PastCount, TypeOK
<1>6. ASSUME NEW p \in Pods, NEW i \in Ips, WindowEnds(p, i)
      PROVE  RowsOf(ip)' = RowsOf(ip) /\ PastCount(ip)' \subseteq PastCount(ip)
  <2>1. pc' = pc /\ \A w \in Workers : pc[w] # "idle" => req'[w].r = req[w].r
    BY <1>6 DEF WindowEnds, TypeOK, InFlight
  <2> QED
    BY <1>6, <2>1 DEF WindowEnds, accountVars, RowsOf, PastCount
<1>7. ASSUME NEW p \in Pods, PodDies(p)
      PROVE  RowsOf(ip)' = RowsOf(ip) /\ PastCount(ip)' \subseteq PastCount(ip)
  BY <1>7 DEF PodDies, accountVars, RowsOf, PastCount
<1>8. ASSUME TimePasses
      PROVE  RowsOf(ip)' \subseteq RowsOf(ip) /\ PastCount(ip)' = PastCount(ip)
  BY <1>8 DEF TimePasses, AttemptsAge, httpVars, RowsOf, PastCount, TypeOK, AccountsTypeOK, Attempt
<1>9. CASE UNCHANGED vars
  BY <1>9 DEF vars, accountVars, httpVars, RowsOf, PastCount
<1> QED
  BY <1>1, <1>2, <1>3, <1>4, <1>5, <1>6, <1>7, <1>8, <1>9 DEF Next, Step, LoginStep

LEMMA LockoutNext == TypeOK /\ LockoutInv /\ [Next]_vars => LockoutInv'
<1> SUFFICES ASSUME TypeOK, LockoutInv, [Next]_vars PROVE LockoutInv'
  OBVIOUS
<1>1. CASE \E w \in Workers : CountAttempts(w)
  BY <1>1, CountKeepsLockout
<1>2. CASE \E w \in Workers : Record(w)
  BY <1>2, RecordKeepsLockout
<1>3. CASE \A w \in Workers : ~CountAttempts(w) /\ ~Record(w)
  <2>1. ASSUME NEW ip \in Ips
        PROVE  Cardinality(RowsOf(ip)') + Cardinality(PastCount(ip)')
                 < MaxAttempts + Cardinality(Workers)
    <3>1. RowsOf(ip)' \subseteq RowsOf(ip) /\ PastCount(ip)' \subseteq PastCount(ip)
      BY <1>3, OtherStepsAddNone
    <3> QED
      BY <3>1, FewerKeepLockout DEF LockoutInv
  <2> QED
    BY <2>1 DEF LockoutInv
<1> QED
  BY <1>1, <1>2, <1>3

LEMMA LockoutInit == Init => LockoutInv
<1> SUFFICES ASSUME Init, NEW ip \in Ips
             PROVE  Cardinality(RowsOf(ip)) + Cardinality(PastCount(ip))
                      < MaxAttempts + Cardinality(Workers)
  BY DEF LockoutInv
<1>1. RowsOf(ip) = {} /\ PastCount(ip) = {}
  BY DEF Init, AccountsInit, RowsOf, PastCount
<1> QED
  BY <1>1, FS_EmptySet, FiniteParts

\* An address never has more failed logins in the window than its limit and the
\* logins in flight allow.
THEOREM LockoutHolds == Spec => []LockoutBounded
<1>1. LockoutInv => LockoutBounded
  <2> SUFFICES ASSUME LockoutInv, NEW ip \in Ips
               PROVE  Cardinality(RowsOf(ip)) < MaxAttempts + Cardinality(Workers)
    BY DEF LockoutBounded
  <2> QED
    BY FiniteParts DEF LockoutInv
<1> QED
  BY <1>1, LockoutInit, LockoutNext, InitTyped, TypeNext, PTL DEF Spec

-----------------------------------------------------------------------------
(***************************************************************************)
(* The budget.                                                             *)
(***************************************************************************)

Budget(p, ip) ==
  /\ failed[p][ip] + Cardinality(Running(p, ip)) <= hits[p][ip] + late[p][ip]
  /\ failed[p][ip] + Cardinality(Running(p, ip)) <= AuthMax + late[p][ip]

BudgetInv == \A p \in Pods, ip \in Ips : Budget(p, ip)

LEMMA BudgetParts ==
  ASSUME TypeOK, NEW p \in Pods, NEW ip \in Ips
  PROVE  /\ hits[p] \in [Ips -> 0..MaxHits] /\ failed[p] \in [Ips -> Nat] /\ late[p] \in [Ips -> Nat]
         /\ hits[p][ip] \in Nat /\ failed[p][ip] \in Nat /\ late[p][ip] \in Nat
         /\ IsFiniteSet(Running(p, ip)) /\ Cardinality(Running(p, ip)) \in Nat
<1>1. Running(p, ip) \subseteq Workers
  BY DEF Running
<1>2. hits[p] \in [Ips -> 0..MaxHits] /\ failed[p] \in [Ips -> Nat] /\ late[p] \in [Ips -> Nat]
  BY DEF TypeOK
<1> QED
  BY <1>1, <1>2, FS_Subset, FS_CardinalityType

\* With no more requests running and no fewer hits the budget is kept.
LEMMA FewerKeepBudget ==
  ASSUME TypeOK, TypeOK', NEW p \in Pods, NEW ip \in Ips, Budget(p, ip),
         Running(p, ip)' \subseteq Running(p, ip), hits'[p][ip] >= hits[p][ip],
         failed'[p][ip] = failed[p][ip], late'[p][ip] = late[p][ip]
  PROVE  Budget(p, ip)'
<1>1. Cardinality(Running(p, ip)') <= Cardinality(Running(p, ip))
  BY BudgetParts, FS_Subset
<1>2. Cardinality(Running(p, ip)') \in Nat
  BY BudgetParts, FS_Subset, FS_CardinalityType
<1>3. hits'[p][ip] \in Nat
  BY DEF TypeOK
<1> QED
  BY <1>1, <1>2, <1>3, BudgetParts DEF Budget

\* A request let through is one more hit, and one more that runs.
LEMMA LetThroughKeepsBudget ==
  ASSUME TypeOK, TypeOK', BudgetInv, NEW w \in Workers, NEW r \in Requests, NEW q \in Pods,
         LetThrough(w, r, q), NEW p \in Pods, NEW ip \in Ips
  PROVE  Budget(p, ip)'
<1>0. Goto(w, IF HandlerOf[r] = "signup" THEN "signup" ELSE "countAttempts",
           [r |-> r, pod |-> q, counted |-> TRUE])
  BY DEF LetThrough
<1>1. hits' = [hits EXCEPT ![q][r.client] = @ + 1] /\ failed' = failed /\ late' = late
  BY DEF LetThrough, HitAuthLimit
<1>2. CASE p = q /\ ip = r.client
  <2>1. Running(p, ip)' = Running(p, ip) \cup {w}
    BY <1>0, <1>2 DEF Goto, Running, From, TypeOK
  <2>2. w \notin Running(p, ip)
    BY DEF LetThrough, Running, From
  <2>3. Cardinality(Running(p, ip)') = Cardinality(Running(p, ip)) + 1
    BY <2>1, <2>2, BudgetParts, FS_AddElement
  <2>4. hits'[p][ip] = hits[p][ip] + 1
    BY <1>1, <1>2, BudgetParts DEF TypeOK
  <2>5. hits'[p][ip] <= AuthMax
    BY <1>2 DEF LetThrough
  <2> QED
    BY <1>1, <2>3, <2>4, <2>5, BudgetParts DEF BudgetInv, Budget
<1>3. CASE ~(p = q /\ ip = r.client)
  <2>1. Running(p, ip)' = Running(p, ip)
    BY <1>0, <1>3 DEF LetThrough, Goto, Running, From, TypeOK
  <2>2. hits'[p][ip] = hits[p][ip]
    BY <1>1, <1>3 DEF TypeOK
  <2>3. hits'[p][ip] >= hits[p][ip]
    BY <2>2, BudgetParts
  <2> QED
    BY <1>1, <2>1, <2>3, FewerKeepBudget DEF BudgetInv
<1> QED
  BY <1>2, <1>3

\* An answer turns a request that runs into a failure, or gives its hit back.
LEMMA AnswerKeepsBudget ==
  ASSUME TypeOK, TypeOK', BudgetInv, NEW w \in Workers, pc[w] # "idle", NEW s \in Int,
         Answer(w, s), NEW p \in Pods, NEW ip \in Ips
  PROVE  Budget(p, ip)'
<1> DEFINE q == req[w].pod
           i == req[w].r.client
<1>0. q \in Pods /\ i \in Ips /\ req[w].counted \in BOOLEAN
  BY DEF TypeOK, InFlight
<1>1. Running(p, ip)' = Running(p, ip) \ {w}
  BY DEF Answer, Goto, Running, From, TypeOK
<1>2. CASE p = q /\ ip = i
  <2>0. hits'[p][ip] = (IF GivesBack(w, s) THEN hits[p][ip] - 1 ELSE hits[p][ip])
    BY <1>0, <1>2, BudgetParts DEF Answer, TypeOK
  <2>1. CASE req[w].counted
    <3>1. w \in Running(p, ip)
      BY <1>2, <2>1 DEF Running, From
    <3>2. Cardinality(Running(p, ip)') = Cardinality(Running(p, ip)) - 1
      BY <1>1, <3>1, BudgetParts, FS_RemoveElement
    <3>3. late' = late
      BY <2>1 DEF Answer
    <3>4. CASE s >= 400
      <4>1. ~GivesBack(w, s)
        BY <3>4 DEF GivesBack
      <4>2. failed'[p][ip] = failed[p][ip] + 1
        BY <1>0, <1>2, <2>1, <3>4, BudgetParts DEF Answer, TypeOK
      <4>3. hits'[p][ip] = hits[p][ip]
        BY <2>0, <4>1
      <4> QED
        BY <3>2, <3>3, <4>2, <4>3, BudgetParts DEF BudgetInv, Budget
    <3>5. CASE s < 400
      <4>1. failed' = failed
        BY <3>5 DEF Answer
      <4>2. hits'[p][ip] >= hits[p][ip] - 1
        BY <2>0, BudgetParts
      <4>3. hits'[p][ip] \in Nat
        BY DEF TypeOK
      <4> QED
        BY <3>2, <3>3, <4>1, <4>2, <4>3, BudgetParts DEF BudgetInv, Budget
    <3> QED
      BY <3>4, <3>5
  <2>2. CASE ~req[w].counted
    <3>1. Running(p, ip)' = Running(p, ip)
      BY <1>1, <2>2 DEF Running
    <3>2. failed' = failed
      BY <2>2 DEF Answer
    <3>3. late'[p][ip] = (IF GivesBack(w, s) THEN late[p][ip] + 1 ELSE late[p][ip])
      BY <1>0, <1>2, <2>2, BudgetParts DEF Answer, TypeOK
    <3> QED
      BY <2>0, <3>1, <3>2, <3>3, BudgetParts DEF BudgetInv, Budget
  <2> QED
    BY <2>1, <2>2
<1>3. CASE ~(p = q /\ ip = i)
  <2>1. hits'[p][ip] = hits[p][ip] /\ failed'[p][ip] = failed[p][ip] /\ late'[p][ip] = late[p][ip]
    BY <1>0, <1>3 DEF Answer, TypeOK
  <2>2. hits'[p][ip] >= hits[p][ip]
    BY <2>1, BudgetParts
  <2> QED
    BY <1>1, <2>1, <2>2, FewerKeepBudget DEF BudgetInv
<1> QED
  BY <1>2, <1>3

\* A window that ends, or a pod that dies, starts the budget anew.
LEMMA ResetKeepsBudget ==
  ASSUME TypeOK, TypeOK', BudgetInv, NEW q \in Pods,
         PodDies(q) \/ \E i \in Ips : WindowEnds(q, i),
         NEW p \in Pods, NEW ip \in Ips
  PROVE  Budget(p, ip)'
<1>0. ASSUME Running(p, ip)' = {}, failed'[p][ip] = 0, late'[p][ip] = 0, hits'[p][ip] = 0
      PROVE  Budget(p, ip)'
  BY <1>0, FS_EmptySet DEF Budget
<1>1. CASE PodDies(q)
  <2>1. CASE p = q
    <3>1. Running(p, ip)' = {}
      BY <1>1, <2>1 DEF PodDies, Running, From
    <3>2. failed'[p][ip] = 0 /\ late'[p][ip] = 0 /\ hits'[p][ip] = 0
      BY <1>1, <2>1 DEF PodDies, TypeOK
    <3> QED
      BY <1>0, <3>1, <3>2
  <2>2. CASE p # q
    <3>1. Running(p, ip)' \subseteq Running(p, ip)
      BY <1>1, <2>2 DEF PodDies, Running, From
    <3>2. hits'[p][ip] = hits[p][ip] /\ failed'[p][ip] = failed[p][ip] /\ late'[p][ip] = late[p][ip]
      BY <1>1, <2>2 DEF PodDies, TypeOK
    <3>3. hits'[p][ip] >= hits[p][ip]
      BY <3>2, BudgetParts
    <3> QED
      BY <3>1, <3>2, <3>3, FewerKeepBudget DEF BudgetInv
  <2> QED
    BY <2>1, <2>2
<1>2. ASSUME NEW i \in Ips, WindowEnds(q, i)
      PROVE  Budget(p, ip)'
  <2>0. \A w \in Workers :
          /\ From(w, q, i) => ~req'[w].counted
          /\ ~From(w, q, i) => req'[w] = req[w]
    BY <1>2 DEF WindowEnds, From, TypeOK, InFlight
  <2>1. pc' = pc
    BY <1>2 DEF WindowEnds
  <2>2. \A w \in Workers : From(w, q, i) => req'[w].pod = q /\ req'[w].r.client = i
    BY <1>2 DEF WindowEnds, From, TypeOK, InFlight
  <2>3. CASE p = q /\ ip = i
    <3>1. Running(p, ip)' = {}
      BY <2>0, <2>1, <2>3 DEF Running, From
    <3>2. failed'[p][ip] = 0 /\ late'[p][ip] = 0 /\ hits'[p][ip] = 0
      BY <1>2, <2>3, BudgetParts DEF WindowEnds, TypeOK
    <3> QED
      BY <1>0, <3>1, <3>2
  <2>4. CASE ~(p = q /\ ip = i)
    <3>1. Running(p, ip)' \subseteq Running(p, ip)
      BY <2>0, <2>1, <2>2, <2>4 DEF Running, From
    <3>2. hits'[p][ip] = hits[p][ip] /\ failed'[p][ip] = failed[p][ip] /\ late'[p][ip] = late[p][ip]
      BY <1>2, <2>4 DEF WindowEnds, TypeOK
    <3>3. hits'[p][ip] >= hits[p][ip]
      BY <3>2, BudgetParts
    <3> QED
      BY <3>1, <3>2, <3>3, FewerKeepBudget DEF BudgetInv
  <2> QED
    BY <2>3, <2>4
<1> QED
  BY <1>1, <1>2

\* A request that is refused, or that authRateLimit does not see, changes no budget.
LEMMA OtherArrivalsKeepBudget ==
  ASSUME TypeOK, TypeOK', BudgetInv, NEW p \in Pods, NEW ip \in Ips,
         NEW w \in Workers, NEW r \in Requests, NEW q \in Pods,
         Refuse(w, r, q) \/ Serve(w, r, q) \/ TooManyHits(w, r, q)
  PROVE  Budget(p, ip)'
<1>1. Running(p, ip)' \subseteq Running(p, ip)
  BY DEF Refuse, Serve, TooManyHits, Goto, Running, From, TypeOK
<1>2. failed' = failed /\ late' = late
  BY DEF Refuse, Serve, TooManyHits, HitAuthLimit
<1>3. CASE TooManyHits(w, r, q)
  <2>1. hits'[p][ip] \in {hits[p][ip], hits[p][ip] + 1}
    BY <1>3, BudgetParts DEF TooManyHits, HitAuthLimit, TypeOK
  <2>2. hits'[p][ip] >= hits[p][ip]
    BY <2>1, BudgetParts
  <2> QED
    BY <1>1, <1>2, <2>2, FewerKeepBudget DEF BudgetInv
<1>4. CASE ~TooManyHits(w, r, q)
  <2>1. hits' = hits
    BY <1>4 DEF Refuse, Serve
  <2>2. hits'[p][ip] >= hits[p][ip]
    BY <2>1, BudgetParts
  <2> QED
    BY <1>1, <1>2, <2>2, FewerKeepBudget DEF BudgetInv
<1> QED
  BY <1>3, <1>4

LEMMA BudgetNext == TypeOK /\ BudgetInv /\ [Next]_vars => BudgetInv'
<1> SUFFICES ASSUME TypeOK, BudgetInv, [Next]_vars, NEW p \in Pods, NEW ip \in Ips
             PROVE  Budget(p, ip)'
  BY DEF BudgetInv
<1>0. TypeOK'
  BY TypeNext
<1>1. ASSUME NEW w \in Workers, NEW q \in Pods, NEW r \in Requests, Arrive(w, r, q)
      PROVE  Budget(p, ip)'
  BY <1>0, <1>1, LetThroughKeepsBudget, OtherArrivalsKeepBudget DEF Arrive
<1>2. ASSUME NEW w \in Workers, Close(w) \/ CountAttempts(w) \/ Compare(w)
      PROVE  Budget(p, ip)'
  <2>1. Running(p, ip)' \subseteq Running(p, ip)
    BY <1>2 DEF Close, CountAttempts, Compare, Goto, Running, From, TypeOK
  <2>2. hits' = hits /\ failed' = failed /\ late' = late
    BY <1>2 DEF Close, CountAttempts, Compare
  <2>3. hits'[p][ip] >= hits[p][ip]
    BY <2>2, BudgetParts
  <2> QED
    BY <1>0, <2>1, <2>2, <2>3, FewerKeepBudget DEF BudgetInv
<1>3. ASSUME NEW w \in Workers,
             Fails(w) \/ SignupStep(w) \/ RefuseLogin(w) \/ Record(w) \/ Clear(w)
      PROVE  Budget(p, ip)'
  <2>1. pc[w] # "idle" /\ \E s \in Int : Answer(w, s)
    BY <1>3, EndingSteps DEF LoginSteps
  <2> QED
    BY <1>0, <2>1, AnswerKeepsBudget
<1>4. ASSUME NEW q \in Pods, PodDies(q) \/ \E i \in Ips : WindowEnds(q, i)
      PROVE  Budget(p, ip)'
  BY <1>0, <1>4, ResetKeepsBudget
<1>5. CASE TimePasses \/ UNCHANGED vars
  <2>1. httpVars' = httpVars
    BY <1>5 DEF TimePasses, vars
  <2> QED
    BY <2>1 DEF httpVars, BudgetInv, Budget, Running, From
<1> QED
  BY <1>1, <1>2, <1>3, <1>4, <1>5 DEF Next, Step, LoginStep

LEMMA BudgetInit == Init => BudgetInv
<1> SUFFICES ASSUME Init, NEW p \in Pods, NEW ip \in Ips PROVE Budget(p, ip)
  BY DEF BudgetInv
<1>1. Running(p, ip) = {}
  BY DEF Init, Running, From
<1> QED
  BY <1>1, FS_EmptySet DEF Init, Budget

\* A pod lets no more signups and logins of an address fail in a window than
\* authRateLimit's max and the hits given back late allow.
THEOREM AuthBudgetHolds == Spec => []AuthBudget
<1>1. TypeOK /\ BudgetInv => AuthBudget
  BY DEF BudgetInv, Budget, AuthBudget
<1> QED
  BY <1>1, BudgetInit, BudgetNext, InitTyped, TypeNext, PTL DEF Spec
-----------------------------------------------------------------------------
(***************************************************************************)
(* Entitlement.                                                            *)
(***************************************************************************)

OpenHandlers  == {"signup", "login"}
AdminHandlers ==
  {"dbTables", "reconcile", "getDLQ", "resolveDLQ", "discardDLQ", "updateRate", "getRates"}

\* What stands in front of a route's handler
Guards(route) == RouterNeeds(route.path[1]) \cup route.needs

\* A route under its router's name, with the checks its handler needs
Guarded(route) ==
  /\ Len(route.path) >= 1
  /\ route.path[1] # ":"
  /\ route.handler \notin OpenHandlers => "token" \in Guards(route)
  /\ route.handler \in AdminHandlers => "admin" \in Guards(route) \/ "ADMIN" \in Guards(route)

LEMMA UserRoutesGuarded == \A i \in DOMAIN UserRoutes : Guarded(UserRoutes[i])
  BY DEF UserRoutes, Route, Guarded, Guards, RouterNeeds, OpenHandlers, AdminHandlers

LEMMA UsageRoutesGuarded == \A i \in DOMAIN UsageRoutes : Guarded(UsageRoutes[i])
  BY DEF UsageRoutes, Route, Guarded, Guards, RouterNeeds, OpenHandlers, AdminHandlers

LEMMA BillingRoutesGuarded == \A i \in DOMAIN BillingRoutes : Guarded(BillingRoutes[i])
<1>1. SUFFICES ASSUME NEW i \in 1..10 PROVE Guarded(BillingRoutes[i])
  BY DEF BillingRoutes
<1>2. Len(BillingRoutes[i].path) >= 1 /\ BillingRoutes[i].path[1] = "billing"
  BY DEF BillingRoutes, Route
<1>3. BillingRoutes[i].handler \in AdminHandlers => "ADMIN" \in BillingRoutes[i].needs
  BY DEF BillingRoutes, Route, AdminHandlers
<1> QED
  BY <1>2, <1>3 DEF Guarded, Guards, RouterNeeds

LEMMA RateRoutesGuarded == \A i \in DOMAIN RateRoutes : Guarded(RateRoutes[i])
  BY DEF RateRoutes, Route, Guarded, Guards, RouterNeeds, OpenHandlers, AdminHandlers

RouteSet ==
  {UserRoutes[j] : j \in DOMAIN UserRoutes} \cup {UsageRoutes[j] : j \in DOMAIN UsageRoutes}
    \cup {BillingRoutes[j] : j \in DOMAIN BillingRoutes}
    \cup {RateRoutes[j] : j \in DOMAIN RateRoutes}

LEMMA AllRoutesFrom == AllRoutes \in Seq(RouteSet)
<1>1. UserRoutes \in Seq(RouteSet)
  BY DEF RouteSet, UserRoutes
<1>2. UsageRoutes \in Seq(RouteSet)
  BY DEF RouteSet, UsageRoutes
<1>3. BillingRoutes \in Seq(RouteSet)
  BY DEF RouteSet, BillingRoutes
<1>4. RateRoutes \in Seq(RouteSet)
  BY DEF RouteSet, RateRoutes
<1> QED
  BY <1>1, <1>2, <1>3, <1>4 DEF AllRoutes

LEMMA AllRoutesGuarded == \A i \in DOMAIN AllRoutes : Guarded(AllRoutes[i])
<1>1. \A i \in DOMAIN AllRoutes : AllRoutes[i] \in RouteSet
  BY AllRoutesFrom
<1> QED
  BY <1>1, UserRoutesGuarded, UsageRoutesGuarded, BillingRoutesGuarded, RateRoutesGuarded
  DEF RouteSet

\* The route a request is served by matches its path.
LEMMA RouteMatches ==
  ASSUME NEW r, Matching(r) # {}
  PROVE  \E i \in DOMAIN AllRoutes :
           RouteOf(r) = AllRoutes[i] /\ MatchesPath(AllRoutes[i].path, r.path)
<1>1. Matching(r) \subseteq Nat
  BY AllRoutesFrom DEF Matching
<1>2. \E i \in Matching(r) : \A j \in Matching(r) : i <= j
  BY <1>1, LeastNat
<1>3. Min(Matching(r)) \in Matching(r)
  BY <1>2 DEF Min
<1> QED
  BY <1>3 DEF RouteOf, Matching

\* What the overview asks for a handler
Asked(handler, auth) ==
  /\ auth = "none" \/ auth = "token" \/ auth = "admin"
  /\ auth = "token" => handler \notin OpenHandlers
  /\ auth = "admin" => handler \in AdminHandlers

LEMMA OverviewAsks == \A d \in ApiOverview : Asked(d.handler, d.auth)
  BY DEF ApiOverview, Documented, Asked, OpenHandlers, AdminHandlers

\* Whatever the request, a handler it reaches is one it is entitled to.
LEMMA AdmittedIsEntitled ==
  ASSUME NEW r \in Requests, Admitted(r), NEW d \in ApiOverview, RouteOf(r).handler = d.handler
  PROVE  HasAuth(r, d.auth)
<1>1. PICK i \in DOMAIN AllRoutes :
        RouteOf(r) = AllRoutes[i] /\ MatchesPath(AllRoutes[i].path, r.path)
  BY RouteMatches DEF Admitted
<1>2. Guarded(RouteOf(r))
  BY <1>1, AllRoutesGuarded
<1>3. RouteOf(r).path[1] = r.path[1]
  BY <1>1, <1>2 DEF Guarded, MatchesPath
<1>4. Needs(r) = Guards(RouteOf(r))
  BY <1>3 DEF Needs, Guards, Admitted
<1>5. /\ d.auth = "none" \/ d.auth = "token" \/ d.auth = "admin"
      /\ d.auth = "token" => d.handler \notin OpenHandlers
      /\ d.auth = "admin" => d.handler \in AdminHandlers
  BY OverviewAsks DEF Asked
<1>6. CASE d.auth = "none"
  BY <1>6 DEF HasAuth
<1>7. CASE d.auth = "token"
  BY <1>2, <1>4, <1>5, <1>7 DEF Guarded, Admitted, Authenticated, HasAuth
<1>8. CASE d.auth = "admin"
  <2>1. "admin" \in Needs(r) \/ "ADMIN" \in Needs(r)
    BY <1>2, <1>4, <1>5, <1>8 DEF Guarded
  <2>2. r.token \in {"admin", "ADMIN"}
    BY <2>1 DEF Admitted, InRole
  <2> QED
    BY <1>8, <2>2 DEF HasAuth
<1> QED
  BY <1>5, <1>6, <1>7, <1>8

\* A request at its handler has been admitted.
ServedInv == \A w \in Workers : pc[w] = "handler" => Admitted(req[w].r)

LEMMA ServedNext == TypeOK /\ ServedInv /\ [Next]_vars => ServedInv'
<1>1. ASSUME ServedInv, NEW w \in Workers, NEW step, NEW x, Goto(w, step, x), TypeOK,
             step = "handler" => Admitted(x.r)
      PROVE  ServedInv'
  BY <1>1 DEF ServedInv, Goto, TypeOK
<1>2. ASSUME TypeOK, ServedInv, NEW w \in Workers, NEW p \in Pods, NEW r \in Requests,
             Arrive(w, r, p)
      PROVE  ServedInv'
  <2>1. CASE Serve(w, r, p)
    <3>1. Admitted(r)
      BY <2>1 DEF Serve, HandlerOf
    <3> QED
      BY <1>1, <1>2, <2>1, <3>1 DEF Serve
  <2>2. CASE Refuse(w, r, p)
    BY <1>1, <1>2, <2>2 DEF Refuse
  <2>3. CASE LetThrough(w, r, p)
    BY <1>1, <1>2, <2>3 DEF LetThrough
  <2>4. CASE TooManyHits(w, r, p)
    BY <1>2, <2>4 DEF TooManyHits, ServedInv
  <2> QED
    BY <1>2, <2>1, <2>2, <2>3, <2>4 DEF Arrive
<1>3. ASSUME TypeOK, ServedInv, NEW w \in Workers, Step(w)
      PROVE  ServedInv'
  <2>1. CASE Close(w)
    BY <1>1, <1>3, <2>1 DEF Close
  <2>2. CASE CountAttempts(w) \/ Compare(w)
    BY <1>1, <1>3, <2>2 DEF CountAttempts, Compare
  <2>3. CASE Fails(w) \/ SignupStep(w) \/ RefuseLogin(w) \/ Record(w) \/ Clear(w)
    <3>1. PICK s \in Int : Answer(w, s)
      BY <2>3, EndingSteps
    <3> QED
      BY <1>1, <1>3, <3>1 DEF Answer
  <2> QED
    BY <1>3, <2>1, <2>2, <2>3 DEF Step, LoginStep
<1>4. ASSUME TypeOK, ServedInv, NEW p \in Pods, PodDies(p) \/ \E ip \in Ips : WindowEnds(p, ip)
      PROVE  ServedInv'
  <2>1. SUFFICES ASSUME NEW v \in Workers, pc'[v] = "handler" PROVE Admitted(req'[v].r)
    BY DEF ServedInv
  <2>2. req[v] \in [r : Requests, pod : Pods, counted : BOOLEAN] \/ pc[v] = "idle"
    BY <1>4 DEF TypeOK, InFlight
  <2>3. pc[v] = "handler" /\ req'[v].r = req[v].r
    <3>1. CASE PodDies(p)
      BY <1>4, <2>1, <2>2, <3>1 DEF PodDies, TypeOK
    <3>2. CASE \E ip \in Ips : WindowEnds(p, ip)
      BY <1>4, <2>1, <2>2, <3>2 DEF WindowEnds, TypeOK
    <3> QED
      BY <1>4, <3>1, <3>2
  <2> QED
    BY <1>4, <2>3 DEF ServedInv
<1>5. CASE TimePasses \/ UNCHANGED vars
  BY <1>5 DEF TimePasses, vars, httpVars, ServedInv
<1> QED
  BY <1>2, <1>3, <1>4, <1>5 DEF Next

\* Whatever clients send, no handler runs for a request without the token and the
\* account type the API overview asks for, by any route or order of routes.
THEOREM NoHandlerUnentitled == Spec => []ServedAreEntitled
<1>1. Init => ServedInv
  BY DEF Init, ServedInv
<1>2. TypeOK /\ ServedInv => ServedAreEntitled
  <2> SUFFICES ASSUME TypeOK, ServedInv, NEW w \in Workers, NEW d \in ApiOverview,
                      pc[w] = "handler", HandlerOf[req[w].r] = d.handler
               PROVE  HasAuth(req[w].r, d.auth)
    BY DEF ServedAreEntitled
  <2>1. req[w].r \in Requests /\ Admitted(req[w].r)
    BY DEF TypeOK, InFlight, ServedInv
  <2>2. RouteOf(req[w].r).handler = d.handler
    BY <2>1 DEF HandlerOf
  <2> QED
    BY <2>1, <2>2, AdmittedIsEntitled
<1> QED
  BY <1>1, <1>2, InitTyped, TypeNext, ServedNext, PTL DEF Spec
=============================================================================

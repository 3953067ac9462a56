---------------------------- MODULE PooledProofs ----------------------------
(***************************************************************************)
(* Theorems about PooledBilling for every number of requests, audits, pods *)
(* and connections.  Pools and audits only restrict what the engine does,  *)
(* so every theorem about BillingService holds here too.  To them are      *)
(* added what an audit's answer means, and that no connection is lost.     *)
(***************************************************************************)
EXTENDS BillingServiceProofs, PooledBilling, FiniteSetTheorems, SequenceTheorems

-----------------------------------------------------------------------------
(***************************************************************************)
(* The composition implements the billing engine.                          *)
(***************************************************************************)

LEMMA PooledStepIsBillingStep == [PooledNext]_<<sysVars, suspect>> => [Next]_vars
<1>1. ASSUME NEW w \in Workers, PooledStart(w) \/ BillingStep(w)
      PROVE  Next
  BY <1>1 DEF PooledStart, BillingStep, Next
<1>2. ASSUME NEW a \in Auditors, PooledAudit(a) \/ AuditorStep(a)
      PROVE  UNCHANGED vars
  BY <1>2 DEF PooledAudit, AuditorStep
<1>3. ASSUME NEW c \in Clients, TakeConnection(c) \/ RequestFails(c)
      PROVE  [Next]_vars
  BY <1>3 DEF TakeConnection, RequestFails, Next
<1> QED
  BY <1>1, <1>2, <1>3 DEF PooledNext, Next, sysVars

\* Whatever the pools and the audits do, billing behaves as BillingService says.
THEOREM PoolsOnlyDelay == PooledSpec => Spec
<1>1. PooledInit => Init
  BY DEF PooledInit
<1> QED
  BY <1>1, PooledStepIsBillingStep, PTL DEF PooledSpec, Spec

\* With pods, pools and audits around it, billing still implements the abstract ledger.
THEOREM PooledImplementsLedger == PooledSpec => ImplementsLedger
BY PoolsOnlyDelay, BillingImplementsLedger, PTL

-----------------------------------------------------------------------------
(***************************************************************************)
(* Audits.                                                                 *)
(***************************************************************************)

\* Audit a, given the history bit s: what its snapshot and its answer are worth
AuditSound(a, s) ==
  /\ a.step \in {"readLast", "readTotals", "readUnpaid"} => a.user \in Users
  /\ a.step \in {"readTotals", "readUnpaid"} =>
       /\ a.snapshot.recomputedBalance = a.snapshot.unpaidBillsTotal
       /\ a.read.ledgerBalance = a.snapshot.ledgerBalance
       /\ a.snapshot.ledgerBalance # a.snapshot.recomputedBalance => s
  /\ a.step = "readUnpaid" => a.read.recomputedBalance = a.snapshot.recomputedBalance
  /\ a.step = "answered" =>
       /\ a.verdict.crossChecks
       /\ ~a.verdict.isConsistent => s

AuditInv == AuditTypeOK /\ \A a \in Auditors : AuditSound(audit[a], suspect[a])

LEMMA NoAuditType == NoAudit \in Audit
BY DEF NoAudit, Audit, Nothing, Figures, NoVerdict, Verdict

LEMMA AuditInvInit == AuditInit => AuditInv
BY NoAuditType DEF AuditInit, AuditInv, AuditTypeOK, AuditSound, NoAudit

LEMMA FiguresType ==
  ASSUME TypeOK, NEW u \in Users
  PROVE  FiguresOf(u) \in Figures
BY LastBalanceType, TermTypes DEF FiguresOf, Figures, UnpaidTotal

\* An audit that does not move stays sound.
LEMMA StillAudit ==
  ASSUME AuditInv, NEW a \in Auditors, audit'[a] = audit[a],
         WatchAudits \/ suspect' = suspect
  PROVE  suspect'[a] \in BOOLEAN /\ AuditSound(audit'[a], suspect'[a])
BY DEF AuditInv, AuditTypeOK, AuditSound, WatchAudits, InFlight, Audit

\* So does one that starts, fails, or makes its first, second or third SELECT.
LEMMA MovingAudit ==
  ASSUME AuditInv, TypeOK, LedgerOwesUnpaid, NEW a \in Auditors, WatchAudits,
         \/ (\E u \in Users : StartAudit(a, u)) \/ AuditFails(a)
         \/ AuditStep(a) /\ UNCHANGED vars
  PROVE  /\ audit'[a] \in Audit
         /\ suspect'[a] \in BOOLEAN /\ AuditSound(audit'[a], suspect'[a])
<1>1. /\ audit \in [Auditors -> Audit] /\ audit[a] \in Audit /\ suspect[a] \in BOOLEAN
      /\ AuditSound(audit[a], suspect[a])
  BY DEF AuditInv, AuditTypeOK
<1>2. suspect'[a] = IF InFlight(a)' THEN \/ InFlight(a) /\ suspect[a]
                                         \/ ~Consistent(audit[a].user)'
                    ELSE suspect[a] /\ audit'[a].step = "answered"
  BY DEF WatchAudits
<1>3. suspect'[a] \in BOOLEAN
  BY <1>1, <1>2
<1>4. ASSUME NEW u \in Users, StartAudit(a, u)
      PROVE  audit'[a] \in Audit /\ AuditSound(audit'[a], suspect'[a])
  <2>1. audit'[a] = [step |-> "readLast", user |-> u, snapshot |-> Nothing, read |-> Nothing,
                     verdict |-> NoVerdict]
    BY <1>1, <1>4 DEF StartAudit, NoAudit
  <2>2. audit'[a] \in Audit
    BY <2>1 DEF Audit, Nothing, Figures, NoVerdict, Verdict
  <2> QED
    BY <2>1, <2>2 DEF AuditSound
<1>5. ASSUME AuditFails(a)
      PROVE  audit'[a] \in Audit /\ AuditSound(audit'[a], suspect'[a])
  <2>1. audit'[a] = NoAudit
    BY <1>1, <1>5 DEF AuditFails
  <2> QED
    BY <2>1, NoAuditType DEF AuditSound, NoAudit
<1>6. ASSUME ReadLast(a), UNCHANGED vars
      PROVE  audit'[a] \in Audit /\ AuditSound(audit'[a], suspect'[a])
  <2>1. InFlight(a) /\ audit[a].user \in Users
    BY <1>1, <1>6 DEF ReadLast, AuditSound, InFlight
  <2>u. PICK u \in Users : u = audit[a].user
    BY <2>1
  <2> DEFINE figures == FiguresOf(u)
  <2>2. /\ figures \in Figures
        /\ figures.recomputedBalance = figures.unpaidBillsTotal
        /\ figures.ledgerBalance # figures.recomputedBalance => ~Consistent(u)
    <3>1. figures \in Figures
      BY FiguresType
    <3> QED
      BY <3>1 DEF FiguresOf, Consistent, LedgerOwesUnpaid, UnpaidTotal
  <2>3. audit'[a] = [audit[a] EXCEPT !.step = "readTotals", !.snapshot = figures,
                                     !.read = [audit[a].read EXCEPT
                                                 !.ledgerBalance = figures.ledgerBalance]]
    BY <1>1, <1>6, <2>u DEF ReadLast, Audit
  <2> HIDE DEF figures
  <2>4. /\ audit'[a] \in Audit
        /\ audit'[a].step = "readTotals" /\ audit'[a].user = u
        /\ audit'[a].snapshot = figures
        /\ audit'[a].read.ledgerBalance = figures.ledgerBalance
    <3> DEFINE read == [audit[a].read EXCEPT !.ledgerBalance = figures.ledgerBalance]
    <3>1. read \in Figures /\ read.ledgerBalance = figures.ledgerBalance
      BY <1>1, <2>2 DEF Audit, Figures
    <3> HIDE DEF read
    <3>2. audit'[a] = [audit[a] EXCEPT !.step = "readTotals", !.snapshot = figures, !.read = read]
      BY <2>3 DEF read
    <3> QED
      BY <1>1, <2>u, <2>2, <3>1, <3>2 DEF Audit
  <2>5. Consistent(u)' <=> Consistent(u)
    <3>1. ledger' = ledger
      BY <1>6 DEF vars, tables
    <3>2. LedgerBalance(u)' = LedgerBalance(u)
      BY <3>1 DEF LedgerBalance, Signed, Exists
    <3>3. LastBalance(u)' = LastBalance(u)
      BY <3>1, LastBalanceStays
    <3> QED
      BY <3>2, <3>3 DEF Consistent
  <2>6. suspect'[a] <=> suspect[a] \/ ~Consistent(u)
    BY <1>1, <1>2, <2>1, <2>4, <2>5 DEF InFlight
  <2> QED
    BY <2>2, <2>4, <2>6 DEF AuditSound
<1>7. ASSUME ReadTotals(a), UNCHANGED vars
      PROVE  audit'[a] \in Audit /\ AuditSound(audit'[a], suspect'[a])
  <2>1. /\ audit'[a] \in Audit
        /\ audit'[a].step = "readUnpaid" /\ audit'[a].user = audit[a].user
        /\ audit'[a].snapshot = audit[a].snapshot
        /\ audit'[a].read.ledgerBalance = audit[a].read.ledgerBalance
        /\ audit'[a].read.recomputedBalance = audit[a].snapshot.recomputedBalance
    BY <1>1, <1>7 DEF ReadTotals, Audit, Figures
  <2>2. suspect[a] => suspect'[a]
    BY <1>2, <1>7, <2>1 DEF InFlight, ReadTotals
  <2> QED
    BY <1>1, <1>7, <2>1, <2>2 DEF AuditSound, ReadTotals
<1>8. ASSUME ReadUnpaid(a), UNCHANGED vars
      PROVE  audit'[a] \in Audit /\ AuditSound(audit'[a], suspect'[a])
  <2>1. /\ audit'[a] \in Audit
        /\ audit'[a].step = "answered"
        /\ audit'[a].verdict.isConsistent <=>
             audit[a].read.ledgerBalance = audit[a].read.recomputedBalance
        /\ audit'[a].verdict.crossChecks <=>
             audit[a].snapshot.unpaidBillsTotal = audit[a].read.recomputedBalance
    <3> DEFINE verdict == [isConsistent |-> (audit[a].read.ledgerBalance = audit[a].read.recomputedBalance),
                           crossChecks  |-> (audit[a].snapshot.unpaidBillsTotal = audit[a].read.recomputedBalance)]
    <3>1. verdict \in Verdict
      BY DEF Verdict
    <3>2. audit'[a] = [step |-> "answered", user |-> NoUser, snapshot |-> Nothing,
                       read |-> Nothing, verdict |-> verdict]
      BY <1>1, <1>8 DEF ReadUnpaid, Answer, NoAudit, NoVerdict
    <3>3. audit'[a] \in Audit
      BY <3>1, <3>2 DEF Audit, Nothing, Figures
    <3>4. audit'[a].step = "answered" /\ audit'[a].verdict = verdict
      BY <3>2
    <3>5. /\ verdict.isConsistent = (audit[a].read.ledgerBalance = audit[a].read.recomputedBalance)
          /\ verdict.crossChecks = (audit[a].snapshot.unpaidBillsTotal = audit[a].read.recomputedBalance)
      OBVIOUS
    <3> HIDE DEF verdict
    <3> QED
      BY <3>3, <3>4, <3>5, Zenon
  <2>2. suspect'[a] <=> suspect[a]
    BY <1>1, <1>2, <2>1 DEF InFlight
  <2> QED
    BY <1>1, <1>8, <2>1, <2>2 DEF AuditSound, ReadUnpaid
<1> QED
  BY <1>3, <1>4, <1>5, <1>6, <1>7, <1>8 DEF AuditStep

AuditMoves(a) ==
  \/ \E u \in Users : StartAudit(a, u)
  \/ AuditFails(a)
  \/ AuditStep(a) /\ UNCHANGED vars

LEMMA OneAuditMoves ==
  ASSUME [PooledNext]_<<sysVars, suspect>>
  PROVE  audit' = audit \/ \E a \in Auditors : AuditMoves(a)
<1>1. ASSUME NEW w \in Workers, PooledStart(w) \/ BillingStep(w)
      PROVE  audit' = audit
  BY <1>1 DEF PooledStart, BillingStep
<1>2. ASSUME NEW a \in Auditors, PooledAudit(a) \/ AuditorStep(a)
      PROVE  AuditMoves(a)
  BY <1>2 DEF PooledAudit, AuditorStep, AuditMoves
<1>3. ASSUME NEW c \in Clients, TakeConnection(c) \/ RequestFails(c)
      PROVE  audit' = audit \/ \E a \in Auditors : AuditMoves(a)
  BY <1>3 DEF TakeConnection, RequestFails, AuditMoves
<1> QED
  BY <1>1, <1>2, <1>3 DEF PooledNext, sysVars

LEMMA OthersStand ==
  ASSUME AuditInv, NEW a \in Auditors, AuditMoves(a)
  PROVE  /\ \A b \in Auditors \ {a} : audit'[b] = audit[b]
         /\ audit' = [b \in Auditors |-> audit'[b]]
<1>1. audit \in [Auditors -> Audit]
  BY DEF AuditInv, AuditTypeOK
<1>2. PICK x : audit' = [audit EXCEPT ![a] = x]
  BY DEF AuditMoves, StartAudit, AuditFails, AuditStep, ReadLast, ReadTotals, ReadUnpaid, Answer
<1> QED
  BY <1>1, <1>2

LEMMA AuditInvNext ==
  ASSUME AuditInv, TypeOK, LedgerOwesUnpaid, [PooledNext]_<<sysVars, suspect>>
  PROVE  AuditInv'
<1>1. WatchAudits \/ (suspect' = suspect /\ audit' = audit)
  BY DEF PooledNext, sysVars
<1>2. audit \in [Auditors -> Audit] /\ suspect \in [Auditors -> BOOLEAN]
  BY DEF AuditInv, AuditTypeOK
<1>3. suspect' = [a \in Auditors |-> suspect'[a]]
  BY <1>1, <1>2 DEF WatchAudits
<1>4. ASSUME audit' = audit PROVE AuditInv'
  <2>1. ASSUME NEW a \in Auditors
        PROVE  suspect'[a] \in BOOLEAN /\ AuditSound(audit'[a], suspect'[a])
    BY <1>1, <1>4, StillAudit
  <2> QED
    BY <1>2, <1>3, <1>4, <2>1 DEF AuditInv, AuditTypeOK
<1>5. ASSUME WatchAudits, NEW b \in Auditors, AuditMoves(b) PROVE AuditInv'
  <2>1. ASSUME NEW a \in Auditors
        PROVE  /\ audit'[a] \in Audit
               /\ suspect'[a] \in BOOLEAN /\ AuditSound(audit'[a], suspect'[a])
    <3>1. CASE a = b
      BY <1>5, <3>1, MovingAudit DEF AuditMoves
    <3>2. CASE a # b
      BY <1>2, <1>5, <3>2, OthersStand, StillAudit
    <3> QED
      BY <3>1, <3>2
  <2>2. audit' \in [Auditors -> Audit]
    BY <1>5, <2>1, OthersStand
  <2> QED
    BY <1>3, <2>1, <2>2 DEF AuditInv, AuditTypeOK
<1> QED
  BY <1>1, <1>4, <1>5, OneAuditMoves

LEMMA AuditInvariant == PooledSpec => []AuditInv
<1>1. PooledInit => AuditInv
  BY AuditInvInit DEF PooledInit
<1>2. OwedInv => TypeOK /\ LedgerOwesUnpaid
  BY DEF OwedInv, LedgerInv, TypeInv
<1>3. AuditInv /\ TypeOK /\ LedgerOwesUnpaid /\ [PooledNext]_<<sysVars, suspect>> => AuditInv'
  BY AuditInvNext
<1> QED
  BY <1>1, <1>2, <1>3, PoolsOnlyDelay, OwedInvariant, PTL DEF PooledSpec

\* In every answer of reconcileLedger the unpaid bills add up to the recomputed
\* balance, whatever commits between its three SELECTs.
THEOREM AuditsCrossCheck == PooledSpec => []AuditCrossCheck
<1>1. AuditInv => AuditCrossCheck
  BY DEF AuditInv, AuditSound, AuditCrossCheck
<1> QED
  BY <1>1, AuditInvariant, PTL

\* reconcileLedger answers "inconsistent" only about a ledger that was.
THEOREM AuditAlarmsAreTrue == PooledSpec => []AlarmsAreTrue
<1>1. AuditInv => AlarmsAreTrue
  BY DEF AuditInv, AuditSound, AlarmsAreTrue
<1> QED
  BY <1>1, AuditInvariant, PTL

-----------------------------------------------------------------------------
(***************************************************************************)
(* Lines of waiting clients.                                               *)
(***************************************************************************)

InLine(q, c) == \E i \in DOMAIN q : q[i] = c
Distinct(q)  == \A i, j \in DOMAIN q : q[i] = q[j] => i = j

LEMMA LineAppend ==
  ASSUME NEW q \in Seq(Clients), NEW c \in Clients, Distinct(q), ~InLine(q, c)
  PROVE  /\ Append(q, c) \in Seq(Clients) /\ Append(q, c) # <<>>
         /\ Distinct(Append(q, c))
         /\ \A d : InLine(Append(q, c), d) <=> InLine(q, d) \/ d = c
<1> DEFINE r == Append(q, c)
<1>1. /\ r \in Seq(Clients) /\ DOMAIN r = 1..(Len(q) + 1) /\ DOMAIN q = 1..Len(q)
      /\ Len(q) \in Nat
      /\ \A i \in 1..Len(q) : r[i] = q[i]
      /\ r[Len(q) + 1] = c /\ r # <<>>
  BY AppendProperties, LenProperties
<1> HIDE DEF r
<1>3. Distinct(r)
  BY <1>1 DEF Distinct, InLine
<1>4. ASSUME NEW d PROVE InLine(r, d) <=> InLine(q, d) \/ d = c
  BY <1>1 DEF InLine
<1> QED
  BY <1>1, <1>3, <1>4 DEF r

LEMMA LineTail ==
  ASSUME NEW q \in Seq(Clients), q # <<>>, Distinct(q)
  PROVE  /\ Head(q) \in Clients /\ InLine(q, Head(q))
         /\ Tail(q) \in Seq(Clients) /\ Distinct(Tail(q))
         /\ \A d : InLine(Tail(q), d) <=> InLine(q, d) /\ d # Head(q)
<1> DEFINE r == Tail(q)
           h == Head(q)
<1>1. /\ r \in Seq(Clients) /\ DOMAIN r = 1..(Len(q) - 1) /\ DOMAIN q = 1..Len(q)
      /\ Len(q) \in Nat /\ Len(q) > 0 /\ h = q[1] /\ h \in Clients
      /\ \A i \in 1..(Len(q) - 1) : r[i] = q[i + 1]
  BY HeadTailProperties, LenProperties, EmptySeq
<1> HIDE DEF r, h
<1>2. Distinct(r) /\ InLine(q, h)
  <2>1. ASSUME NEW i \in 1..(Len(q) - 1), NEW j \in 1..(Len(q) - 1), r[i] = r[j]
        PROVE  i = j
    <3>1. i + 1 \in DOMAIN q /\ j + 1 \in DOMAIN q /\ q[i + 1] = q[j + 1]
      BY <1>1, <2>1
    <3>2. i + 1 = j + 1
      BY <3>1 DEF Distinct
    <3> QED
      BY <3>2
  <2> QED
    BY <1>1, <2>1 DEF Distinct, InLine
<1>3. ASSUME NEW d, InLine(r, d) PROVE InLine(q, d) /\ d # h
  BY <1>1, <1>3 DEF InLine, Distinct
<1>4. ASSUME NEW d, InLine(q, d), d # h PROVE InLine(r, d)
  <2>1. PICK i \in 1..Len(q) : q[i] = d
    BY <1>1, <1>4 DEF InLine
  <2>2. i - 1 \in 1..(Len(q) - 1) /\ (i - 1) + 1 = i
    BY <1>1, <1>4, <2>1
  <2>3. r[i - 1] = d
    BY <1>1, <2>1, <2>2
  <2> QED
    BY <1>1, <2>2, <2>3 DEF InLine
<1> QED
  BY <1>1, <1>2, <1>3, <1>4 DEF r, h

Without(q, i) == SubSeq(q, 1, i - 1) \o SubSeq(q, i + 1, Len(q))

LEMMA LineRemove ==
  ASSUME NEW q \in Seq(Clients), Distinct(q), NEW i \in 1..Len(q)
  PROVE  /\ Without(q, i) \in Seq(Clients) /\ Distinct(Without(q, i))
         /\ \A d : InLine(Without(q, i), d) <=> InLine(q, d) /\ d # q[i]
<1> DEFINE r == Without(q, i)
           n == Len(q)
           left == SubSeq(q, 1, i - 1)
           right == SubSeq(q, i + 1, n)
<1>1. n \in Nat /\ DOMAIN q = 1..n /\ i \in 1..n /\ \A j \in 1..n : q[j] \in Clients
  OBVIOUS
<1>0. n \in Nat /\ i \in Int /\ 1 <= i /\ i <= n
  BY <1>1
<1>2. /\ left \in Seq(Clients) /\ Len(left) = i - 1
      /\ \A j \in 1..(i - 1) : left[j] = q[j]
  <2>1. /\ left \in Seq(Clients) /\ Len(left) = IF 1 <= i - 1 THEN (i - 1) - 1 + 1 ELSE 0
        /\ \A j \in 1..((i - 1) - 1 + 1) : left[j] = q[1 + j - 1]
    <3>1. 1 \in Int /\ i - 1 \in Int /\ \A j \in 1..(i - 1) : q[j] \in Clients
      BY <1>1
    <3> QED
      BY <3>1, SubSeqProperties
  <2> QED
    BY <1>1, <2>1
<1>3. /\ right \in Seq(Clients) /\ Len(right) = n - i
      /\ \A j \in 1..(n - i) : right[j] = q[j + i]
  <2>1. /\ right \in Seq(Clients) /\ Len(right) = IF i + 1 <= n THEN n - (i + 1) + 1 ELSE 0
        /\ \A j \in 1..(n - (i + 1) + 1) : right[j] = q[(i + 1) + j - 1]
    <3>1. n \in Int /\ i + 1 \in Int /\ \A j \in (i + 1)..n : q[j] \in Clients
      BY <1>1
    <3> QED
      BY <3>1, SubSeqProperties
  <2>2. \A j \in 1..(n - i) : j \in 1..(n - (i + 1) + 1) /\ (i + 1) + j - 1 = j + i
    BY <1>0
  <2> HIDE DEF right, n
  <2> QED
    BY <1>0, <2>1, <2>2
<1> HIDE DEF r, n, left, right
<1>4. r = left \o right
  BY DEF r, Without, left, right, n
<1>5. /\ r \in Seq(Clients) /\ DOMAIN r = 1..(n - 1)
      /\ \A j \in 1..(n - 1) : r[j] = IF j < i THEN q[j] ELSE q[j + 1]
  <2>1. /\ r \in Seq(Clients) /\ Len(r) = n - 1
        /\ \A j \in 1..(n - 1) : r[j] = IF j <= i - 1 THEN left[j] ELSE right[j - (i - 1)]
    <3>1. Len(left) + Len(right) = n - 1
      BY <1>1, <1>2, <1>3
    <3> QED
      <4>1. /\ left \o right \in Seq(Clients)
            /\ Len(left \o right) = Len(left) + Len(right)
            /\ \A j \in 1..(Len(left) + Len(right)) :
                 (left \o right)[j] = IF j <= Len(left) THEN left[j] ELSE right[j - Len(left)]
        BY <1>2, <1>3, ConcatProperties
      <4> QED
        BY <1>2, <1>4, <3>1, <4>1
  <2>2. ASSUME NEW j \in 1..(n - 1) PROVE r[j] = IF j < i THEN q[j] ELSE q[j + 1]
    <3>1. CASE j < i
      <4>1. j \in 1..(i - 1) /\ j <= i - 1
        BY <1>1, <3>1
      <4> QED
        BY <1>2, <2>1, <3>1, <4>1
    <3>2. CASE ~(j < i)
      <4>1. j - (i - 1) \in 1..(n - i) /\ ~(j <= i - 1) /\ j - (i - 1) + i = j + 1
        <5>1. j \in Int /\ j <= n - 1 /\ i <= j
          BY <1>0, <3>2
        <5>2. j - (i - 1) \in 1..(n - i)
          BY <1>0, <5>1
        <5> QED
          BY <1>0, <5>1, <5>2
      <4> QED
        BY <1>3, <2>1, <3>2, <4>1
    <3> QED
      BY <3>1, <3>2
  <2> QED
    BY <1>1, <2>1, <2>2, LenProperties
<1>6. Distinct(r)
  <2>1. ASSUME NEW j \in 1..(n - 1), NEW k \in 1..(n - 1), r[j] = r[k] PROVE j = k
    <3> DEFINE at(m) == IF m < i THEN m ELSE m + 1
    <3>1. at(j) \in 1..n /\ at(k) \in 1..n
      BY <1>0
    <3>2. r[j] = q[at(j)] /\ r[k] = q[at(k)]
      BY <1>5
    <3>3. at(j) = at(k)
      <4> HIDE DEF at
      <4> QED
        BY <1>1, <2>1, <3>1, <3>2 DEF Distinct
    <3>4. j \in Int /\ k \in Int
      BY <1>0
    <3> QED
      BY <1>0, <3>3, <3>4
  <2> QED
    BY <1>5, <2>1 DEF Distinct
<1>7. ASSUME NEW d, InLine(r, d) PROVE InLine(q, d) /\ d # q[i]
  <2>1. PICK j \in 1..(n - 1) : r[j] = d
    BY <1>5, <1>7 DEF InLine
  <2>2. PICK k \in 1..n : k # i /\ q[k] = d
    <3> DEFINE k == IF j < i THEN j ELSE j + 1
    <3>1. k \in 1..n /\ k # i
      BY <1>0
    <3>2. q[k] = d
      BY <1>5, <2>1
    <3> QED
      BY <3>1, <3>2
  <2> QED
    BY <1>1, <2>2 DEF InLine, Distinct
<1>8. ASSUME NEW d, InLine(q, d), d # q[i] PROVE InLine(r, d)
  <2>1. PICK k \in 1..n : k # i /\ q[k] = d
    BY <1>1, <1>8 DEF InLine
  <2>2. CASE k < i
    <3>1. k \in 1..(n - 1)
      BY <1>1, <2>2
    <3> QED
      BY <1>5, <2>1, <2>2, <3>1 DEF InLine
  <2>3. CASE k > i
    <3>1. k - 1 \in 1..(n - 1) /\ ~(k - 1 < i) /\ (k - 1) + 1 = k
      BY <1>1, <2>3
    <3> QED
      BY <1>5, <2>1, <3>1 DEF InLine
  <2> QED
    BY <1>1, <2>1, <2>2, <2>3
<1> QED
  BY <1>5, <1>6, <1>7, <1>8 DEF r

-----------------------------------------------------------------------------
(***************************************************************************)
(* The pool.                                                               *)
(***************************************************************************)

OwnersIn(p) == {c \in owners : PodOf[c] = p}

PodOK(p) ==
  /\ lent[p] = Cardinality(OwnersIn(p))
  /\ lent[p] <= ConnectionLimit
  /\ queue[p] # <<>> => lent[p] = ConnectionLimit
  /\ Distinct(queue[p])
  /\ \A c : InLine(queue[p], c) => PodOf[c] = p /\ c \notin owners

PoolInv ==
  /\ lent \in [Pods -> Nat]
  /\ owners \subseteq Clients
  /\ queue \in [Pods -> Seq(Clients)]
  /\ \A p \in Pods : PodOK(p)

\* c owns a connection or waits for one.
Has(c) == c \in owners \/ InLine(queue[PodOf[c]], c)

LEMMA PoolInvInit == PoolInit => PoolInv
<1> SUFFICES ASSUME PoolInit PROVE PoolInv
  OBVIOUS
<1>1. \A p \in Pods : OwnersIn(p) = {}
  BY DEF PoolInit, OwnersIn
<1>2. ASSUME NEW p \in Pods PROVE PodOK(p)
  <2>1. lent[p] = 0 /\ queue[p] = <<>> /\ owners = {} /\ DOMAIN queue[p] = {}
    BY DEF PoolInit
  <2>2. Cardinality(OwnersIn(p)) = 0
    BY <1>1, FS_EmptySet
  <2> QED
    BY <2>1, <2>2, PoolAssumption DEF PodOK, Distinct, InLine
<1>3. <<>> \in Seq(Clients)
  BY EmptySeq
<1> QED
  BY <1>2, <1>3 DEF PoolInit, PoolInv

LEMMA OwnersCount ==
  ASSUME PoolInv, NEW p \in Pods
  PROVE  /\ IsFiniteSet(OwnersIn(p))
         /\ Cardinality(OwnersIn(p)) \in Nat
<1>1. OwnersIn(p) \in SUBSET Clients
  BY DEF PoolInv, OwnersIn
<1> QED
  BY <1>1, FS_Subset, FS_CardinalityType, PoolAssumption

\* A pod whose connections and queue do not change stays as it was.
LEMMA OtherPodOK ==
  ASSUME PoolInv, NEW p \in Pods,
         lent'[p] = lent[p], queue'[p] = queue[p], OwnersIn(p)' = OwnersIn(p),
         \A c \in owners' \ owners : PodOf[c] # p
  PROVE  PodOK(p)'
<1>1. PodOK(p)
  BY DEF PoolInv
<1> QED
  BY <1>1 DEF PodOK

LEMMA GetKeepsPool ==
  ASSUME PoolInv, NEW c \in Clients, GetConnection(c)
  PROVE  /\ PoolInv' /\ owners \subseteq owners'
         /\ \A d \in Clients : Has(d)' <=> Has(d) \/ d = c
<1>0. PICK p \in Pods : p = PodOf[c]
  BY PoolAssumption
<1>1. /\ PodOf \in [Clients -> Pods] /\ ConnectionLimit \in Nat
      /\ c \notin owners /\ ~InLine(queue[p], c)
      /\ lent \in [Pods -> Nat] /\ queue \in [Pods -> Seq(Clients)] /\ owners \subseteq Clients
      /\ PodOK(p)
  BY <1>0, PoolAssumption DEF PoolInv, GetConnection, Waits, Line, InLine
<1>2. ASSUME lent[p] < ConnectionLimit, lent' = [lent EXCEPT ![p] = @ + 1],
             owners' = owners \cup {c}, UNCHANGED queue
      PROVE  /\ PoolInv' /\ owners \subseteq owners'
             /\ \A d \in Clients : Has(d)' <=> Has(d) \/ d = c
  <2>1. OwnersIn(p)' = OwnersIn(p) \cup {c}
    BY <1>0, <1>1, <1>2 DEF OwnersIn
  <2>2. Cardinality(OwnersIn(p)') = lent[p] + 1
    <3>1. c \notin OwnersIn(p) /\ IsFiniteSet(OwnersIn(p)) /\ lent[p] = Cardinality(OwnersIn(p))
      BY <1>1, OwnersCount DEF OwnersIn, PodOK
    <3>2. Cardinality(OwnersIn(p) \cup {c}) = lent[p] + 1
      BY <3>1, FS_AddElement
    <3> QED
      BY <2>1, <3>2
  <2>3. queue[p] = <<>>
    BY <1>1, <1>2 DEF PodOK
  <2>4. PodOK(p)'
    <3>1. lent'[p] = lent[p] + 1 /\ lent[p] + 1 <= ConnectionLimit
      BY <1>1, <1>2
    <3>2. ~InLine(<<>>, c) /\ \A d : ~InLine(<<>>, d)
      BY DEF InLine
    <3> QED
      BY <1>1, <1>2, <2>2, <2>3, <3>1, <3>2 DEF PodOK
  <2>5. ASSUME NEW o \in Pods, o # p PROVE PodOK(o)'
    <3>1. OwnersIn(o)' = OwnersIn(o)
      BY <1>0, <1>2, <2>5 DEF OwnersIn
    <3> QED
      BY <1>0, <1>1, <1>2, <2>5, <3>1, OtherPodOK
  <2>6. PoolInv'
    BY <1>1, <1>2, <2>4, <2>5 DEF PoolInv
  <2> QED
    BY <1>2, <2>6 DEF Has
<1>3. ASSUME lent[p] >= ConnectionLimit, queue' = [queue EXCEPT ![p] = Append(@, c)],
             UNCHANGED <<lent, owners>>
      PROVE  /\ PoolInv' /\ owners \subseteq owners'
             /\ \A d \in Clients : Has(d)' <=> Has(d) \/ d = c
  <2> DEFINE r == Append(queue[p], c)
  <2>1. /\ r \in Seq(Clients) /\ r # <<>> /\ Distinct(r)
        /\ \A d : InLine(r, d) <=> InLine(queue[p], d) \/ d = c
    BY <1>1, LineAppend DEF PodOK
  <2>2. queue'[p] = r /\ \A o \in Pods : o # p => queue'[o] = queue[o]
    BY <1>1, <1>3
  <2> HIDE DEF r
  <2>3. lent'[p] = lent[p] /\ lent[p] = ConnectionLimit /\ OwnersIn(p)' = OwnersIn(p)
    BY <1>1, <1>3 DEF PodOK, OwnersIn
  <2>4. PodOK(p)'
    BY <1>0, <1>1, <1>3, <2>1, <2>2, <2>3 DEF PodOK
  <2>5. ASSUME NEW o \in Pods, o # p PROVE PodOK(o)'
    <3>1. OwnersIn(o)' = OwnersIn(o)
      BY <1>3 DEF OwnersIn
    <3> QED
      BY <1>3, <2>2, <2>5, <3>1, OtherPodOK
  <2>6. PoolInv'
    BY <1>1, <1>3, <2>1, <2>4, <2>5 DEF PoolInv, r
  <2>7. ASSUME NEW d \in Clients PROVE Has(d)' <=> Has(d) \/ d = c
    <3>1. CASE PodOf[d] = p
      BY <1>0, <1>3, <2>1, <2>2, <3>1 DEF Has
    <3>2. CASE PodOf[d] # p
      BY <1>0, <1>1, <1>3, <2>2, <3>2 DEF Has
    <3> QED
      BY <3>1, <3>2
  <2> QED
    BY <1>3, <2>6, <2>7
<1> QED
  BY <1>0, <1>2, <1>3 DEF GetConnection

LEMMA ReleaseKeepsPool ==
  ASSUME PoolInv, NEW c \in Clients, Release(c)
  PROVE  /\ PoolInv' /\ owners \ {c} \subseteq owners'
         /\ \A d \in Clients : Has(d)' <=> Has(d) /\ d # c
<1>0. PICK p \in Pods : p = PodOf[c]
  BY PoolAssumption
<1>1. /\ PodOf \in [Clients -> Pods] /\ ConnectionLimit \in Nat
      /\ c \in owners /\ c \in OwnersIn(p)
      /\ lent \in [Pods -> Nat] /\ queue \in [Pods -> Seq(Clients)] /\ owners \subseteq Clients
      /\ PodOK(p)
  BY <1>0, PoolAssumption DEF PoolInv, Release, OwnersIn
<1>2. \A o \in Pods : ~InLine(queue[o], c)
  BY <1>1 DEF PoolInv, PodOK
<1>3. /\ IsFiniteSet(OwnersIn(p)) /\ lent[p] = Cardinality(OwnersIn(p))
      /\ IsFiniteSet(OwnersIn(p) \ {c})
      /\ Cardinality(OwnersIn(p) \ {c}) = lent[p] - 1 /\ lent[p] - 1 \in Nat
  <2>1. IsFiniteSet(OwnersIn(p)) /\ lent[p] = Cardinality(OwnersIn(p))
    BY <1>1, OwnersCount DEF PodOK
  <2>2. /\ IsFiniteSet(OwnersIn(p) \ {c})
        /\ Cardinality(OwnersIn(p) \ {c}) = lent[p] - 1
    BY <1>1, <2>1, FS_RemoveElement
  <2>3. Cardinality(OwnersIn(p) \ {c}) \in Nat
    BY <2>2, FS_CardinalityType
  <2> QED
    BY <2>1, <2>2, <2>3
<1>4. ASSUME queue[p] = <<>>, lent' = [lent EXCEPT ![p] = @ - 1],
             owners' = owners \ {c}, UNCHANGED queue
      PROVE  /\ PoolInv' /\ owners \ {c} \subseteq owners'
             /\ \A d \in Clients : Has(d)' <=> Has(d) /\ d # c
  <2>1. OwnersIn(p)' = OwnersIn(p) \ {c} /\ lent'[p] = lent[p] - 1
    BY <1>1, <1>4 DEF OwnersIn
  <2>2. PodOK(p)'
    <3>1. lent'[p] = Cardinality(OwnersIn(p)')
      BY <1>3, <2>1
    <3>2. lent'[p] <= ConnectionLimit
      BY <1>1, <1>3, <2>1 DEF PodOK
    <3> QED
      BY <1>1, <1>4, <3>1, <3>2 DEF PodOK
  <2>3. ASSUME NEW o \in Pods, o # p PROVE PodOK(o)'
    <3>1. OwnersIn(o)' = OwnersIn(o)
      BY <1>0, <1>4, <2>3 DEF OwnersIn
    <3> QED
      BY <1>0, <1>1, <1>4, <2>3, <3>1, OtherPodOK
  <2>4. PoolInv'
    BY <1>1, <1>3, <1>4, <2>2, <2>3 DEF PoolInv
  <2>5. ASSUME NEW d \in Clients PROVE Has(d)' <=> Has(d) /\ d # c
    BY <1>1, <1>2, <1>4, <2>5 DEF Has
  <2> QED
    BY <1>4, <2>4, <2>5
<1>5. ASSUME queue[p] # <<>>, owners' = (owners \ {c}) \cup {Head(queue[p])},
             queue' = [queue EXCEPT ![p] = Tail(@)], UNCHANGED lent
      PROVE  /\ PoolInv' /\ owners \ {c} \subseteq owners'
             /\ \A d \in Clients : Has(d)' <=> Has(d) /\ d # c
  <2> DEFINE r == Tail(queue[p])
  <2>0. PICK h \in Clients : h = Head(queue[p])
    BY <1>1, <1>5, LineTail DEF PodOK
  <2>1. /\ r \in Seq(Clients) /\ Distinct(r) /\ InLine(queue[p], h)
        /\ \A d : InLine(r, d) <=> InLine(queue[p], d) /\ d # h
    BY <1>1, <1>5, <2>0, LineTail DEF PodOK
  <2>2. queue'[p] = r /\ \A o \in Pods : o # p => queue'[o] = queue[o]
    BY <1>1, <1>5
  <2> HIDE DEF r
  <2>3. PodOf[h] = p /\ h \notin owners /\ h # c /\ h \notin OwnersIn(p)
    BY <1>1, <2>1 DEF PodOK, OwnersIn
  <2>4. lent'[p] = Cardinality(OwnersIn(p)')
    <3>1. OwnersIn(p)' = (OwnersIn(p) \ {c}) \cup {h}
      BY <1>0, <1>5, <2>0, <2>3 DEF OwnersIn
    <3>2. Cardinality((OwnersIn(p) \ {c}) \cup {h}) = (lent[p] - 1) + 1
      <4>1. h \notin OwnersIn(p) \ {c}
        BY <2>3
      <4> QED
        BY <1>3, <4>1, FS_AddElement
    <3> QED
      BY <1>1, <1>5, <3>1, <3>2
  <2>5. PodOK(p)'
    BY <1>1, <1>5, <2>0, <2>1, <2>2, <2>3, <2>4 DEF PodOK
  <2>6. ASSUME NEW o \in Pods, o # p PROVE PodOK(o)'
    <3>1. OwnersIn(o)' = OwnersIn(o)
      BY <1>0, <1>5, <2>0, <2>3, <2>6 DEF OwnersIn
    <3> QED
      BY <1>5, <2>0, <2>2, <2>3, <2>6, <3>1, OtherPodOK
  <2>7. PoolInv'
    BY <1>1, <1>5, <2>0, <2>1, <2>5, <2>6 DEF PoolInv, r
  <2>8. ASSUME NEW d \in Clients PROVE Has(d)' <=> Has(d) /\ d # c
    <3>1. CASE PodOf[d] = p
      <4>1. queue'[PodOf[d]] = r /\ queue[PodOf[d]] = queue[p]
        BY <2>2, <3>1
      <4>2. Has(d)' <=> d \in owners' \/ InLine(r, d)
        BY <4>1 DEF Has
      <4>3. Has(d) <=> d \in owners \/ InLine(queue[p], d)
        BY <4>1 DEF Has
      <4>4. ~InLine(queue[p], c)
        BY <1>2
      <4> QED
        BY <1>5, <2>0, <2>1, <4>2, <4>3, <4>4
    <3>2. CASE PodOf[d] # p
      <4>1. d # c /\ d # h /\ queue'[PodOf[d]] = queue[PodOf[d]]
        BY <1>0, <1>1, <2>2, <2>3, <3>2
      <4> QED
        BY <1>5, <2>0, <4>1 DEF Has
    <3> QED
      BY <3>1, <3>2
  <2> QED
    BY <1>5, <2>7, <2>8
<1> QED
  BY <1>0, <1>4, <1>5 DEF Release

LEMMA LeaveKeepsPool ==
  ASSUME PoolInv, NEW c \in Clients, LeaveQueue(c)
  PROVE  /\ PoolInv' /\ owners \ {c} \subseteq owners'
         /\ \A d \in Clients : Has(d)' <=> Has(d) /\ d # c
<1>0. PICK p \in Pods : p = PodOf[c]
  BY PoolAssumption
<1>1. /\ PodOf \in [Clients -> Pods]
      /\ lent \in [Pods -> Nat] /\ queue \in [Pods -> Seq(Clients)] /\ owners \subseteq Clients
      /\ PodOK(p) /\ DOMAIN queue[p] = 1..Len(queue[p])
  BY <1>0, LenProperties, PoolAssumption DEF PoolInv
<1>2. PICK i \in 1..Len(queue[p]) :
        /\ queue[p][i] = c
        /\ queue' = [queue EXCEPT ![p] = SubSeq(@, 1, i - 1) \o SubSeq(@, i + 1, Len(@))]
  BY <1>0, <1>1 DEF LeaveQueue, Line
<1>3. lent' = lent /\ owners' = owners
  BY DEF LeaveQueue
<1> DEFINE r == Without(queue[p], i)
<1>4. queue'[p] = r /\ \A o \in Pods : o # p => queue'[o] = queue[o]
  BY <1>1, <1>2 DEF Without
<1>5. /\ r \in Seq(Clients) /\ Distinct(r)
      /\ \A d : InLine(r, d) <=> InLine(queue[p], d) /\ d # c
  <2>1. queue[p] \in Seq(Clients) /\ Distinct(queue[p])
    BY <1>1 DEF PodOK
  <2> QED
    BY <1>2, <2>1, LineRemove
<1>6. InLine(queue[p], c) /\ queue[p] # <<>>
  <2>1. InLine(queue[p], c)
    BY <1>1, <1>2 DEF InLine
  <2>2. ~InLine(<<>>, c)
    BY DEF InLine
  <2> QED
    BY <2>1, <2>2
<1> HIDE DEF r
<1>7. c \notin owners
  BY <1>1, <1>6 DEF PodOK
<1>8. \A o \in Pods : OwnersIn(o)' = OwnersIn(o)
  BY <1>3 DEF OwnersIn
<1>9. PodOK(p)'
  BY <1>1, <1>3, <1>4, <1>5, <1>6, <1>8 DEF PodOK
<1>10. ASSUME NEW o \in Pods, o # p PROVE PodOK(o)'
  BY <1>3, <1>4, <1>8, <1>10, OtherPodOK
<1>11. PoolInv'
  BY <1>1, <1>2, <1>3, <1>5, <1>9, <1>10 DEF PoolInv, r, Without
<1>12. ASSUME NEW d \in Clients PROVE Has(d)' <=> Has(d) /\ d # c
  <2>1. CASE PodOf[d] = p
    <3>1. queue'[PodOf[d]] = r /\ queue[PodOf[d]] = queue[p]
      BY <1>4, <2>1
    <3>2. Has(d)' <=> d \in owners' \/ InLine(r, d)
      BY <3>1 DEF Has
    <3>3. Has(d) <=> d \in owners \/ InLine(queue[p], d)
      BY <3>1 DEF Has
    <3> QED
      BY <1>3, <1>5, <1>7, <3>2, <3>3
  <2>2. CASE PodOf[d] # p
    <3>1. d # c /\ queue'[PodOf[d]] = queue[PodOf[d]]
      BY <1>0, <1>1, <1>4, <2>2
    <3> QED
      BY <1>3, <3>1 DEF Has
  <2> QED
    BY <2>1, <2>2
<1> QED
  BY <1>3, <1>11, <1>12

LEMMA LetGoKeepsPool ==
  ASSUME PoolInv, NEW c \in Clients, LetGo(c)
  PROVE  /\ PoolInv' /\ owners \ {c} \subseteq owners'
         /\ \A d \in Clients : Has(d)' <=> Has(d) /\ d # c
<1>1. CASE Release(c)
  BY <1>1, ReleaseKeepsPool
<1>2. CASE LeaveQueue(c)
  BY <1>2, LeaveKeepsPool
<1>3. CASE c \notin owners /\ ~Waits(c) /\ UNCHANGED poolVars
  <2>1. ~Has(c)
    BY <1>3 DEF Has, Waits, Line, InLine
  <2>2. PoolInv'
    BY <1>3 DEF poolVars, PoolInv, PodOK, OwnersIn
  <2>3. \A d \in Clients : Has(d)' <=> Has(d)
    BY <1>3 DEF poolVars, Has
  <2> QED
    BY <1>3, <2>1, <2>2, <2>3 DEF poolVars
<1> QED
  BY <1>1, <1>2, <1>3 DEF LetGo

-----------------------------------------------------------------------------
(***************************************************************************)
(* Requests and their connections.                                         *)
(***************************************************************************)

\* c is in flight.
Busy(c) == InTransaction(c) \/ Enters(c)

ClientOK(c) == /\ InTransaction(c) => c \in owners
               /\ Has(c) => Busy(c)

ConnInv == PoolInv /\ \A c \in Clients : ClientOK(c)

LEMMA ConnInvInit == PooledInit => ConnInv
<1> SUFFICES ASSUME PooledInit PROVE ConnInv
  OBVIOUS
<1>1. ASSUME NEW c \in Clients PROVE ~InTransaction(c) /\ ~Has(c)
  <2>1. ~InTransaction(c)
    BY DEF PooledInit, Init, AuditInit, NoAudit, InTransaction, InFlight
  <2>2. ~InLine(<<>>, c)
    BY DEF InLine
  <2>3. ~Has(c)
    BY <2>2, PoolAssumption DEF PooledInit, PoolInit, Has
  <2> QED
    BY <2>1, <2>3
<1> QED
  BY <1>1, PoolInvInit DEF PooledInit, ConnInv, ClientOK

\* A client that does not move keeps its connection or its place in the queue.
LEMMA StillClient ==
  ASSUME NEW d \in Clients, ClientOK(d),
         d \in Workers => pc'[d] = pc[d],
         d \in Auditors => audit'[d] = audit[d],
         d \in owners => d \in owners', Has(d)' => Has(d)
  PROVE  ClientOK(d)'
BY DEF ClientOK, Busy, InTransaction, Enters, InFlight

LEMMA ConnInvNext ==
  ASSUME ConnInv, TypeOK, AuditTypeOK, [PooledNext]_<<sysVars, suspect>>
  PROVE  ConnInv'
<1>0. /\ PoolInv /\ \A c \in Clients : ClientOK(c)
      /\ Workers \subseteq Clients /\ Auditors \subseteq Clients /\ Workers \cap Auditors = {}
      /\ pc \in [Workers -> Steps] /\ audit \in [Auditors -> Audit]
  BY ClientAssumption DEF ConnInv, TypeOK, AuditTypeOK
<1>1. ASSUME UNCHANGED poolVars
      PROVE  PoolInv' /\ owners' = owners /\ \A d \in Clients : Has(d)' <=> Has(d)
  <2>1. PoolInv'
    BY <1>0, <1>1 DEF poolVars, PoolInv, PodOK, OwnersIn
  <2>2. \A d \in Clients : Has(d)' <=> Has(d)
    BY <1>1 DEF poolVars, Has
  <2> QED
    BY <1>1, <2>1, <2>2 DEF poolVars
<1>2. ASSUME UNCHANGED <<pc, audit, poolVars>>
      PROVE  ConnInv'
  <2>1. PoolInv' /\ owners' = owners /\ \A d \in Clients : Has(d)' <=> Has(d)
    BY <1>1, <1>2
  <2>2. \A d \in Clients : ClientOK(d)'
    BY <1>0, <1>2, <2>1, StillClient
  <2> QED
    BY <2>1, <2>2 DEF ConnInv
<1>3. ASSUME NEW w \in Workers, PooledStart(w)
      PROVE  ConnInv'
  <2>1. PoolInv' /\ owners' = owners /\ \A d \in Clients : Has(d)' <=> Has(d)
    BY <1>1, <1>3 DEF PooledStart
  <2>2. /\ audit' = audit /\ pc'[w] \in {"calculate", "lockBill"}
        /\ \A v \in Workers : v # w => pc'[v] = pc[v]
    BY <1>0, <1>3 DEF PooledStart, Start, StartGenerate, StartPay, Goto
  <2>3. ClientOK(w)'
    BY <1>0, <2>2 DEF ClientOK, Busy, InTransaction, Enters
  <2>4. ASSUME NEW d \in Clients, d # w PROVE ClientOK(d)'
    BY <1>0, <2>1, <2>2, <2>4, StillClient
  <2> QED
    BY <2>1, <2>3, <2>4 DEF ConnInv
<1>4. ASSUME NEW a \in Auditors, PooledAudit(a)
      PROVE  ConnInv'
  <2>1. PoolInv' /\ owners' = owners /\ \A d \in Clients : Has(d)' <=> Has(d)
    BY <1>1, <1>4 DEF PooledAudit
  <2>2. /\ pc' = pc /\ audit'[a].step = "readLast"
        /\ \A b \in Auditors : b # a => audit'[b] = audit[b]
    BY <1>0, <1>4 DEF PooledAudit, StartAudit, NoAudit, vars
  <2>3. ClientOK(a)'
    BY <1>0, <2>2 DEF ClientOK, Busy, InTransaction, Enters
  <2>4. ASSUME NEW d \in Clients, d # a PROVE ClientOK(d)'
    BY <1>0, <2>1, <2>2, <2>4, StillClient
  <2> QED
    BY <2>1, <2>3, <2>4 DEF ConnInv
<1>5. ASSUME NEW w \in Workers, BillingStep(w)
      PROVE  ConnInv'
  <2>1. /\ w \in owners /\ audit' = audit
        /\ \A v \in Workers : v # w => pc'[v] = pc[v]
    BY <1>0, <1>5 DEF BillingStep, Step, Calculate, NoCharge, InsertBill, MarkCdrs, LockBill,
       NotPayable, MarkPaid, ReadBalance, InsertEntry, OutOfRange, CommitCharge, CommitPayment, Goto
  <2>2. CASE Returns(w)
    <3>1. /\ PoolInv' /\ owners \ {w} \subseteq owners'
          /\ \A d \in Clients : Has(d)' <=> Has(d) /\ d # w
      BY <1>0, <1>5, <2>2, ReleaseKeepsPool DEF BillingStep
    <3>2. pc'[w] \in {"insertBill", "idle"}
      BY <1>0, <1>5, <2>2 DEF BillingStep, Returns, Step, Calculate, NoCharge, InsertBill, MarkCdrs,
         LockBill, NotPayable, MarkPaid, ReadBalance, InsertEntry, OutOfRange, CommitCharge,
         CommitPayment, Goto
    <3>3. ClientOK(w)'
      BY <1>0, <3>1, <3>2 DEF ClientOK, Busy, InTransaction, Enters
    <3>4. ASSUME NEW d \in Clients, d # w PROVE ClientOK(d)'
      BY <1>0, <2>1, <3>1, <3>4, StillClient
    <3> QED
      BY <3>1, <3>3, <3>4 DEF ConnInv
  <2>3. CASE ~Returns(w)
    <3>1. PoolInv' /\ owners' = owners /\ \A d \in Clients : Has(d)' <=> Has(d)
      BY <1>1, <1>5, <2>3 DEF BillingStep
    <3>2. pc'[w] # "idle"
      BY <2>3 DEF Returns
    <3>3. ClientOK(w)'
      BY <1>0, <2>1, <3>1, <3>2 DEF ClientOK, Busy, InTransaction, Enters
    <3>4. ASSUME NEW d \in Clients, d # w PROVE ClientOK(d)'
      BY <1>0, <2>1, <3>1, <3>4, StillClient
    <3> QED
      BY <3>1, <3>3, <3>4 DEF ConnInv
  <2> QED
    BY <2>2, <2>3
<1>6. ASSUME NEW a \in Auditors, AuditorStep(a)
      PROVE  ConnInv'
  <2>1. /\ a \in owners /\ pc' = pc
        /\ \A b \in Auditors : b # a => audit'[b] = audit[b]
    BY <1>0, <1>6 DEF AuditorStep, AuditStep, ReadLast, ReadTotals, ReadUnpaid, Answer, vars
  <2>2. CASE ~InFlight(a)'
    <3>1. /\ PoolInv' /\ owners \ {a} \subseteq owners'
          /\ \A d \in Clients : Has(d)' <=> Has(d) /\ d # a
      BY <1>0, <1>6, <2>2, ReleaseKeepsPool DEF AuditorStep
    <3>2. ClientOK(a)'
      BY <1>0, <2>2, <3>1 DEF ClientOK, Busy, InTransaction, Enters
    <3>3. ASSUME NEW d \in Clients, d # a PROVE ClientOK(d)'
      BY <1>0, <2>1, <3>1, <3>3, StillClient
    <3> QED
      BY <3>1, <3>2, <3>3 DEF ConnInv
  <2>3. CASE InFlight(a)'
    <3>1. PoolInv' /\ owners' = owners /\ \A d \in Clients : Has(d)' <=> Has(d)
      BY <1>1, <1>6, <2>3 DEF AuditorStep
    <3>2. ClientOK(a)'
      BY <1>0, <2>1, <2>3, <3>1 DEF ClientOK, Busy, InTransaction, Enters
    <3>3. ASSUME NEW d \in Clients, d # a PROVE ClientOK(d)'
      BY <1>0, <2>1, <3>1, <3>3, StillClient
    <3> QED
      BY <3>1, <3>2, <3>3 DEF ConnInv
  <2> QED
    BY <2>2, <2>3
<1>7. ASSUME NEW c \in Clients, TakeConnection(c)
      PROVE  ConnInv'
  <2>1. /\ PoolInv' /\ owners \subseteq owners'
        /\ \A d \in Clients : Has(d)' <=> Has(d) \/ d = c
    BY <1>0, <1>7, GetKeepsPool DEF TakeConnection
  <2>2. pc' = pc /\ audit' = audit /\ Enters(c)
    BY <1>7 DEF TakeConnection, vars
  <2>3. ClientOK(c)'
    BY <1>0, <2>2 DEF ClientOK, Busy, InTransaction, Enters
  <2>4. ASSUME NEW d \in Clients, d # c PROVE ClientOK(d)'
    BY <1>0, <2>1, <2>2, <2>4, StillClient
  <2> QED
    BY <2>1, <2>3, <2>4 DEF ConnInv
<1>8. ASSUME NEW c \in Clients, RequestFails(c)
      PROVE  ConnInv'
  <2>1. /\ PoolInv' /\ owners \ {c} \subseteq owners'
        /\ \A d \in Clients : Has(d)' <=> Has(d) /\ d # c
    BY <1>0, <1>8, LetGoKeepsPool DEF RequestFails
  <2>2. /\ \A v \in Workers : v # c => pc'[v] = pc[v]
        /\ \A b \in Auditors : b # c => audit'[b] = audit[b]
        /\ c \in Workers => pc'[c] = "idle"
        /\ c \in Auditors => audit'[c] = NoAudit
    BY <1>0, <1>8 DEF RequestFails, Abort, Goto, AuditFails, vars
  <2>3. ClientOK(c)'
    BY <1>0, <2>1, <2>2 DEF ClientOK, Busy, InTransaction, Enters, InFlight, NoAudit
  <2>4. ASSUME NEW d \in Clients, d # c PROVE ClientOK(d)'
    BY <1>0, <2>1, <2>2, <2>4, StillClient
  <2> QED
    BY <2>1, <2>3, <2>4 DEF ConnInv
<1>9. ASSUME Environment, UNCHANGED <<audit, poolVars>>
      PROVE  ConnInv'
  BY <1>2, <1>9 DEF Environment, RecordUsage, TimePasses, UpdateRate
<1>10. ASSUME UNCHANGED <<sysVars, suspect>>
       PROVE  ConnInv'
  BY <1>2, <1>10 DEF sysVars, vars
<1> QED
  BY <1>3, <1>4, <1>5, <1>6, <1>7, <1>8, <1>9, <1>10 DEF PooledNext

LEMMA ConnInvariant == PooledSpec => []ConnInv
<1>1. OwedInv => TypeOK
  BY DEF OwedInv, LedgerInv, TypeInv
<1>2. AuditInv => AuditTypeOK
  BY DEF AuditInv
<1>3. ConnInv /\ TypeOK /\ AuditTypeOK /\ [PooledNext]_<<sysVars, suspect>> => ConnInv'
  BY ConnInvNext
<1> QED
  BY <1>1, <1>2, <1>3, ConnInvInit, AuditInvariant, PoolsOnlyDelay, OwedInvariant, PTL DEF PooledSpec

\* No connection is leaked or lent twice, no transaction runs without one, and nobody
\* queues while one is free, for any number of pods, requests and connections and
\* wherever requests fail.
THEOREM NoConnectionIsLost == PooledSpec => []ConnectionsAccountedFor
<1>1. ConnInv => ConnectionsAccountedFor
  <2> SUFFICES ASSUME ConnInv PROVE ConnectionsAccountedFor
    OBVIOUS
  <2>1. ASSUME NEW p \in Pods
        PROVE  /\ lent[p] = Cardinality({c \in owners : PodOf[c] = p})
               /\ lent[p] <= ConnectionLimit
               /\ queue[p] # <<>> => lent[p] = ConnectionLimit
    BY DEF ConnInv, PoolInv, PodOK, OwnersIn
  <2>2. ASSUME NEW c \in Clients
        PROVE  /\ InTransaction(c) => c \in owners
               /\ c \in owners \/ Waits(c) => InTransaction(c) \/ Enters(c)
               /\ ~(c \in owners /\ Waits(c))
    <3>1. Waits(c) <=> InLine(queue[PodOf[c]], c)
      BY DEF Waits, Line, InLine
    <3>2. PodOK(PodOf[c])
      BY PoolAssumption DEF ConnInv, PoolInv
    <3> QED
      BY <3>1, <3>2 DEF ConnInv, ClientOK, Has, Busy, PodOK
  <2> QED
    BY <2>1, <2>2 DEF ConnectionsAccountedFor
<1> QED
  BY <1>1, ConnInvariant, PTL
=============================================================================

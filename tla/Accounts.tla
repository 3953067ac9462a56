------------------------------ MODULE Accounts -------------------------------
(***************************************************************************)
(* The tables users and login_attempts, and the statements of              *)
(* userController.ts on them.  A module with the requests in flight        *)
(* extends this one.                                                       *)
(*                                                                         *)
(* Time is a number of ticks: an attempt is counted for AttemptWindow      *)
(* ticks (INTERVAL 15 MINUTE) and, as no statement reads it any later,     *)
(* dropped then.                                                           *)
(***************************************************************************)
EXTENDS FiniteSets, Integers

CONSTANTS
  Emails,
  Ips,
  Rows,            \* the rows login_attempts has room for
  MaxAttempts,     \* the attempts that lock an address, 5 in the code
  AttemptWindow,
  NoRow

ASSUME AccountsAssumption ==
  /\ IsFiniteSet(Rows)
  /\ MaxAttempts \in Nat \ {0}
  /\ AttemptWindow \in Nat \ {0}

Attempt == [ip : Ips, email : Emails, age : 0..(AttemptWindow - 1)]

ASSUME NoRowAssumption == NoRow \notin Attempt

VARIABLES
  users,      \* the addresses that have an account
  attempts    \* the failed logins of the window

accountVars == <<users, attempts>>

AccountsTypeOK ==
  /\ users \subseteq Emails
  /\ attempts \in [Rows -> Attempt \cup {NoRow}]

AccountsInit ==
  /\ users = {}
  /\ attempts = [r \in Rows |-> NoRow]

-----------------------------------------------------------------------------
RowsOf(ip) == {r \in Rows : attempts[r] # NoRow /\ attempts[r].ip = ip}

\* Locked, were the limit exceeded before it counts
LockedTooLate(ip) == Cardinality(RowsOf(ip)) > MaxAttempts

\* SELECT COUNT(*) ... WHERE ip = ? AND created_at > ... is at the limit.
Locked(ip) == Cardinality(RowsOf(ip)) >= MaxAttempts

\* INSERT INTO login_attempts.  The table has no unique key, so the statement's
\* ON DUPLICATE KEY UPDATE never applies and each failure is a row of its own.
RecordAttempt(ip, email) ==
  \E r \in Rows :
    /\ attempts[r] = NoRow
    /\ attempts' = [attempts EXCEPT ![r] = [ip |-> ip, email |-> email, age |-> 0]]

\* DELETE FROM login_attempts WHERE ip = ? OR email = ?
ClearAttempts(ip, email) ==
  attempts' = [r \in Rows |->
                 IF attempts[r] # NoRow /\ (attempts[r].ip = ip \/ attempts[r].email = email)
                 THEN NoRow ELSE attempts[r]]

\* INSERT INTO users, whose email is UNIQUE
InsertUser(email) == email \notin users /\ users' = users \cup {email}

\* AttemptsAge, did the COUNT not ask created_at
AttemptsStay ==
  attempts' = [r \in Rows |-> IF attempts[r] # NoRow THEN [attempts[r] EXCEPT !.age = @ + 1]
                              ELSE NoRow]

\* The clock moves on.
AttemptsAge ==
  /\ \E r \in Rows : attempts[r] # NoRow
  /\ attempts' = [r \in Rows |->
                    IF attempts[r] # NoRow /\ attempts[r].age + 1 < AttemptWindow
                    THEN [attempts[r] EXCEPT !.age = @ + 1] ELSE NoRow]
=============================================================================

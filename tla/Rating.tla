------------------------------- MODULE Rating -------------------------------
(***************************************************************************)
(* How calculateBill of src/src/services/billingService.ts turns CDRs into *)
(* money.  The batch is the array of rows logs, with a type and a quantity *)
(* (DECIMAL(12,4)) each, and a rate is a DECIMAL(10,4) price per unit.     *)
(* Quantities and rates are integers here (ten-thousandths), so that       *)
(* quantity * rate counts hundred-millionths; Scale of these are one cent, *)
(* 10^6 in the code.                                                       *)
(***************************************************************************)
EXTENDS Sums, Sequences

CONSTANTS
  Types,   \* the services, in the order of the ENUM of user_logs.type
  Scale

ASSUME TypesAssumption ==
  /\ Types \in Seq({Types[k] : k \in DOMAIN Types})
  /\ \A j, k \in DOMAIN Types : Types[j] = Types[k] => j = k
ASSUME ScaleAssumption == Scale \in Nat \ {0}

TypeSet == {Types[k] : k \in DOMAIN Types}

\* The standard rounding that the code avoids: a tie goes up.
RoundHalfUp(x) == (2 * x + Scale) \div (2 * Scale)

\* Decimal.js toDecimalPlaces(2) under ROUND_HALF_EVEN: x counts Scale-ths of
\* a cent, and a tie goes to the even cent.
RoundHalfEven(x) ==
  LET down == x \div Scale
      rest == x % Scale
  IN  IF 2 * rest > Scale \/ (2 * rest = Scale /\ down % 2 = 1) THEN down + 1 ELSE down

\* aggregation[type]: the quantity of the CDRs of service s
Aggregation(logs, s) ==
  SumUpTo([i \in DOMAIN logs |-> IF logs[i].type = s THEN logs[i].quantity ELSE 0], Len(logs))

\* Cost, were every CDR rounded by itself
CostPerCdr(logs, rates, s) ==
  SumUpTo([i \in DOMAIN logs |-> IF logs[i].type = s
                                 THEN RoundHalfEven(logs[i].quantity * rates[s]) ELSE 0], Len(logs))

\* details[type].cost, rounded once for all the CDRs of the service; a service
\* without a row in service_rates costs 0.
Cost(logs, rates, s) == RoundHalfEven(Aggregation(logs, s) * rates[s])

\* The total of the bill, in cents
RatedTotal(logs, rates) ==
  SumUpTo([k \in DOMAIN Types |-> Cost(logs, rates, Types[k])], Len(Types))
=============================================================================

--------------------------- MODULE EligibilityGate --------------------------
(***************************************************************************)
(* What screening promises about a task, without trials, attempts, pauses  *)
(* or retries: every repetition gets at most one result, results arrive    *)
(* only while the task is open, and the verdict is a function of the       *)
(* results alone.                                                          *)
(***************************************************************************)
EXTENDS Integers, FiniteSets

CONSTANTS Tasks, Repetitions, PassesRequired, FailureStop, QualityFailures, Errors

VARIABLES
    results,  \* the result of each repetition of each task, if it has one
    verdict   \* open, eligible or ineligible

gateVars == <<results, verdict>>

Missing == "no_result"
Given == {"pass"} \cup QualityFailures \cup Errors
EmptyRow == [r \in 1 .. Repetitions |-> Missing]

Count(row, kinds) == Cardinality({r \in 1 .. Repetitions : row[r] \in kinds})

Verdict(row) ==
    IF Count(row, Errors) > 0 \/ Count(row, QualityFailures) >= FailureStop THEN "ineligible"
    ELSE IF Count(row, {Missing}) > 0 THEN "open"
    ELSE IF Count(row, {"pass"}) >= PassesRequired THEN "eligible"
    ELSE "ineligible"

GateInit ==
    /\ results = [t \in Tasks |-> EmptyRow]
    /\ verdict = [t \in Tasks |-> "open"]

\* One repetition of an open task gets its result.
Record(t, r, result) ==
    /\ verdict[t] = "open"
    /\ results[t][r] = Missing
    /\ results' = [results EXCEPT ![t][r] = result]
    /\ verdict' = [verdict EXCEPT ![t] = Verdict(results'[t])]

\* A row that was open until its last result.
Reachable(row) ==
    \/ row = EmptyRow
    \/ \E r \in 1 .. Repetitions :
          row[r] # Missing /\ Verdict([row EXCEPT ![r] = Missing]) = "open"

\* The results of an earlier run are taken over before anything is recorded.
Import ==
    /\ results = [t \in Tasks |-> EmptyRow]
    /\ results' \in [Tasks -> [1 .. Repetitions -> Given \cup {Missing}]]
    /\ \A t \in Tasks : Reachable(results'[t])
    /\ verdict' = [t \in Tasks |-> Verdict(results'[t])]

GateNext ==
    \/ \E t \in Tasks, r \in 1 .. Repetitions, result \in Given : Record(t, r, result)
    \/ Import

GateSpec == GateInit /\ [][GateNext]_gateVars
=============================================================================

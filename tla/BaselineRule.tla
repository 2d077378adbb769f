---------------------------- MODULE BaselineRule ----------------------------
(***************************************************************************)
(* The stopping rule of a baseline and the comparison with it:             *)
(* src/src/baseline.py.  A row is one complete repetition: the binary      *)
(* reward of every task.  Means, deviations and labels are left out.       *)
(***************************************************************************)
EXTENDS Integers, FiniteSets, Sequences, FiniteSetsExt, SequencesExt

CONSTANTS
    Tasks,              \* the five fixed tasks
    Interim,            \* 5: repetitions before the interim gate
    Minimum,            \* 10: repetitions before the first decision
    Maximum,            \* 20: repetitions before the last decision
    InterimMaxWidth     \* 1: widest range of pass counts to go on with

ASSUME BaselineAssumption ==
    /\ IsFiniteSet(Tasks) /\ Tasks # {}
    /\ Interim \in Nat \ {0} /\ Minimum \in Nat /\ Maximum \in Nat
    /\ Interim < Minimum /\ Minimum < Maximum
    /\ Minimum % 2 = 0 /\ Maximum % 2 = 0

PassCount(row) == Cardinality({t \in Tasks : row[t] = 1})

Counts(rows) == {PassCount(rows[i]) : i \in DOMAIN rows}
Width(rows) == Max(Counts(rows)) - Min(Counts(rows))
Support(rows, t) == {rows[i][t] : i \in DOMAIN rows}
FloorTasks(rows) == {t \in Tasks : Support(rows, t) = {0}}
CeilingTasks(rows) == {t \in Tasks : Support(rows, t) = {1}}

InterimDecision(rows) ==
    IF Width(rows) <= InterimMaxWidth THEN "continue_to_10" ELSE "stop_for_design_audit"

\* half_checks: both halves show the same range and, task by task, the same rewards.
HalvesAgree(rows) ==
    LET middle == Len(rows) \div 2
        first == SubSeq(rows, 1, middle)
        second == SubSeq(rows, middle + 1, Len(rows))
    IN  /\ Min(Counts(first)) = Min(Counts(second))
        /\ Max(Counts(first)) = Max(Counts(second))
        /\ \A t \in Tasks : Support(first, t) = Support(second, t)

Decision(rows) ==
    IF Len(rows) < Minimum THEN "collect_to_10"
    ELSE IF Len(rows) \notin {Minimum, Maximum} THEN "collect_to_20"
    ELSE IF HalvesAgree(rows) THEN "observed_range_stabilized"
    ELSE IF Len(rows) = Minimum THEN "extend_to_total_20"
    ELSE "stop_inconclusive"

\* Something could have been seen to get worse.
Informative(rows) ==
    /\ Decision(rows) = "observed_range_stabilized"
    /\ Width(rows) < Cardinality(Tasks)
    /\ FloorTasks(rows) # Tasks

\* compare_quality; changed is the number of outputs the compressor changed.
CompareQuality(baseline, rows, changed) ==
    LET below == \E i \in DOMAIN rows : PassCount(rows[i]) < Min(Counts(baseline))
        lost == \E t \in CeilingTasks(baseline) : 0 \in Support(rows, t)
    IN  IF ~Informative(baseline) THEN "inconclusive_baseline"
        ELSE IF changed = 0 THEN "no_intervention_not_a_safety_test"
        ELSE IF below \/ lost THEN "below_observed_baseline_range"
        ELSE IF Max(Counts(rows)) > Max(Counts(baseline)) THEN "above_observed_baseline_range_requires_review"
        ELSE IF FloorTasks(baseline) # {} THEN "within_observed_range_with_floor_limits"
        ELSE "within_observed_range"
=============================================================================

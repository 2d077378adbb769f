------------------------- MODULE ScreeningScheduler -------------------------
(***************************************************************************)
(* The screening state database: class ScreeningState of                   *)
(* src/src/screening_scheduler.py.  Every method opens one immediate       *)
(* SQLite transaction, so every method is one action here, and an action   *)
(* that is not enabled is a call that raises and rolls back.               *)
(*                                                                         *)
(* A trial is a task paired with a repetition.  A trial has at most two    *)
(* attempts.  Hashes, timestamps, costs and the event log are left out:    *)
(* no decision of the database reads them.                                 *)
(***************************************************************************)
EXTENDS Integers, FiniteSets

CONSTANTS
    Tasks,              \* the tasks of the screening manifest
    Repetitions,        \* 20: planned trials per task, and results for a verdict
    PassesRequired,     \* 18: passes among them that make a task eligible
    FailureStop,        \* 3: quality failures that end a task early
    PlanIndex,          \* the manifest's total order of the trials
    QualityFailures,    \* wrong_answer, wrong_format
    PreparationErrors,  \* image_error, setup_error
    TechnicalErrors,    \* provider_error, network_error, timeout, ...
    Runtimes,           \* (artifact, container, workspace) triples
    RequestIds,         \* identifiers a provider may return for a request
    Positions,          \* (logical request, HTTP attempt) positions
    ClaimSizes          \* sizes a caller passes to claim

Trials == Tasks \X (1 .. Repetitions)
Numbers == {1, 2}

Quality == {"pass"} \cup QualityFailures
Results == Quality \cup PreparationErrors \cup TechnicalErrors
Interruption == "infrastructure_interruption"
Verdicts == {"third_quality_failure", "valid_results_18_of_20", "fewer_than_18_passes"}

NoResult == "no_result"
NoReason == "no_reason"
NoError == "no_error"
NoRuntime == [artifact |-> "none", container |-> "none", workspace |-> "none"]
NoId == "no_request_id"

ASSUME TasksAssumption == IsFiniteSet(Tasks)

\* make_screening_manifest and _complete_attempt fix 20, 18 and 3.
ASSUME ThresholdAssumption ==
    /\ Repetitions \in Nat \ {0}
    /\ FailureStop \in Nat \ {0}
    /\ PassesRequired \in 0 .. Repetitions

\* The plan is indexed repetition by repetition, tasks shuffled inside one.
ASSUME PlanAssumption ==
    /\ PlanIndex \in [Trials -> Nat]
    /\ \A c, d \in Trials : PlanIndex[c] = PlanIndex[d] => c = d

ASSUME ResultAssumption ==
    /\ QualityFailures \cap (PreparationErrors \cup TechnicalErrors) = {}
    /\ PreparationErrors \cap TechnicalErrors = {}
    /\ {"pass", NoResult, NoReason, NoError, Interruption} \cap
          (QualityFailures \cup PreparationErrors \cup TechnicalErrors) = {}
    /\ Verdicts \cap Results = {}

ASSUME RuntimeAssumption ==
    /\ NoRuntime \notin Runtimes
    /\ \A r \in Runtimes : DOMAIN r = {"artifact", "container", "workspace"}

ASSUME RequestAssumption == NoId \notin RequestIds

ASSUME ClaimAssumption == ClaimSizes \subseteq Nat \ {0}

VARIABLES
    tasks,     \* table tasks: verdict state, counters, reason
    trials,    \* table trials: state and recorded result
    attempts,  \* table attempts: two possible rows per trial
    requests,  \* table provider_requests
    linked     \* table continuation_runs is not empty

vars == <<tasks, trials, attempts, requests, linked>>

\* Definitions named ...Slip are not part of the model.  Each is the next
\* definition with a mistake, used to see that a property would notice it.

TaskOf(tr) == tr[1]
TrialsOf(t) == {tr \in Trials : TaskOf(tr) = t}

Absent == [state |-> "absent", dispatched |-> FALSE, runtime |-> NoRuntime, error |-> NoError]
Fresh == [Absent EXCEPT !.state = "running"]

Init ==
    /\ tasks = [t \in Tasks |-> [state |-> "eligible_for_screening", valid |-> 0,
                                 passes |-> 0, failures |-> 0, reason |-> NoReason]]
    /\ trials = [tr \in Trials |-> [state |-> "planned", result |-> NoResult]]
    /\ attempts = [tr \in Trials |-> [n \in Numbers |-> Absent]]
    /\ requests = {}
    /\ linked = FALSE

-----------------------------------------------------------------------------
(* claim: the next trials to run                                           *)

ActiveStates == {"running", "paused", "retry_pending"}

ClaimableSlipNoExclusion(tr) ==
    /\ trials[tr].state \in {"retry_pending", "planned"}
    /\ tasks[TaskOf(tr)].state = "eligible_for_screening"

ClaimableSlipNoRetry(tr) ==
    /\ trials[tr].state = "planned"
    /\ tasks[TaskOf(tr)].state = "eligible_for_screening"
    /\ \A other \in TrialsOf(TaskOf(tr)) \ {tr} : trials[other].state \notin ActiveStates

\* The row filter of the SELECT: another active trial of the task excludes it.
Claimable(tr) ==
    /\ trials[tr].state \in {"retry_pending", "planned"}
    /\ tasks[TaskOf(tr)].state = "eligible_for_screening"
    /\ \A other \in TrialsOf(TaskOf(tr)) \ {tr} : trials[other].state \notin ActiveStates

\* Pending retries come before planned trials, and then plan order decides.
Precedes(c, d) ==
    \/ trials[c].state = "retry_pending" /\ trials[d].state = "planned"
    \/ trials[c].state = trials[d].state /\ PlanIndex[c] < PlanIndex[d]

\* One candidate per task: the first in claim order.
FirstOfTask(candidates) ==
    {c \in candidates : \A d \in candidates : TaskOf(d) = TaskOf(c) => ~Precedes(d, c)}

Claimed(maximum, scope) ==
    LET first == FirstOfTask({tr \in Trials : TaskOf(tr) \in scope /\ Claimable(tr)})
    IN  {c \in first : Cardinality({d \in first : Precedes(d, c)}) < maximum}

NextNumber(tr) == IF trials[tr].state = "retry_pending" THEN 2 ELSE 1

\* scope is every task, or the one task of a diagnostic run.  An attempt row
\* that exists already fails the UNIQUE constraint and rolls the claim back.
Claim(maximum, scope) ==
    LET claimed == Claimed(maximum, scope) IN
    /\ claimed # {}
    /\ \A tr \in claimed : attempts[tr][NextNumber(tr)].state = "absent"
    /\ trials' = [tr \in Trials |->
                    IF tr \in claimed THEN [trials[tr] EXCEPT !.state = "running"] ELSE trials[tr]]
    /\ attempts' = [tr \in Trials |->
                      IF tr \in claimed THEN [attempts[tr] EXCEPT ![NextNumber(tr)] = Fresh]
                                        ELSE attempts[tr]]
    /\ UNCHANGED <<tasks, requests, linked>>

-----------------------------------------------------------------------------
(* What is recorded about a running attempt                                *)

MarkProviderDispatch(tr, n, position, id) ==
    /\ attempts[tr][n].state = "running"
    /\ \A row \in requests : <<row.trial, row.number, row.position>> # <<tr, n, position>>
    /\ id # NoId => \A row \in requests : row.id # id
    /\ attempts' = [attempts EXCEPT ![tr][n].dispatched = TRUE]
    /\ requests' = requests \cup {[trial |-> tr, number |-> n, position |-> position, id |-> id]}
    /\ UNCHANGED <<tasks, trials, linked>>

\* The second attempt repeats the artifact in a new container and workspace.
FreshRetryRuntime(tr, runtime) ==
    LET first == attempts[tr][1].runtime IN
    /\ first # NoRuntime
    /\ first.artifact = runtime.artifact
    /\ first.container # runtime.container
    /\ first.workspace # runtime.workspace

\* Called when the attempt is claimed.  The second call, when its process has
\* started, repeats the identity and adds a process number that nothing reads.
MarkAttemptRuntime(tr, n, runtime) ==
    LET attempt == attempts[tr][n] IN
    /\ attempt.state = "running"
    /\ attempt.runtime # NoRuntime => attempt.runtime = runtime
    /\ attempt.runtime = NoRuntime /\ n = 2 => FreshRetryRuntime(tr, runtime)
    /\ attempts' = [attempts EXCEPT ![tr][n].runtime = runtime]
    /\ UNCHANGED <<tasks, trials, requests, linked>>

-----------------------------------------------------------------------------
(* The result of an attempt, and the verdict of its task                   *)

VerdictSlipStrict(valid, passes, failures) ==
    IF failures >= FailureStop THEN "third_quality_failure"
    ELSE IF valid # Repetitions THEN NoReason
    ELSE IF passes > PassesRequired THEN "valid_results_18_of_20"
    ELSE "fewer_than_18_passes"

\* The stop rules, in the order they are tried after a quality result.
Verdict(valid, passes, failures) ==
    IF failures >= FailureStop THEN "third_quality_failure"
    ELSE IF valid # Repetitions THEN NoReason
    ELSE IF passes >= PassesRequired THEN "valid_results_18_of_20"
    ELSE "fewer_than_18_passes"

VerdictState(verdict) ==
    CASE verdict = NoReason -> "eligible_for_screening"
      [] verdict = "valid_results_18_of_20" -> "eligible"
      [] OTHER -> "ineligible"

\* A task's row after one more quality result.
AfterQuality(task, result) ==
    LET valid == task.valid + 1
        passes == task.passes + (IF result = "pass" THEN 1 ELSE 0)
        failures == task.failures + (IF result = "pass" THEN 0 ELSE 1)
        verdict == Verdict(valid, passes, failures)
    IN  [state |-> IF verdict = NoReason THEN task.state ELSE VerdictState(verdict),
         reason |-> IF verdict = NoReason THEN task.reason ELSE verdict,
         valid |-> valid, passes |-> passes, failures |-> failures]

\* The trials of a task that are still in one of the given states.
Cancel(t, states, cancelled, table) ==
    [tr \in Trials |-> IF TaskOf(tr) = t /\ table[tr].state \in states
                       THEN [table[tr] EXCEPT !.state = cancelled] ELSE table[tr]]

SettleQuality(tr, result) ==
    LET t == TaskOf(tr)
        task == AfterQuality(tasks[t], result)
        recorded == [trials EXCEPT ![tr] = [state |-> "completed", result |-> result]]
    IN  /\ tasks' = [tasks EXCEPT ![t] = task]
        /\ trials' = IF task.failures >= FailureStop
                     THEN Cancel(t, {"planned"}, "cancelled_by_futility", recorded)
                     ELSE recorded

SettleTechnicalSlipKeepsPlan(tr, result) ==
    /\ tasks' = [tasks EXCEPT ![TaskOf(tr)].state = "ineligible", ![TaskOf(tr)].reason = result]
    /\ trials' = [trials EXCEPT ![tr] = [state |-> "invalid", result |-> result]]

SettleTechnicalSlipStaysOpen(tr, result) ==
    LET recorded == [trials EXCEPT ![tr] = [state |-> "invalid", result |-> result]]
    IN  /\ UNCHANGED tasks
        /\ trials' = Cancel(TaskOf(tr), {"planned", "retry_pending"},
                            "cancelled_after_technical_error", recorded)

\* An error, or a preparation error of the second attempt, excludes the task.
SettleTechnical(tr, result) ==
    LET t == TaskOf(tr)
        recorded == [trials EXCEPT ![tr] = [state |-> "invalid", result |-> result]]
    IN  /\ tasks' = [tasks EXCEPT ![t].state = "ineligible", ![t].reason = result]
        /\ trials' = Cancel(t, {"planned", "retry_pending"},
                            "cancelled_after_technical_error", recorded)

MayFinishSlipFinishedRow(tr, n, result, dispatched, from) ==
    /\ attempts[tr][n].state # "absent"
    /\ attempts[tr][n].dispatched => dispatched
    /\ result \in PreparationErrors => ~dispatched
    /\ attempts[tr][n].runtime # NoRuntime

MayFinishSlipErasesDispatch(tr, n, result, dispatched, from) ==
    /\ attempts[tr][n].state = from
    /\ result \in PreparationErrors => ~dispatched
    /\ attempts[tr][n].runtime # NoRuntime

\* Callers leave the identity arguments of complete_attempt at None, so the
\* recorded identity is the one that must be complete.
MayFinish(tr, n, result, dispatched, from) ==
    /\ attempts[tr][n].state = from
    /\ attempts[tr][n].dispatched => dispatched
    /\ result \in PreparationErrors => ~dispatched
    /\ attempts[tr][n].runtime # NoRuntime

Finished(tr, n, dispatched, error) ==
    [attempts EXCEPT ![tr][n].state = "completed",
                     ![tr][n].dispatched = dispatched, ![tr][n].error = error]

\* _complete_attempt: a preparation error of a first attempt is retried.
FinishAttempt(tr, n, result, dispatched, from) ==
    /\ MayFinish(tr, n, result, dispatched, from)
    /\ attempts' = Finished(tr, n, dispatched, IF result \in Quality THEN NoError ELSE result)
    /\ \/ /\ result \in PreparationErrors /\ n = 1
          /\ trials' = [trials EXCEPT ![tr].state = "retry_pending"]
          /\ UNCHANGED tasks
       \/ result \in Quality /\ SettleQuality(tr, result)
       \/ result \notin Quality /\ ~(result \in PreparationErrors /\ n = 1)
            /\ SettleTechnical(tr, result)
    /\ UNCHANGED <<requests, linked>>

CompleteAttempt(tr, n, result, dispatched) ==
    FinishAttempt(tr, n, result, dispatched, "running")

\* An operator settles a paused attempt from its own evidence.
ResolvePausedAttempt(tr, n, result, dispatched) ==
    FinishAttempt(tr, n, result, dispatched, "paused")

\* The one retry allowed after a paid request: the host was deallocated.
RetryPausedAfterInfrastructureInterruption(tr, dispatched) ==
    /\ attempts[tr][1].state = "paused"
    /\ trials[tr].state = "paused"
    /\ attempts[tr][2].state = "absent"
    /\ attempts[tr][1].runtime # NoRuntime
    /\ attempts' = Finished(tr, 1, dispatched, Interruption)
    /\ trials' = [trials EXCEPT ![tr].state = "retry_pending"]
    /\ UNCHANGED <<tasks, requests, linked>>

PauseInterruptedSlipAttemptsOnly ==
    /\ attempts' = [tr \in Trials |-> [n \in Numbers |->
                      IF attempts[tr][n].state = "running"
                      THEN [attempts[tr][n] EXCEPT !.state = "paused"] ELSE attempts[tr][n]]]
    /\ UNCHANGED <<tasks, trials, requests, linked>>

\* A stopped or resumed run: every running attempt waits for a decision.
PauseInterrupted ==
    LET interrupted == {tr \in Trials : \E n \in Numbers : attempts[tr][n].state = "running"} IN
    /\ interrupted # {}
    /\ attempts' = [tr \in Trials |-> [n \in Numbers |->
                      IF attempts[tr][n].state = "running"
                      THEN [attempts[tr][n] EXCEPT !.state = "paused"] ELSE attempts[tr][n]]]
    /\ trials' = [tr \in Trials |-> IF tr \in interrupted
                                    THEN [trials[tr] EXCEPT !.state = "paused"] ELSE trials[tr]]
    /\ UNCHANGED <<tasks, requests, linked>>

-----------------------------------------------------------------------------
(* link_continuation: results of an earlier run enter a fresh database.    *)
(* records is a function from the linked trials to their results.  The     *)
(* code walks the records in plan order in one transaction and any refused *)
(* record rolls all of them back, so the action states the guard of every  *)
(* record and the sum of their effects.                                    *)

LinkedOf(records, t) == {tr \in DOMAIN records : TaskOf(tr) = t}
LinkedBefore(records, tr) ==
    {c \in LinkedOf(records, TaskOf(tr)) : PlanIndex[c] < PlanIndex[tr]}

AfterLinksSlipNoCounters(records, t, done) ==
    LET errors == {c \in done : records[c] \notin Quality} IN
    IF errors = {} THEN tasks[t]
    ELSE [tasks[t] EXCEPT !.state = "ineligible", !.reason = records[CHOOSE c \in errors : TRUE]]

\* A task's row after the records in done have been counted.
AfterLinks(records, t, done) ==
    LET valid == {c \in done : records[c] \in Quality}
        passes == {c \in done : records[c] = "pass"}
        errors == done \ valid
        counted == [tasks[t] EXCEPT !.valid = @ + Cardinality(valid),
                                    !.passes = @ + Cardinality(passes),
                                    !.failures = @ + Cardinality(valid \ passes)]
        verdict == Verdict(counted.valid, counted.passes, counted.failures)
    IN  IF errors # {}
        THEN [counted EXCEPT !.state = "ineligible",
                             !.reason = records[CHOOSE c \in errors : TRUE]]
        ELSE IF verdict # NoReason
        THEN [counted EXCEPT !.state = VerdictState(verdict), !.reason = verdict]
        ELSE counted

\* A trial's row: linked, or cancelled with the rest of its decided task.
AfterLinkTrial(records, tr) ==
    LET done == LinkedOf(records, TaskOf(tr))
        errors == {c \in done : records[c] \notin Quality}
    IN  IF tr \in done
        THEN [state |-> IF records[tr] \in Quality THEN "linked_quality_result"
                                                   ELSE "linked_technical_exclusion",
              result |-> records[tr]]
        ELSE IF errors # {} /\ trials[tr].state \in {"planned", "retry_pending"}
        THEN [trials[tr] EXCEPT !.state = "cancelled_after_technical_error"]
        ELSE IF /\ errors = {} /\ done # {} /\ trials[tr].state = "planned"
                /\ AfterLinks(records, TaskOf(tr), done).failures >= FailureStop
        THEN [trials[tr] EXCEPT !.state = "cancelled_by_futility"]
        ELSE trials[tr]

\* The caller links right after initialize, before anything is claimed.
LinkContinuation(records) ==
    /\ \A tr \in Trials : attempts[tr][1].state = "absent"
    /\ ~linked
    /\ \A tr \in DOMAIN records :
          /\ trials[tr].state = "planned"
          /\ AfterLinks(records, TaskOf(tr), LinkedBefore(records, tr)).state
                = "eligible_for_screening"
    /\ tasks' = [t \in Tasks |-> IF LinkedOf(records, t) = {} THEN tasks[t]
                                 ELSE AfterLinks(records, t, LinkedOf(records, t))]
    /\ trials' = [tr \in Trials |-> AfterLinkTrial(records, tr)]
    /\ linked' = TRUE
    /\ UNCHANGED <<attempts, requests>>

Continuations == UNION {[linkedTrials -> Results] : linkedTrials \in SUBSET Trials \ {{}}}

-----------------------------------------------------------------------------
ClaimNext == \E maximum \in ClaimSizes : \E scope \in {Tasks} \cup {{t} : t \in Tasks} :
                Claim(maximum, scope)
RecordDispatch == \E tr \in Trials, n \in Numbers, position \in Positions,
                     id \in RequestIds \cup {NoId} : MarkProviderDispatch(tr, n, position, id)
BindRuntime(tr, n) == \E runtime \in Runtimes : MarkAttemptRuntime(tr, n, runtime)
Complete(tr, n) == \E result \in Results, dispatched \in BOOLEAN :
                      CompleteAttempt(tr, n, result, dispatched)
Resolve(tr, n) == \E result \in Results, dispatched \in BOOLEAN :
                     ResolvePausedAttempt(tr, n, result, dispatched)

Next ==
    \/ ClaimNext
    \/ RecordDispatch
    \/ \E tr \in Trials, n \in Numbers : BindRuntime(tr, n)
    \/ \E tr \in Trials, n \in Numbers : Complete(tr, n)
    \/ \E tr \in Trials, n \in Numbers : Resolve(tr, n)
    \/ \E tr \in Trials, dispatched \in BOOLEAN :
          RetryPausedAfterInfrastructureInterruption(tr, dispatched)
    \/ PauseInterrupted
    \/ \E records \in Continuations : LinkContinuation(records)

Spec == Init /\ [][Next]_vars

\* The run loop claims while a slot is free, binds what it claims, and every
\* attempt ends within its time limit.  A run with a paused attempt ends and is
\* not resumed, and nothing obliges an operator to resolve that attempt.
Fairness ==
    /\ WF_vars((\A tr \in Trials : trials[tr].state # "paused") /\ ClaimNext)
    /\ \A tr \in Trials, n \in Numbers :
          WF_vars(BindRuntime(tr, n)) /\ WF_vars(Complete(tr, n))

FairSpec == Spec /\ Fairness

-----------------------------------------------------------------------------
(* Properties                                                              *)

CountedStates == {"completed", "linked_quality_result"}
ExcludedStates == {"invalid", "linked_technical_exclusion"}
CancelledStates == {"cancelled_by_futility", "cancelled_after_technical_error"}
TrialStates == {"planned"} \cup ActiveStates \cup CountedStates
                  \cup ExcludedStates \cup CancelledStates

TaskRows == [state : {"eligible_for_screening", "eligible", "ineligible"},
             valid : 0 .. Repetitions, passes : 0 .. Repetitions,
             failures : 0 .. Repetitions,
             reason : {NoReason} \cup Verdicts \cup PreparationErrors \cup TechnicalErrors]
AttemptRows == [state : {"absent", "running", "paused", "completed"},
                dispatched : BOOLEAN, runtime : Runtimes \cup {NoRuntime},
                error : {NoError, Interruption} \cup PreparationErrors \cup TechnicalErrors]

\* Every table holds rows of its schema, with the counters inside the plan.
TypeOK ==
    /\ tasks \in [Tasks -> TaskRows]
    /\ trials \in [Trials -> [state : TrialStates, result : Results \cup {NoResult}]]
    /\ attempts \in [Trials -> [Numbers -> AttemptRows]]
    /\ requests \subseteq [trial : Trials, number : Numbers, position : Positions,
                           id : RequestIds \cup {NoId}]
    /\ linked \in BOOLEAN

\* A task is worked on one trial at a time: two claims, or a claim and a
\* pending retry, never have two trials of one task open together, so the
\* stop rules always see the previous result.
OneOpenTrialPerTask ==
    \A t \in Tasks : \A c, d \in TrialsOf(t) :
        trials[c].state \in ActiveStates /\ trials[d].state \in ActiveStates => c = d

\* The state of an attempt row.
Row(tr, n) == attempts[tr][n].state
\* The trial table and the attempt table agree on what is running, paused or
\* waiting for its retry, whatever the order of claims, pauses and decisions.
TablesAgree ==
    \A tr \in Trials :
        /\ trials[tr].state \in {"running", "paused"} =>
              \/ Row(tr, 1) = trials[tr].state /\ Row(tr, 2) = "absent"
              \/ Row(tr, 1) = "completed" /\ Row(tr, 2) = trials[tr].state
        /\ trials[tr].state = "retry_pending" =>
              Row(tr, 1) = "completed" /\ Row(tr, 2) = "absent"
        /\ trials[tr].state \in {"completed", "invalid"} =>
              Row(tr, 1) = "completed" /\ Row(tr, 2) \in {"absent", "completed"}
        /\ trials[tr].state \notin ActiveStates \cup {"completed", "invalid"} =>
              Row(tr, 1) = "absent" /\ Row(tr, 2) = "absent"

CountedSet(table, t, results) ==
    {tr \in TrialsOf(t) : table[tr].state \in CountedStates /\ table[tr].result \in results}
Counted(t, results) == Cardinality(CountedSet(trials, t, results))
\* Every counter of a task equals the number of its trials with such a
\* result, linked results included: nothing is counted twice or lost.
CountersMatchTrials ==
    \A t \in Tasks :
        /\ tasks[t].valid = Counted(t, Quality)
        /\ tasks[t].passes = Counted(t, {"pass"})
        /\ tasks[t].failures = Counted(t, QualityFailures)

Excluded(t) == \E tr \in TrialsOf(t) : trials[tr].state \in ExcludedStates

\* A task's verdict is the one its results justify: eligible after a full set
\* with enough passes, ineligible after the last allowed failure, too few
\* passes or an excluded trial, and undecided otherwise.
VerdictJustified ==
    \A t \in Tasks :
        /\ tasks[t].state = "eligible" =>
              /\ tasks[t].valid = Repetitions /\ tasks[t].passes >= PassesRequired
              /\ tasks[t].failures < FailureStop /\ ~Excluded(t)
        /\ tasks[t].state = "ineligible" =>
              \/ Excluded(t)
              \/ tasks[t].failures >= FailureStop
              \/ tasks[t].valid = Repetitions /\ tasks[t].passes < PassesRequired
        /\ tasks[t].state = "eligible_for_screening" =>
              /\ tasks[t].valid < Repetitions /\ tasks[t].failures < FailureStop
              /\ ~Excluded(t)

\* A decided task leaves nothing open or planned behind: no trial is stranded
\* in a state that no claim will ever pick up again.
NothingStranded ==
    \A t \in Tasks : tasks[t].state # "eligible_for_screening" =>
        \A tr \in TrialsOf(t) : trials[tr].state \notin ActiveStates \cup {"planned"}

\* A second attempt never follows a paid first one, unless a host was
\* deallocated under it; and it runs the same artifact in a container and a
\* workspace that the first attempt never touched.
PaidWorkNotRepeated ==
    \A tr \in Trials : Row(tr, 2) # "absent" \/ trials[tr].state = "retry_pending" =>
        \/ attempts[tr][1].error = Interruption
        \/ /\ attempts[tr][1].error \in PreparationErrors
           /\ ~attempts[tr][1].dispatched
           /\ \A row \in requests : row.trial = tr => row.number = 2

FirstUntouched ==
    \A tr \in Trials : attempts[tr][2].runtime # NoRuntime =>
        LET first == attempts[tr][1].runtime
            second == attempts[tr][2].runtime
        IN  /\ first.artifact = second.artifact
            /\ first.container # second.container
            /\ first.workspace # second.workspace

\* Both: what a retry repeats was never paid for, and where it runs is fresh.
RetriesAreSafe == PaidWorkNotRepeated /\ FirstUntouched

\* A step never revises history: a verdict, a settled trial, a completed
\* attempt, a bound runtime and a recorded dispatch all stay as they are.
HistoryKept ==
    /\ \A t \in Tasks : tasks[t].state # "eligible_for_screening" => tasks'[t] = tasks[t]
    /\ \A tr \in Trials : trials[tr].state \notin ActiveStates \cup {"planned"}
                            => trials'[tr] = trials[tr]
    /\ \A tr \in Trials, n \in Numbers :
          /\ Row(tr, n) = "completed" => attempts'[tr][n] = attempts[tr][n]
          /\ attempts[tr][n].runtime # NoRuntime
                => attempts'[tr][n].runtime = attempts[tr][n].runtime
    /\ requests \subseteq requests'
HistoryIsKept == [][HistoryKept]_vars

\* The database implements the eligibility gate: whatever the interleaving of
\* claims, retries, pauses and decisions, verdicts are the pure function of
\* the recorded results, and no result is taken after the verdict.
Gate == INSTANCE EligibilityGate WITH
    Errors <- PreparationErrors \cup TechnicalErrors,
    results <- [t \in Tasks |-> [r \in 1 .. Repetitions |->
                  IF trials[<<t, r>>].state \in CountedStates \cup ExcludedStates
                  THEN trials[<<t, r>>].result ELSE NoResult]],
    verdict <- [t \in Tasks |-> IF tasks[t].state = "eligible_for_screening"
                                THEN "open" ELSE tasks[t].state]
ImplementsGate == Gate!GateSpec

\* Screening ends: in the end every task keeps a verdict, or an attempt waits
\* for an operator who never comes.  No task is starved by the claim order or
\* left with a retry that nothing claims.
EventuallyDecided ==
    \/ <>[](\A t \in Tasks : tasks[t].state # "eligible_for_screening")
    \/ <>[](\E tr \in Trials : trials[tr].state = "paused")
=============================================================================

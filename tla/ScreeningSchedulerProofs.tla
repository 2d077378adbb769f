---------------------- MODULE ScreeningSchedulerProofs ----------------------
(***************************************************************************)
(* Theorems about ScreeningScheduler, for every set of tasks, number of    *)
(* repetitions and thresholds.                                             *)
(*                                                                         *)
(* The invariant IInv is inductive only as a whole.  The counters stay in  *)
(* range because they count trials; a verdict leaves nothing behind        *)
(* because at most one trial of a task is open, and the one being finished *)
(* is that trial, which the two tables agree on.  On top of it, RInv says  *)
(* what a retry may rely on, and ResultsFit what the gate sees of a trial. *)
(***************************************************************************)
EXTENDS ScreeningScheduler, FiniteLemmas, TLAPS

IInv ==
    /\ TypeOK
    /\ OneOpenTrialPerTask
    /\ TablesAgree
    /\ CountersMatchTrials
    /\ VerdictJustified
    /\ NothingStranded

-----------------------------------------------------------------------------
(* Counting the trials of a task                                           *)

\* A task has exactly as many trials as the manifest has repetitions.
LEMMA TrialsOfCardinality ==
    ASSUME NEW t \in Tasks
    PROVE  IsFiniteSet(TrialsOf(t)) /\ Cardinality(TrialsOf(t)) = Repetitions
<1> DEFINE f == [r \in 1 .. Repetitions |-> <<t, r>>]
<1>1. IsFiniteSet(1 .. Repetitions) /\ Cardinality(1 .. Repetitions) = Repetitions
  BY FS_Interval, ThresholdAssumption
<1>2. TrialsOf(t) = {t} \X (1 .. Repetitions)
  BY DEF TrialsOf, Trials, TaskOf
<1>3. f \in Bijection(1 .. Repetitions, TrialsOf(t))
  BY <1>2 DEF Bijection, Injection, Surjection, IsInjective
<1>4. ExistsBijection(1 .. Repetitions, TrialsOf(t))
  BY <1>3 DEF ExistsBijection
<1> QED
  BY <1>1, <1>4, FS_Bijection

\* So a count never leaves the plan, and a full count has counted them all.
LEMMA CountBound ==
    ASSUME NEW t \in Tasks, NEW table, NEW results
    PROVE  /\ IsFiniteSet(CountedSet(table, t, results))
           /\ Cardinality(CountedSet(table, t, results)) \in 0 .. Repetitions
           /\ Cardinality(CountedSet(table, t, results)) = Repetitions
                 => CountedSet(table, t, results) = TrialsOf(t)
<1>1. CountedSet(table, t, results) \in SUBSET TrialsOf(t)
  BY DEF CountedSet
<1>2. IsFiniteSet(CountedSet(table, t, results))
  BY <1>1, TrialsOfCardinality, FS_Subset
<1>3. Cardinality(CountedSet(table, t, results)) \in Nat
  BY <1>2, FS_CardinalityType
<1>4. Cardinality(CountedSet(table, t, results)) <= Repetitions
  BY <1>1, TrialsOfCardinality, FS_Subset
<1>5. Cardinality(CountedSet(table, t, results)) = Repetitions
         => CountedSet(table, t, results) = TrialsOf(t)
  BY <1>1, TrialsOfCardinality, FS_Subset
<1> QED
  BY <1>2, <1>3, <1>4, <1>5, ThresholdAssumption

\* Recording a result for an uncounted trial adds it to the counts it is in.
LEMMA CountOneMore ==
    ASSUME NEW t \in Tasks, NEW old, NEW new, NEW results, NEW tr \in TrialsOf(t),
           old[tr].state \notin CountedStates,
           new[tr].state \in CountedStates,
           \A c \in TrialsOf(t) \ {tr} :
              /\ new[c].state \in CountedStates <=> old[c].state \in CountedStates
              /\ new[c].state \in CountedStates => new[c].result = old[c].result
    PROVE  Cardinality(CountedSet(new, t, results)) =
              Cardinality(CountedSet(old, t, results)) +
                 (IF new[tr].result \in results THEN 1 ELSE 0)
<1>1. IsFiniteSet(CountedSet(old, t, results)) /\ tr \notin CountedSet(old, t, results)
  BY CountBound DEF CountedSet
<1>2. CASE new[tr].result \in results
  <2>1. CountedSet(new, t, results) = CountedSet(old, t, results) \cup {tr}
    BY <1>2 DEF CountedSet
  <2> QED
    BY <1>1, <1>2, <2>1, FS_AddElement
<1>3. CASE new[tr].result \notin results
  <2>1. CountedSet(new, t, results) = CountedSet(old, t, results)
    BY <1>3 DEF CountedSet
  <2>2. Cardinality(CountedSet(old, t, results)) \in Nat
    BY <1>1, FS_CardinalityType
  <2> QED
    BY <1>3, <2>1, <2>2
<1> QED
  BY <1>2, <1>3

-----------------------------------------------------------------------------
(* The initial state                                                       *)

LEMMA InitInvariant == Init => IInv
<1> SUFFICES ASSUME Init PROVE IInv
  OBVIOUS
<1> USE DEF Init
<1>1. TypeOK
  <2>1. tasks \in [Tasks -> TaskRows]
    BY ThresholdAssumption DEF TaskRows
  <2>2. trials \in [Trials -> [state : TrialStates, result : Results \cup {NoResult}]]
    BY DEF TrialStates
  <2>3. attempts \in [Trials -> [Numbers -> AttemptRows]]
    BY DEF AttemptRows, Absent
  <2> QED
    BY <2>1, <2>2, <2>3 DEF TypeOK
<1>2. OneOpenTrialPerTask
  BY DEF OneOpenTrialPerTask, ActiveStates, TrialsOf
<1>3. TablesAgree
  BY DEF TablesAgree, Row, Absent, Numbers, ActiveStates
<1>4. CountersMatchTrials
  <2> SUFFICES ASSUME NEW t \in Tasks, NEW results
               PROVE  Counted(t, results) = 0
    BY DEF CountersMatchTrials
  <2>1. CountedSet(trials, t, results) = {}
    BY DEF CountedSet, CountedStates, TrialsOf
  <2> QED
    BY <2>1, FS_EmptySet DEF Counted
<1>5. VerdictJustified
  BY ThresholdAssumption DEF VerdictJustified, Excluded, ExcludedStates, TrialsOf
<1>6. NothingStranded
  BY DEF NothingStranded
<1> QED
  BY <1>1, <1>2, <1>3, <1>4, <1>5, <1>6 DEF IInv

-----------------------------------------------------------------------------
(* Steps that decide nothing                                               *)

\* A step that leaves the task table alone and moves trials only among the
\* planned and open states keeps the counters and the verdicts right.
Undecided(row) == row.state \in ActiveStates \cup {"planned"}

LEMMA UndecidedStep ==
    ASSUME CountersMatchTrials, VerdictJustified, UNCHANGED tasks,
           \A tr \in Trials : \/ trials'[tr] = trials[tr]
                              \/ Undecided(trials[tr]) /\ Undecided(trials'[tr])
    PROVE  CountersMatchTrials' /\ VerdictJustified'
<1>1. ASSUME NEW t \in Tasks, NEW results
      PROVE  CountedSet(trials', t, results) = CountedSet(trials, t, results)
  BY DEF CountedSet, Undecided, ActiveStates, CountedStates, TrialsOf
<1>2. CountersMatchTrials'
  BY <1>1 DEF CountersMatchTrials, Counted
<1>3. ASSUME NEW t \in Tasks
      PROVE  Excluded(t)' <=> Excluded(t)
  BY DEF Excluded, Undecided, ActiveStates, ExcludedStates, TrialsOf
<1>4. VerdictJustified'
  BY <1>3 DEF VerdictJustified
<1> QED
  BY <1>2, <1>4

\* What claim picks: at most one trial per task, of an open task with no
\* other open trial.
LEMMA ClaimedTrials ==
    ASSUME NEW maximum, NEW scope, NEW c \in Claimed(maximum, scope)
    PROVE  /\ c \in Trials /\ Claimable(c)
           /\ \A d \in Claimed(maximum, scope) : TaskOf(d) = TaskOf(c) => d = c
<1>1. c \in Trials /\ Claimable(c)
  BY DEF Claimed, FirstOfTask
<1>2. ASSUME NEW d \in Claimed(maximum, scope), TaskOf(d) = TaskOf(c)
      PROVE  d = c
  <2>1. d \in Trials /\ Claimable(d)
    BY DEF Claimed, FirstOfTask
  <2>2. ~Precedes(c, d) /\ ~Precedes(d, c)
    BY <1>2 DEF Claimed, FirstOfTask
  <2>3. trials[c].state = trials[d].state
    BY <1>1, <2>1, <2>2 DEF Precedes, Claimable
  <2>4. PlanIndex[c] \in Nat /\ PlanIndex[d] \in Nat
    BY <1>1, <2>1, PlanAssumption
  <2>5. PlanIndex[c] = PlanIndex[d]
    BY <2>2, <2>3, <2>4 DEF Precedes
  <2> QED
    BY <1>1, <2>1, <2>5, PlanAssumption
<1> QED
  BY <1>1, <1>2

LEMMA ClaimStep ==
    ASSUME IInv, NEW maximum, NEW scope, Claim(maximum, scope)
    PROVE  IInv'
<1> DEFINE claimed == Claimed(maximum, scope)
<1>1. ASSUME NEW tr \in claimed
      PROVE  /\ tr \in Trials /\ TaskOf(tr) \in Tasks
             /\ trials[tr].state \in {"retry_pending", "planned"}
             /\ tasks[TaskOf(tr)].state = "eligible_for_screening"
             /\ \A other \in Trials : TaskOf(other) = TaskOf(tr) /\ other # tr
                   => trials[other].state \notin ActiveStates
  BY ClaimedTrials DEF Claimable, TrialsOf, Trials, TaskOf
<1>2. ASSUME NEW tr \in Trials, tr \notin claimed
      PROVE  trials'[tr] = trials[tr] /\ attempts'[tr] = attempts[tr]
  BY <1>2 DEF Claim
<1>3. ASSUME NEW tr \in claimed
      PROVE  trials'[tr].state = "running"
  BY <1>1 DEF Claim, IInv, TypeOK
<1>4. ASSUME NEW tr \in claimed
      PROVE  /\ NextNumber(tr) = 1 => Row(tr, 1)' = "running" /\ Row(tr, 2)' = Row(tr, 2)
             /\ NextNumber(tr) = 2 => Row(tr, 2)' = "running" /\ Row(tr, 1)' = Row(tr, 1)
  <2>1. Fresh.state = "running"
    BY DEF Fresh, Absent
  <2>2. attempts'[tr] = [attempts[tr] EXCEPT ![NextNumber(tr)] = Fresh]
    BY <1>1 DEF Claim
  <2>3. attempts[tr] \in [Numbers -> AttemptRows]
    BY <1>1 DEF IInv, TypeOK
  <2>4. \A n \in Numbers : attempts'[tr][n] = IF n = NextNumber(tr) THEN Fresh
                                              ELSE attempts[tr][n]
    BY <2>2, <2>3
  <2> QED
    BY <2>1, <2>4 DEF Row, Numbers
<1>5. TypeOK'
  <2>1. Fresh \in AttemptRows
    BY DEF Fresh, Absent, AttemptRows
  <2>2. attempts' \in [Trials -> [Numbers -> AttemptRows]]
    BY <2>1 DEF Claim, IInv, TypeOK
  <2>3. trials' \in [Trials -> [state : TrialStates, result : Results \cup {NoResult}]]
    BY DEF Claim, IInv, TypeOK, TrialStates, ActiveStates
  <2> QED
    BY <2>2, <2>3 DEF Claim, IInv, TypeOK
<1>6. OneOpenTrialPerTask'
  <2> SUFFICES ASSUME NEW t \in Tasks, NEW c \in TrialsOf(t), NEW d \in TrialsOf(t),
                      trials'[c].state \in ActiveStates, trials'[d].state \in ActiveStates
               PROVE  c = d
    BY DEF OneOpenTrialPerTask
  <2>1. c \in Trials /\ d \in Trials /\ TaskOf(c) = TaskOf(d)
    BY DEF TrialsOf
  <2>2. CASE c \in claimed \/ d \in claimed
    BY <1>1, <1>2, <2>1, <2>2, ClaimedTrials
  <2>3. CASE c \notin claimed /\ d \notin claimed
    BY <1>2, <2>1, <2>3 DEF IInv, OneOpenTrialPerTask
  <2> QED
    BY <2>2, <2>3
<1>7. TablesAgree'
  <2>1. ASSUME NEW tr \in claimed
        PROVE  \/ Row(tr, 1)' = "running" /\ Row(tr, 2)' = "absent"
               \/ Row(tr, 1)' = "completed" /\ Row(tr, 2)' = "running"
    <3>1. CASE trials[tr].state = "retry_pending"
      BY <1>1, <1>4, <3>1 DEF IInv, TablesAgree, NextNumber
    <3>2. CASE trials[tr].state = "planned"
      BY <1>1, <1>4, <3>2 DEF IInv, TablesAgree, NextNumber, ActiveStates
    <3> QED
      BY <1>1, <3>1, <3>2
  <2> QED
    BY <1>2, <1>3, <2>1 DEF IInv, TablesAgree, Row, ActiveStates
<1>8. CountersMatchTrials' /\ VerdictJustified'
  <2>1. UNCHANGED tasks
    BY DEF Claim
  <2>2. \A tr \in Trials : \/ trials'[tr] = trials[tr]
                           \/ Undecided(trials[tr]) /\ Undecided(trials'[tr])
    BY <1>1, <1>2, <1>3 DEF Undecided, ActiveStates
  <2> QED
    BY <2>1, <2>2, UndecidedStep DEF IInv
<1>9. NothingStranded'
  <2> SUFFICES ASSUME NEW t \in Tasks, tasks[t].state # "eligible_for_screening",
                      NEW tr \in TrialsOf(t)
               PROVE  trials'[tr] = trials[tr]
    BY DEF NothingStranded, Claim, IInv
  <2>1. tr \in Trials /\ TaskOf(tr) = t
    BY DEF TrialsOf
  <2>2. tr \notin claimed
    BY <1>1, <2>1
  <2> QED
    BY <1>2, <2>1, <2>2
<1> QED
  BY <1>5, <1>6, <1>7, <1>8, <1>9 DEF IInv

\* Recording a request or a runtime changes no state of any row.
LEMMA SameStates ==
    ASSUME IInv, TypeOK', UNCHANGED <<tasks, trials>>,
           \A tr \in Trials, n \in Numbers : Row(tr, n)' = Row(tr, n)
    PROVE  IInv'
<1>1. OneOpenTrialPerTask' /\ NothingStranded'
  BY DEF IInv, OneOpenTrialPerTask, NothingStranded
<1>2. TablesAgree'
  BY DEF IInv, TablesAgree, Numbers
<1>3. CountersMatchTrials' /\ VerdictJustified'
  BY UndecidedStep DEF IInv
<1> QED
  BY <1>1, <1>2, <1>3 DEF IInv

LEMMA DispatchStep ==
    ASSUME IInv, NEW tr \in Trials, NEW n \in Numbers, NEW position \in Positions,
           NEW id \in RequestIds \cup {NoId}, MarkProviderDispatch(tr, n, position, id)
    PROVE  IInv'
<1>1. attempts[tr] \in [Numbers -> AttemptRows] /\ attempts[tr][n] \in AttemptRows
  BY DEF IInv, TypeOK
<1>2. [attempts[tr][n] EXCEPT !.dispatched = TRUE] \in AttemptRows
  BY <1>1 DEF AttemptRows
<1>3. attempts' = [attempts EXCEPT ![tr] =
                     [@ EXCEPT ![n] = [attempts[tr][n] EXCEPT !.dispatched = TRUE]]]
  BY DEF MarkProviderDispatch
<1>4. attempts' \in [Trials -> [Numbers -> AttemptRows]]
  BY <1>2, <1>3 DEF IInv, TypeOK
<1>5. TypeOK'
  BY <1>4 DEF MarkProviderDispatch, IInv, TypeOK
<1>6. \A c \in Trials, k \in Numbers : Row(c, k)' = Row(c, k)
  BY <1>1, <1>3 DEF IInv, TypeOK, Row, AttemptRows
<1> QED
  BY <1>5, <1>6, SameStates DEF MarkProviderDispatch

LEMMA BindStep ==
    ASSUME IInv, NEW tr \in Trials, NEW n \in Numbers, NEW runtime \in Runtimes,
           MarkAttemptRuntime(tr, n, runtime)
    PROVE  IInv'
<1>1. attempts[tr] \in [Numbers -> AttemptRows] /\ attempts[tr][n] \in AttemptRows
  BY DEF IInv, TypeOK
<1>2. [attempts[tr][n] EXCEPT !.runtime = runtime] \in AttemptRows
  BY <1>1 DEF AttemptRows
<1>3. attempts' = [attempts EXCEPT ![tr] =
                     [@ EXCEPT ![n] = [attempts[tr][n] EXCEPT !.runtime = runtime]]]
  BY DEF MarkAttemptRuntime
<1>4. attempts' \in [Trials -> [Numbers -> AttemptRows]]
  BY <1>2, <1>3 DEF IInv, TypeOK
<1>5. TypeOK'
  BY <1>4 DEF MarkAttemptRuntime, IInv, TypeOK
<1>6. \A c \in Trials, k \in Numbers : Row(c, k)' = Row(c, k)
  BY <1>1, <1>3 DEF IInv, TypeOK, Row, AttemptRows
<1> QED
  BY <1>5, <1>6, SameStates DEF MarkAttemptRuntime

\* An attempt row that runs or waits is the open row of an open trial.
LEMMA OpenRow ==
    ASSUME IInv, NEW tr \in Trials, NEW n \in Numbers, Row(tr, n) \in {"running", "paused"}
    PROVE  /\ trials[tr].state = Row(tr, n)
           /\ n = 1 => Row(tr, 2) = "absent"
           /\ n = 2 => Row(tr, 1) = "completed"
           /\ TaskOf(tr) \in Tasks /\ tr \in TrialsOf(TaskOf(tr))
           /\ tasks[TaskOf(tr)].state = "eligible_for_screening"
           /\ \A c \in TrialsOf(TaskOf(tr)) \ {tr} : trials[c].state \notin ActiveStates
<1>1. n = 1 \/ n = 2
  BY DEF Numbers
<1>2. /\ trials[tr].state = Row(tr, n)
      /\ n = 1 => Row(tr, 2) = "absent"
      /\ n = 2 => Row(tr, 1) = "completed"
  BY <1>1 DEF IInv, TablesAgree, ActiveStates
<1>3. TaskOf(tr) \in Tasks /\ tr \in TrialsOf(TaskOf(tr))
  BY DEF Trials, TrialsOf, TaskOf
<1>4. trials[tr].state \in ActiveStates
  BY <1>2 DEF ActiveStates
<1>5. tasks[TaskOf(tr)].state = "eligible_for_screening"
  BY <1>3, <1>4 DEF IInv, NothingStranded
<1>6. \A c \in TrialsOf(TaskOf(tr)) \ {tr} : trials[c].state \notin ActiveStates
  BY <1>3, <1>4 DEF IInv, OneOpenTrialPerTask
<1> QED
  BY <1>2, <1>3, <1>5, <1>6

LEMMA PauseStep ==
    ASSUME IInv, PauseInterrupted
    PROVE  IInv'
<1> DEFINE interrupted == {tr \in Trials : \E n \in Numbers : Row(tr, n) = "running"}
<1>1. ASSUME NEW tr \in interrupted
      PROVE  trials[tr].state = "running"
  BY OpenRow
<1>2. ASSUME NEW tr \in Trials
      PROVE  trials'[tr] = IF tr \in interrupted THEN [trials[tr] EXCEPT !.state = "paused"]
                                                 ELSE trials[tr]
  BY DEF PauseInterrupted, Row
<1>3. ASSUME NEW tr \in interrupted
      PROVE  trials'[tr].state = "paused"
  BY <1>2 DEF IInv, TypeOK
<1>4. ASSUME NEW tr \in Trials, NEW n \in Numbers
      PROVE  Row(tr, n)' = IF Row(tr, n) = "running" THEN "paused" ELSE Row(tr, n)
  <2>1. attempts[tr][n] \in AttemptRows
    BY DEF IInv, TypeOK
  <2>2. attempts'[tr][n] = IF Row(tr, n) = "running"
                           THEN [attempts[tr][n] EXCEPT !.state = "paused"]
                           ELSE attempts[tr][n]
    BY DEF PauseInterrupted, Row
  <2> QED
    BY <2>1, <2>2 DEF Row, AttemptRows
<1>5. TypeOK'
  <2>1. attempts' \in [Trials -> [Numbers -> AttemptRows]]
    <3>1. \A row \in AttemptRows : [row EXCEPT !.state = "paused"] \in AttemptRows
      BY DEF AttemptRows
    <3> QED
      BY <3>1 DEF PauseInterrupted, IInv, TypeOK
  <2>2. trials' \in [Trials -> [state : TrialStates, result : Results \cup {NoResult}]]
    BY DEF PauseInterrupted, IInv, TypeOK, TrialStates, ActiveStates
  <2> QED
    BY <2>1, <2>2 DEF PauseInterrupted, IInv, TypeOK
<1>6. ASSUME NEW tr \in Trials
      PROVE  trials'[tr].state \in ActiveStates <=> trials[tr].state \in ActiveStates
  BY <1>1, <1>2, <1>3 DEF ActiveStates
<1>7. OneOpenTrialPerTask'
  BY <1>6 DEF IInv, OneOpenTrialPerTask, TrialsOf
<1>8. TablesAgree'
  <2> SUFFICES ASSUME NEW tr \in Trials
               PROVE  TablesAgree!(tr)'
    BY DEF TablesAgree
  <2>1. CASE tr \in interrupted
    <3>1. \/ Row(tr, 1) = "running" /\ Row(tr, 2) = "absent"
          \/ Row(tr, 1) = "completed" /\ Row(tr, 2) = "running"
      BY <1>1, <2>1 DEF IInv, TablesAgree
    <3> QED
      BY <1>3, <1>4, <2>1, <3>1 DEF Numbers, ActiveStates
  <2>2. CASE tr \notin interrupted
    <3>1. \A n \in Numbers : Row(tr, n)' = Row(tr, n)
      BY <1>4, <2>2
    <3>2. Row(tr, 1)' = Row(tr, 1) /\ Row(tr, 2)' = Row(tr, 2)
      BY <3>1 DEF Numbers
    <3> QED
      BY <1>2, <2>2, <3>2 DEF IInv, TablesAgree
  <2> QED
    BY <2>1, <2>2
<1>9. CountersMatchTrials' /\ VerdictJustified'
  <2>1. UNCHANGED tasks
    BY DEF PauseInterrupted
  <2>2. \A tr \in Trials : \/ trials'[tr] = trials[tr]
                           \/ Undecided(trials[tr]) /\ Undecided(trials'[tr])
    BY <1>1, <1>2, <1>3 DEF Undecided, ActiveStates
  <2> QED
    BY <2>1, <2>2, UndecidedStep DEF IInv
<1>10. NothingStranded'
  BY <1>2, <1>3, <1>6 DEF IInv, NothingStranded, PauseInterrupted, TrialsOf
<1> QED
  BY <1>5, <1>7, <1>8, <1>9, <1>10 DEF IInv

-----------------------------------------------------------------------------
(* Steps that finish an attempt                                            *)

AttemptErrors == {NoError, Interruption} \cup PreparationErrors \cup TechnicalErrors

\* Finishing an attempt completes its row and touches no other row.
LEMMA FinishedRow ==
    ASSUME IInv, NEW tr \in Trials, NEW n \in Numbers,
           NEW dispatched \in BOOLEAN, NEW error \in AttemptErrors,
           attempts' = Finished(tr, n, dispatched, error)
    PROVE  /\ attempts' \in [Trials -> [Numbers -> AttemptRows]]
           /\ Row(tr, n)' = "completed"
           /\ \A c \in Trials, k \in Numbers : <<c, k>> # <<tr, n>> => Row(c, k)' = Row(c, k)
<1> DEFINE done == [attempts[tr][n] EXCEPT !.state = "completed"]
           marked == [done EXCEPT !.dispatched = dispatched]
           row == [marked EXCEPT !.error = error]
<1>1. attempts \in [Trials -> [Numbers -> AttemptRows]]
  BY DEF IInv, TypeOK
<1>2. attempts[tr][n] \in AttemptRows
  BY <1>1
<1>3. done \in AttemptRows /\ done.state = "completed"
  BY <1>2 DEF AttemptRows
<1>4. marked \in AttemptRows /\ marked.state = "completed"
  <2> HIDE DEF done
  <2> QED
    BY <1>3 DEF AttemptRows
<1>5. row \in AttemptRows /\ row.state = "completed"
  <2> HIDE DEF marked
  <2> QED
    BY <1>4 DEF AttemptRows, AttemptErrors
<1>6. attempts' = [attempts EXCEPT ![tr] = [attempts[tr] EXCEPT ![n] = row]]
  BY <1>1 DEF Finished
<1> HIDE DEF row
<1>7. [attempts[tr] EXCEPT ![n] = row] \in [Numbers -> AttemptRows]
  BY <1>1, <1>5
<1>8. attempts' \in [Trials -> [Numbers -> AttemptRows]]
  BY <1>1, <1>6, <1>7
<1>9. attempts'[tr] = [attempts[tr] EXCEPT ![n] = row]
      /\ \A c \in Trials \ {tr} : attempts'[c] = attempts[c]
  BY <1>1, <1>6
<1>10. attempts'[tr][n] = row /\ \A k \in Numbers \ {n} : attempts'[tr][k] = attempts[tr][k]
  <2>1. attempts[tr] \in [Numbers -> AttemptRows]
    BY <1>1
  <2> QED
    BY <1>9, <2>1
<1> QED
  BY <1>5, <1>8, <1>9, <1>10 DEF Row

\* The two tables still agree when the trial of a finished attempt leaves its
\* open state and trials that were only planned are cancelled.
LEMMA FinishedTables ==
    ASSUME IInv, NEW tr \in Trials, NEW n \in Numbers,
           Row(tr, n) \in {"running", "paused"},
           Row(tr, n)' = "completed",
           \A c \in Trials, k \in Numbers : <<c, k>> # <<tr, n>> => Row(c, k)' = Row(c, k),
           \/ trials'[tr].state \in {"completed", "invalid"}
           \/ trials'[tr].state = "retry_pending" /\ n = 1,
           \A c \in Trials \ {tr} :
              \/ trials'[c] = trials[c]
              \/ trials[c].state = "planned" /\ trials'[c].state \in CancelledStates
    PROVE  TablesAgree'
<1> SUFFICES ASSUME NEW c \in Trials
             PROVE  TablesAgree!(c)'
  BY DEF TablesAgree
<1>1. CASE c = tr
  <2>1. /\ n = 1 => Row(tr, 1)' = "completed" /\ Row(tr, 2)' = "absent"
        /\ n = 2 => Row(tr, 1)' = "completed" /\ Row(tr, 2)' = "completed"
    BY OpenRow DEF Numbers
  <2>2. n = 1 \/ n = 2
    BY DEF Numbers
  <2> QED
    BY <1>1, <2>1, <2>2 DEF ActiveStates
<1>2. CASE c # tr
  <2>1. Row(c, 1)' = Row(c, 1) /\ Row(c, 2)' = Row(c, 2)
    BY <1>2 DEF Numbers
  <2>2. CASE trials'[c] = trials[c]
    BY <2>1, <2>2 DEF IInv, TablesAgree
  <2>3. CASE trials[c].state = "planned" /\ trials'[c].state \in CancelledStates
    BY <2>1, <2>3 DEF IInv, TablesAgree, ActiveStates, CancelledStates
  <2> QED
    BY <1>2, <2>2, <2>3
<1> QED
  BY <1>1, <1>2

\* A first attempt whose trial goes back to waiting for its retry.
LEMMA RetryStep ==
    ASSUME IInv, NEW tr \in Trials, NEW n \in Numbers, n = 1,
           NEW dispatched \in BOOLEAN, NEW error \in AttemptErrors,
           Row(tr, n) \in {"running", "paused"},
           attempts' = Finished(tr, n, dispatched, error),
           trials' = [trials EXCEPT ![tr].state = "retry_pending"],
           UNCHANGED <<tasks, requests, linked>>
    PROVE  IInv'
<1>2. /\ attempts' \in [Trials -> [Numbers -> AttemptRows]]
      /\ Row(tr, n)' = "completed"
      /\ \A c \in Trials, k \in Numbers : <<c, k>> # <<tr, n>> => Row(c, k)' = Row(c, k)
  BY FinishedRow
<1>3. trials[tr].state \in ActiveStates
  BY OpenRow DEF ActiveStates
<1>4. /\ trials' \in [Trials -> [state : TrialStates, result : Results \cup {NoResult}]]
      /\ trials'[tr].state = "retry_pending"
      /\ \A c \in Trials \ {tr} : trials'[c] = trials[c]
  BY DEF IInv, TypeOK, TrialStates, ActiveStates
<1>5. TypeOK'
  BY <1>2, <1>4 DEF IInv, TypeOK
<1>6. TablesAgree'
  BY <1>2, <1>4, FinishedTables
<1>7. \A c \in Trials : trials'[c].state \in ActiveStates <=> trials[c].state \in ActiveStates
  BY <1>3, <1>4 DEF ActiveStates
<1>8. OneOpenTrialPerTask'
  BY <1>7 DEF IInv, OneOpenTrialPerTask, TrialsOf
<1>9. CountersMatchTrials' /\ VerdictJustified'
  <2>1. \A c \in Trials : \/ trials'[c] = trials[c]
                          \/ Undecided(trials[c]) /\ Undecided(trials'[c])
    BY <1>3, <1>4 DEF Undecided, ActiveStates
  <2> QED
    BY <2>1, UndecidedStep DEF IInv
<1>10. NothingStranded'
  BY <1>3, <1>4 DEF IInv, NothingStranded, TrialsOf
<1> QED
  BY <1>5, <1>6, <1>8, <1>9, <1>10 DEF IInv

\* What a quality result does to the two tables, field by field.
LEMMA QualityEffect ==
    ASSUME IInv, NEW tr \in Trials, NEW result \in Quality, SettleQuality(tr, result),
           TaskOf(tr) \in Tasks,
           tasks[TaskOf(tr)].state = "eligible_for_screening"
    PROVE  LET t == TaskOf(tr) IN
           /\ tasks' \in [Tasks -> [state : {"eligible_for_screening", "eligible", "ineligible"},
                                    valid : Int, passes : Int, failures : Int,
                                    reason : {NoReason} \cup Verdicts \cup PreparationErrors
                                                \cup TechnicalErrors]]
           /\ \A u \in Tasks \ {t} : tasks'[u] = tasks[u]
           /\ tasks'[t].valid = tasks[t].valid + 1
           /\ tasks'[t].passes = tasks[t].passes + (IF result = "pass" THEN 1 ELSE 0)
           /\ tasks'[t].failures = tasks[t].failures + (IF result = "pass" THEN 0 ELSE 1)
           /\ \/ /\ tasks'[t].failures >= FailureStop
                 /\ tasks'[t].state = "ineligible" /\ tasks'[t].reason = "third_quality_failure"
              \/ /\ tasks'[t].failures < FailureStop /\ tasks'[t].valid # Repetitions
                 /\ tasks'[t].state = tasks[t].state /\ tasks'[t].reason = tasks[t].reason
              \/ /\ tasks'[t].failures < FailureStop /\ tasks'[t].valid = Repetitions
                 /\ tasks'[t].passes >= PassesRequired
                 /\ tasks'[t].state = "eligible" /\ tasks'[t].reason = "valid_results_18_of_20"
              \/ /\ tasks'[t].failures < FailureStop /\ tasks'[t].valid = Repetitions
                 /\ tasks'[t].passes < PassesRequired
                 /\ tasks'[t].state = "ineligible" /\ tasks'[t].reason = "fewer_than_18_passes"
           /\ trials'[tr] = [state |-> "completed", result |-> result]
           /\ \A c \in Trials \ {tr} :
                 \/ trials'[c] = trials[c]
                 \/ /\ trials[c].state = "planned" /\ TaskOf(c) = t
                    /\ trials'[c].state = "cancelled_by_futility"
           /\ tasks'[t].failures >= FailureStop =>
                 \A c \in TrialsOf(t) : trials'[c].state # "planned"
           /\ trials' \in [Trials -> [state : TrialStates, result : Results \cup {NoResult}]]
<1> DEFINE t == TaskOf(tr)
           old == tasks[t]
           valid == old.valid + 1
           passes == old.passes + (IF result = "pass" THEN 1 ELSE 0)
           failures == old.failures + (IF result = "pass" THEN 0 ELSE 1)
           verdict == Verdict(valid, passes, failures)
           new == [state |-> IF verdict = NoReason THEN old.state ELSE VerdictState(verdict),
                   reason |-> IF verdict = NoReason THEN old.reason ELSE verdict,
                   valid |-> valid, passes |-> passes, failures |-> failures]
           recorded == [trials EXCEPT ![tr] = [state |-> "completed", result |-> result]]
<1>1. old \in TaskRows /\ t \in Tasks
  BY DEF IInv, TypeOK
<1>2. valid \in Int /\ passes \in Int /\ failures \in Int
  BY <1>1 DEF TaskRows
<1>3. /\ \/ failures >= FailureStop /\ verdict = "third_quality_failure"
         \/ failures < FailureStop /\ valid # Repetitions /\ verdict = NoReason
         \/ /\ failures < FailureStop /\ valid = Repetitions /\ passes >= PassesRequired
            /\ verdict = "valid_results_18_of_20"
         \/ /\ failures < FailureStop /\ valid = Repetitions /\ passes < PassesRequired
            /\ verdict = "fewer_than_18_passes"
  BY <1>2, ThresholdAssumption DEF Verdict
<1>4. /\ VerdictState("third_quality_failure") = "ineligible"
      /\ VerdictState("valid_results_18_of_20") = "eligible"
      /\ VerdictState("fewer_than_18_passes") = "ineligible"
  BY DEF VerdictState, NoReason
<1>5. new = AfterQuality(old, result)
  BY DEF AfterQuality
<1>6. tasks' = [tasks EXCEPT ![t] = new]
  BY <1>5 DEF SettleQuality
<1>7. trials' = IF failures >= FailureStop
                THEN Cancel(t, {"planned"}, "cancelled_by_futility", recorded) ELSE recorded
  BY <1>5 DEF SettleQuality
<1>8. recorded \in [Trials -> [state : TrialStates, result : Results \cup {NoResult}]]
  BY DEF IInv, TypeOK, TrialStates, CountedStates, Results
<1>9. new.state \in {"eligible_for_screening", "eligible", "ineligible"}
      /\ new.reason \in {NoReason} \cup Verdicts \cup PreparationErrors \cup TechnicalErrors
  BY <1>1, <1>3, <1>4 DEF TaskRows, Verdicts, NoReason
<1>10. /\ tasks' \in [Tasks -> [state : {"eligible_for_screening", "eligible", "ineligible"},
                               valid : Int, passes : Int, failures : Int,
                               reason : {NoReason} \cup Verdicts \cup PreparationErrors
                                           \cup TechnicalErrors]]
       /\ \A u \in Tasks \ {t} : tasks'[u] = tasks[u]
       /\ tasks'[t] = new
  <2>1. \A u \in Tasks : tasks[u] \in
          [state : {"eligible_for_screening", "eligible", "ineligible"},
           valid : Int, passes : Int, failures : Int,
           reason : {NoReason} \cup Verdicts \cup PreparationErrors \cup TechnicalErrors]
    BY DEF IInv, TypeOK, TaskRows
  <2>2. new \in [state : {"eligible_for_screening", "eligible", "ineligible"},
                 valid : Int, passes : Int, failures : Int,
                 reason : {NoReason} \cup Verdicts \cup PreparationErrors \cup TechnicalErrors]
    BY <1>2, <1>9
  <2>3. tasks \in [Tasks -> TaskRows]
    BY DEF IInv, TypeOK
  <2> HIDE DEF new
  <2> QED
    BY <1>1, <1>6, <2>1, <2>2, <2>3
<1>11. /\ recorded[tr] = [state |-> "completed", result |-> result]
       /\ \A c \in Trials \ {tr} : recorded[c] = trials[c]
  BY DEF IInv, TypeOK
<1>12. /\ trials'[tr] = [state |-> "completed", result |-> result]
       /\ \A c \in Trials \ {tr} :
             \/ trials'[c] = trials[c]
             \/ /\ trials[c].state = "planned" /\ TaskOf(c) = t
                /\ trials'[c].state = "cancelled_by_futility"
       /\ failures >= FailureStop => \A c \in TrialsOf(t) : trials'[c].state # "planned"
       /\ trials' \in [Trials -> [state : TrialStates, result : Results \cup {NoResult}]]
  <2> HIDE DEF recorded, failures
  <2>1. CASE failures >= FailureStop
    <3>1. \A c \in Trials : trials'[c] =
             IF TaskOf(c) = t /\ recorded[c].state = "planned"
             THEN [recorded[c] EXCEPT !.state = "cancelled_by_futility"] ELSE recorded[c]
      BY <1>7, <2>1 DEF Cancel
    <3>2. trials' \in [Trials -> [state : TrialStates, result : Results \cup {NoResult}]]
      BY <1>7, <1>8, <2>1 DEF Cancel, TrialStates, CancelledStates
    <3> QED
      BY <1>8, <1>11, <3>1, <3>2 DEF TrialsOf
  <2>2. CASE ~(failures >= FailureStop)
    BY <1>7, <1>8, <1>11, <2>2
  <2> QED
    BY <2>1, <2>2
<1>13. tasks'[t].failures = failures /\ tasks'[t].valid = valid /\ tasks'[t].passes = passes
  BY <1>10
<1>14. \/ failures >= FailureStop /\ new.state = "ineligible" /\ new.reason = "third_quality_failure"
       \/ /\ failures < FailureStop /\ valid # Repetitions
          /\ new.state = old.state /\ new.reason = old.reason
       \/ /\ failures < FailureStop /\ valid = Repetitions /\ passes >= PassesRequired
          /\ new.state = "eligible" /\ new.reason = "valid_results_18_of_20"
       \/ /\ failures < FailureStop /\ valid = Repetitions /\ passes < PassesRequired
          /\ new.state = "ineligible" /\ new.reason = "fewer_than_18_passes"
  BY <1>3, <1>4 DEF NoReason
<1> HIDE DEF new, verdict
<1> QED
  BY <1>10, <1>12, <1>13, <1>14

\* The counters of the decided task follow the one trial that was counted.
LEMMA QualityStep ==
    ASSUME IInv, NEW tr \in Trials, NEW n \in Numbers, NEW dispatched \in BOOLEAN,
           NEW result \in Quality, Row(tr, n) \in {"running", "paused"},
           attempts' = Finished(tr, n, dispatched, NoError),
           SettleQuality(tr, result), UNCHANGED <<requests, linked>>
    PROVE  IInv'
<1> DEFINE t == TaskOf(tr)
<1>1. /\ trials[tr].state \in {"running", "paused"}
      /\ t \in Tasks /\ tr \in TrialsOf(t)
      /\ tasks[t].state = "eligible_for_screening"
      /\ \A c \in TrialsOf(t) \ {tr} : trials[c].state \notin ActiveStates
  BY OpenRow
<1>2. /\ attempts' \in [Trials -> [Numbers -> AttemptRows]]
      /\ Row(tr, n)' = "completed"
      /\ \A c \in Trials, k \in Numbers : <<c, k>> # <<tr, n>> => Row(c, k)' = Row(c, k)
  BY FinishedRow DEF AttemptErrors
<1>3. /\ tasks' \in [Tasks -> [state : {"eligible_for_screening", "eligible", "ineligible"},
                               valid : Int, passes : Int, failures : Int,
                               reason : {NoReason} \cup Verdicts \cup PreparationErrors
                                           \cup TechnicalErrors]]
      /\ \A u \in Tasks \ {t} : tasks'[u] = tasks[u]
      /\ tasks'[t].valid = tasks[t].valid + 1
      /\ tasks'[t].passes = tasks[t].passes + (IF result = "pass" THEN 1 ELSE 0)
      /\ tasks'[t].failures = tasks[t].failures + (IF result = "pass" THEN 0 ELSE 1)
  BY <1>1, QualityEffect
<1>4. \/ /\ tasks'[t].failures >= FailureStop /\ tasks'[t].state = "ineligible"
      \/ /\ tasks'[t].failures < FailureStop /\ tasks'[t].valid # Repetitions
         /\ tasks'[t].state = "eligible_for_screening"
      \/ /\ tasks'[t].failures < FailureStop /\ tasks'[t].valid = Repetitions
         /\ tasks'[t].passes >= PassesRequired /\ tasks'[t].state = "eligible"
      \/ /\ tasks'[t].failures < FailureStop /\ tasks'[t].valid = Repetitions
         /\ tasks'[t].passes < PassesRequired /\ tasks'[t].state = "ineligible"
  BY <1>1, QualityEffect
<1>5. /\ trials'[tr] = [state |-> "completed", result |-> result]
      /\ \A c \in Trials \ {tr} :
            \/ trials'[c] = trials[c]
            \/ /\ trials[c].state = "planned" /\ TaskOf(c) = t
               /\ trials'[c].state = "cancelled_by_futility"
      /\ tasks'[t].failures >= FailureStop =>
            \A c \in TrialsOf(t) : trials'[c].state # "planned"
      /\ trials' \in [Trials -> [state : TrialStates, result : Results \cup {NoResult}]]
  BY <1>1, QualityEffect
<1>6. \A u \in Tasks \ {t} : \A c \in TrialsOf(u) : trials'[c] = trials[c]
  BY <1>1, <1>5 DEF TrialsOf
<1>7. CountersMatchTrials'
  <2> SUFFICES ASSUME NEW u \in Tasks
               PROVE  CountersMatchTrials!(u)'
    BY DEF CountersMatchTrials
  <2>1. CASE u # t
    <3>1. \A results : CountedSet(trials', u, results) = CountedSet(trials, u, results)
      BY <1>6, <2>1 DEF CountedSet
    <3> QED
      BY <1>3, <2>1, <3>1 DEF IInv, CountersMatchTrials, Counted
  <2>2. CASE u = t
    <3>1. ASSUME NEW results
          PROVE  Counted(t, results)' =
                    Counted(t, results) + (IF result \in results THEN 1 ELSE 0)
      <4>1. trials[tr].state \notin CountedStates /\ trials'[tr].state \in CountedStates
        BY <1>1, <1>5 DEF CountedStates
      <4>2. \A c \in TrialsOf(t) \ {tr} :
               /\ trials'[c].state \in CountedStates <=> trials[c].state \in CountedStates
               /\ trials'[c].state \in CountedStates => trials'[c].result = trials[c].result
        BY <1>5 DEF CountedStates, TrialsOf
      <4> QED
        BY <1>1, <1>5, <4>1, <4>2, CountOneMore DEF Counted
    <3>2. /\ Counted(t, Quality)' = Counted(t, Quality) + 1
          /\ Counted(t, {"pass"})' = Counted(t, {"pass"}) + (IF result = "pass" THEN 1 ELSE 0)
          /\ Counted(t, QualityFailures)' =
                Counted(t, QualityFailures) + (IF result = "pass" THEN 0 ELSE 1)
      BY <3>1, ResultAssumption DEF Quality
    <3> QED
      BY <1>1, <1>3, <2>2, <3>2 DEF IInv, CountersMatchTrials
  <2> QED
    BY <2>1, <2>2
<1>8. TypeOK'
  <2>1. ASSUME NEW u \in Tasks
        PROVE  /\ tasks'[u].valid \in 0 .. Repetitions
               /\ tasks'[u].passes \in 0 .. Repetitions
               /\ tasks'[u].failures \in 0 .. Repetitions
    BY <1>7, CountBound DEF CountersMatchTrials, Counted
  <2>2. tasks' \in [Tasks -> TaskRows]
    BY <1>3, <2>1 DEF TaskRows
  <2> QED
    BY <1>2, <1>5, <2>2 DEF IInv, TypeOK
<1>9. TablesAgree'
  BY <1>2, <1>5, FinishedTables DEF CancelledStates
<1>10. \A c \in Trials : trials'[c].state \in ActiveStates =>
          trials[c].state \in ActiveStates /\ c # tr
  BY <1>5 DEF ActiveStates
<1>11. OneOpenTrialPerTask'
  BY <1>10 DEF IInv, OneOpenTrialPerTask, TrialsOf
<1>12. ASSUME NEW u \in Tasks
       PROVE  Excluded(u)' <=> Excluded(u)
  BY <1>1, <1>5 DEF Excluded, ExcludedStates, TrialsOf
<1>13. VerdictJustified'
  <2>1. ASSUME NEW u \in Tasks, u # t
        PROVE  VerdictJustified!(u)'
    BY <1>3, <1>12, <2>1 DEF IInv, VerdictJustified
  <2>2. ~Excluded(t)'
    BY <1>1, <1>12 DEF IInv, VerdictJustified
  <2>3. tasks'[t].valid \in 0 .. Repetitions
    BY <1>1, <1>8 DEF TypeOK, TaskRows
  <2>4. VerdictJustified!(t)'
    BY <1>4, <2>2, <2>3, ThresholdAssumption
  <2> QED
    BY <2>1, <2>4 DEF VerdictJustified
<1>14. NothingStranded'
  <2> SUFFICES ASSUME NEW u \in Tasks, tasks'[u].state # "eligible_for_screening",
                      NEW c \in TrialsOf(u)
               PROVE  trials'[c].state \notin ActiveStates \cup {"planned"}
    BY DEF NothingStranded
  <2>1. CASE u # t
    BY <1>3, <1>6, <2>1 DEF IInv, NothingStranded
  <2>2. CASE u = t /\ tasks'[t].failures >= FailureStop
    BY <1>1, <1>5, <1>10, <2>2 DEF TrialsOf
  <2>3. CASE u = t /\ tasks'[t].valid = Repetitions
    <3>1. CountedSet(trials', t, Quality) = TrialsOf(t)
      BY <1>1, <1>7, <2>3, CountBound DEF CountersMatchTrials, Counted
    <3> QED
      BY <2>3, <3>1 DEF CountedSet, CountedStates, ActiveStates
  <2> QED
    BY <1>4, <2>1, <2>2, <2>3
<1> QED
  BY <1>7, <1>8, <1>9, <1>11, <1>13, <1>14 DEF IInv

LEMMA TechnicalStep ==
    ASSUME IInv, NEW tr \in Trials, NEW n \in Numbers, NEW dispatched \in BOOLEAN,
           NEW result \in PreparationErrors \cup TechnicalErrors,
           Row(tr, n) \in {"running", "paused"},
           attempts' = Finished(tr, n, dispatched, result),
           SettleTechnical(tr, result), UNCHANGED <<requests, linked>>
    PROVE  IInv'
<1> DEFINE t == TaskOf(tr)
           recorded == [trials EXCEPT ![tr] = [state |-> "invalid", result |-> result]]
<1>1. /\ trials[tr].state \in {"running", "paused"}
      /\ t \in Tasks /\ tr \in TrialsOf(t)
      /\ tasks[t].state = "eligible_for_screening"
      /\ \A c \in TrialsOf(t) \ {tr} : trials[c].state \notin ActiveStates
  BY OpenRow
<1>2. /\ attempts' \in [Trials -> [Numbers -> AttemptRows]]
      /\ Row(tr, n)' = "completed"
      /\ \A c \in Trials, k \in Numbers : <<c, k>> # <<tr, n>> => Row(c, k)' = Row(c, k)
  BY FinishedRow DEF AttemptErrors
<1>3. /\ tasks' \in [Tasks -> TaskRows]
      /\ tasks'[t].state = "ineligible"
      /\ \A u \in Tasks : /\ tasks'[u].valid = tasks[u].valid
                          /\ tasks'[u].passes = tasks[u].passes
                          /\ tasks'[u].failures = tasks[u].failures
      /\ \A u \in Tasks \ {t} : tasks'[u] = tasks[u]
  <2>1. tasks \in [Tasks -> TaskRows] /\ tasks[t] \in TaskRows
    BY <1>1 DEF IInv, TypeOK
  <2>2. tasks' = [tasks EXCEPT ![t] = [[@ EXCEPT !.state = "ineligible"] EXCEPT !.reason = result]]
    BY DEF SettleTechnical
  <2>3. /\ [[tasks[t] EXCEPT !.state = "ineligible"] EXCEPT !.reason = result] \in TaskRows
        /\ [[tasks[t] EXCEPT !.state = "ineligible"] EXCEPT !.reason = result].state = "ineligible"
    BY <2>1 DEF TaskRows
  <2> QED
    BY <1>1, <2>1, <2>2, <2>3 DEF TaskRows
<1>4. /\ recorded \in [Trials -> [state : TrialStates, result : Results \cup {NoResult}]]
      /\ recorded[tr] = [state |-> "invalid", result |-> result]
      /\ \A c \in Trials \ {tr} : recorded[c] = trials[c]
  BY DEF IInv, TypeOK, TrialStates, ExcludedStates, Results
<1>5. /\ trials'[tr] = [state |-> "invalid", result |-> result]
      /\ \A c \in TrialsOf(t) \ {tr} :
            trials'[c] = IF trials[c].state \in {"planned", "retry_pending"}
                         THEN [trials[c] EXCEPT !.state = "cancelled_after_technical_error"]
                         ELSE trials[c]
      /\ \A c \in Trials \ TrialsOf(t) : trials'[c] = trials[c]
      /\ trials' \in [Trials -> [state : TrialStates, result : Results \cup {NoResult}]]
  <2> HIDE DEF recorded
  <2>1. trials' = Cancel(t, {"planned", "retry_pending"}, "cancelled_after_technical_error",
                         recorded)
    BY DEF SettleTechnical, recorded
  <2>2. \A c \in Trials : trials'[c] =
           IF TaskOf(c) = t /\ recorded[c].state \in {"planned", "retry_pending"}
           THEN [recorded[c] EXCEPT !.state = "cancelled_after_technical_error"] ELSE recorded[c]
    BY <2>1 DEF Cancel
  <2>3. trials' \in [Trials -> [state : TrialStates, result : Results \cup {NoResult}]]
    BY <1>4, <2>1 DEF Cancel, TrialStates, CancelledStates
  <2> QED
    BY <1>4, <2>2, <2>3 DEF TrialsOf
<1>6. \A c \in Trials \ {tr} :
         \/ trials'[c] = trials[c]
         \/ /\ trials[c].state = "planned" /\ TaskOf(c) = t
            /\ trials'[c].state = "cancelled_after_technical_error"
  BY <1>1, <1>5 DEF ActiveStates, TrialsOf, IInv, TypeOK
<1>7. CountersMatchTrials'
  <2>1. ASSUME NEW u \in Tasks, NEW results
        PROVE  CountedSet(trials', u, results) = CountedSet(trials, u, results)
    BY <1>1, <1>5, <1>6 DEF CountedSet, CountedStates, TrialsOf
  <2> QED
    BY <1>3, <2>1 DEF IInv, CountersMatchTrials, Counted
<1>8. TypeOK'
  BY <1>2, <1>3, <1>5 DEF IInv, TypeOK
<1>9. TablesAgree'
  BY <1>2, <1>5, <1>6, FinishedTables DEF CancelledStates
<1>10. \A c \in Trials : trials'[c].state \in ActiveStates =>
          trials[c].state \in ActiveStates /\ c # tr
  BY <1>5, <1>6 DEF ActiveStates
<1>11. OneOpenTrialPerTask'
  BY <1>10 DEF IInv, OneOpenTrialPerTask, TrialsOf
<1>12. VerdictJustified'
  <2>1. Excluded(t)'
    BY <1>1, <1>5 DEF Excluded, ExcludedStates
  <2>2. ASSUME NEW u \in Tasks, u # t
        PROVE  Excluded(u)' <=> Excluded(u)
    BY <1>5, <2>2 DEF Excluded, TrialsOf
  <2> QED
    BY <1>3, <2>1, <2>2 DEF IInv, VerdictJustified
<1>13. NothingStranded'
  <2> SUFFICES ASSUME NEW u \in Tasks, tasks'[u].state # "eligible_for_screening",
                      NEW c \in TrialsOf(u)
               PROVE  trials'[c].state \notin ActiveStates \cup {"planned"}
    BY DEF NothingStranded
  <2>1. CASE u # t
    BY <1>3, <1>5, <2>1 DEF IInv, NothingStranded, TrialsOf
  <2>2. CASE u = t
    <3>1. c \in Trials
      BY DEF TrialsOf
    <3>2. CASE c = tr
      BY <1>5, <3>2 DEF ActiveStates
    <3>3. CASE c # tr
      <4>1. trials[c].state \notin ActiveStates
        BY <1>1, <2>2, <3>3
      <4>2. CASE trials[c].state = "planned"
        <5>1. trials'[c] = [trials[c] EXCEPT !.state = "cancelled_after_technical_error"]
          BY <1>5, <2>2, <3>3, <4>2
        <5>2. trials'[c].state = "cancelled_after_technical_error"
          BY <3>1, <5>1 DEF IInv, TypeOK
        <5> QED
          BY <5>2 DEF ActiveStates
      <4>3. CASE trials[c].state # "planned"
        BY <1>6, <3>1, <3>3, <4>1, <4>3
      <4> QED
        BY <4>2, <4>3
    <3> QED
      BY <3>2, <3>3
  <2> QED
    BY <2>1, <2>2
<1> QED
  BY <1>7, <1>8, <1>9, <1>11, <1>12, <1>13 DEF IInv

LEMMA FinishStep ==
    ASSUME IInv, NEW tr \in Trials, NEW n \in Numbers, NEW result \in Results,
           NEW dispatched \in BOOLEAN, NEW from \in {"running", "paused"},
           FinishAttempt(tr, n, result, dispatched, from)
    PROVE  IInv'
<1>1. Row(tr, n) \in {"running", "paused"}
  BY DEF FinishAttempt, MayFinish, Row
<1>2. CASE result \in PreparationErrors /\ n = 1 /\ UNCHANGED tasks
             /\ trials' = [trials EXCEPT ![tr].state = "retry_pending"]
  <2>1. result \notin Quality
    BY <1>2, ResultAssumption DEF Quality
  <2> QED
    BY <1>1, <1>2, <2>1, RetryStep DEF FinishAttempt, AttemptErrors
<1>3. CASE result \in Quality /\ SettleQuality(tr, result)
  BY <1>1, <1>3, QualityStep DEF FinishAttempt
<1>4. CASE result \notin Quality /\ SettleTechnical(tr, result)
  BY <1>1, <1>4, TechnicalStep DEF FinishAttempt, Results
<1> QED
  BY <1>2, <1>3, <1>4 DEF FinishAttempt

LEMMA InterruptionStep ==
    ASSUME IInv, NEW tr \in Trials, NEW dispatched \in BOOLEAN,
           RetryPausedAfterInfrastructureInterruption(tr, dispatched)
    PROVE  IInv'
<1>1. 1 \in Numbers /\ Interruption \in AttemptErrors
  BY DEF Numbers, AttemptErrors
<1> QED
  BY <1>1, RetryStep DEF RetryPausedAfterInfrastructureInterruption, Row

-----------------------------------------------------------------------------
(* Linking the results of an earlier run                                   *)

\* What linking does to one trial: linked trials were planned, and nothing
\* but a planned trial is cancelled.
LEMMA LinkedTrial ==
    ASSUME IInv, NEW records \in Continuations, LinkContinuation(records), NEW tr \in Trials
    PROVE  /\ Row(tr, 1) = "absent" /\ Row(tr, 2) = "absent"
           /\ trials[tr].state \notin ActiveStates \cup {"completed", "invalid"}
           /\ tr \in DOMAIN records =>
                 /\ trials[tr].state = "planned" /\ records[tr] \in Results
                 /\ trials'[tr] = [state |-> IF records[tr] \in Quality
                                             THEN "linked_quality_result"
                                             ELSE "linked_technical_exclusion",
                                   result |-> records[tr]]
           /\ tr \notin DOMAIN records =>
                 \/ trials'[tr] = trials[tr]
                 \/ /\ trials[tr].state = "planned"
                    /\ trials'[tr].state \in CancelledStates
                    /\ trials'[tr].result = trials[tr].result
<1>1. Row(tr, 1) = "absent"
  BY DEF LinkContinuation, Row
<1>2. trials[tr].state \notin ActiveStates \cup {"completed", "invalid"}
  BY <1>1 DEF IInv, TablesAgree, ActiveStates
<1>3. Row(tr, 2) = "absent"
  BY <1>2 DEF IInv, TablesAgree
<1>4. trials'[tr] = AfterLinkTrial(records, tr)
  BY DEF LinkContinuation
<1>5. ASSUME tr \in DOMAIN records
      PROVE  /\ trials[tr].state = "planned" /\ records[tr] \in Results
             /\ trials'[tr] = [state |-> IF records[tr] \in Quality
                                         THEN "linked_quality_result"
                                         ELSE "linked_technical_exclusion",
                               result |-> records[tr]]
  <2>1. trials[tr].state = "planned" /\ records[tr] \in Results
    BY <1>5 DEF LinkContinuation, Continuations
  <2>2. tr \in LinkedOf(records, TaskOf(tr))
    BY <1>5 DEF LinkedOf
  <2>3. AfterLinkTrial(records, tr) =
           [state |-> IF records[tr] \in Quality THEN "linked_quality_result"
                                                 ELSE "linked_technical_exclusion",
            result |-> records[tr]]
    BY <2>2, Zenon DEF AfterLinkTrial
  <2> QED
    BY <1>4, <2>1, <2>3
<1>6. ASSUME tr \notin DOMAIN records
      PROVE  \/ trials'[tr] = trials[tr]
             \/ /\ trials[tr].state = "planned"
                /\ trials'[tr].state \in CancelledStates
                /\ trials'[tr].result = trials[tr].result
  <2> DEFINE errors == {c \in LinkedOf(records, TaskOf(tr)) : records[c] \notin Quality}
             late == AfterLinks(records, TaskOf(tr), LinkedOf(records, TaskOf(tr))).failures
                        >= FailureStop
  <2>1. tr \notin LinkedOf(records, TaskOf(tr))
    BY <1>6 DEF LinkedOf
  <2>2. trials[tr].state # "retry_pending"
    BY <1>2 DEF ActiveStates
  <2>3. CASE errors # {} /\ trials[tr].state = "planned"
    <3>1. trials'[tr] = [trials[tr] EXCEPT !.state = "cancelled_after_technical_error"]
      BY <1>4, <2>1, <2>3 DEF AfterLinkTrial
    <3> QED
      BY <2>3, <3>1 DEF IInv, TypeOK, CancelledStates
  <2>4. CASE errors = {} /\ trials[tr].state = "planned" /\ late
    <3>1. trials'[tr] \in {trials[tr], [trials[tr] EXCEPT !.state = "cancelled_by_futility"]}
      BY <1>4, <2>1, <2>4 DEF AfterLinkTrial
    <3> QED
      BY <2>4, <3>1 DEF IInv, TypeOK, CancelledStates
  <2>5. CASE trials[tr].state # "planned" \/ (errors = {} /\ ~late)
    <3>1. ~(errors # {} /\ trials[tr].state \in {"planned", "retry_pending"})
      BY <2>2, <2>5
    <3>2. ~(errors = {} /\ LinkedOf(records, TaskOf(tr)) # {} /\ trials[tr].state = "planned"
               /\ late)
      BY <2>5
    <3> QED
      BY <1>4, <2>1, <3>1, <3>2, Zenon DEF AfterLinkTrial
  <2> QED
    BY <2>3, <2>4, <2>5
<1> QED
  BY <1>1, <1>2, <1>3, <1>5, <1>6

\* Linking adds the linked results to every count, each once.
LEMMA LinkedCount ==
    ASSUME IInv, NEW records \in Continuations, LinkContinuation(records), NEW t \in Tasks,
           NEW results \in SUBSET Quality
    PROVE  LET linkedHere == {c \in LinkedOf(records, t) : records[c] \in results} IN
           /\ IsFiniteSet(linkedHere)
           /\ Counted(t, results)' = Counted(t, results) + Cardinality(linkedHere)
<1> DEFINE linkedHere == {c \in LinkedOf(records, t) : records[c] \in results}
           before == CountedSet(trials, t, results)
           after == CountedSet(trials', t, results)
<1>1. LinkedOf(records, t) \subseteq TrialsOf(t)
  BY DEF LinkedOf, Continuations, TrialsOf
<1>2. after = before \cup linkedHere
  <2>1. ASSUME NEW c \in TrialsOf(t)
        PROVE  c \in after <=> c \in before \cup linkedHere
    <3>1. c \in Trials
      BY DEF TrialsOf
    <3>2. CASE c \in DOMAIN records
      <4>. DEFINE state == IF records[c] \in Quality THEN "linked_quality_result"
                                                     ELSE "linked_technical_exclusion"
      <4>0. trials[c].state = "planned" /\ trials'[c] = [state |-> state, result |-> records[c]]
        BY <3>1, <3>2, LinkedTrial
      <4>1. /\ trials[c].state = "planned" /\ trials'[c].result = records[c]
            /\ trials'[c].state = state
        <5> HIDE DEF state
        <5> QED
          BY <4>0
      <4>2. c \notin before
        BY <4>1 DEF CountedSet, CountedStates
      <4>3. c \in after <=> records[c] \in results
        BY <4>1 DEF CountedSet, CountedStates
      <4>4. c \in linkedHere <=> records[c] \in results
        BY <3>2 DEF LinkedOf, TrialsOf
      <4> QED
        BY <4>2, <4>3, <4>4
    <3>3. CASE c \notin DOMAIN records
      <4>1. c \notin linkedHere
        BY <3>3 DEF LinkedOf
      <4>2. \/ trials'[c] = trials[c]
            \/ /\ trials[c].state = "planned" /\ trials'[c].state \in CancelledStates
        BY <3>1, <3>3, LinkedTrial
      <4>3. c \in after <=> c \in before
        BY <4>2 DEF CountedSet, CountedStates, CancelledStates
      <4> QED
        BY <4>1, <4>3
    <3> QED
      BY <3>2, <3>3
  <2> QED
    BY <1>1, <2>1 DEF CountedSet
<1>3. before \cap linkedHere = {}
  <2> SUFFICES ASSUME NEW c \in linkedHere PROVE c \notin before
    OBVIOUS
  <2>1. c \in Trials /\ c \in DOMAIN records
    BY <1>1 DEF LinkedOf, TrialsOf
  <2> QED
    BY <2>1, LinkedTrial DEF CountedSet, CountedStates
<1>4. IsFiniteSet(before) /\ IsFiniteSet(linkedHere)
  <2>1. linkedHere \in SUBSET TrialsOf(t)
    BY <1>1
  <2> QED
    BY <2>1, CountBound, TrialsOfCardinality, FS_Subset
<1>5. Cardinality(after) = Cardinality(before) + Cardinality(linkedHere)
  <2>1. Cardinality(after) =
           Cardinality(before) + Cardinality(linkedHere) - Cardinality(before \cap linkedHere)
    BY <1>2, <1>4, FS_Union
  <2>2. Cardinality(before \cap linkedHere) = 0
    BY <1>3, FS_EmptySet
  <2>3. Cardinality(before) \in Nat /\ Cardinality(linkedHere) \in Nat
    BY <1>4, FS_CardinalityType
  <2> QED
    BY <2>1, <2>2, <2>3
<1> QED
  BY <1>4, <1>5 DEF Counted

\* What linking does to a task that has linked results.
LEMMA LinkedTask ==
    ASSUME IInv, NEW records \in Continuations, LinkContinuation(records), NEW t \in Tasks,
           LinkedOf(records, t) # {}
    PROVE  LET errors == {c \in LinkedOf(records, t) : records[c] \notin Quality} IN
           /\ tasks[t].state = "eligible_for_screening"
           /\ tasks'[t] \in TaskRows
           /\ tasks'[t].valid = Counted(t, Quality)'
           /\ tasks'[t].passes = Counted(t, {"pass"})'
           /\ tasks'[t].failures = Counted(t, QualityFailures)'
           /\ errors # {} => tasks'[t].state = "ineligible"
           /\ errors = {} =>
                 \/ tasks'[t].failures >= FailureStop /\ tasks'[t].state = "ineligible"
                 \/ /\ tasks'[t].failures < FailureStop /\ tasks'[t].valid # Repetitions
                    /\ tasks'[t].state = "eligible_for_screening"
                 \/ /\ tasks'[t].failures < FailureStop /\ tasks'[t].valid = Repetitions
                    /\ tasks'[t].passes >= PassesRequired /\ tasks'[t].state = "eligible"
                 \/ /\ tasks'[t].failures < FailureStop /\ tasks'[t].valid = Repetitions
                    /\ tasks'[t].passes < PassesRequired /\ tasks'[t].state = "ineligible"
<1> DEFINE done == LinkedOf(records, t)
           valid == {c \in done : records[c] \in Quality}
           passes == {c \in done : records[c] = "pass"}
           failed == {c \in done : records[c] \in QualityFailures}
           errors == {c \in done : records[c] \notin Quality}
           v == tasks[t].valid + Cardinality(valid)
           p == tasks[t].passes + Cardinality(passes)
           f == tasks[t].failures + Cardinality(failed)
           counted == [tasks[t] EXCEPT !.valid = v, !.passes = p, !.failures = f]
           verdict == Verdict(v, p, f)
           reason == records[CHOOSE c \in errors : TRUE]
<1>1. tasks[t] \in TaskRows
  BY DEF IInv, TypeOK
<1>2. tasks[t].state = "eligible_for_screening"
  <2>1. PICK c \in done : TRUE
    OBVIOUS
  <2>2. c \in DOMAIN records /\ TaskOf(c) = t
    BY DEF LinkedOf
  <2>3. AfterLinks(records, t, LinkedBefore(records, c)).state = "eligible_for_screening"
    BY <2>2 DEF LinkContinuation
  <2> QED
    BY <1>1, <2>3 DEF AfterLinks, VerdictState, Verdict, NoReason, TaskRows
<1>3. /\ v = Counted(t, Quality)' /\ p = Counted(t, {"pass"})'
      /\ f = Counted(t, QualityFailures)'
  <2>1. /\ Quality \in SUBSET Quality /\ {"pass"} \in SUBSET Quality
        /\ QualityFailures \in SUBSET Quality
    BY DEF Quality
  <2>2. passes = {c \in done : records[c] \in {"pass"}}
    OBVIOUS
  <2>3. Counted(t, Quality)' = Counted(t, Quality) + Cardinality(valid)
    BY <2>1, LinkedCount
  <2>4. Counted(t, {"pass"})' = Counted(t, {"pass"}) + Cardinality(passes)
    BY <2>1, <2>2, LinkedCount
  <2>5. Counted(t, QualityFailures)' = Counted(t, QualityFailures) + Cardinality(failed)
    BY <2>1, LinkedCount
  <2> QED
    BY <2>3, <2>4, <2>5 DEF IInv, CountersMatchTrials
<1>4. v \in 0 .. Repetitions /\ p \in 0 .. Repetitions /\ f \in 0 .. Repetitions
  BY <1>3, CountBound DEF Counted
<1>5. tasks'[t] = IF errors # {}
                  THEN [counted EXCEPT !.state = "ineligible", !.reason = reason]
                  ELSE IF verdict # NoReason
                  THEN [counted EXCEPT !.state = VerdictState(verdict), !.reason = verdict]
                  ELSE counted
  <2>1. valid \ passes = failed /\ done \ valid = errors
    BY ResultAssumption DEF Quality
  <2>2. AfterLinks(records, t, done) =
          IF errors # {}
          THEN [counted EXCEPT !.state = "ineligible", !.reason = reason]
          ELSE IF verdict # NoReason
          THEN [counted EXCEPT !.state = VerdictState(verdict), !.reason = verdict]
          ELSE counted
    <3>1. [tasks[t] EXCEPT !.valid = @ + Cardinality(valid),
                           !.passes = @ + Cardinality(passes),
                           !.failures = @ + Cardinality(failed)] = counted
      BY <1>1 DEF TaskRows
    <3> QED
      BY <1>1, <2>1, <3>1 DEF AfterLinks, TaskRows
  <2>3. tasks'[t] = AfterLinks(records, t, done)
    BY DEF LinkContinuation
  <2> QED
    BY <2>2, <2>3
<1>6. \/ f >= FailureStop /\ verdict = "third_quality_failure"
      \/ f < FailureStop /\ v # Repetitions /\ verdict = NoReason
      \/ /\ f < FailureStop /\ v = Repetitions /\ p >= PassesRequired
         /\ verdict = "valid_results_18_of_20"
      \/ /\ f < FailureStop /\ v = Repetitions /\ p < PassesRequired
         /\ verdict = "fewer_than_18_passes"
  BY <1>4, ThresholdAssumption DEF Verdict
<1>7. /\ VerdictState("third_quality_failure") = "ineligible"
      /\ VerdictState("valid_results_18_of_20") = "eligible"
      /\ VerdictState("fewer_than_18_passes") = "ineligible"
  BY DEF VerdictState, NoReason
<1>8. errors # {} => reason \in PreparationErrors \cup TechnicalErrors
  <2>1. \A c \in errors : records[c] \in Results /\ records[c] \notin Quality
    BY DEF LinkedOf, Continuations
  <2> QED
    BY <2>1 DEF Results
<1>9. /\ counted \in TaskRows /\ counted.state = "eligible_for_screening"
      /\ counted.valid = v /\ counted.passes = p /\ counted.failures = f
  <2> HIDE DEF v, p, f
  <2> QED
    BY <1>1, <1>2, <1>4 DEF TaskRows
<1> HIDE DEF v, p, f, verdict, counted, errors, reason
<1>10. CASE errors # {}
  <2>1. tasks'[t] = [[counted EXCEPT !.state = "ineligible"] EXCEPT !.reason = reason]
    BY <1>5, <1>10
  <2>2. /\ tasks'[t] \in TaskRows /\ tasks'[t].state = "ineligible"
        /\ tasks'[t].valid = v /\ tasks'[t].passes = p /\ tasks'[t].failures = f
    BY <1>8, <1>9, <1>10, <2>1 DEF TaskRows
  <2> QED
    BY <1>2, <1>3, <1>10, <2>2 DEF errors
<1>11. CASE errors = {} /\ verdict # NoReason
  <2>1. tasks'[t] = [[counted EXCEPT !.state = VerdictState(verdict)] EXCEPT !.reason = verdict]
    BY <1>5, <1>11
  <2>2. VerdictState(verdict) \in {"eligible", "ineligible"} /\ verdict \in Verdicts
    BY <1>6, <1>7, <1>11 DEF Verdicts
  <2>3. /\ tasks'[t] \in TaskRows /\ tasks'[t].state = VerdictState(verdict)
        /\ tasks'[t].valid = v /\ tasks'[t].passes = p /\ tasks'[t].failures = f
    BY <1>9, <2>1, <2>2 DEF TaskRows
  <2> QED
    BY <1>2, <1>3, <1>6, <1>7, <1>11, <2>3 DEF errors
<1>12. CASE errors = {} /\ verdict = NoReason
  <2>1. tasks'[t] = counted
    BY <1>5, <1>12
  <2>2. f < FailureStop /\ v # Repetitions
    BY <1>6, <1>12 DEF NoReason
  <2> QED
    BY <1>2, <1>3, <1>9, <1>12, <2>1, <2>2 DEF errors
<1> QED
  BY <1>10, <1>11, <1>12

LEMMA LinkStep ==
    ASSUME IInv, NEW records \in Continuations, LinkContinuation(records)
    PROVE  IInv'
<1>1. ASSUME NEW t \in Tasks, LinkedOf(records, t) = {}
      PROVE  /\ tasks'[t] = tasks[t]
             /\ \A c \in TrialsOf(t) : trials'[c] = trials[c]
  <2>1. tasks'[t] = tasks[t]
    BY <1>1 DEF LinkContinuation
  <2>2. ASSUME NEW c \in TrialsOf(t)
        PROVE  trials'[c] = trials[c]
    <3>1. c \in Trials /\ TaskOf(c) = t
      BY DEF TrialsOf
    <3>2. trials'[c] = AfterLinkTrial(records, c)
      BY <3>1 DEF LinkContinuation
    <3> QED
      BY <1>1, <3>1, <3>2, Zenon DEF AfterLinkTrial
  <2> QED
    BY <2>1, <2>2
<1>2. TypeOK'
  <2>1. tasks' \in [Tasks -> TaskRows]
    <3>1. \A t \in Tasks : tasks'[t] \in TaskRows
      BY <1>1, LinkedTask DEF IInv, TypeOK
    <3>2. DOMAIN tasks' = Tasks /\ tasks' = [t \in Tasks |-> tasks'[t]]
      BY DEF LinkContinuation
    <3> QED
      BY <3>1, <3>2
  <2>2. trials' \in [Trials -> [state : TrialStates, result : Results \cup {NoResult}]]
    <3>1. ASSUME NEW c \in Trials
          PROVE  trials'[c] \in [state : TrialStates, result : Results \cup {NoResult}]
      <4>1. CASE c \in DOMAIN records
        <5> DEFINE state == IF records[c] \in Quality THEN "linked_quality_result"
                                                     ELSE "linked_technical_exclusion"
        <5>1. trials'[c] = [state |-> state, result |-> records[c]] /\ records[c] \in Results
          BY <4>1, LinkedTrial
        <5>2. state \in TrialStates
          BY DEF TrialStates, CountedStates, ExcludedStates
        <5> HIDE DEF state
        <5> QED
          BY <5>1, <5>2
      <4>2. CASE c \notin DOMAIN records
        <5>1. /\ trials[c] \in [state : TrialStates, result : Results \cup {NoResult}]
              /\ trials'[c] \in {trials[c],
                                 [trials[c] EXCEPT !.state = "cancelled_after_technical_error"],
                                 [trials[c] EXCEPT !.state = "cancelled_by_futility"]}
          <6>1. c \notin LinkedOf(records, TaskOf(c))
            BY <4>2 DEF LinkedOf
          <6> QED
            BY <6>1 DEF LinkContinuation, AfterLinkTrial, IInv, TypeOK
        <5> QED
          BY <5>1 DEF TrialStates, CancelledStates
      <4> QED
        BY <4>1, <4>2
    <3>2. DOMAIN trials' = Trials /\ trials' = [c \in Trials |-> trials'[c]]
      BY DEF LinkContinuation
    <3> QED
      BY <3>1, <3>2
  <2> QED
    BY <2>1, <2>2 DEF LinkContinuation, IInv, TypeOK
<1>3. ASSUME NEW c \in Trials
      PROVE  trials'[c].state \notin ActiveStates \cup {"completed", "invalid"}
  <2>1. CASE c \in DOMAIN records
    <3> DEFINE state == IF records[c] \in Quality THEN "linked_quality_result"
                                                 ELSE "linked_technical_exclusion"
    <3>1. trials'[c] = [state |-> state, result |-> records[c]]
      BY <2>1, LinkedTrial
    <3>2. trials'[c].state = state
      <4> HIDE DEF state
      <4> QED
        BY <3>1
    <3> QED
      BY <3>2 DEF ActiveStates
  <2>2. CASE c \notin DOMAIN records
    <3>1. \/ trials'[c] = trials[c]
          \/ trials'[c].state \in CancelledStates
      BY <2>2, LinkedTrial
    <3>2. trials[c].state \notin ActiveStates \cup {"completed", "invalid"}
      BY LinkedTrial
    <3> QED
      BY <3>1, <3>2 DEF ActiveStates, CancelledStates
  <2> QED
    BY <2>1, <2>2
<1>4. OneOpenTrialPerTask'
  BY <1>3 DEF OneOpenTrialPerTask, TrialsOf
<1>5. TablesAgree'
  <2> SUFFICES ASSUME NEW c \in Trials PROVE TablesAgree!(c)'
    BY DEF TablesAgree
  <2>1. Row(c, 1)' = "absent" /\ Row(c, 2)' = "absent"
    BY LinkedTrial DEF LinkContinuation, Row
  <2>2. trials'[c].state \notin ActiveStates \cup {"completed", "invalid"}
    BY <1>3
  <2> QED
    BY <2>1, <2>2 DEF ActiveStates
<1>6. CountersMatchTrials'
  <2> SUFFICES ASSUME NEW t \in Tasks PROVE CountersMatchTrials!(t)'
    BY DEF CountersMatchTrials
  <2>1. CASE LinkedOf(records, t) # {}
    BY <2>1, LinkedTask
  <2>2. CASE LinkedOf(records, t) = {}
    <3>1. ASSUME NEW results
          PROVE  CountedSet(trials', t, results) = CountedSet(trials, t, results)
      BY <1>1, <2>2 DEF CountedSet
    <3> QED
      BY <1>1, <2>2, <3>1 DEF IInv, CountersMatchTrials, Counted
  <2> QED
    BY <2>1, <2>2
<1>7. ASSUME NEW t \in Tasks, LinkedOf(records, t) # {}
      PROVE  Excluded(t)' <=> \E c \in LinkedOf(records, t) : records[c] \notin Quality
  <2>1. ~Excluded(t)
    BY <1>7, LinkedTask DEF IInv, VerdictJustified
  <2>2. ASSUME NEW c \in TrialsOf(t)
        PROVE  trials'[c].state \in ExcludedStates <=>
                  c \in LinkedOf(records, t) /\ records[c] \notin Quality
    <3>1. c \in Trials /\ TaskOf(c) = t
      BY DEF TrialsOf
    <3>2. CASE c \in DOMAIN records
      <4> DEFINE state == IF records[c] \in Quality THEN "linked_quality_result"
                                                   ELSE "linked_technical_exclusion"
      <4>1. trials'[c] = [state |-> state, result |-> records[c]]
        BY <3>1, <3>2, LinkedTrial
      <4>2. trials'[c].state = state
        <5> HIDE DEF state
        <5> QED
          BY <4>1
      <4> QED
        BY <3>1, <3>2, <4>2 DEF LinkedOf, ExcludedStates
    <3>3. CASE c \notin DOMAIN records
      <4>1. \/ trials'[c] = trials[c]
            \/ trials'[c].state \in CancelledStates
        BY <3>1, <3>3, LinkedTrial
      <4> QED
        BY <2>1, <3>3, <4>1 DEF LinkedOf, Excluded, ExcludedStates, CancelledStates
    <3> QED
      BY <3>2, <3>3
  <2>3. LinkedOf(records, t) \subseteq TrialsOf(t)
    BY DEF LinkedOf, Continuations, TrialsOf
  <2> QED
    BY <2>2, <2>3 DEF Excluded
<1>8. VerdictJustified'
  <2> SUFFICES ASSUME NEW t \in Tasks PROVE VerdictJustified!(t)'
    BY DEF VerdictJustified
  <2>1. CASE LinkedOf(records, t) # {}
    <3>1. /\ tasks'[t].valid \in 0 .. Repetitions /\ tasks'[t].failures \in 0 .. Repetitions
          /\ tasks'[t].passes \in 0 .. Repetitions
      BY <1>2 DEF TypeOK, TaskRows
    <3>2. CASE \E c \in LinkedOf(records, t) : records[c] \notin Quality
      <4>1. tasks'[t].state = "ineligible"
        BY <2>1, <3>2, LinkedTask
      <4> QED
        BY <1>7, <2>1, <3>2, <4>1
    <3>3. CASE ~\E c \in LinkedOf(records, t) : records[c] \notin Quality
      <4>1. ~Excluded(t)'
        BY <1>7, <2>1, <3>3
      <4>2. {c \in LinkedOf(records, t) : records[c] \notin Quality} = {}
        BY <3>3
      <4>3. \/ tasks'[t].failures >= FailureStop /\ tasks'[t].state = "ineligible"
            \/ /\ tasks'[t].failures < FailureStop /\ tasks'[t].valid # Repetitions
               /\ tasks'[t].state = "eligible_for_screening"
            \/ /\ tasks'[t].failures < FailureStop /\ tasks'[t].valid = Repetitions
               /\ tasks'[t].passes >= PassesRequired /\ tasks'[t].state = "eligible"
            \/ /\ tasks'[t].failures < FailureStop /\ tasks'[t].valid = Repetitions
               /\ tasks'[t].passes < PassesRequired /\ tasks'[t].state = "ineligible"
        BY <2>1, <4>2, LinkedTask
      <4> QED
        BY <3>1, <4>1, <4>3, ThresholdAssumption
    <3> QED
      BY <3>2, <3>3
  <2>2. CASE LinkedOf(records, t) = {}
    <3>1. Excluded(t)' <=> Excluded(t)
      BY <1>1, <2>2 DEF Excluded
    <3> QED
      BY <1>1, <2>2, <3>1 DEF IInv, VerdictJustified
  <2> QED
    BY <2>1, <2>2
<1>9. NothingStranded'
  <2> SUFFICES ASSUME NEW t \in Tasks, tasks'[t].state # "eligible_for_screening",
                      NEW c \in TrialsOf(t)
               PROVE  trials'[c].state # "planned"
    BY <1>3 DEF NothingStranded, TrialsOf
  <2> DEFINE done == LinkedOf(records, t)
             errors == {d \in done : records[d] \notin Quality}
  <2>1. CASE done = {}
    BY <1>1, <2>1 DEF IInv, NothingStranded
  <2>2. CASE done # {}
    <3>1. c \in Trials /\ TaskOf(c) = t
      BY DEF TrialsOf
    <3>2. CASE c \in DOMAIN records
      <4> DEFINE state == IF records[c] \in Quality THEN "linked_quality_result"
                                                   ELSE "linked_technical_exclusion"
      <4>1. trials'[c] = [state |-> state, result |-> records[c]]
        BY <3>1, <3>2, LinkedTrial
      <4>2. trials'[c].state = state
        <5> HIDE DEF state
        <5> QED
          BY <4>1
      <4> QED
        BY <4>2
    <3>3. CASE c \notin DOMAIN records /\ errors # {}
      <4>1. c \notin LinkedOf(records, TaskOf(c))
        BY <3>3 DEF LinkedOf
      <4>2. trials'[c] = IF trials[c].state \in {"planned", "retry_pending"}
                         THEN [trials[c] EXCEPT !.state = "cancelled_after_technical_error"]
                         ELSE trials[c]
        BY <3>1, <3>3, <4>1 DEF LinkContinuation, AfterLinkTrial
      <4> QED
        BY <3>1, <4>2 DEF IInv, TypeOK
    <3>4. CASE c \notin DOMAIN records /\ errors = {} /\ tasks'[t].failures >= FailureStop
      <4>1. c \notin done /\ tasks'[t] = AfterLinks(records, t, done)
        BY <2>2, <3>4 DEF LinkedOf, LinkContinuation
      <4>2. trials'[c] = IF trials[c].state = "planned"
                         THEN [trials[c] EXCEPT !.state = "cancelled_by_futility"]
                         ELSE trials[c]
        BY <2>2, <3>1, <3>4, <4>1 DEF LinkContinuation, AfterLinkTrial
      <4> QED
        BY <3>1, <4>2 DEF IInv, TypeOK
    <3>5. CASE errors = {} /\ tasks'[t].valid = Repetitions
      <4>1. tasks'[t].valid = Counted(t, Quality)'
        BY <1>6 DEF CountersMatchTrials
      <4>2. CountedSet(trials', t, Quality) = TrialsOf(t)
        BY <3>5, <4>1, CountBound DEF Counted
      <4> QED
        BY <4>2 DEF CountedSet, CountedStates
    <3> QED
      BY <2>2, <3>2, <3>3, <3>4, <3>5, LinkedTask
  <2> QED
    BY <2>1, <2>2
<1> QED
  BY <1>2, <1>4, <1>5, <1>6, <1>8, <1>9 DEF IInv

-----------------------------------------------------------------------------
(* The invariant is inductive                                              *)

LEMMA NextStep == IInv /\ [Next]_vars => IInv'
<1> SUFFICES ASSUME IInv, [Next]_vars PROVE IInv'
  OBVIOUS
<1>1. CASE ClaimNext
  BY <1>1, ClaimStep DEF ClaimNext
<1>2. CASE RecordDispatch
  BY <1>2, DispatchStep DEF RecordDispatch
<1>3. ASSUME NEW tr \in Trials, NEW n \in Numbers, BindRuntime(tr, n)
      PROVE  IInv'
  BY <1>3, BindStep DEF BindRuntime
<1>4. ASSUME NEW tr \in Trials, NEW n \in Numbers, Complete(tr, n)
      PROVE  IInv'
  <2>1. PICK result \in Results, dispatched \in BOOLEAN :
           FinishAttempt(tr, n, result, dispatched, "running")
    BY <1>4 DEF Complete, CompleteAttempt
  <2> QED
    BY <2>1, FinishStep
<1>5. ASSUME NEW tr \in Trials, NEW n \in Numbers, Resolve(tr, n)
      PROVE  IInv'
  <2>1. PICK result \in Results, dispatched \in BOOLEAN :
           FinishAttempt(tr, n, result, dispatched, "paused")
    BY <1>5 DEF Resolve, ResolvePausedAttempt
  <2> QED
    BY <2>1, FinishStep
<1>6. ASSUME NEW tr \in Trials, NEW dispatched \in BOOLEAN,
             RetryPausedAfterInfrastructureInterruption(tr, dispatched)
      PROVE  IInv'
  BY <1>6, InterruptionStep
<1>7. CASE PauseInterrupted
  BY <1>7, PauseStep
<1>8. ASSUME NEW records \in Continuations, LinkContinuation(records)
      PROVE  IInv'
  BY <1>8, LinkStep
<1>9. CASE UNCHANGED vars
  <2>1. TypeOK'
    BY <1>9 DEF IInv, TypeOK, vars
  <2> QED
    BY <1>9, <2>1, SameStates DEF vars, Row
<1> QED
  BY <1>1, <1>2, <1>3, <1>4, <1>5, <1>6, <1>7, <1>8, <1>9 DEF Next

\* The database always satisfies the whole invariant.
THEOREM SchedulerInvariant == Spec => []IInv
BY InitInvariant, NextStep, PTL DEF Spec

\* Every row the database ever holds obeys its schema, counters included.
THEOREM TypeCorrect == Spec => []TypeOK
<1>1. IInv => TypeOK
  BY DEF IInv
<1> QED
  BY <1>1, SchedulerInvariant, PTL

\* No order of claims, pauses, retries and links opens two trials of a task.
THEOREM OneOpenTrialAlways == Spec => []OneOpenTrialPerTask
<1>1. IInv => OneOpenTrialPerTask
  BY DEF IInv
<1> QED
  BY <1>1, SchedulerInvariant, PTL

\* The trial table and the attempt table never disagree.
THEOREM TablesAlwaysAgree == Spec => []TablesAgree
<1>1. IInv => TablesAgree
  BY DEF IInv
<1> QED
  BY <1>1, SchedulerInvariant, PTL

\* The counters of a task are always the number of its counted results.
THEOREM CountersAlwaysMatch == Spec => []CountersMatchTrials
<1>1. IInv => CountersMatchTrials
  BY DEF IInv
<1> QED
  BY <1>1, SchedulerInvariant, PTL

\* A verdict is always the one the recorded results justify.
THEOREM VerdictsAlwaysJustified == Spec => []VerdictJustified
<1>1. IInv => VerdictJustified
  BY DEF IInv
<1> QED
  BY <1>1, SchedulerInvariant, PTL

\* A decided task never has a trial that still waits to run.
THEOREM NothingEverStranded == Spec => []NothingStranded
<1>1. IInv => NothingStranded
  BY DEF IInv
<1> QED
  BY <1>1, SchedulerInvariant, PTL

-----------------------------------------------------------------------------
(* Retries                                                                 *)

\* Nothing is recorded of an attempt that was not claimed.
AbsentIsEmpty ==
    \A tr \in Trials, n \in Numbers : Row(tr, n) = "absent" => attempts[tr][n] = Absent

\* A recorded request marks its attempt, until an operator says otherwise of
\* an interrupted one.
RequestsMark ==
    \A row \in requests :
        /\ Row(row.trial, row.number) # "absent"
        /\ Row(row.trial, row.number) \in {"running", "paused"}
              => attempts[row.trial][row.number].dispatched

RInv == AbsentIsEmpty /\ RequestsMark /\ RetriesAreSafe

\* One trial of RetriesAreSafe.
SafeRetry(tr) == PaidWorkNotRepeated!(tr) /\ FirstUntouched!(tr)

LEMMA SafeRetries == RetriesAreSafe <=> \A tr \in Trials : SafeRetry(tr)
BY DEF RetriesAreSafe, PaidWorkNotRepeated, FirstUntouched, SafeRetry

LEMMA InitRetries == Init => RInv
<1> SUFFICES ASSUME Init PROVE RInv
  OBVIOUS
<1>1. /\ \A tr \in Trials, n \in Numbers : attempts[tr][n] = Absent
      /\ \A tr \in Trials : trials[tr].state = "planned"
      /\ requests = {} /\ 2 \in Numbers
  BY DEF Init, Numbers
<1>2. AbsentIsEmpty /\ RequestsMark
  BY <1>1 DEF AbsentIsEmpty, RequestsMark
<1>3. \A tr \in Trials : SafeRetry(tr)
  BY <1>1 DEF SafeRetry, Row, Absent
<1> QED
  BY <1>2, <1>3, SafeRetries DEF RInv

\* A step that records nothing and sends no trial to its retry.
LEMMA RetriesStay ==
    ASSUME RInv, UNCHANGED <<attempts, requests>>,
           \A tr \in Trials : trials'[tr].state = "retry_pending" => trials[tr].state = "retry_pending"
    PROVE  RInv'
<1>1. AbsentIsEmpty' /\ RequestsMark'
  BY DEF RInv, AbsentIsEmpty, RequestsMark, Row
<1>2. \A tr \in Trials : SafeRetry(tr)'
  BY SafeRetries DEF RInv, SafeRetry, Row
<1>3. RetriesAreSafe'
  BY <1>2 DEF RetriesAreSafe, PaidWorkNotRepeated, FirstUntouched, SafeRetry
<1> QED
  BY <1>1, <1>3 DEF RInv

LEMMA ClaimRetries ==
    ASSUME IInv, RInv, NEW maximum, NEW scope, Claim(maximum, scope)
    PROVE  RInv'
<1> DEFINE claimed == Claimed(maximum, scope)
<1>1. ASSUME NEW tr \in claimed
      PROVE  /\ tr \in Trials /\ trials[tr].state \in {"retry_pending", "planned"}
             /\ Row(tr, NextNumber(tr)) = "absent" /\ trials'[tr].state = "running"
             /\ attempts'[tr] = [attempts[tr] EXCEPT ![NextNumber(tr)] = Fresh]
  <2>1. tr \in Trials /\ trials[tr].state \in {"retry_pending", "planned"}
    BY ClaimedTrials DEF Claimable
  <2>2. Row(tr, NextNumber(tr)) = "absent"
    BY DEF Claim, Row
  <2>3. trials'[tr] = [trials[tr] EXCEPT !.state = "running"]
    BY <2>1 DEF Claim
  <2>4. trials'[tr].state = "running"
    BY <2>1, <2>3 DEF IInv, TypeOK
  <2>5. attempts'[tr] = [attempts[tr] EXCEPT ![NextNumber(tr)] = Fresh]
    BY <2>1 DEF Claim
  <2> QED
    BY <2>1, <2>2, <2>4, <2>5
<1>2. ASSUME NEW tr \in Trials, tr \notin claimed
      PROVE  trials'[tr] = trials[tr] /\ attempts'[tr] = attempts[tr]
  BY <1>2 DEF Claim
<1>3. /\ Fresh.state = "running" /\ Fresh.runtime = NoRuntime
      /\ Absent.state = "absent" /\ Absent.runtime = NoRuntime
  BY DEF Fresh, Absent
<1>4. ASSUME NEW tr \in claimed
      PROVE  /\ NextNumber(tr) \in Numbers
             /\ attempts'[tr][NextNumber(tr)] = Fresh
             /\ \A n \in Numbers \ {NextNumber(tr)} : attempts'[tr][n] = attempts[tr][n]
  <2>1. attempts[tr] \in [Numbers -> AttemptRows]
    BY <1>1 DEF IInv, TypeOK
  <2>2. NextNumber(tr) \in Numbers
    BY DEF NextNumber, Numbers
  <2> QED
    BY <1>1, <2>1, <2>2
<1>5. UNCHANGED requests
  BY DEF Claim
<1>6. AbsentIsEmpty'
  <2> SUFFICES ASSUME NEW tr \in Trials, NEW n \in Numbers, Row(tr, n)' = "absent"
               PROVE  attempts'[tr][n] = Absent
    BY DEF AbsentIsEmpty
  <2>1. CASE tr \notin claimed
    BY <1>2, <2>1 DEF RInv, AbsentIsEmpty, Row
  <2>2. CASE tr \in claimed
    BY <1>3, <1>4, <2>2 DEF RInv, AbsentIsEmpty, Row
  <2> QED
    BY <2>1, <2>2
<1>7. RequestsMark'
  <2> SUFFICES ASSUME NEW row \in requests
               PROVE  attempts'[row.trial][row.number] = attempts[row.trial][row.number]
    BY <1>5 DEF RInv, RequestsMark, Row
  <2>1. row.trial \in Trials /\ row.number \in Numbers
    BY DEF IInv, TypeOK
  <2>2. Row(row.trial, row.number) # "absent"
    BY DEF RInv, RequestsMark
  <2>3. CASE row.trial \in claimed
    <3>1. row.number # NextNumber(row.trial)
      BY <1>1, <2>2, <2>3
    <3> QED
      BY <1>4, <2>1, <2>3, <3>1
  <2> QED
    BY <1>2, <2>1, <2>3
<1>8. ASSUME NEW tr \in Trials
      PROVE  SafeRetry(tr)'
  <2>1. SafeRetry(tr)
    BY SafeRetries DEF RInv
  <2>2. CASE tr \notin claimed
    BY <1>2, <1>5, <2>1, <2>2 DEF SafeRetry, Row
  <2>3. CASE tr \in claimed /\ trials[tr].state = "planned"
    <3>1. NextNumber(tr) = 1 /\ Row(tr, 2) = "absent" /\ 2 \in Numbers
      BY <2>3 DEF NextNumber, IInv, TablesAgree, ActiveStates, Numbers
    <3>2. attempts'[tr][2] = Absent
      BY <1>4, <2>3, <3>1 DEF RInv, AbsentIsEmpty
    <3> QED
      BY <1>1, <1>3, <2>3, <3>2 DEF SafeRetry, Row
  <2>4. CASE tr \in claimed /\ trials[tr].state = "retry_pending"
    <3>1. NextNumber(tr) = 2 /\ 1 \in Numbers /\ 2 \in Numbers
      BY <2>4 DEF NextNumber, Numbers
    <3>2. attempts'[tr][1] = attempts[tr][1] /\ attempts'[tr][2].runtime = NoRuntime
      BY <1>3, <1>4, <2>4, <3>1
    <3> QED
      BY <1>5, <2>1, <2>4, <3>2 DEF SafeRetry
  <2> QED
    BY <1>1, <2>2, <2>3, <2>4
<1>9. RetriesAreSafe'
  BY <1>8 DEF RetriesAreSafe, PaidWorkNotRepeated, FirstUntouched, SafeRetry
<1> QED
  BY <1>6, <1>7, <1>9 DEF RInv

LEMMA DispatchRetries ==
    ASSUME IInv, RInv, NEW tr \in Trials, NEW n \in Numbers, NEW position \in Positions,
           NEW id \in RequestIds \cup {NoId}, MarkProviderDispatch(tr, n, position, id)
    PROVE  RInv'
<1> DEFINE new == [trial |-> tr, number |-> n, position |-> position, id |-> id]
<1>1. attempts \in [Trials -> [Numbers -> AttemptRows]] /\ Row(tr, n) = "running"
      /\ attempts[tr][n] \in AttemptRows
  BY DEF IInv, TypeOK, MarkProviderDispatch, Row
<1>2. /\ attempts'[tr][n] = [attempts[tr][n] EXCEPT !.dispatched = TRUE]
      /\ \A c \in Trials, k \in Numbers : <<c, k>> # <<tr, n>> => attempts'[c][k] = attempts[c][k]
      /\ requests' = requests \cup {new} /\ UNCHANGED trials
  BY <1>1 DEF MarkProviderDispatch
<1>3. /\ attempts'[tr][n].dispatched = TRUE /\ Row(tr, n)' = "running"
      /\ attempts'[tr][n].runtime = attempts[tr][n].runtime
      /\ attempts'[tr][n].error = attempts[tr][n].error
  BY <1>1, <1>2 DEF AttemptRows, Row
<1>4. AbsentIsEmpty'
  <2> SUFFICES ASSUME NEW c \in Trials, NEW k \in Numbers, Row(c, k)' = "absent"
               PROVE  attempts'[c][k] = Absent
    BY DEF AbsentIsEmpty
  <2>1. <<c, k>> # <<tr, n>>
    BY <1>3
  <2>2. attempts'[c][k] = attempts[c][k]
    BY <1>2, <2>1
  <2> QED
    BY <2>2 DEF RInv, AbsentIsEmpty, Row
<1>5. RequestsMark'
  <2> SUFFICES ASSUME NEW row \in requests'
               PROVE  RequestsMark!(row)'
    BY DEF RequestsMark
  <2>1. CASE row = new
    BY <1>3, <2>1
  <2>2. CASE row \in requests
    <3>1. row.trial \in Trials /\ row.number \in Numbers /\ RequestsMark!(row)
      BY <2>2 DEF IInv, TypeOK, RInv, RequestsMark
    <3>2. CASE <<row.trial, row.number>> = <<tr, n>>
      BY <1>3, <3>2
    <3>3. CASE <<row.trial, row.number>> # <<tr, n>>
      BY <1>2, <3>1, <3>3 DEF Row
    <3> QED
      BY <3>2, <3>3
  <2> QED
    BY <1>2, <2>1, <2>2
<1>6. n = 1 => Row(tr, 2) = "absent" /\ trials[tr].state = "running"
  BY <1>1, OpenRow
<1>7. ASSUME NEW c \in Trials
      PROVE  SafeRetry(c)'
  <2>1. SafeRetry(c)
    BY SafeRetries DEF RInv
  <2>2. CASE c # tr
    <3>1. attempts'[c][1] = attempts[c][1] /\ attempts'[c][2] = attempts[c][2]
      BY <1>2, <2>2 DEF Numbers
    <3>2. \A row \in requests' : row.trial = c => row \in requests
      BY <1>2, <2>2
    <3> QED
      BY <1>2, <2>1, <3>1, <3>2 DEF SafeRetry, Row
  <2>3. CASE c = tr /\ n = 1
    <3>1. Row(tr, 2)' = "absent" /\ attempts'[tr][2] = attempts[tr][2] /\ attempts[tr][2] = Absent
      BY <1>2, <1>6, <2>3 DEF Numbers, Row, RInv, AbsentIsEmpty
    <3> QED
      BY <1>2, <1>6, <2>3, <3>1 DEF SafeRetry, Absent
  <2>4. CASE c = tr /\ n = 2
    <3>1. attempts'[tr][1] = attempts[tr][1] /\ Row(tr, 2) # "absent"
      BY <1>1, <1>2, <2>4 DEF Numbers
    <3>2. \A row \in requests' : row.trial = tr => row \in requests \/ row.number = 2
      BY <1>2, <2>4
    <3> QED
      BY <1>3, <2>1, <2>4, <3>1, <3>2 DEF SafeRetry
  <2> QED
    BY <2>2, <2>3, <2>4 DEF Numbers
<1>8. RetriesAreSafe'
  BY <1>7 DEF RetriesAreSafe, PaidWorkNotRepeated, FirstUntouched, SafeRetry
<1> QED
  BY <1>4, <1>5, <1>8 DEF RInv

LEMMA BindRetries ==
    ASSUME IInv, RInv, NEW tr \in Trials, NEW n \in Numbers, NEW runtime \in Runtimes,
           MarkAttemptRuntime(tr, n, runtime)
    PROVE  RInv'
<1>1. attempts \in [Trials -> [Numbers -> AttemptRows]] /\ Row(tr, n) = "running"
      /\ attempts[tr][n] \in AttemptRows
  BY DEF IInv, TypeOK, MarkAttemptRuntime, Row
<1>2. /\ attempts'[tr][n] = [attempts[tr][n] EXCEPT !.runtime = runtime]
      /\ \A c \in Trials, k \in Numbers : <<c, k>> # <<tr, n>> => attempts'[c][k] = attempts[c][k]
      /\ UNCHANGED <<requests, trials>>
  BY <1>1 DEF MarkAttemptRuntime
<1>3. /\ attempts'[tr][n].dispatched = attempts[tr][n].dispatched /\ Row(tr, n)' = "running"
      /\ attempts'[tr][n].runtime = runtime
      /\ attempts'[tr][n].error = attempts[tr][n].error
  BY <1>1, <1>2 DEF AttemptRows, Row
<1>4. AbsentIsEmpty'
  <2> SUFFICES ASSUME NEW c \in Trials, NEW k \in Numbers, Row(c, k)' = "absent"
               PROVE  attempts'[c][k] = Absent
    BY DEF AbsentIsEmpty
  <2>1. <<c, k>> # <<tr, n>>
    BY <1>3
  <2>2. attempts'[c][k] = attempts[c][k]
    BY <1>2, <2>1
  <2> QED
    BY <2>2 DEF RInv, AbsentIsEmpty, Row
<1>5. RequestsMark'
  <2> SUFFICES ASSUME NEW row \in requests
               PROVE  RequestsMark!(row)'
    BY <1>2 DEF RequestsMark
  <2>1. row.trial \in Trials /\ row.number \in Numbers /\ RequestsMark!(row)
    BY DEF IInv, TypeOK, RInv, RequestsMark
  <2>2. CASE <<row.trial, row.number>> = <<tr, n>>
    BY <1>1, <1>3, <2>1, <2>2
  <2>3. CASE <<row.trial, row.number>> # <<tr, n>>
    BY <1>2, <2>1, <2>3 DEF Row
  <2> QED
    BY <2>2, <2>3
<1>6. n = 1 => Row(tr, 2) = "absent" /\ trials[tr].state = "running"
  BY <1>1, OpenRow
<1>7. ASSUME NEW c \in Trials
      PROVE  SafeRetry(c)'
  <2>1. SafeRetry(c)
    BY SafeRetries DEF RInv
  <2>2. CASE c # tr
    <3>1. attempts'[c][1] = attempts[c][1] /\ attempts'[c][2] = attempts[c][2]
      BY <1>2, <2>2 DEF Numbers
    <3> QED
      BY <1>2, <2>1, <3>1 DEF SafeRetry, Row
  <2>3. CASE c = tr /\ n = 1
    <3>1. Row(tr, 2)' = "absent" /\ attempts'[tr][2] = attempts[tr][2] /\ attempts[tr][2] = Absent
      BY <1>2, <1>6, <2>3 DEF Numbers, Row, RInv, AbsentIsEmpty
    <3> QED
      BY <1>2, <1>6, <2>3, <3>1 DEF SafeRetry, Absent
  <2>4. CASE c = tr /\ n = 2
    <3>1. attempts'[tr][1] = attempts[tr][1] /\ Row(tr, 2) # "absent"
      BY <1>1, <1>2, <2>4 DEF Numbers
    <3>2. /\ attempts[tr][2].runtime # NoRuntime => attempts[tr][2].runtime = runtime
          /\ attempts[tr][2].runtime = NoRuntime => FreshRetryRuntime(tr, runtime)
      BY <2>4 DEF MarkAttemptRuntime
    <3> QED
      BY <1>2, <1>3, <2>1, <2>4, <3>1, <3>2 DEF SafeRetry, FreshRetryRuntime
  <2> QED
    BY <2>2, <2>3, <2>4 DEF Numbers
<1>8. RetriesAreSafe'
  BY <1>7 DEF RetriesAreSafe, PaidWorkNotRepeated, FirstUntouched, SafeRetry
<1> QED
  BY <1>4, <1>5, <1>8 DEF RInv

\* Finishing an attempt records how it ended and keeps where it ran.
LEMMA FinishedFields ==
    ASSUME IInv, NEW tr \in Trials, NEW n \in Numbers, NEW dispatched \in BOOLEAN,
           NEW error \in AttemptErrors, attempts' = Finished(tr, n, dispatched, error)
    PROVE  /\ Row(tr, n)' = "completed"
           /\ attempts'[tr][n].dispatched = dispatched
           /\ attempts'[tr][n].error = error
           /\ attempts'[tr][n].runtime = attempts[tr][n].runtime
           /\ \A c \in Trials, k \in Numbers : <<c, k>> # <<tr, n>> => attempts'[c][k] = attempts[c][k]
<1> DEFINE done == [attempts[tr][n] EXCEPT !.state = "completed"]
           marked == [done EXCEPT !.dispatched = dispatched]
           row == [marked EXCEPT !.error = error]
<1>1. attempts \in [Trials -> [Numbers -> AttemptRows]] /\ attempts[tr][n] \in AttemptRows
  BY DEF IInv, TypeOK
<1>2. done \in AttemptRows /\ done.state = "completed" /\ done.runtime = attempts[tr][n].runtime
  BY <1>1 DEF AttemptRows
<1>3. marked \in AttemptRows /\ marked.state = "completed" /\ marked.dispatched = dispatched
      /\ marked.runtime = attempts[tr][n].runtime
  <2> HIDE DEF done
  <2> QED
    BY <1>2 DEF AttemptRows
<1>4. row.state = "completed" /\ row.dispatched = dispatched /\ row.error = error
      /\ row.runtime = attempts[tr][n].runtime
  <2> HIDE DEF marked
  <2> QED
    BY <1>3 DEF AttemptRows
<1>5. attempts' = [attempts EXCEPT ![tr] = [attempts[tr] EXCEPT ![n] = row]]
  BY <1>1 DEF Finished
<1> HIDE DEF row
<1>6. attempts'[tr][n] = row
      /\ \A c \in Trials, k \in Numbers : <<c, k>> # <<tr, n>> => attempts'[c][k] = attempts[c][k]
  BY <1>1, <1>5
<1> QED
  BY <1>4, <1>6 DEF Row

\* What finishing an attempt leaves of the invariant: only its own trial can
\* be sent to a retry, and that must have been safe.
LEMMA FinishRetries ==
    ASSUME IInv, RInv, NEW tr \in Trials, NEW n \in Numbers, NEW dispatched \in BOOLEAN,
           NEW error \in AttemptErrors, attempts' = Finished(tr, n, dispatched, error),
           Row(tr, n) \in {"running", "paused"}, UNCHANGED requests,
           \A c \in Trials \ {tr} : trials'[c].state = "retry_pending" => trials[c].state = "retry_pending",
           trials'[tr].state = "retry_pending" =>
              /\ n = 1
              /\ \/ error = Interruption
                 \/ /\ error \in PreparationErrors /\ ~dispatched
                    /\ attempts[tr][1].dispatched => dispatched
    PROVE  RInv'
<1>1. /\ Row(tr, n)' = "completed" /\ attempts'[tr][n].dispatched = dispatched
      /\ attempts'[tr][n].error = error /\ attempts'[tr][n].runtime = attempts[tr][n].runtime
      /\ \A c \in Trials, k \in Numbers : <<c, k>> # <<tr, n>> => attempts'[c][k] = attempts[c][k]
  BY FinishedFields
<1>2. AbsentIsEmpty'
  BY <1>1 DEF RInv, AbsentIsEmpty, Row
<1>3. RequestsMark'
  <2> SUFFICES ASSUME NEW row \in requests
               PROVE  RequestsMark!(row)'
    BY DEF RequestsMark
  <2>1. row.trial \in Trials /\ row.number \in Numbers /\ RequestsMark!(row)
    BY DEF IInv, TypeOK, RInv, RequestsMark
  <2>2. CASE <<row.trial, row.number>> = <<tr, n>>
    BY <1>1, <2>2
  <2>3. CASE <<row.trial, row.number>> # <<tr, n>>
    BY <1>1, <2>1, <2>3 DEF Row
  <2> QED
    BY <2>2, <2>3
<1>4. n = 1 => Row(tr, 2) = "absent"
  BY OpenRow
<1>5. ASSUME NEW c \in Trials
      PROVE  SafeRetry(c)'
  <2>1. SafeRetry(c)
    BY SafeRetries DEF RInv
  <2>2. CASE c # tr
    <3>1. attempts'[c][1] = attempts[c][1] /\ attempts'[c][2] = attempts[c][2]
      BY <1>1, <2>2 DEF Numbers
    <3> QED
      BY <2>1, <2>2, <3>1 DEF SafeRetry, Row
  <2>3. CASE c = tr /\ n = 1
    <3>1. Row(tr, 2)' = "absent" /\ attempts'[tr][2] = attempts[tr][2] /\ attempts[tr][2] = Absent
      BY <1>1, <1>4, <2>3 DEF Numbers, Row, RInv, AbsentIsEmpty
    <3>2. attempts'[tr][2].runtime = NoRuntime
      BY <3>1 DEF Absent
    <3>3. ~attempts[tr][1].dispatched => \A row \in requests : row.trial = tr => row.number = 2
      BY <2>3 DEF RInv, RequestsMark, IInv, TypeOK, Numbers
    <3> QED
      BY <1>1, <2>3, <3>1, <3>2, <3>3 DEF SafeRetry
  <2>4. CASE c = tr /\ n = 2
    <3>1. attempts'[tr][1] = attempts[tr][1] /\ Row(tr, 2) # "absent"
      BY <1>1, <2>4 DEF Numbers
    <3> QED
      BY <1>1, <2>1, <2>4, <3>1 DEF SafeRetry
  <2> QED
    BY <2>2, <2>3, <2>4 DEF Numbers
<1>6. RetriesAreSafe'
  BY <1>5 DEF RetriesAreSafe, PaidWorkNotRepeated, FirstUntouched, SafeRetry
<1> QED
  BY <1>2, <1>3, <1>6 DEF RInv

LEMMA PauseRetries ==
    ASSUME IInv, RInv, PauseInterrupted
    PROVE  RInv'
<1>1. ASSUME NEW tr \in Trials, NEW n \in Numbers
      PROVE  attempts'[tr][n] = IF Row(tr, n) = "running"
                                THEN [attempts[tr][n] EXCEPT !.state = "paused"] ELSE attempts[tr][n]
  BY DEF PauseInterrupted, Row
<1>2. ASSUME NEW tr \in Trials, NEW n \in Numbers
      PROVE  /\ Row(tr, n)' = IF Row(tr, n) = "running" THEN "paused" ELSE Row(tr, n)
             /\ attempts'[tr][n].dispatched = attempts[tr][n].dispatched
             /\ attempts'[tr][n].runtime = attempts[tr][n].runtime
             /\ attempts'[tr][n].error = attempts[tr][n].error
  <2>1. attempts[tr][n] \in AttemptRows
    BY DEF IInv, TypeOK
  <2> QED
    BY <1>1, <2>1 DEF Row, AttemptRows
<1>3. UNCHANGED requests
      /\ \A tr \in Trials : trials'[tr].state = "retry_pending" => trials[tr].state = "retry_pending"
  BY DEF PauseInterrupted, IInv, TypeOK
<1>4. AbsentIsEmpty'
  BY <1>1, <1>2 DEF RInv, AbsentIsEmpty
<1>5. RequestsMark'
  <2> SUFFICES ASSUME NEW row \in requests
               PROVE  RequestsMark!(row)'
    BY <1>3 DEF RequestsMark
  <2>1. row.trial \in Trials /\ row.number \in Numbers /\ RequestsMark!(row)
    BY DEF IInv, TypeOK, RInv, RequestsMark
  <2> QED
    BY <1>2, <2>1
<1>6. \A tr \in Trials : SafeRetry(tr)'
  <2> TAKE tr \in Trials
  <2>1. SafeRetry(tr) /\ 1 \in Numbers /\ 2 \in Numbers
    BY SafeRetries DEF RInv, Numbers
  <2>2. Row(tr, 2)' # "absent" => Row(tr, 2) # "absent"
    BY <1>2, <2>1
  <2> QED
    BY <1>2, <1>3, <2>1, <2>2 DEF SafeRetry
<1>7. RetriesAreSafe'
  BY <1>6 DEF RetriesAreSafe, PaidWorkNotRepeated, FirstUntouched, SafeRetry
<1> QED
  BY <1>4, <1>5, <1>7 DEF RInv

LEMMA NextRetries == IInv /\ RInv /\ [Next]_vars => RInv'
<1> SUFFICES ASSUME IInv, RInv, [Next]_vars PROVE RInv'
  OBVIOUS
<1>1. CASE ClaimNext
  BY <1>1, ClaimRetries DEF ClaimNext
<1>2. CASE RecordDispatch
  BY <1>2, DispatchRetries DEF RecordDispatch
<1>3. ASSUME NEW tr \in Trials, NEW n \in Numbers, BindRuntime(tr, n)
      PROVE  RInv'
  BY <1>3, BindRetries DEF BindRuntime
<1>4. ASSUME NEW tr \in Trials, NEW n \in Numbers, NEW result \in Results, NEW dispatched \in BOOLEAN,
             NEW from \in {"running", "paused"}, FinishAttempt(tr, n, result, dispatched, from)
      PROVE  RInv'
  <2>1. /\ Row(tr, n) \in {"running", "paused"} /\ UNCHANGED requests
        /\ attempts[tr][n].dispatched => dispatched
        /\ result \in PreparationErrors => ~dispatched
    BY <1>4 DEF FinishAttempt, MayFinish, Row
  <2>2. TaskOf(tr) \in Tasks /\ tasks[TaskOf(tr)].state = "eligible_for_screening"
    BY <2>1, OpenRow
  <2>3. CASE result \in PreparationErrors /\ n = 1 /\ trials' = [trials EXCEPT ![tr].state = "retry_pending"]
    <3>1. result \notin Quality /\ result \in AttemptErrors
      BY <2>3, ResultAssumption DEF Quality, AttemptErrors
    <3>2. attempts' = Finished(tr, n, dispatched, result)
      BY <1>4, <3>1 DEF FinishAttempt
    <3>3. \A c \in Trials \ {tr} : trials'[c] = trials[c]
      BY <2>3 DEF IInv, TypeOK
    <3> QED
      BY <2>1, <2>3, <3>1, <3>2, <3>3, FinishRetries
  <2>4. CASE result \in Quality /\ SettleQuality(tr, result)
    <3>1. /\ attempts' = Finished(tr, n, dispatched, NoError) /\ NoError \in AttemptErrors
      BY <1>4, <2>4 DEF FinishAttempt, AttemptErrors
    <3>2. /\ trials'[tr] = [state |-> "completed", result |-> result]
          /\ \A c \in Trials \ {tr} : trials'[c] = trials[c] \/ trials'[c].state = "cancelled_by_futility"
      BY <2>2, <2>4, QualityEffect
    <3>3. trials'[tr].state # "retry_pending"
          /\ \A c \in Trials \ {tr} : trials'[c].state = "retry_pending" => trials[c].state = "retry_pending"
      BY <3>2
    <3> QED
      BY <2>1, <3>1, <3>3, FinishRetries
  <2>5. CASE result \notin Quality /\ SettleTechnical(tr, result)
    <3>1. attempts' = Finished(tr, n, dispatched, result) /\ result \in AttemptErrors
      BY <1>4, <2>5 DEF FinishAttempt, AttemptErrors, Results
    <3>2. /\ trials'[tr].state # "retry_pending"
          /\ \A c \in Trials \ {tr} : trials'[c].state = "retry_pending" => trials[c].state = "retry_pending"
      BY <2>5 DEF SettleTechnical, Cancel, IInv, TypeOK
    <3> QED
      BY <2>1, <3>1, <3>2, FinishRetries
  <2> QED
    BY <1>4, <2>3, <2>4, <2>5 DEF FinishAttempt
<1>5. ASSUME NEW tr \in Trials, NEW dispatched \in BOOLEAN,
             RetryPausedAfterInfrastructureInterruption(tr, dispatched)
      PROVE  RInv'
  <2>1. /\ attempts' = Finished(tr, 1, dispatched, Interruption) /\ Interruption \in AttemptErrors
        /\ Row(tr, 1) = "paused" /\ UNCHANGED requests /\ 1 \in Numbers
        /\ trials' = [trials EXCEPT ![tr].state = "retry_pending"]
    BY <1>5 DEF RetryPausedAfterInfrastructureInterruption, Row, AttemptErrors, Numbers
  <2>2. \A c \in Trials \ {tr} : trials'[c] = trials[c]
    BY <2>1 DEF IInv, TypeOK
  <2> QED
    BY <2>1, <2>2, FinishRetries
<1>6. CASE PauseInterrupted
  BY <1>6, PauseRetries
<1>7. ASSUME NEW records \in Continuations, LinkContinuation(records)
      PROVE  RInv'
  <2>1. \A tr \in Trials : trials'[tr].state = "retry_pending" => trials[tr].state = "retry_pending"
    <3> TAKE tr \in Trials
    <3>1. CASE tr \in DOMAIN records
      <4> DEFINE state == IF records[tr] \in Quality THEN "linked_quality_result"
                                                     ELSE "linked_technical_exclusion"
      <4>1. trials'[tr] = [state |-> state, result |-> records[tr]]
        BY <1>7, <3>1, LinkedTrial
      <4>2. state # "retry_pending"
        OBVIOUS
      <4> HIDE DEF state
      <4> QED
        BY <4>1, <4>2
    <3>2. CASE tr \notin DOMAIN records
      BY <1>7, <3>2, LinkedTrial DEF CancelledStates
    <3> QED
      BY <3>1, <3>2
  <2> QED
    BY <1>7, <2>1, RetriesStay DEF LinkContinuation
<1>8. CASE UNCHANGED vars
  BY <1>8, RetriesStay DEF vars
<1> QED
  BY <1>1, <1>2, <1>3, <1>4, <1>5, <1>6, <1>7, <1>8
     DEF Next, Complete, CompleteAttempt, Resolve, ResolvePausedAttempt

\* No order of claims, dispatches, pauses and operator decisions runs an
\* attempt again that was paid for, other than one whose host was taken away,
\* or in a container that the first attempt has touched.
THEOREM RetriesAlwaysSafe == Spec => []RetriesAreSafe
<1>1. RInv => RetriesAreSafe
  BY DEF RInv
<1> QED
  BY <1>1, InitRetries, NextRetries, SchedulerInvariant, PTL DEF Spec

-----------------------------------------------------------------------------
(* History                                                                 *)

\* What a step may do to the rows of the attempt table.
AttemptsKept ==
    \A tr \in Trials, n \in Numbers :
        /\ Row(tr, n) = "completed" => attempts'[tr][n] = attempts[tr][n]
        /\ attempts[tr][n].runtime # NoRuntime
              => attempts'[tr][n].runtime = attempts[tr][n].runtime

TrialsKept ==
    \A tr \in Trials : trials[tr].state \notin ActiveStates \cup {"planned"}
                          => trials'[tr] = trials[tr]

TasksKept == \A t \in Tasks : tasks[t].state # "eligible_for_screening" => tasks'[t] = tasks[t]

\* A finished attempt was open, and so was its trial and its task.
LEMMA FinishHistory ==
    ASSUME IInv, NEW tr \in Trials, NEW n \in Numbers, NEW dispatched \in BOOLEAN,
           NEW error \in AttemptErrors, attempts' = Finished(tr, n, dispatched, error),
           Row(tr, n) \in {"running", "paused"}
    PROVE  AttemptsKept
<1>1. /\ attempts'[tr][n].runtime = attempts[tr][n].runtime
      /\ \A c \in Trials, k \in Numbers : <<c, k>> # <<tr, n>> => attempts'[c][k] = attempts[c][k]
  BY FinishedFields
<1> SUFFICES ASSUME NEW c \in Trials, NEW k \in Numbers
             PROVE  AttemptsKept!(c, k)
  BY DEF AttemptsKept
<1>2. CASE <<c, k>> = <<tr, n>>
  BY <1>1, <1>2
<1>3. CASE <<c, k>> # <<tr, n>>
  BY <1>1, <1>3
<1> QED
  BY <1>2, <1>3

LEMMA NextHistory == IInv /\ RInv /\ [Next]_vars => HistoryKept
<1> SUFFICES ASSUME IInv, RInv, [Next]_vars PROVE HistoryKept
  OBVIOUS
<1>0. ASSUME TasksKept, TrialsKept, AttemptsKept, requests \subseteq requests'
      PROVE  HistoryKept
  BY <1>0 DEF HistoryKept, TasksKept, TrialsKept, AttemptsKept
<1>1. ASSUME NEW maximum, NEW scope, Claim(maximum, scope)
      PROVE  HistoryKept
  <2> DEFINE claimed == Claimed(maximum, scope)
  <2>1. TasksKept /\ requests \subseteq requests'
    BY <1>1 DEF Claim, TasksKept
  <2>2. ASSUME NEW tr \in claimed
        PROVE  /\ tr \in Trials /\ trials[tr].state \in {"retry_pending", "planned"}
               /\ Row(tr, NextNumber(tr)) = "absent"
    BY <1>1, ClaimedTrials DEF Claimable, Claim, Row
  <2>3. ASSUME NEW tr \in Trials, tr \notin claimed
        PROVE  trials'[tr] = trials[tr] /\ attempts'[tr] = attempts[tr]
    BY <1>1, <2>3 DEF Claim
  <2>4. TrialsKept
    BY <2>2, <2>3 DEF TrialsKept, ActiveStates
  <2>5. AttemptsKept
    <3> SUFFICES ASSUME NEW tr \in Trials, NEW n \in Numbers
                 PROVE  AttemptsKept!(tr, n)
      BY DEF AttemptsKept
    <3>1. CASE tr \in claimed /\ n = NextNumber(tr)
      <4>1. attempts[tr][n] = Absent
        BY <2>2, <3>1 DEF RInv, AbsentIsEmpty
      <4> QED
        BY <2>2, <3>1, <4>1 DEF Absent
    <3>2. CASE tr \in claimed /\ n # NextNumber(tr)
      <4>1. attempts'[tr] = [attempts[tr] EXCEPT ![NextNumber(tr)] = Fresh]
        BY <1>1, <3>2 DEF Claim
      <4>2. attempts[tr] \in [Numbers -> AttemptRows]
        BY DEF IInv, TypeOK
      <4> QED
        BY <3>2, <4>1, <4>2
    <3>3. CASE tr \notin claimed
      BY <2>3, <3>3
    <3> QED
      BY <3>1, <3>2, <3>3
  <2> QED
    BY <1>0, <2>1, <2>4, <2>5
<1>2. ASSUME NEW tr \in Trials, NEW n \in Numbers, NEW position \in Positions,
             NEW id \in RequestIds \cup {NoId}, MarkProviderDispatch(tr, n, position, id)
      PROVE  HistoryKept
  <2>1. attempts \in [Trials -> [Numbers -> AttemptRows]] /\ attempts[tr][n] \in AttemptRows
        /\ Row(tr, n) = "running"
    BY <1>2 DEF IInv, TypeOK, MarkProviderDispatch, Row
  <2>2. /\ attempts'[tr][n] = [attempts[tr][n] EXCEPT !.dispatched = TRUE]
        /\ \A c \in Trials, k \in Numbers : <<c, k>> # <<tr, n>> => attempts'[c][k] = attempts[c][k]
    BY <1>2, <2>1 DEF MarkProviderDispatch
  <2>3. attempts'[tr][n].runtime = attempts[tr][n].runtime
    BY <2>1, <2>2 DEF AttemptRows
  <2>4. AttemptsKept
    <3> SUFFICES ASSUME NEW c \in Trials, NEW k \in Numbers
                 PROVE  AttemptsKept!(c, k)
      BY DEF AttemptsKept
    <3>1. CASE <<c, k>> = <<tr, n>>
      BY <2>1, <2>3, <3>1
    <3>2. CASE <<c, k>> # <<tr, n>>
      BY <2>2, <3>2
    <3> QED
      BY <3>1, <3>2
  <2>5. TasksKept /\ TrialsKept /\ requests \subseteq requests'
    BY <1>2 DEF MarkProviderDispatch, TasksKept, TrialsKept
  <2> QED
    BY <1>0, <2>4, <2>5
<1>3. ASSUME NEW tr \in Trials, NEW n \in Numbers, NEW runtime \in Runtimes,
             MarkAttemptRuntime(tr, n, runtime)
      PROVE  HistoryKept
  <2>1. attempts \in [Trials -> [Numbers -> AttemptRows]] /\ attempts[tr][n] \in AttemptRows
        /\ Row(tr, n) = "running" /\ (attempts[tr][n].runtime # NoRuntime => attempts[tr][n].runtime = runtime)
    BY <1>3 DEF IInv, TypeOK, MarkAttemptRuntime, Row
  <2>2. /\ attempts'[tr][n] = [attempts[tr][n] EXCEPT !.runtime = runtime]
        /\ \A c \in Trials, k \in Numbers : <<c, k>> # <<tr, n>> => attempts'[c][k] = attempts[c][k]
    BY <1>3, <2>1 DEF MarkAttemptRuntime
  <2>3. attempts'[tr][n].runtime = runtime
    BY <2>1, <2>2 DEF AttemptRows
  <2>4. AttemptsKept
    <3> SUFFICES ASSUME NEW c \in Trials, NEW k \in Numbers
                 PROVE  AttemptsKept!(c, k)
      BY DEF AttemptsKept
    <3>1. CASE <<c, k>> = <<tr, n>>
      BY <2>1, <2>3, <3>1
    <3>2. CASE <<c, k>> # <<tr, n>>
      BY <2>2, <3>2
    <3> QED
      BY <3>1, <3>2
  <2>5. TasksKept /\ TrialsKept /\ requests \subseteq requests'
    BY <1>3 DEF MarkAttemptRuntime, TasksKept, TrialsKept
  <2> QED
    BY <1>0, <2>4, <2>5
<1>4. ASSUME NEW tr \in Trials, NEW n \in Numbers, NEW result \in Results, NEW dispatched \in BOOLEAN,
             NEW from \in {"running", "paused"}, FinishAttempt(tr, n, result, dispatched, from)
      PROVE  HistoryKept
  <2>1. Row(tr, n) \in {"running", "paused"} /\ UNCHANGED requests
    BY <1>4 DEF FinishAttempt, MayFinish, Row
  <2>2. /\ TaskOf(tr) \in Tasks /\ tasks[TaskOf(tr)].state = "eligible_for_screening"
        /\ trials[tr].state \in ActiveStates
    BY <2>1, OpenRow DEF ActiveStates
  <2>3. CASE result \in PreparationErrors /\ n = 1 /\ UNCHANGED tasks
             /\ trials' = [trials EXCEPT ![tr].state = "retry_pending"]
    <3>1. result \notin Quality /\ result \in AttemptErrors
      BY <2>3, ResultAssumption DEF Quality, AttemptErrors
    <3>2. attempts' = Finished(tr, n, dispatched, result)
      BY <1>4, <3>1 DEF FinishAttempt
    <3>3. AttemptsKept
      BY <2>1, <3>1, <3>2, FinishHistory
    <3>4. TrialsKept
      BY <2>2, <2>3 DEF TrialsKept, IInv, TypeOK
    <3>5. TasksKept
      BY <2>3 DEF TasksKept
    <3> QED
      BY <1>0, <2>1, <3>3, <3>4, <3>5
  <2>4. CASE result \in Quality /\ SettleQuality(tr, result)
    <3>1. attempts' = Finished(tr, n, dispatched, NoError) /\ NoError \in AttemptErrors
      BY <1>4, <2>4 DEF FinishAttempt, AttemptErrors
    <3>2. /\ \A u \in Tasks \ {TaskOf(tr)} : tasks'[u] = tasks[u]
          /\ \A c \in Trials \ {tr} : trials'[c] = trials[c] \/ trials[c].state = "planned"
      BY <2>2, <2>4, QualityEffect
    <3>3. AttemptsKept
      BY <2>1, <3>1, FinishHistory
    <3>4. TrialsKept /\ TasksKept
      BY <2>2, <3>2 DEF TrialsKept, TasksKept
    <3> QED
      BY <1>0, <2>1, <3>3, <3>4
  <2>5. CASE result \notin Quality /\ SettleTechnical(tr, result)
    <3>1. attempts' = Finished(tr, n, dispatched, result) /\ result \in AttemptErrors
      BY <1>4, <2>5 DEF FinishAttempt, AttemptErrors, Results
    <3>2. TasksKept
      BY <2>2, <2>5 DEF SettleTechnical, TasksKept, IInv, TypeOK
    <3>3. TrialsKept
      BY <2>2, <2>5 DEF SettleTechnical, Cancel, TrialsKept, ActiveStates, IInv, TypeOK
    <3>4. AttemptsKept
      BY <2>1, <3>1, FinishHistory
    <3> QED
      BY <1>0, <2>1, <3>2, <3>3, <3>4
  <2> QED
    BY <1>4, <2>3, <2>4, <2>5 DEF FinishAttempt
<1>5. ASSUME NEW tr \in Trials, NEW dispatched \in BOOLEAN,
             RetryPausedAfterInfrastructureInterruption(tr, dispatched)
      PROVE  HistoryKept
  <2>1. /\ attempts' = Finished(tr, 1, dispatched, Interruption) /\ Interruption \in AttemptErrors
        /\ Row(tr, 1) = "paused" /\ UNCHANGED <<tasks, requests>> /\ 1 \in Numbers
        /\ trials' = [trials EXCEPT ![tr].state = "retry_pending"] /\ trials[tr].state = "paused"
    BY <1>5 DEF RetryPausedAfterInfrastructureInterruption, Row, AttemptErrors, Numbers
  <2>2. AttemptsKept
    BY <2>1, FinishHistory
  <2>3. TrialsKept /\ TasksKept
    BY <2>1 DEF TrialsKept, TasksKept, ActiveStates, IInv, TypeOK
  <2> QED
    BY <1>0, <2>1, <2>2, <2>3
<1>6. CASE PauseInterrupted
  <2>1. AttemptsKept
    <3> SUFFICES ASSUME NEW tr \in Trials, NEW n \in Numbers
                 PROVE  AttemptsKept!(tr, n)
      BY DEF AttemptsKept
    <3>1. attempts'[tr][n] = IF Row(tr, n) = "running"
                             THEN [attempts[tr][n] EXCEPT !.state = "paused"] ELSE attempts[tr][n]
      BY <1>6 DEF PauseInterrupted, Row
    <3>2. attempts[tr][n] \in AttemptRows
      BY DEF IInv, TypeOK
    <3> QED
      BY <3>1, <3>2 DEF AttemptRows
  <2>2. TrialsKept
    <3> SUFFICES ASSUME NEW tr \in Trials, trials[tr].state \notin ActiveStates \cup {"planned"}
                 PROVE  trials'[tr] = trials[tr]
      BY DEF TrialsKept
    <3>1. \A n \in Numbers : Row(tr, n) # "running"
      BY OpenRow DEF ActiveStates
    <3> QED
      BY <1>6, <3>1 DEF PauseInterrupted, Row
  <2>3. TasksKept /\ UNCHANGED requests
    BY <1>6 DEF PauseInterrupted, TasksKept
  <2> QED
    BY <1>0, <2>1, <2>2, <2>3
<1>7. ASSUME NEW records \in Continuations, LinkContinuation(records)
      PROVE  HistoryKept
  <2>1. TasksKept
    <3> SUFFICES ASSUME NEW t \in Tasks, tasks[t].state # "eligible_for_screening"
                 PROVE  tasks'[t] = tasks[t]
      BY DEF TasksKept
    <3>1. LinkedOf(records, t) = {}
      BY <1>7, LinkedTask
    <3> QED
      BY <1>7, <3>1 DEF LinkContinuation
  <2>2. TrialsKept
    BY <1>7, LinkedTrial DEF TrialsKept
  <2>3. AttemptsKept /\ UNCHANGED requests
    BY <1>7 DEF LinkContinuation, AttemptsKept
  <2> QED
    BY <1>0, <2>1, <2>2, <2>3
<1>8. CASE UNCHANGED vars
  BY <1>8 DEF vars, HistoryKept
<1> QED
  BY <1>1, <1>2, <1>3, <1>4, <1>5, <1>6, <1>7, <1>8
     DEF Next, Complete, CompleteAttempt, Resolve, ResolvePausedAttempt, ClaimNext, RecordDispatch,
         BindRuntime

\* No step revises what the database holds of the past: a verdict, a settled
\* trial, a completed attempt, a bound runtime and a recorded request are final.
THEOREM HistoryAlwaysKept == Spec => HistoryIsKept
<1>1. IInv /\ RInv /\ [Next]_vars => [HistoryKept]_vars
  BY NextHistory
<1>2. Spec => []RInv
  BY InitRetries, NextRetries, SchedulerInvariant, PTL DEF Spec
<1> QED
  BY <1>1, <1>2, SchedulerInvariant, PTL DEF Spec, HistoryIsKept

-----------------------------------------------------------------------------
(* The eligibility gate                                                    *)

SettledStates == CountedStates \cup ExcludedStates
ErrorResults == PreparationErrors \cup TechnicalErrors

\* A recorded result is of the kind its trial's state says, and only a link
\* makes linked trials.
ResultsFit ==
    \A tr \in Trials :
        /\ trials[tr].state \in CountedStates => trials[tr].result \in Quality
        /\ trials[tr].state \in ExcludedStates => trials[tr].result \in ErrorResults
        /\ ~linked => trials[tr].state \notin {"linked_quality_result", "linked_technical_exclusion"}

\* The gate's view of one task.
MappedRow(t) ==
    [r \in 1 .. Repetitions |-> IF trials[<<t, r>>].state \in SettledStates
                                THEN trials[<<t, r>>].result ELSE NoResult]
MappedVerdict(t) == IF tasks[t].state = "eligible_for_screening" THEN "open" ELSE tasks[t].state

\* The repetitions of a set of a task's trials are as many as the trials.
LEMMA ProjectedCount ==
    ASSUME NEW t \in Tasks, NEW S, S \subseteq TrialsOf(t)
    PROVE  LET R == {r \in 1 .. Repetitions : <<t, r>> \in S} IN
           /\ IsFiniteSet(R) /\ IsFiniteSet(S)
           /\ Cardinality(R) = Cardinality(S) /\ Cardinality(R) \in Nat
           /\ Cardinality(R) > 0 <=> R # {}
<1> DEFINE R == {r \in 1 .. Repetitions : <<t, r>> \in S}
           f == [r \in R |-> <<t, r>>]
<1>1. IsFiniteSet(1 .. Repetitions)
  BY FS_Interval, ThresholdAssumption
<1>2. IsFiniteSet(R) /\ Cardinality(R) \in Nat
  BY <1>1, FS_Subset, FS_CardinalityType
<1>3. \A c \in S : c[2] \in R /\ c = <<t, c[2]>>
  BY DEF TrialsOf, Trials, TaskOf
<1>4. f \in Bijection(R, S)
  <2>1. f \in [R -> S]
    OBVIOUS
  <2>2. \A r, q \in R : f[r] = f[q] => r = q
    OBVIOUS
  <2>3. \A c \in S : \E r \in R : f[r] = c
    BY <1>3
  <2> QED
    BY <2>1, <2>2, <2>3 DEF Bijection, Injection, Surjection, IsInjective
<1>5. ExistsBijection(R, S)
  BY <1>4 DEF ExistsBijection
<1>6. IsFiniteSet(S) /\ Cardinality(R) = Cardinality(S)
  BY <1>2, <1>5, FS_Bijection
<1>7. Cardinality(R) = 0 <=> R = {}
  BY <1>2, FS_EmptySet
<1>8. Cardinality(R) > 0 <=> R # {}
  <2> HIDE DEF R
  <2> QED
    BY <1>2, <1>7
<1> QED
  BY <1>2, <1>6, <1>8

LEMMA GateCounts ==
    ASSUME NEW row, NEW kinds
    PROVE  Gate!Count(row, kinds) = Cardinality({r \in 1 .. Repetitions : row[r] \in kinds})
BY DEF Gate!Count, Gate!Cardinality, Gate!IsFiniteSet, Cardinality, IsFiniteSet

\* What the gate counts in a row of the trial table.
LEMMA MappedCounts ==
    ASSUME IInv, ResultsFit, NEW t \in Tasks
    PROVE  /\ Gate!Count(MappedRow(t), QualityFailures) = tasks[t].failures
           /\ Gate!Count(MappedRow(t), {"pass"}) = tasks[t].passes
           /\ Gate!Count(MappedRow(t), ErrorResults) \in Nat
           /\ Gate!Count(MappedRow(t), ErrorResults) > 0 <=> Excluded(t)
           /\ Gate!Count(MappedRow(t), {NoResult}) \in Nat
           /\ Gate!Count(MappedRow(t), {NoResult}) > 0
                 <=> \E tr \in TrialsOf(t) : trials[tr].state \notin SettledStates
<1>1. \A r \in 1 .. Repetitions : <<t, r>> \in Trials /\ <<t, r>> \in TrialsOf(t)
  BY DEF Trials, TrialsOf, TaskOf
<1>2. \A tr \in TrialsOf(t) : \E r \in 1 .. Repetitions : tr = <<t, r>>
  BY DEF Trials, TrialsOf, TaskOf
<1>3. /\ QualityFailures \cap ErrorResults = {} /\ "pass" \notin ErrorResults
      /\ NoResult \notin Quality /\ NoResult \notin ErrorResults /\ Quality \cap ErrorResults = {}
  BY ResultAssumption DEF Quality, ErrorResults, NoResult
<1>4. ASSUME NEW kinds, kinds \in {QualityFailures, {"pass"}}
      PROVE  Gate!Count(MappedRow(t), kinds) = Counted(t, kinds)
  <2>1. kinds \subseteq Quality
    BY <1>4 DEF Quality
  <2>2. {r \in 1 .. Repetitions : MappedRow(t)[r] \in kinds} =
           {r \in 1 .. Repetitions : <<t, r>> \in CountedSet(trials, t, kinds)}
    <3> SUFFICES ASSUME NEW r \in 1 .. Repetitions
                 PROVE  MappedRow(t)[r] \in kinds <=> <<t, r>> \in CountedSet(trials, t, kinds)
      OBVIOUS
    <3> QED
      BY <1>1, <1>3, <2>1 DEF MappedRow, CountedSet, SettledStates, ResultsFit
  <2>3. CountedSet(trials, t, kinds) \subseteq TrialsOf(t)
    BY DEF CountedSet
  <2> QED
    BY <2>2, <2>3, ProjectedCount, GateCounts DEF Counted
<1>5. /\ Gate!Count(MappedRow(t), ErrorResults) \in Nat
      /\ Gate!Count(MappedRow(t), ErrorResults) > 0 <=> Excluded(t)
  <2> DEFINE S == {tr \in TrialsOf(t) : trials[tr].state \in ExcludedStates}
             R == {r \in 1 .. Repetitions : <<t, r>> \in S}
  <2>1. {r \in 1 .. Repetitions : MappedRow(t)[r] \in ErrorResults} = R
    <3> SUFFICES ASSUME NEW r \in 1 .. Repetitions
                 PROVE  MappedRow(t)[r] \in ErrorResults <=> <<t, r>> \in S
      OBVIOUS
    <3> QED
      BY <1>1, <1>3 DEF MappedRow, SettledStates, ResultsFit
  <2>2. R # {} <=> Excluded(t)
    BY <1>1, <1>2 DEF Excluded
  <2>3. Cardinality(R) \in Nat /\ (Cardinality(R) > 0 <=> R # {})
    <3>1. S \subseteq TrialsOf(t)
      OBVIOUS
    <3> HIDE DEF S
    <3> QED
      BY <3>1, ProjectedCount
  <2>4. Gate!Count(MappedRow(t), ErrorResults) = Cardinality(R)
    BY <2>1, GateCounts
  <2> QED
    BY <2>2, <2>3, <2>4
<1>6. /\ Gate!Count(MappedRow(t), {NoResult}) \in Nat
      /\ Gate!Count(MappedRow(t), {NoResult}) > 0
            <=> \E tr \in TrialsOf(t) : trials[tr].state \notin SettledStates
  <2> DEFINE S == {tr \in TrialsOf(t) : trials[tr].state \notin SettledStates}
             R == {r \in 1 .. Repetitions : <<t, r>> \in S}
  <2>1. {r \in 1 .. Repetitions : MappedRow(t)[r] \in {NoResult}} = R
    <3> SUFFICES ASSUME NEW r \in 1 .. Repetitions
                 PROVE  MappedRow(t)[r] \in {NoResult} <=> <<t, r>> \in S
      OBVIOUS
    <3> QED
      BY <1>1, <1>3 DEF MappedRow, SettledStates, ResultsFit
  <2>2. R # {} <=> \E tr \in TrialsOf(t) : trials[tr].state \notin SettledStates
    BY <1>1, <1>2
  <2>3. Cardinality(R) \in Nat /\ (Cardinality(R) > 0 <=> R # {})
    <3>1. S \subseteq TrialsOf(t)
      OBVIOUS
    <3> HIDE DEF S
    <3> QED
      BY <3>1, ProjectedCount
  <2>4. Gate!Count(MappedRow(t), {NoResult}) = Cardinality(R)
    BY <2>1, GateCounts
  <2> QED
    BY <2>2, <2>3, <2>4
<1> QED
  BY <1>4, <1>5, <1>6 DEF IInv, CountersMatchTrials

\* The verdict of a task is the gate's function of its results.
LEMMA MappedVerdicts ==
    IInv /\ ResultsFit => \A t \in Tasks : MappedVerdict(t) = Gate!Verdict(MappedRow(t))
<1> SUFFICES ASSUME IInv, ResultsFit, NEW t \in Tasks
             PROVE  MappedVerdict(t) = Gate!Verdict(MappedRow(t))
  OBVIOUS
<1> DEFINE errors == Gate!Count(MappedRow(t), ErrorResults)
           failures == Gate!Count(MappedRow(t), QualityFailures)
           passes == Gate!Count(MappedRow(t), {"pass"})
           missing == Gate!Count(MappedRow(t), {NoResult})
<1>1. Gate!Verdict(MappedRow(t)) =
         IF errors > 0 \/ failures >= FailureStop THEN "ineligible"
         ELSE IF missing > 0 THEN "open"
         ELSE IF passes >= PassesRequired THEN "eligible"
         ELSE "ineligible"
  BY DEF Gate!Verdict, Gate!Missing, NoResult, ErrorResults
<1>2. /\ failures = tasks[t].failures /\ passes = tasks[t].passes
      /\ errors \in Nat /\ (errors > 0 <=> Excluded(t))
      /\ missing \in Nat
      /\ (missing > 0 <=> \E tr \in TrialsOf(t) : trials[tr].state \notin SettledStates)
  BY MappedCounts
<1>3. ~Excluded(t) => (missing > 0 <=> tasks[t].valid # Repetitions)
  <2>1. tasks[t].valid = Repetitions
           => \A tr \in TrialsOf(t) : trials[tr].state \in CountedStates
    <3>1. ASSUME tasks[t].valid = Repetitions
          PROVE  CountedSet(trials, t, Quality) = TrialsOf(t)
      BY <3>1, CountBound DEF IInv, CountersMatchTrials, Counted
    <3> QED
      BY <3>1 DEF CountedSet
  <2>2. (\A tr \in TrialsOf(t) : trials[tr].state \in CountedStates)
           => tasks[t].valid = Repetitions
    <3>1. ASSUME \A tr \in TrialsOf(t) : trials[tr].state \in CountedStates
          PROVE  CountedSet(trials, t, Quality) = TrialsOf(t)
      BY <3>1 DEF CountedSet, ResultsFit, TrialsOf
    <3> QED
      BY <3>1, TrialsOfCardinality DEF IInv, CountersMatchTrials, Counted
  <2> QED
    BY <1>2, <2>1, <2>2 DEF Excluded, SettledStates
<1>4. tasks[t].state = "ineligible" /\ ~Excluded(t) /\ tasks[t].failures < FailureStop
         => tasks[t].valid = Repetitions /\ tasks[t].passes < PassesRequired
  <2>1. tasks[t].failures \in Int
    BY DEF IInv, TypeOK, TaskRows
  <2> QED
    BY <2>1, ThresholdAssumption DEF IInv, VerdictJustified
<1>5. /\ tasks[t].state \in {"eligible_for_screening", "eligible", "ineligible"}
      /\ tasks[t].valid \in Int /\ tasks[t].passes \in Int /\ tasks[t].failures \in Int
  BY DEF IInv, TypeOK, TaskRows
<1>6. VerdictJustified!(t)
  BY DEF IInv, VerdictJustified
<1> HIDE DEF errors, failures, passes, missing
<1> QED
  BY <1>1, <1>2, <1>3, <1>4, <1>5, <1>6, ThresholdAssumption DEF MappedVerdict

\* Every entry of the gate's view is a result or missing.
LEMMA MappedType ==
    ResultsFit => \A t \in Tasks : MappedRow(t) \in [1 .. Repetitions -> Gate!Given \cup {Gate!Missing}]
<1>1. \A t \in Tasks, r \in 1 .. Repetitions : <<t, r>> \in Trials
  BY DEF Trials
<1> QED
  BY <1>1 DEF MappedRow, ResultsFit, SettledStates, Quality, ErrorResults, Gate!Given,
              Gate!Missing, NoResult

\* What a step means to the gate: nothing, or one result of an open task.
Quiet ==
    /\ UNCHANGED <<tasks, linked>>
    /\ \A tr \in Trials : \/ trials'[tr] = trials[tr]
                          \/ /\ trials[tr].state \notin SettledStates
                             /\ trials'[tr].state \notin SettledStates

Settles(tr, result) ==
    /\ UNCHANGED linked
    /\ tasks[TaskOf(tr)].state = "eligible_for_screening"
    /\ \A u \in Tasks \ {TaskOf(tr)} : tasks'[u] = tasks[u]
    /\ trials[tr].state \notin SettledStates
    /\ \/ trials'[tr] = [state |-> "completed", result |-> result] /\ result \in Quality
       \/ trials'[tr] = [state |-> "invalid", result |-> result] /\ result \in ErrorResults
    /\ \A c \in Trials \ {tr} : \/ trials'[c] = trials[c]
                                \/ /\ trials[c].state \notin SettledStates
                                   /\ trials'[c].state \notin SettledStates

LEMMA FinishSettles ==
    ASSUME IInv, NEW tr \in Trials, NEW n \in Numbers, NEW result \in Results,
           NEW dispatched \in BOOLEAN, NEW from \in {"running", "paused"},
           FinishAttempt(tr, n, result, dispatched, from)
    PROVE  Quiet \/ Settles(tr, result)
<1>1. Row(tr, n) \in {"running", "paused"} /\ UNCHANGED linked
  BY DEF FinishAttempt, MayFinish, Row
<1>2. /\ TaskOf(tr) \in Tasks /\ tasks[TaskOf(tr)].state = "eligible_for_screening"
      /\ trials[tr].state \in ActiveStates /\ tr \in TrialsOf(TaskOf(tr))
      /\ \A c \in TrialsOf(TaskOf(tr)) \ {tr} : trials[c].state \notin ActiveStates
  BY <1>1, OpenRow DEF ActiveStates
<1>3. trials[tr].state \notin SettledStates
  BY <1>2 DEF ActiveStates, SettledStates, CountedStates, ExcludedStates
<1>4. CASE trials' = [trials EXCEPT ![tr].state = "retry_pending"] /\ UNCHANGED tasks
  <2>1. trials'[tr].state = "retry_pending" /\ \A c \in Trials \ {tr} : trials'[c] = trials[c]
    BY <1>4 DEF IInv, TypeOK
  <2> QED
    BY <1>1, <1>3, <1>4, <2>1 DEF Quiet, SettledStates, CountedStates, ExcludedStates
<1>5. CASE result \in Quality /\ SettleQuality(tr, result)
  <2>1. /\ \A u \in Tasks \ {TaskOf(tr)} : tasks'[u] = tasks[u]
        /\ trials'[tr] = [state |-> "completed", result |-> result]
        /\ \A c \in Trials \ {tr} :
              \/ trials'[c] = trials[c]
              \/ trials[c].state = "planned" /\ trials'[c].state = "cancelled_by_futility"
    BY <1>2, <1>5, QualityEffect
  <2> QED
    BY <1>1, <1>2, <1>3, <1>5, <2>1 DEF Settles, SettledStates, CountedStates, ExcludedStates
<1>6. CASE result \notin Quality /\ SettleTechnical(tr, result)
  <2> DEFINE recorded == [trials EXCEPT ![tr] = [state |-> "invalid", result |-> result]]
  <2>1. result \in ErrorResults
    BY <1>6 DEF Results, ErrorResults
  <2>2. \A u \in Tasks \ {TaskOf(tr)} : tasks'[u] = tasks[u]
    BY <1>6 DEF SettleTechnical, IInv, TypeOK
  <2>3. /\ recorded \in [Trials -> [state : TrialStates, result : Results \cup {NoResult}]]
        /\ recorded[tr] = [state |-> "invalid", result |-> result]
        /\ \A c \in Trials \ {tr} : recorded[c] = trials[c]
    BY DEF IInv, TypeOK, TrialStates, ExcludedStates, Results
  <2>4. \A c \in Trials : trials'[c] =
           IF TaskOf(c) = TaskOf(tr) /\ recorded[c].state \in {"planned", "retry_pending"}
           THEN [recorded[c] EXCEPT !.state = "cancelled_after_technical_error"] ELSE recorded[c]
    BY <1>6 DEF SettleTechnical, Cancel
  <2> HIDE DEF recorded
  <2>5. trials'[tr] = [state |-> "invalid", result |-> result]
    <3>1. recorded[tr].state = "invalid"
      BY <2>3
    <3>2. trials'[tr] = recorded[tr]
      BY <2>4, <3>1
    <3> QED
      BY <2>3, <3>2
  <2>6. \A c \in Trials \ {tr} :
           \/ trials'[c] = trials[c]
           \/ /\ trials[c].state \in {"planned", "retry_pending"}
              /\ trials'[c].state = "cancelled_after_technical_error"
    BY <2>3, <2>4
  <2> QED
    BY <1>1, <1>2, <1>3, <2>1, <2>2, <2>5, <2>6
       DEF Settles, SettledStates, CountedStates, ExcludedStates
<1> QED
  BY <1>4, <1>5, <1>6 DEF FinishAttempt

LEMMA StepKinds ==
    ASSUME IInv, [Next]_vars
    PROVE  \/ Quiet
           \/ \E tr \in Trials, result \in Results : Settles(tr, result)
           \/ \E records \in Continuations : LinkContinuation(records)
<1>1. ASSUME NEW maximum, NEW scope, Claim(maximum, scope)
      PROVE  Quiet
  <2> DEFINE claimed == Claimed(maximum, scope)
  <2>1. ASSUME NEW tr \in claimed
        PROVE  /\ trials[tr].state \notin SettledStates /\ trials'[tr].state \notin SettledStates
    <3>1. tr \in Trials /\ trials[tr].state \in {"retry_pending", "planned"}
      BY ClaimedTrials DEF Claimable
    <3>2. trials'[tr] = [trials[tr] EXCEPT !.state = "running"]
      BY <1>1, <3>1 DEF Claim
    <3>3. trials'[tr].state = "running"
      BY <3>1, <3>2 DEF IInv, TypeOK
    <3> QED
      BY <3>1, <3>3 DEF SettledStates, CountedStates, ExcludedStates
  <2> QED
    BY <1>1, <2>1 DEF Claim, Quiet
<1>2. CASE RecordDispatch
  BY <1>2 DEF RecordDispatch, MarkProviderDispatch, Quiet
<1>3. ASSUME NEW tr \in Trials, NEW n \in Numbers, BindRuntime(tr, n)
      PROVE  Quiet
  BY <1>3 DEF BindRuntime, MarkAttemptRuntime, Quiet
<1>4. ASSUME NEW tr \in Trials, NEW dispatched \in BOOLEAN,
             RetryPausedAfterInfrastructureInterruption(tr, dispatched)
      PROVE  Quiet
  <2>1. /\ trials' = [trials EXCEPT ![tr].state = "retry_pending"] /\ trials[tr].state = "paused"
        /\ UNCHANGED <<tasks, linked>>
    BY <1>4 DEF RetryPausedAfterInfrastructureInterruption
  <2>2. trials'[tr].state = "retry_pending" /\ \A c \in Trials \ {tr} : trials'[c] = trials[c]
    BY <2>1 DEF IInv, TypeOK
  <2> QED
    BY <2>1, <2>2 DEF Quiet, SettledStates, CountedStates, ExcludedStates
<1>5. CASE PauseInterrupted
  <2>1. ASSUME NEW tr \in Trials
        PROVE  \/ trials'[tr] = trials[tr]
               \/ trials[tr].state = "running" /\ trials'[tr].state = "paused"
    <3>1. CASE \E n \in Numbers : Row(tr, n) = "running"
      <4>1. trials[tr].state = "running"
        BY <3>1, OpenRow
      <4>2. trials'[tr] = [trials[tr] EXCEPT !.state = "paused"]
        BY <1>5, <3>1 DEF PauseInterrupted, Row
      <4> QED
        BY <4>1, <4>2 DEF IInv, TypeOK
    <3>2. CASE ~\E n \in Numbers : Row(tr, n) = "running"
      BY <1>5, <3>2 DEF PauseInterrupted, Row
    <3> QED
      BY <3>1, <3>2
  <2> QED
    BY <1>5, <2>1 DEF PauseInterrupted, Quiet, SettledStates, CountedStates, ExcludedStates
<1>6. CASE UNCHANGED vars
  BY <1>6 DEF vars, Quiet
<1> QED
  BY <1>1, <1>2, <1>3, <1>4, <1>5, <1>6, FinishSettles
     DEF Next, Complete, CompleteAttempt, Resolve, ResolvePausedAttempt, ClaimNext

LEMMA InitFits == Init => ResultsFit
BY DEF Init, ResultsFit, CountedStates, ExcludedStates

LEMMA NextFits == IInv /\ ResultsFit /\ [Next]_vars => ResultsFit'
<1> SUFFICES ASSUME IInv, ResultsFit, [Next]_vars, NEW tr \in Trials
             PROVE  ResultsFit!(tr)'
  BY DEF ResultsFit
<1>1. ResultsFit!(tr)
  BY DEF ResultsFit
<1>2. CASE Quiet
  BY <1>1, <1>2 DEF Quiet, SettledStates, CountedStates, ExcludedStates
<1>3. ASSUME NEW c \in Trials, NEW result \in Results, Settles(c, result)
      PROVE  ResultsFit!(tr)'
  <2>1. CASE tr = c
    BY <1>3, <2>1 DEF Settles, CountedStates, ExcludedStates
  <2>2. CASE tr # c
    BY <1>1, <1>3, <2>2 DEF Settles, SettledStates, CountedStates, ExcludedStates
  <2> QED
    BY <2>1, <2>2
<1>4. ASSUME NEW records \in Continuations, LinkContinuation(records)
      PROVE  ResultsFit!(tr)'
  <2>1. linked' = TRUE
    BY <1>4 DEF LinkContinuation
  <2>2. CASE tr \in DOMAIN records
    <3> DEFINE state == IF records[tr] \in Quality THEN "linked_quality_result"
                                                  ELSE "linked_technical_exclusion"
    <3>1. trials'[tr] = [state |-> state, result |-> records[tr]] /\ records[tr] \in Results
      BY <1>4, <2>2, LinkedTrial
    <3>2. /\ state \in CountedStates <=> records[tr] \in Quality
          /\ state \in ExcludedStates <=> records[tr] \notin Quality
      BY DEF CountedStates, ExcludedStates
    <3> HIDE DEF state
    <3> QED
      BY <2>1, <3>1, <3>2 DEF Results, ErrorResults
  <2>3. CASE tr \notin DOMAIN records
    BY <1>1, <1>4, <2>1, <2>3, LinkedTrial DEF CancelledStates, CountedStates, ExcludedStates
  <2> QED
    BY <2>2, <2>3
<1> QED
  BY <1>2, <1>3, <1>4, StepKinds

Seen == [t \in Tasks |-> MappedRow(t)]
Verdicted == [t \in Tasks |-> MappedVerdict(t)]

\* One result of one repetition is one step of the gate.
LEMMA SettlesRecords ==
    ASSUME ResultsFit, NEW tr \in Trials, NEW result \in Results, Settles(tr, result),
           \A t \in Tasks : MappedVerdict(t)' = Gate!Verdict(MappedRow(t)')
    PROVE  Gate!Record(tr[1], tr[2], result)
<1> DEFINE t == tr[1]
           r == tr[2]
<1>1. t \in Tasks /\ r \in 1 .. Repetitions /\ tr = <<t, r>> /\ TaskOf(tr) = t
  BY DEF Trials, TaskOf
<1>2. MappedVerdict(t) = "open"
  BY <1>1 DEF Settles, MappedVerdict
<1>3. MappedRow(t)[r] = NoResult
  BY <1>1 DEF Settles, MappedRow
<1>4. trials'[tr].state \in SettledStates /\ trials'[tr].result = result
  BY DEF Settles, SettledStates, CountedStates, ExcludedStates
<1>5. ASSUME NEW u \in Tasks, NEW q \in 1 .. Repetitions
      PROVE  MappedRow(u)'[q] = IF <<u, q>> = tr THEN result ELSE MappedRow(u)[q]
  <2>1. <<u, q>> \in Trials
    BY DEF Trials
  <2>2. CASE <<u, q>> = tr
    BY <1>4, <2>2 DEF MappedRow
  <2>3. CASE <<u, q>> # tr
    BY <2>1, <2>3 DEF MappedRow, Settles
  <2> QED
    BY <2>2, <2>3
<1>6. Seen' = [Seen EXCEPT ![t][r] = result]
  <2>1. MappedRow(t)' = [MappedRow(t) EXCEPT ![r] = result]
    <3>1. /\ MappedRow(t)' = [q \in 1 .. Repetitions |-> MappedRow(t)'[q]]
          /\ MappedRow(t) = [q \in 1 .. Repetitions |-> MappedRow(t)[q]]
      BY DEF MappedRow
    <3>2. \A q \in 1 .. Repetitions :
             MappedRow(t)'[q] = IF q = r THEN result ELSE MappedRow(t)[q]
      BY <1>1, <1>5
    <3> QED
      BY <1>1, <3>1, <3>2
  <2>2. \A u \in Tasks \ {t} : MappedRow(u)' = MappedRow(u)
    BY <1>1, <1>5 DEF MappedRow
  <2> QED
    BY <1>1, <2>1, <2>2 DEF Seen
<1>7. Verdicted' = [Verdicted EXCEPT ![t] = Gate!Verdict(Seen'[t])]
  <2>1. \A u \in Tasks \ {t} : MappedVerdict(u)' = MappedVerdict(u)
    BY <1>1 DEF Settles, MappedVerdict
  <2>2. MappedVerdict(t)' = Gate!Verdict(Seen'[t])
    BY <1>1 DEF Seen
  <2> QED
    BY <1>1, <2>1, <2>2 DEF Verdicted
<1> QED
  BY <1>1, <1>2, <1>3, <1>6, <1>7
     DEF Gate!Record, Gate!Missing, NoResult, Seen, Verdicted, MappedRow, MappedVerdict, SettledStates

\* The last linked trial of a task in the order of the plan.
LEMMA LastLinked ==
    ASSUME NEW records \in Continuations, NEW t \in Tasks, LinkedOf(records, t) # {}
    PROVE  \E tr \in LinkedOf(records, t) :
              LinkedBefore(records, tr) = LinkedOf(records, t) \ {tr}
<1> DEFINE done == LinkedOf(records, t)
           After(c) == {d \in done : PlanIndex[c] <= PlanIndex[d]}
           Bad == {After(c) : c \in done}
<1>1. done \subseteq TrialsOf(t)
  BY DEF LinkedOf, Continuations, TrialsOf
<1>2. IsFiniteSet(done)
  BY <1>1, TrialsOfCardinality, FS_Subset
<1>3. Bad \subseteq SUBSET done /\ Bad # {}
  OBVIOUS
<1>4. PICK U \in Bad : \A V \in SUBSET U : V # U => V \notin Bad
  <2> HIDE DEF Bad, done
  <2> QED
    BY <1>2, <1>3, SmallestSubset
<1>5. PICK tr \in done : U = After(tr)
  OBVIOUS
<1>6. ASSUME NEW c \in done
      PROVE  PlanIndex[c] \in Nat
  BY <1>1, PlanAssumption DEF TrialsOf
<1>7. ASSUME NEW c \in done, c # tr
      PROVE  PlanIndex[c] < PlanIndex[tr]
  <2> SUFFICES ASSUME PlanIndex[tr] <= PlanIndex[c] PROVE FALSE
    BY <1>6
  <2>1. PlanIndex[tr] < PlanIndex[c]
    BY <1>1, <1>6, <1>7, PlanAssumption DEF TrialsOf
  <2>2. After(c) \subseteq U /\ tr \in U /\ tr \notin After(c)
    BY <1>5, <1>6, <2>1
  <2>3. After(c) \in Bad
    OBVIOUS
  <2> HIDE DEF After, Bad
  <2> QED
    BY <1>4, <2>2, <2>3
<1>8. TaskOf(tr) = t
  BY <1>1 DEF TrialsOf
<1>9. LinkedBefore(records, tr) = done \ {tr}
  BY <1>6, <1>7, <1>8 DEF LinkedBefore
<1> QED
  BY <1>9

\* Without its last result a linked row is still open.
LEMMA LinkedReachable ==
    ASSUME IInv, ResultsFit, NEW records \in Continuations, LinkContinuation(records), NEW t \in Tasks
    PROVE  Gate!Reachable(MappedRow(t)')
<1> DEFINE done == LinkedOf(records, t)
<1>1. \A r \in 1 .. Repetitions : <<t, r>> \in Trials /\ TaskOf(<<t, r>>) = t
  BY DEF Trials, TaskOf
<1>2. ASSUME NEW r \in 1 .. Repetitions
      PROVE  MappedRow(t)'[r] = IF <<t, r>> \in DOMAIN records THEN records[<<t, r>>] ELSE NoResult
  <2>1. ~linked /\ <<t, r>> \in Trials
    BY <1>1 DEF LinkContinuation
  <2>2. CASE <<t, r>> \in DOMAIN records
    <3> DEFINE state == IF records[<<t, r>>] \in Quality THEN "linked_quality_result"
                                                        ELSE "linked_technical_exclusion"
    <3>1. trials'[<<t, r>>] = [state |-> state, result |-> records[<<t, r>>]]
      BY <2>1, <2>2, LinkedTrial
    <3>2. state \in SettledStates
      BY DEF SettledStates, CountedStates, ExcludedStates
    <3> HIDE DEF state
    <3> QED
      BY <2>2, <3>1, <3>2 DEF MappedRow
  <2>3. CASE <<t, r>> \notin DOMAIN records
    <3>1. trials[<<t, r>>].state \notin SettledStates
      BY <2>1, LinkedTrial DEF ResultsFit, SettledStates, CountedStates, ExcludedStates
    <3>2. \/ trials'[<<t, r>>] = trials[<<t, r>>]
          \/ trials'[<<t, r>>].state \in CancelledStates
      BY <2>1, <2>3, LinkedTrial
    <3>3. trials'[<<t, r>>].state \notin SettledStates
      BY <3>1, <3>2 DEF SettledStates, CountedStates, ExcludedStates, CancelledStates
    <3> QED
      BY <2>3, <3>3 DEF MappedRow
  <2> QED
    BY <2>2, <2>3
<1>3. CASE done = {}
  <2>1. \A r \in 1 .. Repetitions : MappedRow(t)'[r] = NoResult
    BY <1>1, <1>2, <1>3 DEF LinkedOf
  <2> QED
    BY <2>1 DEF Gate!Reachable, Gate!EmptyRow, Gate!Missing, NoResult, MappedRow
<1>4. CASE done # {}
  <2>1. PICK tr \in done : LinkedBefore(records, tr) = done \ {tr}
    BY <1>4, LastLinked
  <2> DEFINE before == done \ {tr}
             r == tr[2]
             row == [MappedRow(t)' EXCEPT ![r] = Gate!Missing]
             failed == {c \in before : records[c] \in QualityFailures}
  <2>2. /\ tr \in DOMAIN records /\ tr = <<t, r>> /\ r \in 1 .. Repetitions
        /\ records[tr] \in Results /\ done \subseteq TrialsOf(t)
        /\ \A c \in done : records[c] \in Results
    BY DEF LinkedOf, Continuations, Trials, TaskOf, TrialsOf
  <2>3. AfterLinks(records, t, before).state = "eligible_for_screening"
    <3>1. TaskOf(tr) = t
      BY DEF LinkedOf
    <3> QED
      BY <2>1, <2>2, <3>1 DEF LinkContinuation
  <2>4. /\ \A c \in before : records[c] \in Quality
        /\ tasks[t].failures + Cardinality(failed) < FailureStop
    <3> DEFINE valid == {c \in before : records[c] \in Quality}
               passes == {c \in before : records[c] = "pass"}
               v == tasks[t].valid + Cardinality(valid)
               p == tasks[t].passes + Cardinality(passes)
               f == tasks[t].failures + Cardinality(failed)
               counted == [tasks[t] EXCEPT !.valid = v, !.passes = p, !.failures = f]
               verdict == Verdict(v, p, f)
               reason == records[CHOOSE c \in before \ valid : TRUE]
    <3>1. valid \ passes = failed
      BY ResultAssumption DEF Quality
    <3>2. tasks[t] \in TaskRows
      BY DEF IInv, TypeOK
    <3>3. [tasks[t] EXCEPT !.valid = @ + Cardinality(valid),
                           !.passes = @ + Cardinality(passes),
                           !.failures = @ + Cardinality(failed)] = counted
      BY <3>2 DEF TaskRows
    <3>4. AfterLinks(records, t, before) =
            IF before \ valid # {}
            THEN [counted EXCEPT !.state = "ineligible", !.reason = reason]
            ELSE IF verdict # NoReason
            THEN [counted EXCEPT !.state = VerdictState(verdict), !.reason = verdict]
            ELSE counted
      BY <3>1, <3>2, <3>3 DEF AfterLinks, TaskRows
    <3>5. DOMAIN counted = {"state", "valid", "passes", "failures", "reason"}
      BY <3>2 DEF TaskRows
    <3>6. verdict \in Verdicts \cup {NoReason}
      BY DEF Verdict, Verdicts
    <3>7. \A x \in Verdicts : VerdictState(x) # "eligible_for_screening"
      BY DEF VerdictState, Verdicts, NoReason
    <3>8. before \ valid = {} /\ verdict = NoReason
      <4> HIDE DEF counted, verdict, valid, reason
      <4> QED
        BY <2>3, <3>4, <3>5, <3>6, <3>7
    <3>9. IsFiniteSet(failed)
      <4>1. failed \subseteq TrialsOf(t)
        BY <2>2
      <4> QED
        BY <4>1, TrialsOfCardinality, FS_Subset
    <3>10. Cardinality(failed) \in Nat /\ tasks[t].failures \in Nat
      BY <3>2, <3>9, FS_CardinalityType DEF TaskRows
    <3>11. f < FailureStop
      <4>1. f \in Int
        BY <3>10
      <4> HIDE DEF f, v, p
      <4> QED
        BY <3>8, <4>1, ThresholdAssumption DEF Verdict, NoReason
    <3> QED
      BY <3>8, <3>11
  <2>5. ASSUME NEW q \in 1 .. Repetitions
        PROVE  row[q] = IF <<t, q>> \in before THEN records[<<t, q>>] ELSE NoResult
    BY <1>1, <1>2, <2>2 DEF MappedRow, Gate!Missing, NoResult, LinkedOf
  <2> HIDE DEF row
  <2>6. /\ NoResult \notin Results /\ ErrorResults \subseteq Results /\ Quality \cap ErrorResults = {}
        /\ QualityFailures \subseteq Results
    BY ResultAssumption DEF Results, Quality, ErrorResults, NoResult
  <2>7. Gate!Count(row, ErrorResults) = 0
    <3>1. {q \in 1 .. Repetitions : row[q] \in ErrorResults} = {}
      BY <2>4, <2>5, <2>6
    <3> QED
      BY <3>1, GateCounts, FS_EmptySet
  <2>8. Gate!Count(row, QualityFailures) < FailureStop
    <3>1. {q \in 1 .. Repetitions : row[q] \in QualityFailures} =
             {q \in 1 .. Repetitions : <<t, q>> \in failed}
      BY <2>5, <2>6
    <3>2. failed \subseteq TrialsOf(t)
      BY <2>2
    <3>3. Gate!Count(row, QualityFailures) = Cardinality(failed) /\ Cardinality(failed) \in Nat
      <4> HIDE DEF failed
      <4> QED
        BY <3>1, <3>2, GateCounts, ProjectedCount
    <3>4. tasks[t].failures \in Nat
      BY DEF IInv, TypeOK, TaskRows
    <3> HIDE DEF failed
    <3> QED
      BY <2>4, <3>3, <3>4, ThresholdAssumption
  <2>9. Gate!Count(row, {NoResult}) > 0
    <3> DEFINE R == {q \in 1 .. Repetitions : row[q] \in {NoResult}}
    <3>1. r \in R
      BY <2>2, <2>5
    <3>2. IsFiniteSet(R)
      <4>1. IsFiniteSet(1 .. Repetitions)
        BY FS_Interval, ThresholdAssumption
      <4> QED
        BY <4>1, FS_Subset
    <3>3. Cardinality(R) \in Nat /\ Cardinality(R) # 0
      BY <3>1, <3>2, FS_CardinalityType, FS_EmptySet
    <3> QED
      BY <3>3, GateCounts
  <2>10. Gate!Count(row, QualityFailures) \in Nat
    <3> DEFINE R == {q \in 1 .. Repetitions : row[q] \in QualityFailures}
    <3>1. IsFiniteSet(R)
      <4>1. IsFiniteSet(1 .. Repetitions)
        BY FS_Interval, ThresholdAssumption
      <4> QED
        BY <4>1, FS_Subset
    <3> QED
      BY <3>1, GateCounts, FS_CardinalityType
  <2>11. Gate!Verdict(row) = "open"
    BY <2>7, <2>8, <2>9, <2>10, ThresholdAssumption DEF Gate!Verdict, Gate!Missing, NoResult, ErrorResults
  <2>12. MappedRow(t)'[r] # Gate!Missing
    BY <1>2, <2>2, <2>6 DEF Gate!Missing, NoResult
  <2> QED
    BY <2>2, <2>11, <2>12 DEF Gate!Reachable, row
<1> QED
  BY <1>3, <1>4

LEMMA NextImplementsGate ==
    IInv /\ ResultsFit /\ [Next]_vars => [Gate!GateNext]_<<Seen, Verdicted>>
<1> SUFFICES ASSUME IInv, ResultsFit, [Next]_vars
             PROVE  Gate!GateNext \/ UNCHANGED <<Seen, Verdicted>>
  BY DEF Gate!gateVars
<1>1. \A t \in Tasks : MappedVerdict(t)' = Gate!Verdict(MappedRow(t)')
  <2>1. IInv' /\ ResultsFit'
    BY NextStep, NextFits
  <2>2. (\A t \in Tasks : MappedVerdict(t) = Gate!Verdict(MappedRow(t)))'
    BY <2>1, MappedVerdicts, PTL
  <2> QED
    BY <2>2
<1>2. CASE Quiet
  <2>1. ASSUME NEW t \in Tasks, NEW r \in 1 .. Repetitions
        PROVE  MappedRow(t)'[r] = MappedRow(t)[r]
    <3>1. <<t, r>> \in Trials
      BY DEF Trials
    <3> QED
      BY <1>2, <3>1 DEF Quiet, MappedRow
  <2>2. Seen' = Seen
    BY <2>1 DEF Seen, MappedRow
  <2>3. Verdicted' = Verdicted
    BY <1>2 DEF Quiet, Verdicted, MappedVerdict
  <2> QED
    BY <2>2, <2>3
<1>3. ASSUME NEW tr \in Trials, NEW result \in Results, Settles(tr, result)
      PROVE  Gate!GateNext
  <2>1. Gate!Record(tr[1], tr[2], result)
    BY <1>1, <1>3, SettlesRecords
  <2>2. tr[1] \in Tasks /\ tr[2] \in 1 .. Repetitions /\ result \in Gate!Given
    BY DEF Trials, Results, Quality, Gate!Given
  <2> QED
    BY <2>1, <2>2 DEF Gate!GateNext
<1>4. ASSUME NEW records \in Continuations, LinkContinuation(records)
      PROVE  Gate!GateNext
  <2>1. Seen = [t \in Tasks |-> Gate!EmptyRow]
    <3>1. ASSUME NEW t \in Tasks, NEW r \in 1 .. Repetitions
          PROVE  MappedRow(t)[r] = NoResult
      <4>1. <<t, r>> \in Trials /\ ~linked
        BY <1>4 DEF Trials, LinkContinuation
      <4>2. trials[<<t, r>>].state \notin SettledStates
        BY <1>4, <4>1, LinkedTrial DEF ResultsFit, SettledStates, CountedStates, ExcludedStates
      <4> QED
        BY <4>2 DEF MappedRow
    <3> QED
      BY <3>1 DEF Seen, MappedRow, Gate!EmptyRow, Gate!Missing, NoResult
  <2>2. \A t \in Tasks : MappedRow(t)' \in [1 .. Repetitions -> Gate!Given \cup {Gate!Missing}]
    <3>1. ResultsFit'
      BY NextFits
    <3>2. (\A t \in Tasks : MappedRow(t) \in [1 .. Repetitions -> Gate!Given \cup {Gate!Missing}])'
      BY <3>1, MappedType, PTL
    <3> QED
      BY <3>2
  <2>3. \A t \in Tasks : Gate!Reachable(MappedRow(t)')
    BY <1>4, LinkedReachable
  <2>4. Gate!Import
    BY <1>1, <2>1, <2>2, <2>3
       DEF Gate!Import, Seen, Verdicted, MappedRow, MappedVerdict, SettledStates
  <2> QED
    BY <2>4 DEF Gate!GateNext
<1> QED
  BY <1>2, <1>3, <1>4, StepKinds

\* The database implements the eligibility gate: every verdict it reaches is
\* the gate's function of the results it recorded, and no order of claims,
\* pauses, retries and links records a result that the gate would refuse.
THEOREM GateImplemented == Spec => ImplementsGate
<1>1. Init => Gate!GateInit
  BY DEF Init, Gate!GateInit, Gate!EmptyRow, Gate!Missing, NoResult, CountedStates, ExcludedStates, Trials
<1>2. IInv /\ ResultsFit /\ [Next]_vars => [Gate!GateNext]_(Gate!gateVars)
  BY NextImplementsGate DEF Gate!gateVars, Seen, Verdicted, MappedRow, MappedVerdict, SettledStates
<1>3. Spec => []ResultsFit
  BY InitFits, NextFits, SchedulerInvariant, PTL DEF Spec
<1> QED
  BY <1>1, <1>2, <1>3, SchedulerInvariant, PTL DEF Spec, ImplementsGate, Gate!GateSpec
=============================================================================

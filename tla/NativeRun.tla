------------------------------ MODULE NativeRun ------------------------------
(***************************************************************************)
(* One native run: execute_native of src/src/native_run.py, its waves of   *)
(* supervised trial processes, the transport that every trial shares, the  *)
(* decisions between blocks of repetitions, the bundle that is written at  *)
(* the end and verify_native_run, which reads it back.                     *)
(*                                                                         *)
(* Trials are numbered in plan order, repetition by repetition.  The       *)
(* recorder is its failure field; LiveRecorder models the rest of it.      *)
(* The spool is the sequence of staged repetitions; BlobSpool models it.   *)
(* Hashes and the text of records are left out.  Of a trial's metrics      *)
(* there is what makes them complete, and whether an event came after      *)
(* they were read: the recorder and its threads outlive a closed trial.    *)
(***************************************************************************)
EXTENDS BaselineRule

CONSTANTS
    Concurrency,     \* runner.concurrency, 8: trials in a wave
    RewardTables,    \* rewards the tasks give if their trials end well
    BaselineRows,    \* the repetitions of a verified baseline
    MaxOpen,         \* bound: trials with a request under way at once
    MaxFaults        \* bound: things that go wrong in a run

TaskCount == Cardinality(Tasks)
Plan == 1 .. Maximum * TaskCount
RepetitionOf(k) == ((k - 1) \div TaskCount) + 1
TaskOf(k) == ((k - 1) % TaskCount) + 1

ASSUME NativeAssumption ==
    /\ Tasks = 1 .. TaskCount
    /\ Concurrency \in Nat \ {0} /\ MaxOpen \in Nat /\ MaxFaults \in Nat
    /\ \A table \in RewardTables : DOMAIN table = 1 .. Maximum
    /\ Len(BaselineRows) \in {Minimum, Maximum}

VARIABLES
    mode,      \* a baseline "none", a "compressor" compared with one, "cache_reuse"
    rewards,   \* what the tasks gave, chosen when it is first read
    failure,   \* recorder.failure, which is also recorder.stopped
    trial,     \* each trial: its process group, its requests, its record
    run,       \* the driver: where it is, its block, its wave, what it counted
    staged,    \* repetitions in the spool
    summary,   \* summary.json, as far as it is filled in
    faults

vars == <<mode, rewards, failure, trial, run, staged, summary, faults>>

NoFailure == "none"

\* Definitions named ...Slip are not part of the model.  Each is the next
\* definition with a mistake, used to see that a property would notice it.

\* baseline_for_comparison: a complete baseline that was stable and informative.
BaselineUsable == Informative(BaselineRows)

Init ==
    /\ mode \in {"none", "compressor", "cache_reuse"}
    /\ mode = "compressor" => BaselineUsable
    /\ rewards = <<>>
    /\ failure = NoFailure
    /\ trial = [k \in Plan |-> [at |-> "planned", leader |-> "none", group |-> FALSE, stopped |-> FALSE,
                                limit |-> FALSE, waiting |-> 0, sent |-> 0, unread |-> 0, usage |-> "none",
                                clean |-> FALSE, behind |-> FALSE, late |-> FALSE, valid |-> FALSE]]
    /\ run = [at |-> "setup", block |-> 1, wave |-> {}, next |-> 1, reported |-> 0, spool |-> FALSE]
    /\ staged = <<>>
    /\ summary = [status |-> "running", trials |-> 0, rows |-> 0, interim |-> "none", decision |-> "none",
                  comparison |-> "none", before |-> "none", upload |-> "none", items |-> <<>>,
                  reason |-> NoFailure]
    /\ faults = 0

Fault == faults < MaxFaults /\ faults' = faults + 1

\* recorder.stop: the first reason stays.
Stopped(reason) == IF failure = NoFailure THEN reason ELSE failure

-----------------------------------------------------------------------------
(* A trial: run_trial and supervise                                        *)

\* recorder.check, then a process group of its own.
Spawn(k) ==
    /\ trial[k].at = "registered"
    /\ trial' = [trial EXCEPT
                   ![k] = IF failure = NoFailure
                          THEN [@ EXCEPT !.at = "running", !.leader = "alive", !.group = TRUE]
                          ELSE [@ EXCEPT !.at = "closed", !.stopped = TRUE]]
    /\ UNCHANGED <<mode, rewards, failure, run, staged, summary, faults>>

UnderWay(row) == row.waiting + row.sent + row.unread
Open == {k \in Plan : UnderWay(trial[k]) > 0}

\* An event of the trial is logged; late, if its metrics have been read.
Log(row) == [row EXCEPT !.late = @ \/ row.at = "written"]

\* The agent asks the model, through the proxy: for a next turn, or again when
\* it gave an answer up.  The thread compresses and waits for the queue.
Ask(k) ==
    /\ trial[k].at = "running"
    /\ failure = NoFailure /\ ~trial[k].limit
    /\ IF k \in Open THEN Fault ELSE Cardinality(Open) < MaxOpen /\ UNCHANGED faults
    /\ trial' = [trial EXCEPT ![k].waiting = @ + 1]
    /\ UNCHANGED <<mode, rewards, failure, run, staged, summary>>

\* The request is sent.  check_trial asks whether the run or the trial was
\* stopped, and not whether the trial is closed: its thread may send it after
\* the record of the trial is written.
Send(k) ==
    /\ trial[k].waiting > 0
    /\ failure = NoFailure /\ ~trial[k].limit
    /\ trial' = [trial EXCEPT ![k] = Log([trial[k] EXCEPT !.waiting = @ - 1, !.sent = @ + 1])]
    /\ UNCHANGED <<mode, rewards, failure, run, staged, summary, faults>>

\* A request ends unsent, compressed or not: it is refused, or it fails.
Drop(k) ==
    /\ trial[k].waiting > 0
    /\ \/ (failure # NoFailure \/ trial[k].limit) /\ UNCHANGED <<failure, faults>>
       \/ failure' = Stopped("request") /\ Fault
    /\ LET row == [trial[k] EXCEPT !.waiting = @ - 1]
       IN  \E after \in {row, Log(row)} : trial' = [trial EXCEPT ![k] = after]
    /\ UNCHANGED <<mode, rewards, run, staged, summary>>

\* The provider answers well; or with an error, or not at all: that stops the
\* whole run, or the request is tried again, and its usage stays unknown.
Answer(k) ==
    /\ trial[k].sent > 0
    /\ LET row == Log([trial[k] EXCEPT !.sent = @ - 1])
           lost == [row EXCEPT !.usage = "unknown"]
       IN  \/ /\ trial' = [trial EXCEPT ![k] = [row EXCEPT !.unread = @ + 1,
                                                           !.usage = IF @ = "none" THEN "known" ELSE @]]
              /\ UNCHANGED <<failure, faults>>
           \/ /\ trial' = [trial EXCEPT ![k] = lost]
              /\ failure' = Stopped("request") /\ Fault
           \/ /\ trial' = [trial EXCEPT ![k] = [lost EXCEPT !.waiting = @ + 1]]
              /\ UNCHANGED failure /\ Fault
    /\ UNCHANGED <<mode, rewards, run, staged, summary>>

\* The answer is written to the agent, which may be gone: that stops the run.
Deliver(k) ==
    /\ trial[k].unread > 0
    /\ LET row == [trial[k] EXCEPT !.unread = @ - 1]
       IN  \/ trial' = [trial EXCEPT ![k] = Log(row)] /\ UNCHANGED failure
           \/ /\ trial[k].leader # "alive"
              /\ trial' = [trial EXCEPT ![k] = row]
              /\ failure' = Stopped("ClientDisconnectedAfterDispatch")
    /\ UNCHANGED <<mode, rewards, run, staged, summary, faults>>

\* A limit of this trial alone is hit; its time goes on when it is closed.
HitLimit(k) ==
    /\ trial[k].at = "running" \/ trial[k].waiting > 0
    /\ ~trial[k].limit /\ Fault
    /\ trial' = [trial EXCEPT ![k].limit = TRUE]
    /\ UNCHANGED <<mode, rewards, failure, run, staged, summary>>

\* Harbor ends by itself, with a result or without, and the poll finds it
\* gone; its children and its requests may go on.  close_trial follows at once,
\* here and below.
Exits(k) ==
    /\ trial[k].at = "running"
    /\ \E how \in {"exit_zero", "exit_error"}, lingers \in BOOLEAN :
          /\ IF how = "exit_zero" /\ ~lingers /\ UnderWay(trial[k]) = 0 THEN UNCHANGED faults ELSE Fault
          /\ trial' = [trial EXCEPT ![k].at = "closed", ![k].leader = how, ![k].group = lingers]
    /\ UNCHANGED <<mode, rewards, failure, run, staged, summary>>

TerminateGroupSlipInterruptOnly(k, reason) ==
    /\ trial' = [trial EXCEPT ![k].at = "closed", ![k].stopped = TRUE, ![k].leader = "killed"]
    /\ failure' = reason /\ UNCHANGED faults

\* terminate_group: interrupt, wait, kill, wait.  The last wait may time out,
\* and supervise then stops the run.
TerminateGroup(k, reason) ==
    \/ /\ trial' = [trial EXCEPT ![k].at = "closed", ![k].stopped = TRUE, ![k].leader = "killed", ![k].group = FALSE]
       /\ failure' = reason /\ UNCHANGED faults
    \/ /\ Fault
       /\ trial' = [trial EXCEPT ![k].at = "closed", ![k].stopped = TRUE, ![k].leader = "killed"]
       /\ failure' = IF reason = NoFailure THEN "NativeSupervisorInterrupted" ELSE reason

\* The poll finds a limit of the trial, or the run stopped.
PollStops(k) ==
    /\ trial[k].at = "running"
    /\ trial[k].limit \/ failure # NoFailure
    /\ TerminateGroup(k, failure)
    /\ UNCHANGED <<mode, rewards, run, staged, summary>>

\* Anything else that supervise raises stops the run and the group.
SupervisorRaises(k) ==
    /\ trial[k].at = "running" /\ Fault
    /\ trial' = [trial EXCEPT ![k].at = "closed", ![k].stopped = TRUE, ![k].leader = "killed", ![k].group = FALSE]
    /\ failure' = Stopped("NativeSupervisorInterrupted")
    /\ UNCHANGED <<mode, rewards, run, staged, summary>>

\* A process that outlived its trial asks again: a closed trial's request
\* stops the run.
LateRequest(k) ==
    /\ trial[k].at \in {"closed", "collecting", "written"} /\ trial[k].group
    /\ failure = NoFailure /\ run.at # "written"
    /\ failure' = "ProtectionViolation"
    /\ UNCHANGED <<mode, rewards, trial, run, staged, summary, faults>>

\* run_trial reads why the trial or the run was stopped, if it was.
ReadFailure(k) ==
    /\ trial[k].at = "closed"
    /\ trial' = [trial EXCEPT ![k].at = "collecting",
                              ![k].clean = failure = NoFailure /\ ~trial[k].limit]
    /\ UNCHANGED <<mode, rewards, failure, run, staged, summary, faults>>

ValidOutcomeSlipRunFailureIgnored(row) ==
    row.leader = "exit_zero" /\ ~row.stopped /\ row.usage = "known"

\* collect_native_outcome and trial_metrics: a result, and each attempt of the
\* trial answered with its usage.  A request that was not sent is no attempt.
ValidOutcome(row) ==
    /\ row.leader = "exit_zero" /\ ~row.stopped /\ row.clean
    /\ row.usage = "known" /\ row.sent = 0

\* The outcome, then the metrics from the events so far, then trial.json.
Collect(k) ==
    /\ trial[k].at = "collecting"
    /\ trial' = [trial EXCEPT ![k].at = "written", ![k].behind = UnderWay(trial[k]) > 0,
                              ![k].valid = ValidOutcome(trial[k])]
    /\ UNCHANGED <<mode, rewards, failure, run, staged, summary, faults>>

\* The directory, the outcome, the metrics or trial.json fails.
CollectRaises(k) ==
    /\ trial[k].at \in {"closed", "collecting"} /\ Fault
    /\ trial' = [trial EXCEPT ![k].at = "raised"]
    /\ UNCHANGED <<mode, rewards, failure, run, staged, summary>>

-----------------------------------------------------------------------------
(* Waves and blocks                                                        *)

\* The blocks execute_native runs, one after another.
Blocks ==
    CASE mode = "none" -> <<Interim, Minimum, Maximum>>
      [] mode = "compressor" -> <<Len(BaselineRows)>>
      [] mode = "cache_reuse" -> <<1>>

LastOfBlock == Blocks[run.block] * TaskCount
WaveSize == IF mode = "cache_reuse" THEN 1 ELSE Concurrency

\* The except branch of execute_native.
Raise(reason) ==
    /\ failure' = Stopped(reason)
    /\ run' = [run EXCEPT !.at = "finally", !.wave = {}]
    /\ summary' = [summary EXCEPT !.status = "stopped"]

\* Queue, compressor, recorder, proxy, tasks, execution.json and the spool.
SetupFails ==
    /\ run.at = "setup" /\ Fault /\ Raise("setup")
    /\ UNCHANGED <<mode, rewards, trial, staged>>

Setup ==
    /\ run.at = "setup"
    /\ run' = [run EXCEPT !.at = "block", !.spool = TRUE]
    /\ UNCHANGED <<mode, rewards, failure, trial, staged, summary, faults>>

\* run_trial_plans: recorder.check, then the trials of the wave are registered.
StartWave ==
    /\ run.at = "block" /\ failure = NoFailure
    /\ LET wave == run.next .. Min({run.next + WaveSize - 1, LastOfBlock}) IN
          /\ run' = [run EXCEPT !.at = "wave", !.wave = wave]
          /\ trial' = [k \in Plan |-> IF k \in wave THEN [trial[k] EXCEPT !.at = "registered"] ELSE trial[k]]
    /\ UNCHANGED <<mode, rewards, failure, staged, summary, faults>>

\* What raises inside a block loses the trials of the block to the summary.
WaveRefused ==
    /\ run.at = "block" /\ failure # NoFailure /\ Raise(failure)
    /\ UNCHANGED <<mode, rewards, trial, staged, faults>>

WaveEnded == \A k \in run.wave : trial[k].at \in {"written", "raised"}

EndWave ==
    /\ run.at = "wave" /\ WaveEnded /\ \A k \in run.wave : trial[k].at = "written"
    /\ run' = [run EXCEPT !.at = "report", !.next = Max(run.wave) + 1]
    /\ UNCHANGED <<mode, rewards, failure, trial, staged, summary, faults>>

\* future.result() raises for one trial; the others' results go with it.
EndWaveRaises ==
    /\ run.at = "wave" /\ WaveEnded /\ \E k \in run.wave : trial[k].at = "raised"
    /\ Raise("trial")
    /\ UNCHANGED <<mode, rewards, trial, staged, faults>>

TrialsOf(r) == {k \in Plan : RepetitionOf(k) = r}
RowComplete(r) == \A k \in TrialsOf(r) : trial[k].at = "written" /\ trial[k].valid
Reportable == run.next - 1 - run.reported * TaskCount >= TaskCount /\ RowComplete(run.reported + 1)
\* on_repetition: stage_run_snapshot of the next complete repetition.
Report ==
    /\ run.at = "report" /\ Reportable
    /\ staged' = Append(staged, run.reported + 1)
    /\ run' = [run EXCEPT !.reported = @ + 1]
    /\ UNCHANGED <<mode, rewards, failure, trial, summary, faults>>

ReportRaises ==
    /\ run.at = "report" /\ Reportable /\ Fault /\ Raise("stage")
    /\ UNCHANGED <<mode, rewards, trial, staged>>

WaveComplete == \A k \in run.wave : trial[k].valid

\* The next wave of the block.
MoreWaves ==
    /\ run.at = "report" /\ ~Reportable /\ WaveComplete /\ run.next <= LastOfBlock
    /\ run' = [run EXCEPT !.at = "block"]
    /\ UNCHANGED <<mode, rewards, failure, trial, staged, summary, faults>>

\* run_repetition_block: the leading complete repetitions count.
CompleteRows(n) == Max({r \in 0 .. n \div TaskCount : \A q \in 1 .. r : RowComplete(q)})

\* An incomplete trial stops the recorder and the block returns what it has;
\* execute_native adds that to the summary and then raises.
BlockIncomplete ==
    /\ run.at = "report" /\ ~Reportable /\ ~WaveComplete
    /\ failure' = Stopped("NativeOutcomeOrMandatoryMetricsIncomplete")
    /\ run' = [run EXCEPT !.at = "finally", !.wave = {}]
    /\ summary' = [summary EXCEPT !.status = "stopped", !.trials = run.next - 1,
                                  !.rows = CompleteRows(run.next - 1)]
    /\ UNCHANGED <<mode, rewards, trial, staged, faults>>

BlockComplete ==
    /\ run.at = "report" /\ ~Reportable /\ WaveComplete /\ run.next > LastOfBlock
    /\ run' = [run EXCEPT !.at = "decide"]
    /\ summary' = [summary EXCEPT !.trials = run.next - 1, !.rows = CompleteRows(run.next - 1)]
    /\ UNCHANGED <<mode, rewards, failure, trial, staged, faults>>

-----------------------------------------------------------------------------
(* What execute_native decides between blocks                              *)

\* The rewards of the run are read here for the first time.
Read == IF rewards = <<>> THEN rewards' \in RewardTables ELSE UNCHANGED rewards
Rows(n) == [r \in 1 .. n |-> rewards[r]]

DecideInterim ==
    /\ run.at = "decide" /\ mode = "none" /\ run.block = 1
    /\ Read
    /\ LET decision == InterimDecision([r \in 1 .. summary.rows |-> rewards'[r]])
           stop == decision = "stop_for_design_audit"
       IN  /\ summary' = [summary EXCEPT !.interim = decision, !.status = IF stop THEN "stopped" ELSE @]
           /\ failure' = IF stop THEN Stopped("InterimBaselineVariability") ELSE failure
           /\ run' = [run EXCEPT !.at = IF stop THEN "finally" ELSE "block", !.block = 2, !.wave = {}]
    /\ UNCHANGED <<mode, trial, staged, faults>>

StatusOf(rows) == IF Informative(rows) THEN "complete" ELSE "inconclusive"
DecideBaseline ==
    /\ run.at = "decide" /\ mode = "none" /\ run.block \in {2, 3}
    /\ LET rows == Rows(summary.rows)
           extend == Decision(rows) = "extend_to_total_20"
       IN  /\ run' = [run EXCEPT !.at = IF extend THEN "block" ELSE "finally",
                                 !.block = IF extend THEN 3 ELSE @, !.wave = {}]
           /\ summary' = IF extend THEN summary
                         ELSE [summary EXCEPT !.decision = Decision(rows), !.status = StatusOf(rows)]
    /\ UNCHANGED <<mode, rewards, failure, trial, staged, faults>>

DecideOther ==
    /\ run.at = "decide" /\ mode # "none"
    /\ Read
    /\ run' = [run EXCEPT !.at = "finally", !.wave = {}]
    /\ summary' = [summary EXCEPT
                     !.status = "complete",
                     !.comparison = IF mode = "compressor" THEN CompareQuality(BaselineRows, [r \in 1 .. summary.rows |-> rewards'[r]], 1) ELSE @]
    /\ UNCHANGED <<mode, failure, trial, staged, faults>>

-----------------------------------------------------------------------------
(* The finally block and the bundle                                        *)

\* upload_state of the spool's last report: all items are in the store or not.
Uploads == IF ~run.spool THEN {"retrieval_pending"}
           ELSE IF staged = <<>> THEN {"no_complete_items"}
           ELSE {"uploaded", "retrieval_pending"}

FinalStatus(status, upload) ==
    IF upload = "retrieval_pending" /\ status \in {"complete", "inconclusive"} THEN "retrieval_pending" ELSE status
\* The proxy is shut down and its request threads joined; the compressor is
\* closed; the queue is closed; the spool is given its time.
Finish ==
    /\ run.at = "finally" /\ \A k \in Plan : UnderWay(trial[k]) = 0
    /\ \E closeFails, finishRaises \in BOOLEAN, upload \in Uploads :
          LET status == IF closeFails THEN "stopped" ELSE summary.status
              shown == IF finishRaises THEN "retrieval_pending" ELSE upload
          IN
          /\ IF closeFails \/ finishRaises THEN Fault ELSE UNCHANGED faults
          /\ finishRaises => run.spool
          /\ failure' = IF closeFails THEN Stopped("CompressorCloseError") ELSE failure
          /\ summary' = [summary EXCEPT
                           !.status = FinalStatus(status, shown),
                           !.before = IF FinalStatus(status, shown) # status THEN status ELSE "none",
                           !.upload = IF finishRaises THEN "finalization_error" ELSE upload,
                           !.items = IF finishRaises THEN <<>> ELSE staged,
                           !.reason = failure']
    /\ run' = [run EXCEPT !.at = "written"]
    /\ UNCHANGED <<mode, rewards, trial, staged>>

-----------------------------------------------------------------------------
(* verify_native_run and verify_cache_bundle_run                           *)

Written == run.at = "written"
Measured == IF summary.before # "none" THEN summary.before ELSE summary.status

RecordedTrials == {k \in Plan : trial[k].at = "written"}
EveryTrialIncluded == RecordedTrials = 1 .. summary.trials

\* The metrics are computed again from the events, and must come out the same.
MetricsUnchanged == \A k \in 1 .. summary.trials : ~trial[k].late

RowsFollow ==
    /\ summary.rows = CompleteRows(summary.trials)
    /\ (\E k \in 1 .. summary.trials : ~trial[k].valid) => summary.status = "stopped"

RetrievalFollows ==
    /\ summary.items = [i \in 1 .. summary.rows |-> i]
    /\ summary.status \in {"complete", "inconclusive"} => summary.upload = "uploaded"
    /\ summary.status = "retrieval_pending" => summary.upload = "retrieval_pending"

BaselineFollows ==
    mode = "none" =>
       /\ summary.interim = IF summary.rows >= Interim THEN InterimDecision(Rows(Interim)) ELSE "none"
       /\ summary.rows = Interim =>
             /\ summary.status = "stopped"
             /\ (summary.reason = "InterimBaselineVariability") = (summary.interim = "stop_for_design_audit")
       /\ summary.rows # Interim /\ summary.status # "stopped" =>
             /\ summary.rows \in {Minimum, Maximum}
             /\ summary.rows = Maximum => Decision(Rows(Minimum)) # "observed_range_stabilized"
             /\ summary.decision = Decision(Rows(summary.rows))
             /\ (Measured = "complete") = Informative(Rows(summary.rows))

ComparisonFollows ==
    mode = "compressor" /\ Measured = "complete" =>
       summary.comparison = CompareQuality(BaselineRows, Rows(summary.rows), 1)

CacheBundleFollows ==
    /\ summary.trials = TaskCount /\ summary.rows = 1
    /\ Measured = "complete" /\ Len(summary.items) = 1

RecordFollows ==
    IF mode = "cache_reuse" THEN CacheBundleFollows
    ELSE EveryTrialIncluded /\ RowsFollow /\ RetrievalFollows /\ BaselineFollows /\ ComparisonFollows

Verifies == MetricsUnchanged /\ RecordFollows

-----------------------------------------------------------------------------

Next ==
    \/ \E k \in {j \in Plan : trial[j].at # "planned"} :
          \/ Spawn(k) \/ Ask(k) \/ Send(k) \/ Drop(k) \/ Answer(k) \/ Deliver(k)
          \/ HitLimit(k) \/ Exits(k) \/ PollStops(k) \/ SupervisorRaises(k) \/ LateRequest(k)
          \/ ReadFailure(k) \/ Collect(k) \/ CollectRaises(k)
    \/ Setup \/ SetupFails \/ StartWave \/ WaveRefused \/ EndWave \/ EndWaveRaises
    \/ Report \/ ReportRaises \/ MoreWaves \/ BlockIncomplete \/ BlockComplete
    \/ DecideInterim \/ DecideBaseline \/ DecideOther \/ Finish

Spec == Init /\ [][Next]_vars

-----------------------------------------------------------------------------
(* Properties                                                              *)

\* Whatever ended the run, a bundle that claims a measurement agrees with its
\* own rows, decisions and staged repetitions; and it passes its verification,
\* metrics included, if no counted trial had a request under way when its
\* metrics were read.  (With one it may be refused: the request logs its events
\* afterwards.  A spool whose finish raised leaves no items; such a bundle does
\* not verify.)
MeasuredBundleVerifies ==
    Written /\ Measured \in {"complete", "inconclusive"} /\ summary.upload # "finalization_error" =>
       /\ RecordFollows
       /\ (\A k \in 1 .. summary.trials : ~trial[k].behind) => Verifies

\* A repetition is counted, and staged for retrieval, only if each of its
\* trials ended by itself, stopped by nothing that was known when its record
\* was made, with every attempt answered and its usage known.
OnlyCompleteRowsCount ==
    \A r \in 1 .. Maximum :
       (r \in ToSet(staged) \/ (Written /\ r <= summary.rows)) =>
          \A k \in TrialsOf(r) :
             /\ trial[k].leader = "exit_zero" /\ ~trial[k].stopped /\ trial[k].clean
             /\ trial[k].late \/ trial[k].usage = "known"

\* What a bundle measures is made of complete rows and can be verified.
MeasurementHolds == MeasuredBundleVerifies /\ OnlyCompleteRowsCount

\* A trial that was stopped leaves no process behind, unless the run is
\* stopped as well; and a bundle is written only when no request is under way.
StoppedLeavesNothing ==
    /\ \A k \in Plan : trial[k].stopped /\ trial[k].group => failure # NoFailure
    /\ Written => \A k \in Plan : UnderWay(trial[k]) = 0

\* What verify_native_run asks of every bundle: "Summary must include every
\* recorded native trial".
SummaryIncludesEveryTrial == Written => EveryTrialIncluded
=============================================================================

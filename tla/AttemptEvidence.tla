--------------------------- MODULE AttemptEvidence ---------------------------
(***************************************************************************)
(* How one attempt of the screening becomes a result and a disposition:    *)
(* _classify_attempt and _completed_attempt_evidence of                    *)
(* src/src/screening_run.py over what the agent's process, the transport's *)
(* threads, the verifier and its replay leave behind.                      *)
(*                                                                         *)
(* The classification starts when the process has ended.  It reads the     *)
(* provider's events, the trial's failure and the events again, in this    *)
(* order, and threads of the transport may still be at work: an agent that *)
(* gave up on a request leaves its thread behind.                          *)
(***************************************************************************)
EXTENDS Integers, Sequences, FiniteSets, SequencesExt

CONSTANTS
    AeAttempts,   \* bound: HTTP attempts
    AeEstimate,   \* the reservation of one HTTP attempt
    AeFailures,   \* bound: reasons a trial may be stopped for
    AeJudgements, \* bound: what a verifier may leave
    AeFaults      \* bound: things that go wrong on the way

Scored == {"pass", "wrong_answer", "wrong_format"}
Safety == {"budget_stopped", "censored"}
Network == {"TimeoutError", "ClientDisconnectedAfterDispatch"}
Failures == Safety \cup Network \cup {"provider_failure"}
NoFailureYet == "no_failure"
\* What the verifier left: its reward or -1, its tests, and whether the reward
\* file says the same.  And what ended the agent.
Judgements == [reward : -1 .. 1, tests : {"pass", "fail", "fail_format", "fail_timeout", "none"}, file : BOOLEAN]
Unjudged == [reward |-> -1, tests |-> "none", file |-> FALSE]
Sound(j) ==
    /\ j.file
    /\ \/ j.reward = 1 /\ j.tests = "pass"
       \/ j.reward = 0 /\ j.tests \in {"fail", "fail_format"}
Exceptions == {"agent_timeout", "verifier", "infrastructure", "other"}

ASSUME AeAssumption == AeEstimate \in Nat /\ AeFailures \subseteq Failures /\ AeJudgements \subseteq Judgements

VARIABLES
    http,      \* the HTTP attempts, in the order they were dispatched
    serving,   \* what the transport knows of the trial: failure, deliveries
    agent,     \* turns, commands, exception and the end of the process
    judged,    \* what the verifier left
    replayed,  \* the replay bundle: phase and status
    read,      \* what the classification has read so far
    record,    \* the attempt's record, and its evidence once it is uploaded
    aeFaults

aeVars == <<http, serving, agent, judged, replayed, read, record, aeFaults>>

NothingRead == [pc |-> "not_started", provider |-> <<>>, rejected |-> FALSE, failure |-> NoFailureYet]
NoRecord == [result |-> "none"]

\* Definitions named ...Slip are not part of the model.  Each is the next
\* definition with a mistake, used to see that a property would notice it.

AeInit ==
    /\ http = <<>>
    /\ serving = [failure |-> NoFailureYet, delivered |-> 0]
    /\ agent = [state |-> "running", turns |-> 0, commands |-> "settled", exception |-> "none"]
    /\ judged = Unjudged
    /\ replayed = [phase |-> "missing", status |-> "none"]
    /\ read = NothingRead
    /\ record = NoRecord
    /\ aeFaults = 0

Wrong(isWrong) ==
    IF isWrong THEN aeFaults < AeFaults /\ aeFaults' = aeFaults + 1 ELSE UNCHANGED aeFaults

-----------------------------------------------------------------------------
(* The transport's threads                                                 *)

Pending == {i \in DOMAIN http : http[i].state = "open"}

\* A new request while the agent runs, or the retry of one that had no usage;
\* retries go on when the process has ended.
AeDispatch ==
    /\ Len(http) < AeAttempts /\ Pending = {}
    /\ agent.state = "running" \/ (http # <<>> /\ Last(http).state = "no_usage")
    /\ serving.failure = NoFailureYet
    /\ http' = Append(http, [state |-> "open", billed |-> 0, late |-> agent.state # "running"])
    /\ UNCHANGED <<serving, agent, judged, replayed, read, record, aeFaults>>

\* The answer: with usage, without (429, a malformed body), or a rejection.
AeAnswer(i, state, billed) ==
    /\ i \in Pending
    /\ state # "usage" => billed \in {0, AeEstimate}
    /\ Wrong(state # "usage")
    /\ http' = [http EXCEPT ![i].state = state, ![i].billed = billed]
    /\ serving' = IF state = "rejected" /\ serving.failure = NoFailureYet
                  THEN [serving EXCEPT !.failure = "provider_failure"] ELSE serving
    /\ UNCHANGED <<agent, judged, replayed, read, record>>

\* The sender raised, a limit was reached, or the client was gone.
AeTrialFails(reason) ==
    /\ serving.failure = NoFailureYet
    /\ Wrong(TRUE)
    /\ serving' = [serving EXCEPT !.failure = reason]
    /\ UNCHANGED <<http, agent, judged, replayed, read, record>>

\* The event is written after the client has the answer.
AeDeliver ==
    /\ serving.delivered < Cardinality({i \in DOMAIN http : http[i].state = "usage"})
    /\ serving' = [serving EXCEPT !.delivered = @ + 1]
    /\ UNCHANGED <<http, agent, judged, replayed, read, record, aeFaults>>

-----------------------------------------------------------------------------
(* The agent, the verifier and the replay                                  *)

\* A step of the agent; its command is settled, or nobody knows whether the
\* terminal took it, or the terminal's session had ended after an exit.
AeTurn(commands) ==
    /\ agent.state = "running" /\ agent.exception = "none" /\ agent.turns < Cardinality({i \in DOMAIN http : http[i].state = "usage"})
    /\ Wrong(commands # "settled")
    /\ agent' = [agent EXCEPT !.turns = @ + 1,
                              !.commands = IF @ = "settled" THEN commands ELSE @,
                              !.exception = IF commands = "after_exit" THEN "session_ended" ELSE "none"]
    /\ UNCHANGED <<http, serving, judged, replayed, read, record>>

AeRaise(exception) ==
    /\ agent.state = "running" /\ agent.exception = "none"
    /\ Wrong(TRUE)
    /\ agent' = [agent EXCEPT !.exception = exception]
    /\ UNCHANGED <<http, serving, judged, replayed, read, record>>

\* The verifier runs when the agent came to its end, timeouts included, and
\* the environment captures, restores and repeats (VerifierReplay).
AeVerify(j, status) ==
    /\ agent.state = "running" /\ agent.exception # "session_ended" /\ replayed.phase = "missing"
    /\ IF Sound(j) /\ status = "complete" THEN UNCHANGED aeFaults ELSE Wrong(TRUE)
    /\ judged' = j
    /\ replayed' = [phase |-> "before_verifier", status |-> status]
    /\ UNCHANGED <<http, serving, agent, read, record>>

AeTeardown(status) ==
    /\ agent.state = "running" /\ replayed.phase = "missing"
    /\ Wrong(status # "complete" \/ (agent.exception = "none" /\ serving.failure = NoFailureYet))
    /\ replayed' = [phase |-> "teardown", status |-> status]
    /\ UNCHANGED <<http, serving, agent, judged, read, record>>

\* supervise: the process ends, the guard ends it, or it fails or supervise
\* raises.
AeExit(how) ==
    /\ agent.state = "running"
    /\ how = "guard" => serving.failure # NoFailureYet
    /\ how = "ok" => replayed.phase # "missing"
    /\ Wrong(how = "failed")
    /\ agent' = [agent EXCEPT !.state = how]
    /\ UNCHANGED <<http, serving, judged, replayed, read, record>>

-----------------------------------------------------------------------------
(* What is read                                                            *)

\* provider_cost: an attempt without a cost keeps its estimate.
ProviderCost ==
    [i \in DOMAIN http |-> [known |-> http[i].state = "usage", late |-> http[i].late,
                            cost |-> IF http[i].state = "usage" THEN http[i].billed ELSE AeEstimate]]

AeReadCost ==
    /\ agent.state # "running" /\ read.pc = "not_started"
    /\ read' = [read EXCEPT !.pc = "cost", !.provider = ProviderCost,
                              !.rejected = \E i \in DOMAIN http : http[i].state = "rejected"]
    /\ UNCHANGED <<http, serving, agent, judged, replayed, record, aeFaults>>

AeReadFailure ==
    /\ read.pc = "cost"
    /\ read' = [read EXCEPT !.pc = "failure", !.failure = serving.failure]
    /\ UNCHANGED <<http, serving, agent, judged, replayed, record, aeFaults>>

ProcessComplete == agent.state = "ok"

\* classify_native and collect_native_outcome: is the judgement complete and
\* consistent.  An exception of the agent alone does not make it invalid.
QualityValid ==
    /\ judged.reward # -1 /\ judged.file
    /\ agent.exception \notin {"verifier", "infrastructure"}
    /\ agent.state # "guard"
    /\ agent.state = "ok" \/ agent.exception # "none" \/ judged.tests \in {"fail", "fail_format", "fail_timeout"}
    /\ judged.tests # "none"
    /\ judged.reward = 1 => judged.tests = "pass"
    /\ judged.reward = 0 => judged.tests # "pass"

NativeTimeout == agent.exception = "agent_timeout" \/ judged.tests = "fail_timeout"

UsageKnownSlipAnswered == http # <<>> /\ \A i \in DOMAIN http : http[i].state # "open"

\* trial_metrics: attempts exist, are finished, and have usage.
UsageKnown == http # <<>> /\ \A i \in DOMAIN http : http[i].state = "usage"

\* trial_metrics and command_metrics: nothing is open or uncertain.
MeasurementComplete ==
    /\ ProcessComplete
    /\ UsageKnown
    /\ agent.turns <= serving.delivered
    /\ agent.commands = "settled"

ReplayAcceptedHere == replayed.phase = "before_verifier" /\ replayed.status = "complete"

\* _terminal_session_exit_evidence
SessionExit ==
    /\ read.failure = NoFailureYet
    /\ replayed = [phase |-> "teardown", status |-> "complete"]
    /\ agent.exception = "session_ended" /\ agent.commands = "after_exit"

\* The order of _classify_attempt.
Result(image) ==
    CASE read.failure \in Safety -> read.failure
      [] read.failure \notin Safety /\ read.provider = <<>> -> IF image THEN "image_error" ELSE "setup_error"
      [] read.failure \notin Safety /\ read.provider # <<>> ->
            IF NativeTimeout THEN "timeout"
            ELSE IF read.failure \in Network THEN "network_error"
            ELSE IF read.failure # NoFailureYet THEN "provider_error"
            ELSE IF agent.exception = "verifier" THEN "verifier_crash"
            ELSE IF ~ReplayAcceptedHere
                 THEN IF replayed.phase = "missing" THEN "evidence_missing" ELSE "replay_mismatch"
            ELSE IF ~QualityValid \/ ~MeasurementComplete THEN "evidence_missing"
            ELSE IF judged.reward = 1 THEN "pass"
            ELSE IF judged.tests = "fail_format" THEN "wrong_format"
            ELSE "wrong_answer"

\* technical_exclusion_basis: why the verifier never ran.
Exclusion(result) ==
    IF result = "provider_error" /\ read.rejected /\ read.failure # NoFailureYet /\ replayed.phase = "teardown"
    THEN "rejected"
    ELSE IF read.failure \in Safety /\ judged.reward = -1 THEN "safety_stop"
    ELSE IF result = "replay_mismatch" /\ SessionExit THEN "session_exit"
    ELSE "none"

\* The second read of the events, and the result.
AeClassify(image) ==
    LET result == Result(image) IN
    /\ read.pc = "failure"
    /\ record' = [result |-> result, provider |-> read.provider, exclusion |-> Exclusion(result),
                  replay |-> replayed, originalError |-> read.failure # NoFailureYet \/ SessionExit,
                  evidence |-> "pending"]
    /\ read' = [read EXCEPT !.pc = "done"]
    /\ UNCHANGED <<http, serving, agent, judged, replayed, aeFaults>>

-----------------------------------------------------------------------------
(* The evidence of a finished attempt                                      *)

\* The three exclusions that need no verifier: each has its own result, and the
\* environment was captured when it was taken down.
ExclusionComplete ==
    /\ record.exclusion # "none" /\ record.originalError
    /\ record.replay = [phase |-> "teardown", status |-> "complete"]

\* _completed_attempt_evidence: uploaded and verified, every cost known to the
\* machine and the store, the timings of what ran, and a replay or an exclusion.
AeComplete(uploaded, costs, timings) ==
    LET replay == record.replay = [phase |-> "before_verifier", status |-> "complete"]
        complete == uploaded /\ costs /\ timings /\ (replay \/ ExclusionComplete)
    IN  /\ record # NoRecord /\ record.evidence = "pending"
        /\ Wrong(~(uploaded /\ costs /\ timings))
        /\ record' = [record EXCEPT !.evidence = IF ~complete THEN "incomplete"
                                                 ELSE IF record.result \in Scored THEN "quality_result_complete"
                                                 ELSE "technical_exclusion_complete"]
        /\ UNCHANGED <<http, serving, agent, judged, replayed, read>>

AeNext ==
    \/ AeDispatch \/ AeDeliver \/ AeReadCost \/ AeReadFailure
    \/ \E i \in 1 .. AeAttempts, state \in {"usage", "no_usage", "rejected"}, billed \in 0 .. AeEstimate : AeAnswer(i, state, billed)
    \/ \E reason \in AeFailures : AeTrialFails(reason)
    \/ \E commands \in {"settled", "uncertain", "after_exit"} : AeTurn(commands)
    \/ \E exception \in Exceptions : AeRaise(exception)
    \/ \E j \in AeJudgements, status \in {"complete", "mismatch"} : AeVerify(j, status)
    \/ \E status \in {"complete", "incomplete"} : AeTeardown(status)
    \/ \E how \in {"ok", "guard", "failed"} : AeExit(how)
    \/ \E image \in BOOLEAN : AeClassify(image)
    \/ \E uploaded, costs, timings \in BOOLEAN : AeComplete(uploaded, costs, timings)

AeSpec == AeInit /\ [][AeNext]_aeVars

-----------------------------------------------------------------------------
(* Properties                                                              *)

\* A score rests on evidence that agrees: whatever went wrong on the way, and
\* whatever a thread did after the process had ended, a scored attempt has the
\* usage of every HTTP attempt made while the agent ran, the record's cost
\* covers what they were billed, the commands are settled, the verifier ran and
\* agrees with its tests, and its replay was accepted.  An attempt that the
\* record calls undispatched, and the scheduler may repeat for free, sent
\* nothing while the agent ran.  An exclusion hides no reward.
AeScoreIsBacked ==
    /\ record.result \in Scored =>
          /\ \A i \in DOMAIN http : ~http[i].late =>
                /\ http[i].state = "usage"
                /\ i \in DOMAIN record.provider /\ record.provider[i].cost >= http[i].billed
          /\ agent.state = "ok" /\ agent.commands = "settled"
          /\ Sound(judged) /\ replayed = [phase |-> "before_verifier", status |-> "complete"]
          /\ judged.reward = 1 <=> record.result = "pass"
    /\ record.result \in {"setup_error", "image_error"} => \A i \in DOMAIN http : http[i].late
    /\ record # NoRecord =>
          /\ record.evidence = "technical_exclusion_complete" /\ record.exclusion # "none" => judged.reward = -1
          /\ record.evidence = "quality_result_complete" => record.result \in Scored
=============================================================================

----------------------------- MODULE ScreeningRun -----------------------------
(***************************************************************************)
(* A screening run over its sessions: execute_screening, _resume_inputs    *)
(* and _run_completion_driven of src/src/screening_run.py.  The main       *)
(* thread claims trials, hands them to a pool of workers, and settles the  *)
(* finished ones: cost into the database, evidence into the spool, and the *)
(* result only when the evidence has been read back.  It composes, each    *)
(* reduced to what this loop sees of it, the scheduler's database          *)
(* (ScreeningScheduler), the recorder's exposure (LiveRecorder) and the    *)
(* spool (BlobSpool).  The process may crash between any two steps.        *)
(*                                                                         *)
(* A trial has one attempt.  Every request costs one unit and its cost is  *)
(* known at once.                                                          *)
(***************************************************************************)
EXTENDS Integers, FiniteSets, FiniteSetsExt

CONSTANTS
    Trials,        \* the plan: numbers, claimed in their order
    Concurrency,   \* workers of the pool
    RunLimit,      \* max_api_cost_usd_per_run, in requests
    MaxRequests,   \* bound: requests of one attempt
    MaxSessions    \* bound: the first session and its resumes

ASSUME RunAssumption ==
    /\ Trials \subseteq Nat /\ IsFiniteSet(Trials)
    /\ Concurrency \in Nat \ {0} /\ RunLimit \in Nat \ {0}
    /\ MaxRequests \in Nat /\ MaxSessions \in Nat

VARIABLES
    db,         \* the scheduler's database: state and recorded cost of each trial
    spool,      \* the spool on disk: the upload state of each item
    saved,      \* the status in summary.json
    reported,   \* whether retrieval.json exists
    sessions,   \* sessions started
    pc,         \* where the main thread is, "down" between sessions
    loop,       \* its local state
    work,       \* the futures of the pool
    recorder,   \* exposure and stop flag of the session's recorder
    spent,      \* what the provider really served to each trial while it ran
    left        \* requests that it left in the recorder when it ended: waiting,
                \* and what the provider served to such requests

vars == <<db, spool, saved, reported, sessions, pc, loop, work, recorder, spent, left>>

NoTrial == -1
Inputs == <<"run-inputs", 0>>
Evidence(t) == <<"attempt", t>>
\* One for each result, and one at the end of each session.
Checkpoints == {<<"run-state", n>> : n \in 1 .. Cardinality(Trials) + MaxSessions}
Items == {Inputs} \cup {Evidence(t) : t \in Trials} \cup Checkpoints

Recorded == MapThenSumSet(LAMBDA t : db[t].recorded, Trials)
InState(state) == {t \in Trials : db[t].state = state}
Active == {t \in Trials : work[t] # "idle"}
Alive == pc # "down"

FreshLoop == [accepting |-> TRUE, free |-> Concurrency, batch |-> {}, current |-> NoTrial,
              counted |-> 0, incomplete |-> {}, stop |-> FALSE, status |-> "running"]

NewRecorder == [exposure |-> 0, stopped |-> FALSE]

\* Definitions named ...Slip are not part of the model.  Each is the next
\* definition with a mistake, used to see that a property would notice it.

Init ==
    /\ db = [t \in Trials |-> [state |-> "planned", recorded |-> 0]]
    /\ spool = [i \in Items |-> "absent"]
    /\ saved = "none" /\ reported = FALSE
    /\ sessions = 0
    /\ pc = "down"
    /\ loop = FreshLoop
    /\ work = [t \in Trials |-> "idle"]
    /\ recorder = NewRecorder
    /\ spent = [t \in Trials |-> 0]
    /\ left = [t \in Trials |-> [waiting |-> 0, served |-> 0]]

Moves(from, to) == pc = from /\ pc' = to
PausedSlipPlansAgain ==
    [t \in Trials |-> IF db[t].state = "running" THEN [db[t] EXCEPT !.state = "planned"] ELSE db[t]]
Paused == [t \in Trials |-> IF db[t].state = "running" THEN [db[t] EXCEPT !.state = "paused"]
                            ELSE db[t]]

-----------------------------------------------------------------------------
(* Starting and resuming                                                   *)

\* A first session stages its inputs.
Start ==
    /\ sessions = 0 /\ Moves("down", "inputs")
    /\ sessions' = 1
    /\ spool' = [spool EXCEPT ![Inputs] = "pending"]
    /\ loop' = FreshLoop
    /\ UNCHANGED <<db, saved, reported, work, recorder, spent, left>>

\* _resume_inputs: interrupted attempts are paused, and while one of them
\* is, nothing is resumed.
ResumeRefused ==
    /\ sessions \in 1 .. MaxSessions - 1 /\ pc = "down"
    /\ db' = Paused
    /\ {t \in Trials : db'[t].state = "paused"} # {}
    /\ UNCHANGED <<spool, saved, reported, sessions, pc, loop, work, recorder, spent, left>>

\* Otherwise the spool takes up again every item that is not uploaded.
Resume ==
    /\ sessions \in 1 .. MaxSessions - 1 /\ Moves("down", "inputs")
    /\ InState("running") = {} /\ InState("paused") = {}
    /\ sessions' = sessions + 1
    /\ spool' = [i \in Items |-> IF spool[i] = "failed" THEN "pending" ELSE spool[i]]
    /\ loop' = FreshLoop
    /\ UNCHANGED <<db, saved, reported, work, recorder, spent, left>>

\* The inputs are verified, and the last session did not stop for a reason
\* other than an interruption.  A recorder is made, and takes over the cost
\* that the database knows; a cost over the limit stops it.
InputsVerified ==
    /\ Moves("inputs", "filling")
    /\ spool[Inputs] = "uploaded" /\ saved # "stopped"
    /\ recorder' = [exposure |-> Recorded, stopped |-> Recorded > RunLimit]
    /\ UNCHANGED <<db, spool, saved, reported, sessions, loop, work, spent, left>>

\* Otherwise, or when the upload takes too long, there is no session.
InputsNotVerified ==
    /\ Moves("inputs", "down")
    /\ spool[Inputs] # "uploaded" \/ saved = "stopped"
    /\ UNCHANGED <<db, spool, saved, reported, sessions, loop, work, recorder, spent, left>>

-----------------------------------------------------------------------------
(* The pool                                                                *)

\* A running attempt is served one request.
Serve(t) ==
    /\ work[t] = "running" /\ ~recorder.stopped
    /\ recorder.exposure < RunLimit /\ spent[t] < MaxRequests
    /\ recorder' = [recorder EXCEPT !.exposure = @ + 1]
    /\ spent' = [spent EXCEPT ![t] = @ + 1]
    /\ UNCHANGED <<db, spool, saved, reported, sessions, pc, loop, work, left>>

\* A limit of the run is reached, or its deadline.
StopRun(t) ==
    /\ work[t] = "running"
    /\ recorder' = [recorder EXCEPT !.stopped = TRUE]
    /\ UNCHANGED <<db, spool, saved, reported, sessions, pc, loop, work, spent, left>>

\* run_attempt returns, whatever happened to its process.  close_trial lets no
\* new request in, and leaves those that wait in the queue or for a retry.
Finish(t) ==
    /\ work[t] = "running"
    /\ work' = [work EXCEPT ![t] = "done"]
    /\ \E n \in 0 .. MaxRequests - spent[t] : left' = [left EXCEPT ![t].waiting = n]
    /\ UNCHANGED <<db, spool, saved, reported, sessions, pc, loop, recorder, spent>>

\* Such a request is sent when its turn comes: check_trial asks for the run's
\* stop, the trial's failure and the time, not whether the trial is closed.
ServeLate(t) ==
    /\ left[t].waiting > 0 /\ ~recorder.stopped
    /\ recorder.exposure < RunLimit
    /\ recorder' = [recorder EXCEPT !.exposure = @ + 1]
    /\ left' = [left EXCEPT ![t].waiting = @ - 1, ![t].served = @ + 1]
    /\ UNCHANGED <<db, spool, saved, reported, sessions, pc, loop, work, spent>>

\* Or a check, a limit or its deadline ends it.
GiveUp(t) ==
    /\ left[t].waiting > 0
    /\ left' = [left EXCEPT ![t].waiting = @ - 1]
    /\ UNCHANGED <<db, spool, saved, reported, sessions, pc, loop, work, recorder, spent>>

\* The background upload of an item ends; it is uploaded once read back.
Upload(i) ==
    /\ Alive /\ spool[i] = "pending"
    /\ \E end \in {"uploaded", "failed"} : spool' = [spool EXCEPT ![i] = end]
    /\ UNCHANGED <<db, saved, reported, sessions, pc, loop, work, recorder, spent, left>>

-----------------------------------------------------------------------------
(* The main thread                                                         *)

\* fill_open_workers: the next planned trial goes to an open worker.
Claim ==
    /\ Moves("filling", "filling")
    /\ loop.accepting /\ loop.free > 0 /\ ~recorder.stopped
    /\ InState("planned") # {}
    /\ LET t == Min(InState("planned")) IN
       /\ db' = [db EXCEPT ![t].state = "running"]
       /\ work' = [work EXCEPT ![t] = "running"]
    /\ loop' = [loop EXCEPT !.free = @ - 1]
    /\ UNCHANGED <<spool, saved, reported, sessions, recorder, spent, left>>

Filled ==
    /\ Moves("filling", "waiting")
    /\ ~loop.accepting \/ loop.free = 0 \/ (~recorder.stopped /\ InState("planned") = {})
    /\ UNCHANGED <<db, spool, saved, reported, sessions, loop, work, recorder, spent, left>>

CollectSlipReplacesAtOnce ==
    LET done == {t \in Trials : work[t] = "done"} IN
    /\ Moves("waiting", "settling")
    /\ done # {}
    /\ loop' = [loop EXCEPT !.batch = done, !.free = @ + Cardinality(done)]
    /\ work' = [t \in Trials |-> IF t \in done THEN "idle" ELSE work[t]]
    /\ UNCHANGED <<db, spool, saved, reported, sessions, recorder, spent, left>>

\* wait: every future that is done leaves the pool.
Collect ==
    LET done == {t \in Trials : work[t] = "done"} IN
    /\ Moves("waiting", "settling")
    /\ done # {}
    /\ loop' = [loop EXCEPT !.batch = done]
    /\ work' = [t \in Trials |-> IF t \in done THEN "idle" ELSE work[t]]
    /\ UNCHANGED <<db, spool, saved, reported, sessions, recorder, spent, left>>

\* The results of a batch are settled in the order they were submitted.
\* _classify_attempt counts the requests that were sent until then.
SettleNext ==
    LET t == Min(loop.batch) IN
    /\ Moves("settling", "recording")
    /\ loop.batch # {}
    /\ loop' = [loop EXCEPT !.current = t, !.batch = @ \ {t},
                            !.counted = spent[t] + left[t].served]
    /\ UNCHANGED <<db, spool, saved, reported, sessions, work, recorder, spent, left>>

\* A batch is settled.
BatchSettled ==
    /\ Moves("settling", "filling")
    /\ loop.batch = {}
    /\ loop' = [loop EXCEPT !.current = NoTrial, !.counted = 0]
    /\ UNCHANGED <<db, spool, saved, reported, sessions, work, recorder, spent, left>>

\* _record_provider_requests: one transaction for each request.
RecordRequest ==
    LET t == loop.current IN
    /\ pc = "recording"
    /\ db[t].recorded < loop.counted
    /\ db' = [db EXCEPT ![t].recorded = @ + 1]
    /\ UNCHANGED <<spool, saved, reported, sessions, pc, loop, work, recorder, spent, left>>

StageEvidence ==
    LET t == loop.current IN
    /\ Moves("recording", "verifying")
    /\ db[t].recorded = loop.counted
    /\ spool' = [spool EXCEPT ![Evidence(t)] = "pending"]
    /\ UNCHANGED <<db, saved, reported, sessions, loop, work, recorder, spent, left>>

CommitSlipNoReadBack ==
    LET t == loop.current IN
    /\ Moves("verifying", "checkpointing")
    /\ spool[Evidence(t)] \in {"pending", "uploaded"}
    /\ db' = [db EXCEPT ![t].state = "completed"]
    /\ UNCHANGED <<spool, saved, reported, sessions, loop, work, recorder, spent, left>>

\* The evidence was read back, and is complete: the result is recorded.
Commit ==
    LET t == loop.current IN
    /\ Moves("verifying", "checkpointing")
    /\ spool[Evidence(t)] = "uploaded"
    /\ db' = [db EXCEPT ![t].state = "completed"]
    /\ UNCHANGED <<spool, saved, reported, sessions, loop, work, recorder, spent, left>>

LeaveIncompleteSlipNoTimeout ==
    /\ Moves("verifying", "settling")
    /\ spool[Evidence(loop.current)] = "failed"
    /\ loop' = [loop EXCEPT !.incomplete = @ \cup {loop.current}]
    /\ saved' = loop.status
    /\ UNCHANGED <<db, spool, reported, sessions, work, recorder, spent, left>>

\* It was not, in time, or something is missing: the trial stays as it is and
\* its worker is not replaced.
LeaveIncomplete ==
    /\ Moves("verifying", "settling")
    /\ loop' = [loop EXCEPT !.incomplete = @ \cup {loop.current}]
    /\ saved' = loop.status
    /\ UNCHANGED <<db, spool, reported, sessions, work, recorder, spent, left>>

Latest ==
    LET staged == {i \in Checkpoints : spool[i] # "absent"}
    IN  <<"run-state", Cardinality(staged)>>
NewCheckpoint == <<"run-state", Latest[2] + 1>>

StageCheckpoint ==
    /\ Moves("checkpointing", "confirming")
    /\ spool' = [spool EXCEPT ![NewCheckpoint] = "pending"]
    /\ saved' = loop.status
    /\ UNCHANGED <<db, reported, sessions, loop, work, recorder, spent, left>>

\* _verify_completed_batch: the checkpoint was read back, the worker is replaced ...
Confirm ==
    /\ Moves("confirming", "settling")
    /\ spool[Latest] = "uploaded"
    /\ loop' = [loop EXCEPT !.free = @ + 1]
    /\ saved' = loop.status
    /\ UNCHANGED <<db, spool, reported, sessions, work, recorder, spent, left>>

\* ... or it was not, and nothing more is claimed.
StopClaiming ==
    /\ Moves("confirming", "settling")
    /\ spool[Latest] # "uploaded"
    /\ loop' = [loop EXCEPT !.accepting = FALSE, !.stop = TRUE]
    /\ saved' = loop.status
    /\ UNCHANGED <<db, spool, reported, sessions, work, recorder, spent, left>>

\* Every future was settled: what stayed incomplete is paused.
LoopEnds ==
    /\ Moves("waiting", "closing")
    /\ Active = {}
    /\ db' = IF loop.incomplete # {} THEN Paused ELSE db
    /\ loop' = [FreshLoop EXCEPT !.status = IF loop.incomplete # {} \/ loop.stop THEN "stopped"
                                            ELSE "complete"]
    /\ UNCHANGED <<spool, saved, reported, sessions, work, recorder, spent, left>>

InTheLoop == {"filling", "waiting", "settling", "recording", "verifying",
              "checkpointing", "confirming"}

\* An exception leaves the loop and its local state.
Raise(reason) ==
    /\ pc \in InTheLoop /\ pc' = "raised"
    /\ loop' = [FreshLoop EXCEPT !.status = reason, !.free = 0]
    /\ UNCHANGED <<db, spool, saved, reported, sessions, work, recorder, spent, left>>

\* next_attempt, when the recorder is stopped.
CheckRaises ==
    /\ pc = "filling" /\ loop.accepting /\ loop.free > 0 /\ recorder.stopped
    /\ Raise("stopped")

\* Any step of the loop may fail, and the user may interrupt it.
StepFails == Raise("stopped")
UserInterrupts == Raise("interrupted")

\* The pool is left only when all its workers have returned: until then the
\* recorder goes on.  Then it is stopped, and what was not settled is paused.
HandleException ==
    /\ Moves("raised", "closing")
    /\ \A t \in Trials : work[t] # "running"
    /\ recorder' = [recorder EXCEPT !.stopped = TRUE]
    /\ db' = Paused
    /\ work' = [t \in Trials |-> "idle"]
    /\ UNCHANGED <<spool, saved, reported, sessions, loop, spent, left>>

\* The finally clause: server_close waits for the threads of the requests, then
\* a last checkpoint, which may fail, before or after it is staged ...
LastCheckpoint ==
    /\ Moves("closing", "flushing")
    /\ \A t \in Trials : left[t].waiting = 0
    /\ \/ /\ spool' = [spool EXCEPT ![NewCheckpoint] = "pending"]
          /\ saved' = loop.status
          /\ UNCHANGED loop
       \/ /\ loop' = [loop EXCEPT !.status = IF @ = "complete" THEN "retrieval_pending" ELSE @]
          /\ spool' \in {spool, [spool EXCEPT ![NewCheckpoint] = "pending"]}
          /\ UNCHANGED saved
    /\ UNCHANGED <<db, reported, sessions, work, recorder, spent, left>>

\* ... and the spool's final flush, which ends when every item has, or late.
\* What it says goes to retrieval.json, which save_json only creates: when an
\* earlier session left one it raises, and the summary is not written.
Flush ==
    /\ Moves("flushing", "down")
    /\ reported' = TRUE
    /\ saved' = IF reported THEN saved
                ELSE IF loop.status = "complete" /\ \E i \in Items : spool[i] \in {"pending", "failed"}
                THEN "retrieval_pending" ELSE loop.status
    /\ loop' = FreshLoop /\ recorder' = NewRecorder
    /\ UNCHANGED <<db, spool, sessions, work, spent, left>>

-----------------------------------------------------------------------------
(* Crashes, and the operator                                               *)

\* The machine stops: memory, workers and requests are lost.
Crash ==
    /\ Alive /\ pc' = "down"
    /\ loop' = FreshLoop
    /\ work' = [t \in Trials |-> "idle"]
    /\ recorder' = NewRecorder
    /\ left' = [t \in Trials |-> [left[t] EXCEPT !.waiting = 0]]
    /\ UNCHANGED <<db, spool, saved, reported, sessions, spent>>

\* resolve_paused_attempt, called by an operator between sessions.  The cost
\* it is given goes to the attempt, not to the provider requests.
ResolvePaused(t) ==
    /\ pc = "down" /\ db[t].state = "paused"
    /\ db' = [db EXCEPT ![t].state = "resolved"]
    /\ UNCHANGED <<spool, saved, reported, sessions, pc, loop, work, recorder, spent, left>>

-----------------------------------------------------------------------------
MainStep ==
    \/ InputsVerified \/ InputsNotVerified
    \/ Claim \/ Filled \/ Collect \/ SettleNext \/ BatchSettled
    \/ RecordRequest \/ StageEvidence \/ Commit \/ LeaveIncomplete
    \/ StageCheckpoint \/ Confirm \/ StopClaiming \/ LoopEnds
    \/ CheckRaises \/ HandleException \/ LastCheckpoint \/ Flush

Next ==
    \/ Start \/ Resume \/ ResumeRefused \/ MainStep
    \/ StepFails \/ UserInterrupts \/ Crash
    \/ \E t \in Trials :
          Serve(t) \/ ServeLate(t) \/ GiveUp(t) \/ StopRun(t) \/ Finish(t) \/ ResolvePaused(t)
    \/ \E i \in Items : Upload(i)

Spec == Init /\ [][Next]_vars

\* The main thread goes on, and every attempt and every request ends: the
\* wall-clock limit and the run's deadline see to that.  Nobody need resume or
\* resolve.
FairSpec ==
    /\ Spec /\ WF_vars(MainStep)
    /\ \A t \in Trials : WF_vars(Finish(t)) /\ WF_vars(ServeLate(t) \/ GiveUp(t))

-----------------------------------------------------------------------------
(* Properties                                                              *)

\* A result enters the database only with its evidence read back, through
\* every crash and resume; the provider is paid only once the inputs are; and a run
\* calls itself complete only when every trial has a result.
EvidenceBeforeResult ==
    /\ \A t \in Trials : db[t].state = "completed" => spool[Evidence(t)] = "uploaded"
    /\ (\E t \in Trials : spent[t] + left[t].served > 0) => spool[Inputs] = "uploaded"
    /\ saved = "complete" => \A t \in Trials : db[t].state \in {"completed", "resolved"}

\* While a session runs, every trial that the database calls running is with
\* a worker or with the main thread, and between sessions nothing but a crash
\* leaves one; and a worker is free, at work, done, being settled or given up.
NothingForgotten ==
    /\ Cardinality(Active) + loop.free <= Concurrency
    /\ pc \in InTheLoop => InState("running") \subseteq
          Active \cup loop.batch \cup {loop.current} \cup loop.incomplete
    /\ pc \in {"closing", "flushing"} => InState("running") = {} /\ Active = {}

\* A trial that was ever handed to a worker is never handed out again.
NeverRunTwice ==
    [][\A t \in Trials : db[t].state # "planned" => db'[t].state # "planned"
                                                 /\ (work'[t] = "running" => work[t] = "running")]_vars

\* What a completed trial spent while it ran is in the database, so that a
\* resume counts it, and nothing is that was not served.  What is not there was
\* spent by attempts that were interrupted, or sent after the classification by
\* requests that an attempt had left behind.
CostOfResultsKept ==
    \A t \in Trials : db[t].state = "completed" =>
        spent[t] <= db[t].recorded /\ db[t].recorded <= spent[t] + left[t].served

\* A result that is in the database has all that it stands on.
ResultsAreBacked == EvidenceBeforeResult /\ CostOfResultsKept

\* A session ends, in one way or another.
SessionEnds == Alive ~> ~Alive

\* The execution safety policy's full-run limit, over all sessions.
FullRunLimitHeld == MapThenSumSet(LAMBDA t : spent[t] + left[t].served, Trials) <= RunLimit

\* The reproducibility contract: "If verification is still incomplete after
\* the final flush, leave the state as retrieval_pending; do not mark it
\* complete."
FlushedIsUploaded ==
    [][Flush /\ saved' = "complete" => \A i \in Items : spool[i] \in {"absent", "uploaded"}]_vars
=============================================================================

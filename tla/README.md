# Verification of the prompt-compression billing benchmark

This directory holds TLA+ specifications of the parts of the benchmark that
decide, with money or a measurement at stake, what runs, what is paid and what
is recorded; the TLC configurations that check them on small instances; and
proofs, checked by TLAPS, of the main invariants for all instances.

The code measures what prompt compression saves on a paid model. A screening
run plans thousands of trials of agent tasks, runs several at once, sends every
request of every agent through one protected transport that knows the price,
stages the evidence of each trial for a remote store, and must be able to stop
at any moment and be resumed, possibly days later, without paying twice for
the same work or losing count of what was paid. Around it stand the runs that
make measurements (native repetitions against a baseline, cycles of cache
reuse, a verifier replayed, an offline task, frozen requests), each of which
must never claim more than its evidence shows. The models follow that order:
first what spends, then what concludes.

All modules are translated from the Python sources under `src/`.
`PROJECT.json` maps each definition to the lines it stands for, and gives for
each property a mutated definition (`...Slip` in the modules) with which TLC
finds the property violated.

## 1. Inventory

### Parts, their state and their operations

| Part | Source | State | Operations | Modelled in |
|---|---|---|---|---|
| Screening scheduler | `screening_scheduler.py` | SQLite tables `tasks`, `trials`, `attempts`, `provider_requests`, `continuation_runs` | `claim`, `mark_provider_dispatch`, `mark_attempt_runtime`, `complete_attempt`, `pause_interrupted`, `resolve_paused_attempt`, `retry_paused_after_infrastructure_interruption`, `link_continuation` | `ScreeningScheduler`, `EligibilityGate` |
| Protected transport | `live_transport.py` (`LiveRecorder`, `start_live_proxy`), `execution_safety.py` | known, unconfirmed and pending cost of the run and of each trial; call counts; stop event and first failure | `initialize_run_cost_exposure`, `register_trial`, `complete` (check, reserve, send, settle, retry), `stop`, `stop_trial`, `close_trial` | `LiveRecorder` |
| Deployment queue | `live_transport.py` (`DeploymentQueue`) | one JSON file shared by all processes under `flock`: slots of the last minute, end of the cooldown | open, `reserve`, `cooldown`, close | `DeploymentQueue` |
| Screening run loop | `screening_run.py` | the run's directory, the pool of workers, the batch being settled, the incomplete list, `summary.json`, `retrieval.json` | start, resume, claim, wait, settle, stage evidence, checkpoint, stop, flush; `_classify_attempt`; `_prepare_continuation` | `ScreeningRun`, `AttemptEvidence`, `Continuation` |
| Machine cost | `screening_cost.py`, the tracker in `screening_run.py` | start and finish of every attempt | `mark_started`, `mark_finished`, `allocation_for` | `VmCost` |
| Blob spool | `blob_retrieval.py` | one directory with `state.json` per item, a queue, an uploader thread, what the store holds | stage, upload (write, read back, mark), `finish`, `resume`, the bill | `BlobSpool`, `ItemUploads` |
| Native run | `native_run.py`, `baseline.py` | waves of trials, process groups, repetitions reported, final records | `run_trial_plans`, `run_repetition_block`, `supervise`, `execute_native`, `verify_native_run` | `NativeRun`, `BaselineRule` |
| Worker pool | `compressors.py`, `llmlingua_worker.py` | a queue of worker processes, `closed`, call numbers | start, probe, `compress`, `_exchange`, `close` | `WorkerPool` |
| Protection | `protection.py`, `pipeline.py` | frozen request, latched failure, the transformed object | construct, `prepare`, `verify`, `forward`, `measure` | `Protection` |
| Recovery bridge | `local_recovery.py`, `squeez_recovery.py` | handles, capabilities with quotas, used nonces on disk | issue, recover, revoke, restart; plan and execute a cleanup | `Recovery`, `Cleanup` |
| Cache reuse | `cache_reuse.py`, `cache_runtime_context.py` | the cycle's directory, prefix tracker, cycle summaries | doctor, `execute_cycle`, `observe`, `finish_bundle`, `cache_stability`, `cache_verdict` | `CacheCycle`, `CacheStudy` |
| Replay environment | `replay_environment.py` | writable layer, mounts, processes, replay manifest | `exec`, capture, repeat, restore, `stop` | `VerifierReplay` |
| Offline run | `accountless_native.py` | the worker's pipe and buffer, the run's directory | `run_command`, `verify_run` | `AccountlessRun` |
| Local run | `run.py`, `accounting.py` | the proxy's threads, calls, `attempts.jsonl`, the summary | `forward`, close, `run`, `totals`, verify | `LocalRun` |
| Static runner | `static_run.py` | files of each request, records, the summary | `execute`, `verify` | `StaticRun` |
| Judgement and metrics | `native_judge.py`, `task_metrics.py` | none | what a verifier's files say | in `AttemptEvidence` |
| Front ends | `experiment_run.py`, `benchmark_run.py`, `preliminary_comparison.py`, `adapter_preflight.py` | the request, the result record, the comparison's status file | check or execute a request, select a task, run the conditions | `FrontEnds` |
| SWE-Lancer admission and carrier | `swe_lancer_admission.py`, `swe_lancer_carrier.py` | the reserved result file | reserve, attest, read the inputs, check receipts, admit, write | `Carrier` |
| Prompt intake | `prompt_intake.py` | the archive and its manifest, under a lock | archive attachments | no |
| Contracts, statistics, pages | the rest | none | pure functions | no |

### How the parts interact

The run loop is one main thread and a pool. The main thread alone calls
`claim`, settles finished attempts and talks to the spool; each worker runs one
attempt (`_run_attempt`), which registers a trial with the recorder and starts
the agent as a process of its own. The agent's requests come back over HTTP to
the proxy, which gives each a thread in `LiveRecorder.complete`. These threads
share the recorder under one lock, and wait in the queue for a slot; the
queue's file is shared with other runs on the same deployment. A thread can
outlive the agent that asked. When an attempt's process has ended, its worker
classifies it from the transport's events, the verifier's files and the replay
bundle that the environment left, and the main thread then records the result,
divides the machine's time and stages the evidence. The spool's uploader is a
daemon thread that sees items through a `queue.Queue` and writes their
`state.json`; the main thread reads those files to decide whether an item is
uploaded. The recorder's stop event is the one thing that all of them look at.
After a crash, the next session has the database, the spool's directory and the
records written so far, and nothing else; a continuation by a newer source has
the earlier run's directory, which it only reads.

A native run uses the same recorder and spool with waves of trials instead of
completion order; a cache cycle runs six native runs one after the other. Both
may hand prompts to the worker pool on the way out. The offline, local and
static runs share no process with the others.

### What is hard, and what makes each part correct

- *Scheduler*: a trial is retried at most once, only after a failure that cost
  nothing or an infrastructure interruption; a verdict can come while other
  trials of the plan are still to run, and cancels them. The tables must agree,
  the counters must be the counts, verdicts must be what the rule says and
  final, and paid work must be neither repeated nor erased.
- *Transport*: threads check a limit, then reserve, then write evidence, then
  send, then learn the cost or not at all. No interleaving with a stop, a lost
  answer, a failing write or another thread may overspend, leak a reservation
  or forget a bill that was reported or reserved for. What a lost answer costs
  beyond its reservation nobody can know; the policy leaves it to the invoice.
- *Queue*: processes that may die at any write share a file and a wall clock
  that may be set back. The provider's per-minute limits and cooldowns must
  hold across processes, and a wait must end.
- *Run loop*: exceptions, an interrupt or the end of the process between any
  two steps. No result without its evidence, no attempt out of sight, nothing
  run twice, nothing called complete that is not. The evidence is read piece by
  piece while late threads write; a score must not rest on a view no moment had.
- *Machine cost and continuations*: sums assembled in the order attempts happen
  to settle, and over runs that continue each other: each cost once.
- *Spool*: what is marked uploaded must be in the store and have been read
  back; every billed operation must be between the two counts on disk.
- *Native run*: one thing goes wrong in a wave, a block or between them. What is
  measured must be whole and verifiable, and a stopped trial must really stop.
- *Pool, bridge, replay, offline run*: processes that die, print stray lines,
  lose answers, are restarted or write at the wrong moment.
- *Cache reuse, static and local runs*: a conclusion, a record or an exit code
  must be drawn from what happened, whoever looks, changes or raises in between.
- *Front ends and carrier*: a record says checked, completed or ready on behalf
  of runs and inputs that others make, replace or lose.

The hazards, each at its line with the properties that would notice it, are in
`PROJECT.json` ("hazards"); the two that no property covers carry a note.

## 2. The modules

### ScreeningScheduler

One variable per table. Each public method of `ScreeningState` runs in one
immediate SQLite transaction, so each is one action; where the method raises,
the transaction rolls back and the action is not enabled. A trial is a pair
`<<task, repetition>>` with two possible attempt rows, since `attempt_number`
never exceeds 2. `Claimed` is the query of `claim`: retries first, then the
plan's order, at most one trial of a task, none of a task with an open trial.
`FinishAttempt` is `_complete_attempt`, shared by completion and resolution;
`SettleQuality` and `SettleTechnical` are its two branches, including the
cancellation of what the verdict makes pointless. `LinkContinuation` inserts
the trials of an earlier run with counters recomputed. Hashes, timestamps,
costs and the event log are left out: no decision reads them.

`EligibilityGate` is the rule the scheduler is there to apply, with no table,
attempt or order in it: results arrive, and a task becomes eligible, or
ineligible, when the results it has justify it. `ImplementsGate` is the
refinement.

### LiveRecorder

Every logical request is a thread with a program counter. A step is what the
thread does while it holds the lock once: `Enter` and the checks, `ReserveDispatch`,
the evidence write, the last check before sending, the answer, its settlement,
the retry, and the paths by which each of these raises. Costs are small natural
numbers. What the provider really bills is kept beside the recorder's own
amounts in `meter` (the code cannot see it). A reservation bounds no bill, as
the code's own evidence (`reservation_is_provider_guarantee: False`) and the
safety policy say: an answer may report more than its reservation (`overrun`),
and one that is lost may have cost more (`unseen`). Deadlines are not clocks
but a choice at every place where the code compares one.

### DeploymentQueue

`file` is the shared file; `whole` is false after a process died inside
`persist`, which rewrites the file in place. A step that holds the file lock is
one action. `clock` is the wall clock that may be set back up to `MaxBack`
seconds; the true time of every granted slot is kept for the properties.

### ScreeningRun, ItemUploads and BlobSpool

`ScreeningRun` is `execute_screening` as the main thread lives it (`pc`), with
the workers (`work`), the rows of the database it needs (`db`), the spool as it
sees it (`spool`), the recorder's exposure and stop, and the two records it
writes at the end (`saved` for `summary.json`, `reported` for whether
`retrieval.json` exists). `Crash` is possible anywhere; `Raise` is any
exception in the loop, with what the `except` and `finally` clauses then do.
`spent` is what was really paid while the attempts ran, over all sessions.
`close_trial` refuses new requests and leaves those that wait in the queue or
for a retry: `left` has them, `ServeLate` sends one, whenever its turn comes,
and what it costs after `SettleNext` has counted is in no row of the database.

The loop relies on the spool only through `ItemUploads`, four lines that say
what an item's upload may do: staged once, ends uploaded or failed, taken up
again by a resume only if it failed. `ScreeningRun` uses its spool that way,
and `BlobSpool`, the detailed model with the rename, the attempts, the counts
on disk, the store and its faults, is shown to keep that promise
(`KeepsPromise`). An item is staged by its rename, and becomes part of the
session's list and queue a step later: `entry` is what the session knows of it,
and `StageRaisesLate` the failure in between. `BlobCost` is the bill that `blob_operation_cost` makes of the
counts; `served` is what the store did, which the code cannot see.

### AttemptEvidence

Between the end of an attempt's process and its row in the database. `http` is
the transport's event log, `serving` what the recorder knows, `agent` the turns
and the end of the process, `judged` and `replayed` what the verifier and its
replay left. `_classify_attempt` is three actions because it reads three times
without a lock (`AeReadCost`, `AeReadFailure`, `AeClassify`), and transport
threads step in between. `Result` keeps the order of its `if` chain, `Sound` is
the judgement of `native_judge.py`, `MeasurementComplete` what
`task_metrics.py` asks, and `AeComplete` is `_completed_attempt_evidence`.

### Continuation

`chain` is the sequence of runs, each with the ledger version it ran under, its
attempts, its links and the costs it carries. `Continuable` collects the
refusals of `_prepare_continuation`, `Linkable` its choice of records and
`CarriedCosts` its sums. A cost is a sequence of bills rather than a number, so
that a bill that is missing or counted twice shows.

### VmCost

Each attempt's thread takes the time and marks it in two steps, as the code
does: `mark_started` and `mark_finished` get a time that was read before the
tracker's lock. `Shares` is `allocate_active_vm_cost` by its sweep over the
sorted points, as a fold that takes the latest point off what is left to sweep;
points that the code's sort key does not tell apart may come in any order, which
the code leaves to the order of its intervals. `Known` is the tracker's view at
the moment an attempt is settled, in which the others may still be running.

The code shares seconds in floating point. Here a second has `VmSecond` parts,
and `VmAssumption` asks that it can be shared whole among any number of attempts
up to the number of threads, so that the sums are exact; how far rounding takes
the program from them is left out.

### NativeRun and BaselineRule

`BaselineRule` has the stopping rule and the comparison with a baseline as
operators on rows of rewards. `NativeRun` has each trial's process group,
leader, requests and record (`trial`), the driver (`run`: block, wave, what was
reported), the recorder's failure, the staged repetitions and the summary. A
request waits to be sent, is sent, is answered and its answer delivered (`Ask`,
`Send`, `Answer`, `Deliver`); one that the agent left behind goes on after its
trial is closed, because only new requests of a closed trial are refused.
`ReadFailure` and `Collect` are the two reads at the end of a trial's thread,
the reason it was stopped and then the events; `CollectRaises` is its failure,
`EndWave` the loop over futures, where one that raises loses the wave. `late`
remembers that an event of a trial came after its metrics were read. The window
between the last check of a request and its dispatch is in `LiveRecorder`. `Finish` is the
`finally` clause of `execute_native`; `Verifies` is `verify_native_run` and its
variant for cache bundles, conjunct by conjunct.

### WorkerPool and Protection

`WorkerPool`: workers with the request they hold and what is in their standard
output; a call takes a worker from the queue, sends, and reads one line. A
worker may die or print a line that nobody asked for. `Joined` is the one thing
outside the class: its owner stops the proxy and waits for the request threads
before it calls `close`.

`Protection`: `guard` is the frozen request with its segments, which cover each
message (`Covered`); `With` puts the request together again with other texts for
its candidates, in the order of messages (`RankOf`). `payload` is the
object that `prepare` returned and its holder may change (`PrChange`), `outgoing`
what `forward` handed to a sender that has not read it yet. `RunProtectionGate`
and the observation pipeline latch their first failure.

### Recovery and Cleanup

`Recovery` has the registry (handles, offsets, quotas of a trial), the bridge's
capabilities in memory, the nonce and capability files on disk, and a clock for
expiry. `BridgeRecover` is the order of the code: authenticate, write the nonce
file, look at the quotas, call the supplier; a restart forgets memory and keeps
the files. An original is the sequence of its characters' widths, since chunks
are cut at characters and counted in bytes.

`Cleanup` takes both cleanups through their three passes: plan, look at every
entry again, delete. Other processes may replace an entry, the runtime directory
too, between any two system calls: a runtime file is compared by one (`lstat`,
later `os.stat`) and read or unlinked by another, so `ClnCompare` is an action of
its own before `ClnRead` and before `ClnDelete`. The directory a file is unlinked
from is open since the comparison and may have left the tree by then. A vendor
file is looked at through one open file and deleted later by its name alone; the
runtime directory is removed by its name alone.

### CacheCycle and CacheStudy

`CacheCycle` is one cycle with the doctor's probe before it: two processes with
the same run id, a tracker in memory, and files created with mode `x`.
`CacheStudy` takes a cycle as one step and has what leads to it and what follows
from it: admission by screened tokens, metrics of a bundle from the provider's
answers (with those that report no usage), contrasts, the cohort check, the
boundaries at ten and twenty cycles and the verdict, which is asked for with
conclusive quality and without, at any time and in any order.

### VerifierReplay

A container's layer is what docker shows of each path (unchanged, copied from
the image with the same content, changed, deleted, or a socket that no archive
holds); the verifier's results are a mount that is also a host directory.
`RvCapture`, `RvRead` and `RvKeep` keep the state before the verifier; `RvCopy`,
`RvRestore`, `RvRead`, `RvCompare`, `RvRepeat`, `RvJudge` and `RvPutBack` are the
repetition that `stop` makes. A state is read in four awaited commands, the diff,
the processes, the archive and the mounts (`view`), and `RvDisturb`, a process
left behind in the container, may write to the layer or to the results between
any two of them, or end. What it did is in the history `seen`. A step of the
repetition that fails leaves through the `finally` of `stop`, which takes the
containers down (`RvDown`); only `RvDies` leaves them up.

### AccountlessRun, LocalRun and StaticRun

`AccountlessRun`: commands with the same run id race for a directory; the winner
reads its worker's lines through a pipe and a reader's buffer, which are two
variables because `select` sees only the first. `LocalRun`: the proxy's threads
(`handlers`), what the model server answered (`upstream`), the attempts file,
and the driver of the repetitions. `StaticRun` extends `Protection`: each
request goes through its pipeline, files and records are written, and `verify`
makes them again; one file may be changed in between.

### FrontEnds and Carrier

`FrontEnds`: `front` is the process with a program counter (`load`, `gate`,
`lower`, `reads`, `saves`, `records`), `feEnds` what the lower runner of each
command ended in, chosen from the exit codes and records that its `main` can
give, `kept` and `published` the files. The same request may be given again,
checked or executed. The comparison (`cmp`) selects its task from the evidence
of an earlier run and takes the conditions in order, with its status file
written around each; a write may fail and the process may end anywhere.

`Carrier`: processes of the two commands race for one result file. Each reads
the four inputs one by one, while their owner may replace one and time passes;
a document is its version, what ledger it names, until when it holds, and
whether its own contract is met. `CrFresh` is judged at the time of the
reservation and the deadline at the time of admission, as in the code.

`MC...` modules extend each module with the definitions an instance needs.
`MCScreeningParts` and `MCTools` put several components that share no state
into one run: a variable names the one that moves, so the states add up
instead of multiplying.

`...Proofs` modules extend the modules they prove about; `FiniteLemmas` is what
they share (section 6).

## 3. Runs

Every run explores its whole state space. Four expect a violation; each of these
states what a document or the code itself says, and is a finding of section 5.

| Run | Instance | What it shows |
|---|---|---|
| `screening_parts` | database: 2 tasks, 2 repetitions, claims of 1 or 2, links; machine: 3 attempts on 2 threads; continuations: 3 runs, 2 trials, 2 ledger versions | one open trial per task, tables and counters agree, verdicts justified, nothing stranded, history kept, the gate implemented; the machine paid once; costs carried once and only sound results linked |
| `scheduler_retry` | 2 tasks, 1 repetition, 2 runtimes, a request identifier | what a retry repeats was never paid for and runs in a fresh place; every task is decided under fairness |
| `recorder` | 2 requests of a trial, 2 HTTP attempts each, overrun 1, limits 2, with exposure of an earlier session, run scope | money is conserved and covers what is billed up to the part of lost answers beyond their reservations, limits hold up to overruns, call cap, a stop is final, every call returns |
| `queue` | 2 processes, 3 calls, 2 slots and 2 tokens in a window of 2, estimates within and over the limit, cooldowns, a clock set back, crashes | the window's limits and cooldowns hold across processes, and every wait ends |
| `queue_clock_back` | 3 slots, a clock set back by a second | finding 1 |
| `run_sessions` | 2 trials, 2 workers, 2 sessions, failing uploads | evidence before results and complete means complete, nothing forgotten, nothing run twice, what a result spent while its attempt ran is kept, a session ends |
| `run_cost` | the same with 1 worker and a limit of 1 | finding 2 |
| `run_retrieval` | the same | finding 3 |
| `blob_uploads` | 2 items, 2 attempts, 2 sessions, 2 faults | marked uploaded means stored, the bill is what the store served, no item falls out of sight, the promise is kept |
| `native_run` | 3 tasks; 2, 4 and 6 repetitions for the code's 5, 10 and 20; waves of 2; one trial with a request under way, or two of one trial; one fault anywhere, a request left behind included; five tables of rewards that lead to every decision | a bundle that measures agrees with itself, verifies unless a counted trial left a request behind, and rests on complete rows; a stopped trial leaves nothing behind |
| `native_summary` | the same | finding 4 |
| `tools` | the remaining components, thirteen modules, below | one property each, below |

The properties of `tools`:

| Property | Instance | What it says |
|---|---|---|
| `PoolServes` | 2 workers, 3 calls, 2 faults | a call gets the compression of its own text though stray lines shift a worker's answers, no worker is lost or lent twice, none outlives the pool, and close strands no call |
| `RecWhatWasGranted` | 2 handles, 2 nonces, characters of 1 and 2 bytes, lost answers, a restart | what a caller holds is a prefix cut at characters; a nonce buys at most one supply, also across a restart; quotas hold for both ways in together |
| `ClnAllOrNothing` | 2 files, a directory, 2 changes by others | a tree that changed after its plan is left alone whole, unless a file changes again within its look; another identity than planned is deleted only when it came after the last comparison; removed means empty |
| `CcOneStory` | 2 processes, 2 conditions, 2 requests, 1 fault | the files of a cycle are of one process and a prefix of the plan, a summary is of all bundles, a failure counts what is there |
| `CsOneConclusion` | boundaries at 2 and 4 for 10 and 20, 7 kinds of bundle, 2 setups | however often one looks, and whether or not quality was conclusive each time, all conclusions are from one number of cycles of one setup, differ only by that, and no answer without usage is in a cycle |
| `RvReplayIsGenuine` | 1 path of the image and 1 other, 3 commands, 1 fault | an accepted replay began in the first verifier's state and left the same, but for a process left behind; the first results stay, or the replay is not accepted and `original-verifier` holds them |
| `AeScoreIsBacked` | 2 HTTP attempts, 2 faults, late threads | a score has usage, cost, a sound verifier and its replay; what may be repeated for free sent nothing; an exclusion hides no reward |
| `ApprovedEditsOnly` | 2 requests, 3 texts, a tampered object, a killed run, a changed file | what is sent or measured is the frozen request with approved edits, and what verifies is whole |
| `AnVerdictIsEarned` | 2 commands, 2 stages, stray lines, a worker that dies, a killed command | a verdict is the worker's own and the exit code's; a collision never writes |
| `LrSummaryIsTrue` | 2 threads, 2 repetitions, 2 calls, 2 attempts | totals have every recorded answer, late ones too; no second retry budget; exit 0 only for a clean run |
| `FeRecordsAreTrue` | 16 requests with a flaw or none, 2 commands, 2 conditions, 2 tasks, failing reads and writes | only an approved and agreeing request pays; a record on disk and exit 0 are backed by a run that was judged and stored; such a run of an experiment is reported so unless a read or write failed; the comparison's task does not depend on verdicts, and its status file tells how each condition ended |
| `CrReadyIsEarned` | a carrier and an admission, 9 prepared situations, 1 replaced input, times 0 to 2 | the file is one process's; ready only for inputs of one attestation and one ledger, fresh when observed, with the reserve left when admitted |

### Why the bounds are enough

The scheduler's behaviour depends on a trial's row, its task's row and whether
another trial of the task is open; two tasks with two trials give every
combination, with verdicts by failures, by a full count with too few passes and
by passes, and results still missing. In the code the thresholds are 20, 18 and
3; they are constants here, and the theorems of section 6 hold for all of them.

In the recorder, two threads suffice for each race between a check and a
reservation, because every conflict is between one thread's check and what
*others* have reserved, and the limits of 2 are reached by two reservations of
1 or by one and its overrun. Two HTTP attempts give a retry after each outcome
of a first; the third differs from the second in nothing. The theorems hold
for any number of both.

The queue's window of 2 seconds with a clock to 3 (more in `queue_clock_back`)
lets slots expire while others count; three calls are one more than the slots.
`LastAsk` and `MaxClock` bound the time, so that calls end before the clock
does. Two processes are enough to leave a cooldown, a stop or a half-written
file to another.

Two trials and two workers make a batch of two, a batch of one with the other
running, and a worker freed while another is settled. Two sessions give one
crash or interrupt, one resume and what follows; a third session starts from
the same kinds of rows as the second. `MaxRequests` caps what one attempt
sends, and its one request is sent while it runs, or left behind and sent before
or after the classification; with a `RunLimit` of one each session pays for one,
so that a second session shows what the first forgot. `MaxFaults` caps the faults of the store and the disk (each at any step, of
any operation; crashes are limited by `MaxSessions` only).

A second of the machine has two parts, which two threads share whole; three
attempts on two threads let one finish before, during and after another's
settlement. Three runs make a continuation of a continuation and two
continuations of the same run. Waves of three trials over tasks of two cross a
repetition's end, so that a fault may hit a wave with a finished and an
unfinished repetition. In `tools`, the sets are the smallest with which each
race has both sides: two commands, two processes, two threads, an original whose
second character cannot be cut, a fault more than the first that is handled.

`CHECK_DEADLOCK FALSE` is given where the system may stop: a run that is
finished or has used its sessions, a screening that is decided, a queue whose
clock has reached its bound, a recorder whose calls have all returned, a tool
that has ended. That no one is left waiting is stated by the liveness
properties instead.

## 4. Fairness

- *Scheduler* (`EventuallyDecided`): a claim is made when one is possible and no
  trial is paused (the run loop keeps claiming, and a resume refuses to start
  while a paused attempt is unresolved), a running attempt gets its runtime and
  ends. Nothing is assumed of pauses, of resolutions or of which result comes.
- *Recorder* (`CallsReturn`): each thread keeps taking steps. Waits inside a
  step are bounded in the code: the sender has a timeout and the queue's wait a
  deadline and the stop event.
- *Queue* (`WaitEnds`): time passes, and each waiting call wakes up; `reserve`
  sleeps on the stop event for at most a second. The operating system is
  assumed to hand over the file lock; a process that dies drops it.
- *Run* (`SessionEnds`): the main thread keeps taking steps and each attempt's
  worker finishes, which `_run_attempt` owes to the supervisor and the
  recorder's limits; a request left behind is sent or given up, which its
  deadlines see to (`server_close` waits for its thread). Nothing is assumed of uploads: waiting for one is bounded
  by a timeout, and that the session ends all the same is the point.

The other runs check safety and assume nothing.

## 5. Findings and observations

Four runs show a disagreement; the quotations are in `PROJECT.json`.

1. `queue_clock_back`. `_reload` tolerates a clock one second behind the last
   slot and `reserve` then appends an earlier slot after a later one. The file
   is now out of order, which `_reload` refuses; no process can use it again
   and nothing repairs it.
2. `run_cost`. The exposure a resumed session starts from is the sum of
   `provider_requests`, whose rows are written when the main thread settles an
   attempt. What an attempt spent before its session was interrupted has no row
   and never gets one, nor has what a request that an attempt left behind cost
   after the attempt was classified: `close_trial` lets no new request in, and
   no check of the others asks for it. So over two sessions a run can spend more
   than its limit. What *is* kept is stated by `CostOfResultsKept`, a conjunct of
   `ResultsAreBacked`: what every attempt that has a result spent while it ran,
   and nothing that was not served.
3. `run_retrieval`. The `finally` clause writes `retrieval.json` with a function
   that refuses to overwrite. In the second session of a run that had already
   written it, the exception comes before the summary is corrected, and a run
   whose last upload is pending stays recorded as complete.
4. `native_summary`. The trials of a block enter the summary when the block
   returns. Whatever raises inside one leaves records of trials that the summary
   does not list, and `verify_native_run` refuses the bundle.

Met while modelling, and stated in the models as what the code does, with no run
of their own:

- *Blob spool*: a crash in staging, after the hidden directory has its
  `state.json`, leaves a directory that every later `resume` refuses. An
  exception between the rename and the queue (`StageRaisesLate`) leaves a pending
  item that no list of the session holds: its caller saw the exception, `finish`
  can still report `completed`, and only a later `resume` uploads it.
  `NothingDropped` says that this is the only way.
- *Cleanup*: the last comparison of a runtime file (`os.stat`) and its deletion
  by name are two calls, and the vendor files and the runtime directory have no
  comparison after the look: what another process puts there in between is
  deleted. A runtime file rewritten before the execution and replaced between its
  `lstat` and `fingerprint_file` by one with the planned content passes the look,
  and the cleanup stops at it after it has deleted others. `ClnAllOrNothing` says
  that these are the only ways.
- *Machine cost*: a settlement between another attempt's reading of the clock and
  its mark divides a second wrongly; `VmPaidOnce` excludes that window
  (`exact`), while the contract speaks of every allocation.
- *Local run*: an answer that breaks off raises `IncompleteRead`, which no clause
  of `forward` or of the handler catches: the attempt is not recorded
  (`"broken"` in `LocalRun`). A result whose `verifier_result` is null raises a
  `TypeError` that `run` does not catch: the summary stays `running` and the
  exit code is Python's 1, which otherwise means failed.
- *Native run*: a request that its agent left in the compressor or in the queue
  has no attempt yet, so the trial's metrics are complete without it. Its thread
  sends it afterwards and logs events (`late`); `verify_native_run` computes the
  metrics again and refuses a bundle that the run calls complete.
  `MeasuredBundleVerifies` says that this is the only way, besides a spool whose
  last report could not be made.
- *Offline run*: the worker's last line can stay in the reader's buffer when the
  worker has ended, and a finished inference is recorded as `execution_failed`;
  a line that is JSON but no object raises, leaves the worker running and no
  result, with exit code 2, which elsewhere means a failed preflight.
- *Replay environment*: when `_replace_host_tree` cannot put the first verifier's
  results back, its exception leaves through `stop`: the results are removed or
  incomplete, `original-verifier` has them, and the manifest on disk still says
  what the capture did, without a replay. The state is read in several commands;
  a process left in the container that writes between them makes the capture,
  or the comparison, of a state that never was. `RvReplayIsGenuine` says what
  stays true.
- *Front ends*: when the record of a benchmark cannot be written, the command
  ends with 2 and "Experiment request file could not be read", though the run
  was paid. A later `--check` of the same request replaces the completed record
  in its output file. An experiment that fails after its lower run is only
  printed. An interrupt by the user during one condition of a comparison is
  recorded like any failure (`except BaseException`), and the next condition,
  which is paid for too, is started.
- *Benchmark requests*: `_attempt_result` (`benchmark_run.py:283`) calls a run
  complete only when `attempt.json` has `evidence_disposition` equal to
  `quality_result_complete`. `_finalize_attempt` (`screening_run.py:721-739`)
  writes that file before its evidence is stored and without this key, which goes
  to `summary.json` later; only the fixture of
  `tests/test_benchmark_run.py:194` has it. So an executed benchmark, paid,
  judged and stored, is reported `failed` with outcome `technical_incomplete`,
  quality `unknown` and exit code 3, with no fault anywhere.
  `BenchmarkComplete` is the test of the code, and `FeRecordsAreTrue` excepts
  benchmarks from what it says of whole runs; what it says of records and of exit
  code 0 is met by executed benchmarks for want of any.
- *Cache study*: the caller of `cache_verdict` says each time whether quality was
  conclusive, so the same stable cycles can give `quality_inconclusive` once and
  an effect another time. `CsOneConclusion` says that this is the only way.
- *Carrier*: freshness is judged at the time of the reservation, so a record can
  say ready when a receipt has already ended.

## 6. Proofs

TLAPS checks a theorem for every property of the passing runs but the four of
liveness. A theorem holds for every value of the constants that the module's `ASSUME`
allows; the runs of section 3 show the same property on one instance, and TLC
evaluates every `ASSUME` there.

Each proof has the same shape. An inductive invariant (`IInv`, `NrInv`, or the
tool's own) is the conjunction of named parts; a lemma per action shows that the
action keeps it, part by part; one lemma puts the actions together; the theorems
follow with PTL. The property itself is almost never inductive, and the parts
that were missing are what a reader of the code should know. They are:

**`FiniteLemmas`** has no system in it: induction in the form the provers can
apply (a non-empty set of naturals has a least member, a non-empty set of
subsets of a finite set a smallest one), the sum of a function over a finite
set, how it changes with one value and over a part of the set, and the increasing list of a finite set
of naturals. Wherever the code adds up over trials, threads, items or nonces,
the proofs use these sums.

**`ScreeningSchedulerProofs`** (any tasks, repetitions, thresholds, runtimes).
`TypeOK`, `OneOpenTrialPerTask`, `TablesAgree`, `CountersMatchTrials`,
`VerdictJustified` and `NothingStranded` are inductive only together: the
counters stay in range because they count trials, a set no larger than the
task's trials, and a verdict strands nothing because the trial being finished is
the only open one. `RInv` adds what a retry relies on: who holds a container and
a workspace, and that only a row that sent nothing may be followed by another
(`RetriesAreSafe`). `HistoryIsKept` is an action property, shown per
transaction. `GateImplemented` is the refinement: every transaction is a step of
`EligibilityGate` or a stutter; it needs `ResultsFit`, that a result is seen by
the gate exactly when its trial is completed, so that a verdict read from
counters is the one that the gate's sets justify.

**`LiveRecorderProofs`** (any finite trials and threads, any amounts). The
limits are inductive only with `Holding`: from the reservation to the settlement
a thread holds exactly its estimate, so that settling moves the exposure by the
overrun and no more. `RunWithin` adds that an exposure over the run's limit can
only be what an earlier session handed over. `ExposureCovers` is about sums: the
run's amounts are those of its trials, what is pending is what the threads hold,
and what the provider bills, but for the part of lost answers beyond their
reservations, is covered by what is settled and by the reservations that no step
gives back any more. `StopIsFinal` is an action
property: after a stop only a thread that had passed its last check sends.

**`DeploymentQueueProofs`** (any processes, limits and window, crashes, a clock
set back). The file's slots are the last slots granted (`FileIsTail`), and a
slot's true time is at most `MaxBack` later than what the file says, so what the
file has dropped is outside every window still to come; the window's limits and
the cooldowns follow.

**`ScreeningRunProofs`** (any trials, workers, limits and sessions). `Apart` and
`HeldIsRunning` say where a trial can be: with a worker, in the batch, being
settled or given up, one of these, and those are the rows that the database
calls running. `PoolAddsUp` counts them against the workers, and from this count
follows that a loop which ends without a stop has nothing planned left. With
`Costs` they give `ResultsAreBacked`, `NothingForgotten` and `NeverRunTwice`, in
every session and after every crash. The second part is about `Continuation`:
runs name earlier runs only, a run that another one follows changes no more, and
the bills carried are those of the runs behind it, each once.

The third part is about `VmCost` (any attempts and threads, any clock).
`VmPaidOnce` compares charges computed at different moments, from what was known
then, with the times in the end, so the invariant says of each charge what it
is: `VmCharged`, that a settled attempt has paid its part of each of its seconds,
the second divided by the number then active, and that an attempt whose thread
may still replace its start (`VmTakeTime`) began after them, so that leaving the
time before does not change who was active. It needs `VmBusy`, that no more are active in a second than there are
threads, or a share would not be whole. Three steps lead from there:

- *The sweep* (`SweepStep`, `SharesAreParts`). After each point, whoever is in
  `active` is who is active from that point to the next (`BetweenPoints`), and
  each share is the attempt's parts up to there; this holds whichever of two
  tied points comes first. The fold is unfolded once per point by a smallest
  set of points where it would fail.
- *What was known is enough* (`KnownIsActive`). When no time is taken but not
  marked, the tracker's view up to the end of an attempt is who was active until
  then, although others have not ended; `StepKeeps` shows that no later time
  changes it, because every time taken is now, after that end.
- *Counting twice* (`PaidBySecond`). The parts summed by attempt are the parts
  summed by second, and those active in a second pay it whole
  (`SecondIsPaid`).

**`BlobSpoolProofs`** (any items, attempts, sessions, faults). The invariant
follows the one item in the upload thread's hands: what its step says of the
store, of the item's file and of the counts that run ahead of each other.
`EntriesFit` says what the session knows of each item on the disk, and what a
report of `completed` was made of.
`StoreMatchesRecord`, `NothingDropped` and `BilledAsServed` follow, the last by
a sum over items; `PromiseKept` is the refinement of `ItemUploads`.

**`RunnersProofs`** is about the runners outside the screening, a section each.
For `NativeRun` (any tasks, repetitions, width of a wave, requests, faults): an
event is late only where a request was under way at the reading, a trial
belongs to a wave, a wave to a block, and a block to the repetitions counted;
`NrRowsOK` says which records exist at each place of the driver, `NrClaimsOK`
what the driver has claimed of them. Counting blocks needs arithmetic on
`div` and `mod` by the number of tasks, which is at the head of the module.

For `LocalRun` and `StaticRun`, and in **`ToolsProofs`**, which has a section per
tool since the tools share no state:

| Theorem | Why the property alone is not inductive |
|---|---|
| `PoolAlwaysServes` | each worker is in one place or lent to one call, and close holds what it has taken |
| `RvReplayAlwaysGenuine` | what has been read so far is still so unless something wrote, and two states that show the same are the same; that the repeated verifier gave the same is judged later, and what it began with must be kept until then |
| `AeScoreAlwaysBacked` | three reads at three moments: what each read saw is still true of the final events, because events are only added |
| `LrSummaryAlwaysTrue` | only the last call of a thread may be unanswered, so totals read after the threads have ended miss none |
| `FeRecordsAlwaysTrue` | each record on disk names the ended run that backs it, what any kind of request calls complete is a run judged and stored, and the comparison's statuses are the beginning of its order |
| `RecAlwaysAsGranted` | the registry's bytes are the sum of what the handles have delivered, and a capability's counters the sum over its nonces; a nonce without a file bought nothing |
| `CcAlwaysOneStory` | the bundles are the records of the process that writes, and its tracker knows the counts of each |
| `CsAlwaysOneConclusion` | what was concluded at a boundary is a function of the cycles up to it, which later cycles do not change |
| `ClnAlwaysAllOrNothing` | which pass has looked at which entry, under which identity, and whether another process was there since: an entry compared and not changed has the planned identity still |
| `CrReadyAlwaysEarned` | what a carrier has read so far is of the version it remembers |
| `AnVerdictAlwaysEarned` | lines in the pipe, in the buffer and read are, in this order, what the worker printed |
| `ApprovedEditsAlways` | a guard expects its own request with texts for its candidates, and what waits for a sender is what its guard expects; a compressor's texts are in two files, of which one may change |

`ApprovedEditsAlways` rests on facts about the edit itself: segments that cover
a message put together are the message (by induction over the segments), each
candidate has its own place among the replacements, and a request whose
candidates are replaced by themselves is the request.

*Assumptions*. Kinds of results do not overlap and the plan orders its trials
(scheduler); limits are natural numbers and reservations positive, as the code
enforces (recorder, queue); ids are distinct from the marks for "none" (several);
limits of ledgers are positive where the loader refuses others (`LrAssumption`,
`RecAssumption`, `CrAssumption`); a second can be shared whole among the threads
(`VmAssumption`); requests are of the kinds the front ends know
(`FeAssumption`, `FeLacksAssumption`); requests, texts and manifests are
well-typed (`PrAssumption`, `StAssumption`). Sets that code counts are finite.

*Only model-checked*.

- Liveness under fairness: `EventuallyDecided`, `CallsReturn`, `WaitEnds`,
  `SessionEnds`. ENABLED is out of the prover's reach.
- What the four runs of section 5 refute.

## 7. Not modelled, and why

- What a compressor makes of a text: any text, in `Protection` and
  `WorkerPool`.
- The preflight and the hashes of records in `screening_run.py`: validation of
  fixed documents. The continuation's checks are in `Continuation`.
- The bridge's socket framing and the vendor's installation; the archives of the
  spool and of the replay; docker's own behaviour.
- Harbor, Docker, the provider, the model server and the Blob service: external,
  present through what they may answer.
- The prompt intake: a maintainer's script over private attachments, one at a
  time under a lock. `adapter_preflight.py`: the transport with a synthetic
  sender, which is `LiveRecorder`'s behaviour.
- The fields of requests, ledgers and receipts: a document is as it should be
  or has one flaw (`FrontEnds`, `Carrier`).
- Statistics over floating-point arrays: out of TLC's reach.
- Pages, figures and reports: rendering.

Assumed in the models: a continued run is not resumed any more, and continuing
runs do not overlap in time (`Continuation`); the network rate of the ledger is
zero (`VmCost`); what the local proxy is sent is a JSON object (`LocalRun`).

## 8. Plan

1. A property that a resume succeeds after any crash of the spool, as a run of
   its own when one can be merged for it.
2. The prompt intake's lock and manifest, as a small module.

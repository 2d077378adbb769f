------------------------------ MODULE LocalRun ------------------------------
(***************************************************************************)
(* The local run: a model server in a container, one Harbor process per      *)
(* repetition, and a recording proxy between the two (src/run.py,            *)
(* src/accounting.py).  Every request of the proxy has a thread of its own;   *)
(* the threads share a lock, which one keeps from reading its request to      *)
(* having sent the reply.  Closing the proxy waits for its threads.           *)
(***************************************************************************)
EXTENDS Integers, Sequences, FiniteSets, SequencesExt

CONSTANTS
    Handlers,         \* threads of the proxy
    Repetitions,      \* ledger: repetitions
    MaxCalls,         \* ledger: limits.max_calls_per_repetition
    MaxAttempts,      \* ledger: retry.max_attempts_per_call
    Rewards,          \* what Harbor's verifier may give
    RewardBounds      \* ledger: expect.reward_min and reward_max, as a set

\* load_ledger: positive integers.
ASSUME LrAssumption ==
    /\ Repetitions \in Nat \ {0} /\ MaxCalls \in Nat \ {0} /\ MaxAttempts \in Nat \ {0}

VARIABLES
    runner,    \* [phase, repetition, raised, trials, status, totals, exit]
    recorder,  \* AttemptRecorder of the repetition: [calls, failure]
    handlers,  \* [Handlers -> [at, call, attempt]]
    upstream,  \* what the model server answered: attempt -> answer
    attempts   \* attempts.jsonl of all repetitions: [id, included]

lrVars == <<runner, recorder, handlers, upstream, attempts>>

Idle == [at |-> "idle", call |-> 0, attempt |-> 0]
Locked == \E h \in Handlers : handlers[h].at \in {"sends", "replies"}
IdOf(h) == <<runner.repetition, handlers[h].call, handlers[h].attempt>>
NoTotals == [none |-> TRUE]

\* "limited": a status the ledger retries, with no Retry-After or one it can wait
\* for; "broken": the answer ends before its announced length; "unusable": any
\* other status, no connection, no JSON, 200 without a valid usage, or a
\* Retry-After that is no number or too long.
Answers == {"usage", "unusable", "limited", "broken"}

(***************************************************************************)
(* The proxy.  A request that is accepted waits for the lock.                *)
(***************************************************************************)
LrRequest(h) ==
    /\ runner.phase = "repetition" /\ handlers[h] = Idle
    /\ handlers' = [handlers EXCEPT ![h].at = "waits"]
    /\ UNCHANGED <<runner, recorder, upstream, attempts>>

\* A request for another route or with another key is answered without the
\* lock; the caller may be gone.
LrStray(gone) ==
    /\ runner.phase = "repetition"
    /\ recorder' = [recorder EXCEPT !.failure = gone \/ @]
    /\ UNCHANGED <<runner, handlers, upstream, attempts>>

Sends(h, call, attempt) ==
    /\ handlers' = [handlers EXCEPT ![h] = [at |-> "sends", call |-> call, attempt |-> attempt]]
    /\ UNCHANGED upstream

GivesUp(h) ==
    /\ recorder' = [recorder EXCEPT !.failure = TRUE]
    /\ handlers' = [handlers EXCEPT ![h].at = "replies"]

\* forward, up to the first attempt: refused after a failure, over the limit of
\* calls, or when the request is not the ledger's model's.
LrForward(h, asLedger) ==
    /\ handlers[h].at = "waits" /\ ~Locked
    /\ LET call == recorder.calls + 1
       IN  IF recorder.failure
           THEN handlers' = [handlers EXCEPT ![h].at = "replies"] /\ UNCHANGED <<recorder, upstream>>
           ELSE IF call > MaxCalls \/ ~asLedger
           THEN /\ recorder' = [calls |-> call, failure |-> TRUE]
                /\ handlers' = [handlers EXCEPT ![h].at = "replies"] /\ UNCHANGED upstream
           ELSE Sends(h, call, 1) /\ recorder' = [recorder EXCEPT !.calls = call]
    /\ UNCHANGED <<runner, attempts>>

\* provider_tokens: only an answer with status 200 and a usage that is valid counts.
Included(answer) == answer = "usage"
Retried(answer, attempt) == answer = "limited" /\ attempt < MaxAttempts

\* An answer arrives, is kept and recorded; a limited one is asked for again
\* unless its Retry-After is not a number or too long.  An answer that breaks
\* off raises http.client.IncompleteRead, which nothing in the proxy catches:
\* the thread ends without a record, a reply or a failure.
LrAnswer(h, answer) ==
    /\ handlers[h].at = "sends"
    /\ upstream' = [id \in DOMAIN upstream \cup {IdOf(h)} |-> IF id = IdOf(h) THEN answer ELSE upstream[id]]
    /\ attempts' = IF answer = "broken" THEN attempts
                   ELSE Append(attempts, [id |-> IdOf(h), included |-> Included(answer)])
    /\ CASE answer = "broken" -> handlers' = [handlers EXCEPT ![h] = Idle] /\ UNCHANGED recorder
         [] Included(answer) -> handlers' = [handlers EXCEPT ![h].at = "replies"] /\ UNCHANGED recorder
         [] Retried(answer, handlers[h].attempt) ->
                handlers' = [handlers EXCEPT ![h].attempt = @ + 1] /\ UNCHANGED recorder
         [] OTHER -> GivesUp(h)
    /\ UNCHANGED runner

\* The reply, still under the lock; a caller that is gone is a failure.
LrReply(h, gone) ==
    /\ handlers[h].at = "replies"
    /\ handlers' = [handlers EXCEPT ![h] = Idle]
    /\ recorder' = [recorder EXCEPT !.failure = gone \/ @]
    /\ UNCHANGED <<runner, upstream, attempts>>

(***************************************************************************)
(* The runner.                                                              *)
(***************************************************************************)
Repeats(r) == [runner EXCEPT !.phase = "repetition", !.repetition = r]
EndsAs(status) == [runner EXCEPT !.phase = "ends", !.status = status]

\* Fetching the task and the images, starting the server, pulling the model.
LrSetUp(ready) ==
    /\ runner.phase = "sets_up"
    /\ runner' = IF ready THEN Repeats(1) ELSE EndsAs("error")
    /\ UNCHANGED <<recorder, handlers, upstream, attempts>>

\* execute: Harbor ends with 0, or it ends otherwise or is stopped at its
\* deadline, which raises.
LrHarborEnds(raises) ==
    /\ runner.phase = "repetition"
    /\ runner' = [runner EXCEPT !.phase = "closes", !.raised = raises]
    /\ UNCHANGED <<recorder, handlers, upstream, attempts>>

\* shutdown and server_close: the threads are waited for.
ThreadsDoneSlipNotWaited == TRUE
ThreadsDone == \A h \in Handlers : handlers[h] = Idle

LrClose ==
    /\ runner.phase = "closes" /\ ThreadsDone
    /\ runner' = IF runner.raised THEN EndsAs("error") ELSE [runner EXCEPT !.phase = "reads"]
    /\ UNCHANGED <<recorder, handlers, upstream, attempts>>

WithinBounds(trials) == \A i \in 1..Len(trials) : trials[i] \in RewardBounds

\* The native result is read: it is missing, it has no verifier result (a
\* TypeError that nothing catches: the status stays as it was), or a reward,
\* perhaps with an exception of the agent.
LrReadResult(found, reward, exception) ==
    /\ runner.phase = "reads"
    /\ LET trials == Append(runner.trials, reward)
           next == [runner EXCEPT !.trials = trials]
       IN  runner' =
            IF found = "missing" THEN EndsAs("error")
            ELSE IF found = "unverified" THEN [EndsAs("running") EXCEPT !.exit = 1]
            ELSE IF recorder.failure \/ exception THEN [next EXCEPT !.phase = "ends", !.status = "error"]
            ELSE IF runner.repetition < Repetitions
            THEN [next EXCEPT !.phase = "repetition", !.repetition = @ + 1]
            ELSE [next EXCEPT !.phase = "ends", !.status = IF WithinBounds(trials) THEN "passed" ELSE "failed"]
    /\ recorder' = IF runner'.phase = "repetition" THEN [calls |-> 0, failure |-> FALSE] ELSE recorder
    /\ UNCHANGED <<handlers, upstream, attempts>>

\* totals: an attempt recorded twice is refused.
CountedOnce == \A i, j \in 1..Len(attempts) : attempts[i].id = attempts[j].id => i = j
TotalsOf(records) ==
    [http |-> Len(records), included |-> {records[i].id : i \in {j \in 1..Len(records) : records[j].included}}]

\* The end of every run: the server is removed, the totals are taken, the
\* summary is saved.  A kept request or answer may have changed on the disk.
LrFinish(removed, intact) ==
    /\ runner.phase = "ends"
    /\ LET counts == intact /\ CountedOnce
       IN  runner' = [runner EXCEPT !.phase = IF @ = "ends" /\ runner.exit = 1 THEN "over" ELSE "saved",
                                    !.status = IF removed /\ counts THEN @ ELSE "error",
                                    !.totals = IF counts THEN TotalsOf(attempts) ELSE NoTotals]
    /\ UNCHANGED <<recorder, handlers, upstream, attempts>>

ExitCodeOf(status) == [passed |-> 0, failed |-> 1, error |-> 3][status]

\* main: the run is verified from its files before its status is the exit code.
LrVerify(intact) ==
    /\ runner.phase = "saved"
    /\ runner' = [runner EXCEPT
            !.phase = "over",
            !.exit = IF intact /\ runner.totals = TotalsOf(attempts)
                     THEN ExitCodeOf(runner.status) ELSE 2]
    /\ UNCHANGED <<recorder, handlers, upstream, attempts>>

(***************************************************************************)
LrInit ==
    /\ runner = [phase |-> "sets_up", repetition |-> 0, raised |-> FALSE, trials |-> <<>>,
                 status |-> "running", totals |-> NoTotals, exit |-> -1]
    /\ recorder = [calls |-> 0, failure |-> FALSE]
    /\ handlers = [h \in Handlers |-> Idle]
    /\ upstream = <<>> /\ attempts = <<>>

LrNext ==
    \/ \E h \in Handlers :
        \/ LrRequest(h)
        \/ \E asLedger \in BOOLEAN : LrForward(h, asLedger)
        \/ \E answer \in Answers : LrAnswer(h, answer)
        \/ \E gone \in BOOLEAN : LrReply(h, gone)
    \/ LrClose
    \/ \E yes \in BOOLEAN : LrStray(yes) \/ LrSetUp(yes) \/ LrHarborEnds(yes) \/ LrVerify(yes)
    \/ \E found \in {"result", "unverified", "missing"}, reward \in Rewards, exception \in BOOLEAN :
        LrReadResult(found, reward, exception)
    \/ \E removed, intact \in BOOLEAN : LrFinish(removed, intact)

LrSpec == LrInit /\ [][LrNext]_lrVars

(***************************************************************************)
(* "Every upstream attempt is recorded exactly once" (accounting.py:1), but  *)
(* for the ones whose answer broke off: totals that were taken hold each     *)
(* attempt the server answered, late ones too, and include those with usage. *)
(***************************************************************************)
TotalsAreWhole ==
    runner.totals # NoTotals =>
        /\ \A h \in Handlers : handlers[h] = Idle
        /\ runner.totals.http = Cardinality({id \in DOMAIN upstream : upstream[id] # "broken"})
        /\ runner.totals.included = {id \in DOMAIN upstream : upstream[id] = "usage"}

(***************************************************************************)
(* "Latch exhaustion so a retry by Harbor never starts another upstream      *)
(* retry budget" (accounting.py:171): no call of a repetition follows one    *)
(* that was given up.                                                        *)
(***************************************************************************)
NoSecondBudget ==
    \A one, other \in DOMAIN upstream :
        (one[1] = other[1] /\ one[2] < other[2]) =>
            \E n \in 1..MaxAttempts : <<one[1], one[2], n>> \in DOMAIN upstream
                                      /\ upstream[<<one[1], one[2], n>>] \in {"usage", "broken"}

(***************************************************************************)
(* Exit code 0 stands for a run all of whose repetitions have a reward       *)
(* within the bounds and no call that was given up (run.py:378-410).         *)
(***************************************************************************)
PassedIsClean ==
    runner.exit = 0 =>
        /\ Len(runner.trials) = Repetitions /\ WithinBounds(runner.trials)
        /\ \A id \in DOMAIN upstream :
            \E n \in 1..MaxAttempts : <<id[1], id[2], n>> \in DOMAIN upstream
                                      /\ upstream[<<id[1], id[2], n>>] \in {"usage", "broken"}

\* What the summary of a local run says is what its server and verifier did.
LrSummaryIsTrue == TotalsAreWhole /\ NoSecondBudget /\ PassedIsClean
=============================================================================

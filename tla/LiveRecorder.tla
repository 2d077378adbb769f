----------------------------- MODULE LiveRecorder -----------------------------
(***************************************************************************)
(* The protected transport of a paid run: class LiveRecorder of            *)
(* src/src/live_transport.py, with the safety policy applied.  Every HTTP  *)
(* request of an agent is served by a thread of its own that runs          *)
(* complete(); the threads share the counters below under one lock.  A     *)
(* step of a thread is what it does while it holds the lock once.          *)
(*                                                                         *)
(* Costs are natural numbers in a small unit.  Payloads, compression and   *)
(* the event log are left out.  Clocks are not modelled: wherever the code *)
(* compares a clock with a deadline, the deadline may have passed.         *)
(***************************************************************************)
EXTENDS Integers, FiniteSets, FiniteSetsExt

CONSTANTS
    Trials,          \* trial identifiers that may be registered
    Requests,        \* logical requests: each is one call of complete()
    Reservations,    \* cost reservations a request may need
    Overrun,         \* what an answer, seen or not, may cost beyond its reservation
    AttemptLimit,    \* max_api_cost_usd_per_attempt
    RunLimit,        \* max_api_cost_usd_per_run
    CallLimit,       \* max_provider_calls_per_attempt: 60
    HttpAttempts,    \* transient_http_attempts: 3
    ErrorScope,      \* request_error_scope: "run" or "trial"
    PriorExposures   \* exposures an earlier session may hand over

ASSUME LimitAssumption ==
    /\ IsFiniteSet(Trials) /\ IsFiniteSet(Requests)
    /\ AttemptLimit \in Nat /\ RunLimit \in Nat /\ CallLimit \in Nat
    /\ HttpAttempts \in Nat \ {0} /\ Overrun \in Nat
    /\ Reservations \subseteq Nat \ {0}
    /\ ErrorScope \in {"run", "trial"}
    /\ PriorExposures \subseteq Nat \X Nat

VARIABLES
    stopped,   \* the event that blocks every later request
    failure,   \* why the run stopped: the first reason wins
    run,       \* known, unconfirmed and pending cost of the run
    prior,     \* what initialize_run_cost_exposure put into run
    trials,    \* the trial records
    call,      \* where each thread is, and what it holds
    meter,     \* per trial, what the provider bills, what answers reported beyond
               \* their reservations, and what unreported ones cost beyond them
    overrun    \* what all answers together reported beyond their reservations

vars == <<stopped, failure, run, prior, trials, call, meter, overrun>>

NoFailure == "no_failure"
NoTrial == "no_trial"
Errors == {"limit_attempt", "limit_run", "violation", "error"}
NoCost == [known |-> 0, unconfirmed |-> 0, pending |-> 0]
Exposure(cost) == cost.known + cost.unconfirmed + cost.pending
\* The same change is made to the amounts of the run and of the trial.
Charged(cost, known, unconfirmed, pending) ==
    [known |-> cost.known + known, unconfirmed |-> cost.unconfirmed + unconfirmed,
     pending |-> cost.pending + pending]
\* A trial with more, or with less, pending cost and pending attempts.
WithPending(row, amount, attempts) ==
    [row EXCEPT !.cost = Charged(@, 0, 0, amount), !.pendingAttempts = @ + attempts]

\* Definitions named ...Slip are not part of the model.  Each is the next
\* definition with a mistake, used to see that a property would notice it.

Init ==
    /\ stopped = FALSE
    /\ failure = NoFailure
    /\ run = NoCost
    /\ prior = NoCost
    /\ trials = [t \in Trials |-> [state |-> "absent", failure |-> NoFailure, cost |-> NoCost,
                                   attempts |-> 0, pendingAttempts |-> 0]]
    /\ call = [c \in Requests |-> [pc |-> "new", trial |-> NoTrial, http |-> 0,
                                   estimate |-> 0, held |-> 0, error |-> NoFailure]]
    /\ meter = [t \in Trials |-> [billed |-> 0, overrun |-> 0, unseen |-> 0]]
    /\ overrun = 0

-----------------------------------------------------------------------------
(* The run and its trials                                                  *)

StopWith(reason) ==
    /\ stopped' = TRUE
    /\ failure' = IF failure = NoFailure THEN reason ELSE failure

StopTrial(t, reason) ==
    trials' = [trials EXCEPT ![t].failure = IF @ = NoFailure THEN reason ELSE @]

\* The first call of a session.  When the earlier cost is already over the
\* limit the amounts stay and the caller stops the run.
InitializeRunCostExposure(known, unconfirmed) ==
    LET cost == [known |-> known, unconfirmed |-> unconfirmed, pending |-> 0] IN
    /\ \A t \in Trials : trials[t].state = "absent"
    /\ run = NoCost /\ ~stopped
    /\ run' = cost /\ prior' = cost
    /\ IF Exposure(cost) > RunLimit THEN StopWith("limit_run") ELSE UNCHANGED <<stopped, failure>>
    /\ UNCHANGED <<trials, call, meter, overrun>>

RegisterTrial(t) ==
    /\ ~stopped
    /\ trials[t].state = "absent"
    /\ trials' = [trials EXCEPT ![t].state = "open"]
    /\ UNCHANGED <<stopped, failure, run, prior, call, meter, overrun>>

\* The trial's process has ended, its threads may still be running.
CloseTrial(t) ==
    /\ trials[t].state = "open"
    /\ trials' = [trials EXCEPT ![t].state = "closed"]
    /\ UNCHANGED <<stopped, failure, run, prior, call, meter, overrun>>

\* stop and stop_trial called by the supervisor and the run loop.
ExternalStop ==
    /\ StopWith("external")
    /\ UNCHANGED <<run, prior, trials, call, meter, overrun>>

SupervisorStopsTrial(t) ==
    /\ trials[t].state = "open"
    /\ StopTrial(t, "limit_attempt")
    /\ UNCHANGED <<stopped, failure, run, prior, call, meter, overrun>>

-----------------------------------------------------------------------------
(* One call of complete()                                                  *)

\* The thread leaves with an exception that complete() will handle.
Raises(c, error) == call' = [call EXCEPT ![c].pc = "raised", ![c].error = error]

\* check and check_trial, as a set of the errors they may raise now.
CheckErrors(t) ==
    IF stopped THEN {"violation"}
    ELSE {"limit_run", IF trials[t].failure # NoFailure THEN "error" ELSE "limit_attempt"}
CheckPasses(t) == ~stopped /\ trials[t].failure = NoFailure

\* The entry checks come first.  Then everything up to the first reservation
\* may fail: a request that is too long, repeats itself, breaks its contract.
EntryErrors(t) ==
    IF stopped THEN {"violation"}
    ELSE {"limit_run"} \cup
         (IF trials[t].state = "closed" THEN {"violation"}
          ELSE IF trials[t].failure # NoFailure THEN {"error"}
          ELSE {"limit_attempt", "violation", "error"})

Entered(t, estimate) ==
    [pc |-> "checking", trial |-> t, http |-> 1, estimate |-> estimate,
     held |-> 0, error |-> NoFailure]

Enter(c, t, estimate) ==
    /\ call[c].pc = "new"
    /\ trials[t].state # "absent"
    /\ \/ /\ CheckPasses(t) /\ trials[t].state = "open"
          /\ call' = [call EXCEPT ![c] = Entered(t, estimate)]
       \/ \E error \in EntryErrors(t) :
             call' = [call EXCEPT ![c].pc = "raised", ![c].trial = t, ![c].error = error]
    /\ UNCHANGED <<stopped, failure, run, prior, trials, meter, overrun>>

\* check_trial at the head of _reserve_dispatch.
CheckBeforeReserve(c) ==
    /\ call[c].pc = "checking"
    /\ \/ CheckPasses(call[c].trial) /\ call' = [call EXCEPT ![c].pc = "checked"]
       \/ \E error \in CheckErrors(call[c].trial) : Raises(c, error)
    /\ UNCHANGED <<stopped, failure, run, prior, trials, meter, overrun>>

ReserveErrorSlipNoPending(t, estimate) ==
    IF stopped THEN "violation"
    ELSE IF trials[t].attempts + trials[t].pendingAttempts >= CallLimit THEN "limit_attempt"
    ELSE IF trials[t].cost.known + trials[t].cost.unconfirmed + estimate > AttemptLimit
    THEN "limit_attempt"
    ELSE IF run.known + run.unconfirmed + estimate > RunLimit THEN "limit_run"
    ELSE NoFailure

\* The limits in the order the code tries them.  That the deadline passes
\* here is the case that it passed at the head of _reserve_dispatch.
ReserveError(t, estimate) ==
    IF stopped THEN "violation"
    ELSE IF trials[t].attempts + trials[t].pendingAttempts >= CallLimit THEN "limit_attempt"
    ELSE IF Exposure(trials[t].cost) + estimate > AttemptLimit THEN "limit_attempt"
    ELSE IF Exposure(run) + estimate > RunLimit THEN "limit_run"
    ELSE NoFailure

\* The rest of _reserve_dispatch, under the lock.
ReserveDispatch(c) ==
    LET t == call[c].trial
        estimate == call[c].estimate
        error == ReserveError(t, estimate)
    IN  /\ call[c].pc = "checked"
        /\ IF error # NoFailure
           THEN Raises(c, error) /\ UNCHANGED <<run, trials>>
           ELSE /\ call' = [call EXCEPT ![c].pc = "reserved", ![c].held = estimate]
                /\ run' = Charged(run, 0, 0, estimate)
                /\ trials' = [trials EXCEPT ![t] = WithPending(@, estimate, 1)]
        /\ UNCHANGED <<stopped, failure, prior, meter, overrun>>

ClearSlipNoCheck(c) ==
    /\ call[c].pc = "reserved"
    /\ call' = [call EXCEPT ![c].pc = "cleared"]
    /\ UNCHANGED <<stopped, failure, run, prior, trials, meter, overrun>>

\* The queue granted a slot and check_trial passed once more.
Clear(c) ==
    /\ call[c].pc = "reserved"
    /\ CheckPasses(call[c].trial)
    /\ call' = [call EXCEPT ![c].pc = "cleared"]
    /\ UNCHANGED <<stopped, failure, run, prior, trials, meter, overrun>>

CancelDispatchReservationSlipIgnoresStop(c) ==
    LET t == call[c].trial
        held == call[c].held
    IN  /\ call[c].pc = "reserved" /\ ~stopped
        /\ \E error \in Errors :
              call' = [call EXCEPT ![c].pc = "raised", ![c].error = error, ![c].held = 0]
        /\ run' = Charged(run, 0, 0, -held)
        /\ trials' = [trials EXCEPT ![t] = WithPending(@, -held, -1)]
        /\ UNCHANGED <<stopped, failure, prior, meter, overrun>>

\* The queue or the check raised: the reservation is given back.
CancelDispatchReservation(c) ==
    LET t == call[c].trial
        held == call[c].held
    IN  /\ call[c].pc = "reserved"
        /\ \E error \in Errors :
              call' = [call EXCEPT ![c].pc = "raised", ![c].error = error, ![c].held = 0]
        /\ run' = Charged(run, 0, 0, -held)
        /\ trials' = [trials EXCEPT ![t] = WithPending(@, -held, -1)]
        /\ UNCHANGED <<stopped, failure, prior, meter, overrun>>

MarkDispatchStarted(c) ==
    LET t == call[c].trial IN
    /\ call[c].pc = "cleared"
    /\ call' = [call EXCEPT ![c].pc = "started"]
    /\ trials' = [trials EXCEPT ![t].pendingAttempts = @ - 1, ![t].attempts = @ + 1]
    /\ UNCHANGED <<stopped, failure, run, prior, meter, overrun>>

Excess(c, amount) == IF amount > call[c].estimate THEN amount - call[c].estimate ELSE 0

\* The provider bills cost for the request of thread c.  The reservation is no
\* bound on it, whether an amount is reported or the answer is never seen.
Bill(c, cost, reported, unseen) ==
    /\ meter' = [meter EXCEPT ![call[c].trial] = [billed |-> @.billed + cost,
                                                  overrun |-> @.overrun + Excess(c, reported),
                                                  unseen |-> @.unseen + Excess(c, unseen)]]
    /\ overrun' = overrun + Excess(c, reported)

SettleSlipDrops(c, known, unconfirmed) ==
    /\ run' = Charged(run, known, 0, -call[c].held)
    /\ trials' = [trials EXCEPT ![call[c].trial].cost = Charged(@, known, 0, -call[c].held)]

\* _settle_dispatch: the reservation becomes known cost or open exposure.
Settle(c, known, unconfirmed) ==
    /\ run' = Charged(run, known, unconfirmed, -call[c].held)
    /\ trials' = [trials EXCEPT ![call[c].trial].cost =
                     Charged(@, known, unconfirmed, -call[c].held)]

\* A response with usage: the cost is exact, or has a ceiling when the
\* provider does not say how much of the input was cached.
AnswerWithUsage(c, cost, reported) ==
    /\ call[c].pc = "started"
    /\ Bill(c, cost, reported, 0)
    /\ \/ reported = cost /\ Settle(c, cost, 0)
       \/ reported >= cost /\ Settle(c, 0, reported)
    /\ call' = [call EXCEPT ![c].pc = "settled", ![c].held = 0]
    /\ UNCHANGED <<stopped, failure, prior>>

\* No usage: the sender raised, the body is malformed, or the status is not
\* 200.  The whole reservation stays as exposure, whatever the provider bills.
\* A 429 is tried again after a cooldown of the shared queue.
AnswerWithoutUsage(c, cost) ==
    /\ call[c].pc = "started"
    /\ Bill(c, cost, 0, cost)
    /\ Settle(c, 0, call[c].estimate)
    /\ \/ /\ call[c].http < HttpAttempts
          /\ call' = [call EXCEPT ![c].pc = "checking", ![c].http = @ + 1, ![c].held = 0]
       \/ \E error \in {"error", "limit_attempt", "limit_run"} :
             call' = [call EXCEPT ![c].pc = "raised", ![c].error = error, ![c].held = 0]
    /\ UNCHANGED <<stopped, failure, prior>>

\* Writing the evidence fails before the request is settled: the reservation
\* is never given back.
EvidenceWriteFails(c, cost) ==
    /\ call[c].pc = "started"
    /\ Bill(c, cost, 0, cost)
    /\ Raises(c, "error")
    /\ UNCHANGED <<stopped, failure, run, prior, trials>>

SettledErrors(t) ==
    IF Exposure(trials[t].cost) > AttemptLimit THEN {"limit_attempt"}
    ELSE IF Exposure(run) > RunLimit THEN {"limit_attempt", "limit_run"}
    ELSE IF stopped THEN {"limit_attempt", "violation", "error"}
    ELSE {"limit_attempt", "violation", "error", NoFailure}

\* The checks of a settled answer: output length, then the cost limits, then
\* its content and model revision, and last that the run was not stopped.
CheckAnswer(c) ==
    /\ call[c].pc = "settled"
    /\ \E error \in SettledErrors(call[c].trial) :
          IF error = NoFailure THEN call' = [call EXCEPT ![c].pc = "returned"]
                               ELSE Raises(c, error)
    /\ UNCHANGED <<stopped, failure, run, prior, trials, meter, overrun>>

\* The except clause of complete(): a safety limit stops the trial first.
HandleError(c) ==
    LET error == call[c].error
        t == call[c].trial
    IN  /\ call[c].pc = "raised"
        /\ IF error \in {"limit_attempt", "limit_run"}
           THEN /\ StopTrial(t, error)
                /\ call' = [call EXCEPT ![c].pc = IF error = "limit_run" THEN "stopping"
                                                  ELSE "returned"]
                /\ UNCHANGED <<stopped, failure>>
           ELSE /\ call' = [call EXCEPT ![c].pc = "returned"]
                /\ IF error = "violation" \/ ErrorScope = "run"
                   THEN StopWith(error) /\ UNCHANGED trials
                   ELSE StopTrial(t, error) /\ UNCHANGED <<stopped, failure>>
        /\ UNCHANGED <<run, prior, meter, overrun>>

\* record_safety_stop takes the lock again to stop the run.
StopRun(c) ==
    /\ call[c].pc = "stopping"
    /\ StopWith("limit_run")
    /\ call' = [call EXCEPT ![c].pc = "returned"]
    /\ UNCHANGED <<run, prior, trials, meter, overrun>>

\* The client has gone away before the response was written.
DeliveryFails(c) ==
    /\ call[c].pc = "returned"
    /\ call' = [call EXCEPT ![c].pc = "undelivered"]
    /\ IF ErrorScope = "run" THEN StopWith("delivery") /\ UNCHANGED trials
                             ELSE StopTrial(call[c].trial, "delivery") /\ UNCHANGED <<stopped, failure>>
    /\ UNCHANGED <<run, prior, meter, overrun>>

-----------------------------------------------------------------------------
Answer(c) ==
    \E cost, reported \in 0 .. call[c].estimate + Overrun :
        \/ AnswerWithUsage(c, cost, reported)
        \/ AnswerWithoutUsage(c, cost)
        \/ EvidenceWriteFails(c, cost)

Step(c) ==
    \/ CheckBeforeReserve(c) \/ ReserveDispatch(c)
    \/ Clear(c) \/ CancelDispatchReservation(c)
    \/ MarkDispatchStarted(c) \/ Answer(c)
    \/ CheckAnswer(c) \/ HandleError(c) \/ StopRun(c)

Next ==
    \/ \E exposure \in PriorExposures : InitializeRunCostExposure(exposure[1], exposure[2])
    \/ \E t \in Trials : RegisterTrial(t) \/ CloseTrial(t) \/ SupervisorStopsTrial(t)
    \/ ExternalStop
    \/ \E c \in Requests, t \in Trials, estimate \in Reservations : Enter(c, t, estimate)
    \/ \E c \in Requests : Step(c) \/ DeliveryFails(c)

Spec == Init /\ [][Next]_vars

\* Threads run, and every send ends: the HTTP timeout and the two deadlines
\* bound it, and they bound the wait in the queue.
FairSpec == Spec /\ \A c \in Requests : WF_vars(Step(c))

-----------------------------------------------------------------------------
(* Properties                                                              *)

Steps == {"new", "checking", "checked", "reserved", "cleared", "started", "settled",
          "raised", "stopping", "returned", "undelivered"}

SumOver(S, f) == MapThenSumSet(LAMBDA x : f[x], S)

\* Money is conserved whatever the threads interleave: the run's amounts are
\* the earlier session's plus those of its trials, and what is pending is
\* exactly what the threads hold, so no path out of a call leaks or frees a
\* reservation twice; one outlives its call only when the evidence could not
\* be written.
ExposureConserved ==
    LET held == [c \in Requests |-> call[c].held] IN
    /\ run.known = prior.known + SumOver(Trials, [t \in Trials |-> trials[t].cost.known])
    /\ run.unconfirmed = prior.unconfirmed + SumOver(Trials, [t \in Trials |-> trials[t].cost.unconfirmed])
    /\ run.pending = SumOver(Requests, held)
    /\ \A t \in Trials :
          LET mine == {c \in Requests : call[c].trial = t} IN
          /\ trials[t].cost.pending = SumOver(mine, held)
          /\ trials[t].pendingAttempts = Cardinality({c \in mine : call[c].pc \in {"reserved", "cleared"}})
    /\ \A c \in Requests : call[c].held > 0 =>
          call[c].pc \in {"reserved", "cleared", "started"} \/ call[c].error = "error"

\* A reservation does not bound a bill (reservation_is_provider_guarantee is
\* FALSE in the code), so a lost answer may cost more than is held for it.
\* That excess is all that can escape: whatever the threads interleave, a
\* trial's exposure covers every reported cost in full and every lost answer or
\* failed write up to its reservation.
BilledIsCovered ==
    \A t \in Trials : meter[t].billed <= Exposure(trials[t].cost) + meter[t].unseen

\* The ledger of the trials is conserved and covers what is billed, all but the
\* part of lost answers that their reservations did not foresee.
ExposureCovers == ExposureConserved /\ BilledIsCovered

\* The cost limits hold at every moment, for all threads together, up to what
\* answers were reported to cost beyond their own reservation.
WithinLimits ==
    /\ \A t \in Trials : Exposure(trials[t].cost) <= AttemptLimit + meter[t].overrun
    /\ Exposure(run) <= RunLimit + overrun \/ run = prior

\* No trial ever has more HTTP attempts than its limit, pending ones included.
CallCapHeld ==
    \A t \in Trials : trials[t].attempts + trials[t].pendingAttempts <= CallLimit

\* Threads that check a limit and reserve afterwards never pass one together:
\* not the cost of an attempt or of the run, not an attempt's calls.
LimitsHeld == WithinLimits /\ CallCapHeld

\* The first reason to stop the run, or a trial, is the one that stays.
StopLasts ==
    /\ stopped => stopped' /\ failure' = failure
    /\ \A t \in Trials : trials[t].failure # NoFailure
                            => trials'[t].failure = trials[t].failure

\* What a thread may still do when its run, or its trial, was stopped.
StopBinds(c) ==
    (stopped \/ (call[c].trial \in Trials /\ trials[call[c].trial].failure # NoFailure)) =>
        /\ call'[c].pc = "started" => call[c].pc \in {"cleared", "started"}
        /\ call'[c].pc = "cleared" => call[c].pc = "cleared"
        /\ stopped /\ call'[c].held > 0 => call'[c].held = call[c].held

\* After a stop, money is committed only by threads that had passed their
\* last check: no reservation is taken, and no other request is sent.  Nothing
\* starts a stopped run again, and the first reason is the one that stays.
StopIsFinal == [][StopLasts /\ \A c \in Requests : StopBinds(c)]_vars

\* Every call comes back to its agent, whatever stops in between.
CallsReturn ==
    \A c \in Requests : call[c].pc # "new" ~> call[c].pc \in {"returned", "undelivered"}
=============================================================================

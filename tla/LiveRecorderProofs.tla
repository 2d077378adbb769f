-------------------------- MODULE LiveRecorderProofs --------------------------
(***************************************************************************)
(* LiveRecorder's limits, ledger and stop, for every number of trials,     *)
(* requests and threads and for all amounts.                               *)
(*                                                                         *)
(* The limits are inductive once it is known that a thread that has        *)
(* reserved holds exactly its estimate: settling then replaces the         *)
(* estimate by what was reported, and the difference is the overrun.       *)
(*                                                                         *)
(* The ledger says that the amounts of the run are the sums of those of    *)
(* its trials and that what is pending is the sum of what the threads      *)
(* hold.  What is billed is covered by the settled amounts and by the      *)
(* reservations that no step gives back any more: the others must not be   *)
(* counted on, a cancelled reservation takes nothing with it.              *)
(***************************************************************************)
EXTENDS LiveRecorder, FiniteLemmas, TLAPS

Amounts == [known : Int, unconfirmed : Int, pending : Int]
TrialRows == [state : {"absent", "open", "closed"},
              failure : Errors \cup {NoFailure, "delivery"},
              cost : Amounts, attempts : Int, pendingAttempts : Int]
Calls == [pc : Steps, trial : Trials \cup {NoTrial}, http : Int,
          estimate : Nat, held : Nat, error : Errors \cup {NoFailure}]

\* Amounts are integers here: that none is negative is a fact about sums.
Typed ==
    /\ run \in Amounts /\ prior \in Amounts
    /\ trials \in [Trials -> TrialRows]
    /\ call \in [Requests -> Calls]
    /\ meter \in [Trials -> [billed : Int, overrun : Nat, unseen : Nat]]
    /\ overrun \in Nat

\* What a thread holds follows from where it is.
Holding ==
    \A c \in Requests :
        /\ call[c].pc # "new" =>
              call[c].trial \in Trials /\ trials[call[c].trial].state # "absent"
        /\ call[c].pc \in {"new", "checking", "checked", "settled"} => call[c].held = 0
        /\ call[c].pc \in {"reserved", "cleared", "started"} => call[c].held = call[c].estimate
        /\ call[c].pc \in {"checking", "checked", "reserved", "cleared", "started"}
              => call[c].estimate > 0

\* A run may only be over its limit, beyond reported overruns, when it began
\* that way, and then no thread has ever reserved.
RunWithin ==
    \/ Exposure(run) <= RunLimit + overrun
    \/ run = prior /\ \A c \in Requests : call[c].held = 0

IInv == Typed /\ Holding /\ RunWithin /\ WithinLimits /\ CallCapHeld

-----------------------------------------------------------------------------
LEMMA InitInvariant == Init => IInv
<1> SUFFICES ASSUME Init PROVE IInv
  OBVIOUS
<1>1. Typed
  BY DEF Init, Typed, Amounts, TrialRows, Calls, NoCost, Steps
<1>2. Holding
  BY DEF Init, Holding
<1>3. RunWithin /\ WithinLimits /\ CallCapHeld
  BY LimitAssumption DEF Init, RunWithin, WithinLimits, CallCapHeld, NoCost, Exposure
<1> QED
  BY <1>1, <1>2, <1>3 DEF IInv

\* A step that moves no money and counts no attempt keeps the limits.
LEMMA SameMoney ==
    ASSUME IInv, Typed', Holding', UNCHANGED <<run, prior, meter, overrun>>,
           \A c \in Requests : call'[c].held = call[c].held,
           \A t \in Trials : /\ trials'[t].cost = trials[t].cost
                             /\ trials'[t].attempts + trials'[t].pendingAttempts
                                   = trials[t].attempts + trials[t].pendingAttempts
    PROVE  IInv'
<1>1. WithinLimits' /\ RunWithin'
  BY DEF IInv, WithinLimits, RunWithin, Exposure
<1>2. CallCapHeld'
  BY DEF IInv, CallCapHeld
<1> QED
  BY <1>1, <1>2 DEF IInv

-----------------------------------------------------------------------------
(* The run and its trials                                                  *)

LEMMA InitializeStep ==
    ASSUME IInv, NEW exposure \in PriorExposures,
           InitializeRunCostExposure(exposure[1], exposure[2])
    PROVE  IInv'
<1>1. exposure[1] \in Nat /\ exposure[2] \in Nat
  BY LimitAssumption
<1>2. UNCHANGED <<trials, call, meter, overrun>> /\ run' = prior'
      /\ run' \in Amounts
  BY <1>1 DEF InitializeRunCostExposure, Amounts
<1>3. Typed' /\ Holding' /\ CallCapHeld'
  BY <1>2 DEF IInv, Typed, Holding, CallCapHeld
<1>4. \A c \in Requests : call[c].held = 0
  <2>1. \A t \in Trials : trials[t].state = "absent"
    BY DEF InitializeRunCostExposure
  <2>2. \A c \in Requests : call[c].pc = "new"
    BY <2>1 DEF IInv, Holding
  <2> QED
    BY <2>2 DEF IInv, Holding
<1>5. RunWithin' /\ WithinLimits'
  BY <1>2, <1>4 DEF IInv, RunWithin, WithinLimits
<1> QED
  BY <1>3, <1>5 DEF IInv

\* Registering, closing and failing a trial touch no amount.
LEMMA TrialStep ==
    ASSUME IInv, NEW t \in Trials,
           RegisterTrial(t) \/ CloseTrial(t) \/ SupervisorStopsTrial(t)
    PROVE  IInv'
<1>1. /\ UNCHANGED <<run, prior, call, meter, overrun>>
      /\ trials' \in [Trials -> TrialRows]
      /\ \A u \in Trials : /\ trials'[u].cost = trials[u].cost
                           /\ trials'[u].attempts = trials[u].attempts
                           /\ trials'[u].pendingAttempts = trials[u].pendingAttempts
                           /\ trials[u].state # "absent" => trials'[u].state # "absent"
  <2>1. CASE RegisterTrial(t)
    BY <2>1 DEF RegisterTrial, IInv, Typed, TrialRows
  <2>2. CASE CloseTrial(t)
    BY <2>2 DEF CloseTrial, IInv, Typed, TrialRows
  <2>3. CASE SupervisorStopsTrial(t)
    BY <2>3 DEF SupervisorStopsTrial, StopTrial, IInv, Typed, TrialRows, Errors
  <2> QED
    BY <2>1, <2>2, <2>3
<1>2. Typed'
  BY <1>1 DEF IInv, Typed
<1>3. Holding'
  BY <1>1 DEF IInv, Holding
<1> QED
  BY <1>1, <1>2, <1>3, SameMoney

-----------------------------------------------------------------------------
(* The steps of a thread                                                   *)

\* A thread that only moves on, keeping what it holds and its trial.
LEMMA MovesOn ==
    ASSUME IInv, NEW c \in Requests, UNCHANGED <<run, prior, meter, overrun>>,
           NEW pc \in Steps, NEW error \in Errors \cup {NoFailure},
           call[c].pc # "new",
           \/ call' = [call EXCEPT ![c].pc = pc]
           \/ call' = [call EXCEPT ![c].pc = pc, ![c].error = error],
           trials' \in [Trials -> TrialRows],
           \A t \in Trials : /\ trials'[t].cost = trials[t].cost
                             /\ trials'[t].attempts + trials'[t].pendingAttempts
                                   = trials[t].attempts + trials[t].pendingAttempts
                             /\ trials'[t].state = trials[t].state,
           pc \in {"new", "checking", "checked", "settled"} => call[c].held = 0,
           pc \in {"reserved", "cleared", "started"} => call[c].held = call[c].estimate,
           pc \in {"checking", "checked", "reserved", "cleared", "started"}
              => call[c].estimate > 0
    PROVE  IInv'
<1>1. call[c] \in Calls
  BY DEF IInv, Typed
<1>2. /\ call' \in [Requests -> Calls]
      /\ \A d \in Requests : /\ call'[d].held = call[d].held
                             /\ call'[d].trial = call[d].trial
                             /\ call'[d].estimate = call[d].estimate
                             /\ call'[d].pc = IF d = c THEN pc ELSE call[d].pc
  <2>1. call \in [Requests -> Calls]
    BY DEF IInv, Typed
  <2>2. CASE call' = [call EXCEPT ![c].pc = pc]
    <3>1. call' = [call EXCEPT ![c] = [call[c] EXCEPT !.pc = pc]]
      BY <2>2
    <3>2. [call[c] EXCEPT !.pc = pc] \in Calls
      BY <1>1 DEF Calls
    <3> QED
      BY <1>1, <2>1, <3>1, <3>2 DEF Calls
  <2>3. CASE call' = [call EXCEPT ![c].pc = pc, ![c].error = error]
    <3>1. call' = [call EXCEPT ![c] = [[call[c] EXCEPT !.pc = pc] EXCEPT !.error = error]]
      BY <2>1, <2>3
    <3>2. [[call[c] EXCEPT !.pc = pc] EXCEPT !.error = error] \in Calls
      BY <1>1 DEF Calls
    <3> QED
      BY <1>1, <2>1, <3>1, <3>2 DEF Calls
  <2> QED
    BY <2>2, <2>3
<1>3. Typed'
  BY <1>2 DEF IInv, Typed
<1>4. Holding'
  BY <1>2 DEF IInv, Holding
<1> QED
  BY <1>2, <1>3, <1>4, SameMoney

LEMMA EnterStep ==
    ASSUME IInv, NEW c \in Requests, NEW t \in Trials, NEW estimate \in Reservations,
           Enter(c, t, estimate)
    PROVE  IInv'
<1>1. call[c] \in Calls /\ call[c].held = 0 /\ estimate \in Nat /\ estimate > 0
  BY LimitAssumption DEF Enter, IInv, Typed, Holding
<1>2. /\ call' \in [Requests -> Calls]
      /\ \A d \in Requests \ {c} : call'[d] = call[d]
      /\ call'[c].held = 0 /\ call'[c].trial = t
      /\ (call'[c].pc = "checking" /\ call'[c].estimate > 0) \/ call'[c].pc = "raised"
  <2>1. CASE call' = [call EXCEPT ![c] = Entered(t, estimate)]
    <3> DEFINE row == Entered(t, estimate)
    <3>1. row \in Calls /\ row.held = 0 /\ row.trial = t /\ row.pc = "checking"
          /\ row.estimate > 0
      BY <1>1 DEF Calls, Steps, Entered
    <3>2. call' = [call EXCEPT ![c] = row]
      BY <2>1
    <3> HIDE DEF row
    <3> QED
      BY <3>1, <3>2 DEF IInv, Typed
  <2>2. ASSUME NEW error \in EntryErrors(t),
               call' = [call EXCEPT ![c].pc = "raised", ![c].trial = t, ![c].error = error]
        PROVE  <1>2!1 /\ <1>2!2 /\ <1>2!3 /\ <1>2!4
    <3>1. error \in Errors
      BY DEF EntryErrors, Errors
    <3> QED
      BY <1>1, <2>2, <3>1 DEF IInv, Typed, Calls, Steps
  <2> QED
    BY <2>1, <2>2 DEF Enter
<1>3. UNCHANGED <<run, prior, trials, meter, overrun>> /\ trials[t].state # "absent"
  BY DEF Enter
<1>4. Typed'
  BY <1>2, <1>3 DEF IInv, Typed
<1>5. Holding'
  BY <1>2, <1>3 DEF IInv, Holding
<1> QED
  BY <1>1, <1>2, <1>3, <1>4, <1>5, SameMoney DEF IInv, Typed

LEMMA CheckStep ==
    ASSUME IInv, NEW c \in Requests, CheckBeforeReserve(c) \/ Clear(c) \/ CheckAnswer(c)
    PROVE  IInv'
<1>1. UNCHANGED <<run, prior, trials, meter, overrun>> /\ trials \in [Trials -> TrialRows]
  BY DEF CheckBeforeReserve, Clear, CheckAnswer, IInv, Typed
<1>2. PICK pc \in {"checked", "cleared", "returned", "raised"},
           error \in Errors \cup {NoFailure} :
         /\ \/ call' = [call EXCEPT ![c].pc = pc]
            \/ call' = [call EXCEPT ![c].pc = pc, ![c].error = error]
         /\ pc = "checked" => call[c].pc = "checking"
         /\ pc = "cleared" => call[c].pc = "reserved"
         /\ call[c].pc # "new"
  BY DEF CheckBeforeReserve, Clear, CheckAnswer, Raises, CheckErrors, SettledErrors, Errors
<1>3. pc \in Steps
  BY DEF Steps
<1>4. /\ pc = "checked" => call[c].held = 0
      /\ pc = "cleared" => call[c].held = call[c].estimate
      /\ pc \in {"checked", "cleared"} => call[c].estimate > 0
  BY <1>2 DEF IInv, Holding
<1> QED
  BY <1>1, <1>2, <1>3, <1>4, MovesOn

LEMMA StartStep ==
    ASSUME IInv, NEW c \in Requests, MarkDispatchStarted(c)
    PROVE  IInv'
<1>1. /\ call[c].held = call[c].estimate /\ call[c].estimate > 0
      /\ call[c].trial \in Trials /\ call[c].pc # "new"
  BY DEF MarkDispatchStarted, IInv, Holding
<1>2. /\ trials' \in [Trials -> TrialRows]
      /\ \A t \in Trials : /\ trials'[t].cost = trials[t].cost
                           /\ trials'[t].attempts + trials'[t].pendingAttempts
                                 = trials[t].attempts + trials[t].pendingAttempts
                           /\ trials'[t].state = trials[t].state
  BY <1>1 DEF MarkDispatchStarted, IInv, Typed, TrialRows
<1> QED
  BY <1>1, <1>2, MovesOn DEF MarkDispatchStarted, Steps

LEMMA HandleStep ==
    ASSUME IInv, NEW c \in Requests, HandleError(c) \/ StopRun(c) \/ DeliveryFails(c)
    PROVE  IInv'
<1>1. call[c].pc # "new" /\ call[c].trial \in Trials /\ call[c].error \in Errors \cup {NoFailure}
  BY DEF HandleError, StopRun, DeliveryFails, IInv, Holding, Typed, Calls
<1>2. \E reason \in Errors \cup {NoFailure, "delivery"} :
         UNCHANGED trials \/ StopTrial(call[c].trial, reason)
  BY <1>1 DEF HandleError, StopRun, DeliveryFails, Errors
<1>3. /\ trials' \in [Trials -> TrialRows]
      /\ \A t \in Trials : /\ trials'[t].cost = trials[t].cost
                           /\ trials'[t].attempts = trials[t].attempts
                           /\ trials'[t].pendingAttempts = trials[t].pendingAttempts
                           /\ trials'[t].state = trials[t].state
  BY <1>1, <1>2, SMTT(60) DEF StopTrial, IInv, Typed, TrialRows
<1>4. \E pc \in {"stopping", "returned", "undelivered"} : call' = [call EXCEPT ![c].pc = pc]
  BY DEF HandleError, StopRun, DeliveryFails
<1>5. UNCHANGED <<run, prior, meter, overrun>>
  BY DEF HandleError, StopRun, DeliveryFails
<1> QED
  BY <1>1, <1>3, <1>4, <1>5, MovesOn DEF Steps

-----------------------------------------------------------------------------
(* The steps that move money                                               *)

\* Charging changes an exposure by exactly the amounts charged.
LEMMA ChargedExposure ==
    ASSUME NEW cost \in Amounts, NEW known \in Int, NEW unconfirmed \in Int, NEW pending \in Int
    PROVE  /\ Charged(cost, known, unconfirmed, pending) \in Amounts
           /\ Exposure(Charged(cost, known, unconfirmed, pending))
                 = Exposure(cost) + known + unconfirmed + pending
           /\ Exposure(cost) \in Int
BY DEF Charged, Exposure, Amounts

\* Reserving and giving back change one trial's cost and pending attempts.
LEMMA PendingRow ==
    ASSUME trials \in [Trials -> TrialRows], NEW t \in Trials, NEW amount \in Int, NEW attempts \in Int,
           trials' = [trials EXCEPT ![t] = WithPending(@, amount, attempts)]
    PROVE  /\ trials' \in [Trials -> TrialRows]
           /\ trials'[t].cost = Charged(trials[t].cost, 0, 0, amount)
           /\ trials'[t].attempts = trials[t].attempts /\ trials'[t].state = trials[t].state
           /\ trials'[t].pendingAttempts = trials[t].pendingAttempts + attempts
           /\ \A u \in Trials \ {t} : trials'[u] = trials[u]
<1> DEFINE row == WithPending(trials[t], amount, attempts)
           cost == Charged(trials[t].cost, 0, 0, amount)
           pendings == trials[t].pendingAttempts + attempts
<1>1. trials[t] \in TrialRows /\ trials[t].cost \in Amounts /\ pendings \in Int
  BY DEF TrialRows
<1>2. cost \in Amounts
  BY <1>1, ChargedExposure
<1>3. row = [trials[t] EXCEPT !.cost = cost, !.pendingAttempts = pendings]
  BY DEF WithPending
<1>4. trials' = [trials EXCEPT ![t] = row]
  OBVIOUS
<1> HIDE DEF row, cost, pendings
<1>5. /\ row \in TrialRows
      /\ row.cost = cost /\ row.attempts = trials[t].attempts /\ row.state = trials[t].state
      /\ row.pendingAttempts = pendings
  BY <1>1, <1>2, <1>3 DEF TrialRows
<1> QED
  BY <1>4, <1>5 DEF cost, pendings

LEMMA ReserveStep ==
    ASSUME IInv, NEW c \in Requests, ReserveDispatch(c)
    PROVE  IInv'
<1> DEFINE t == call[c].trial
           estimate == call[c].estimate
           error == ReserveError(t, estimate)
<1>1. /\ call[c] \in Calls /\ t \in Trials /\ estimate \in Nat /\ call[c].pc = "checked"
      /\ trials[t] \in TrialRows /\ trials[t].cost \in Amounts /\ run \in Amounts
      /\ trials[t].state # "absent" /\ estimate > 0
  BY DEF ReserveDispatch, IInv, Typed, Holding, Calls, TrialRows
<1>2. UNCHANGED <<stopped, failure, prior, meter, overrun>>
  BY DEF ReserveDispatch
<1>3. CASE error # NoFailure
  <2>1. error \in Errors
    BY <1>3 DEF ReserveError, Errors
  <2>2. UNCHANGED <<run, trials>> /\ call' = [call EXCEPT ![c].pc = "raised", ![c].error = error]
    BY <1>3 DEF ReserveDispatch, Raises
  <2>3. trials \in [Trials -> TrialRows] /\ "raised" \in Steps
    BY DEF IInv, Typed, Steps
  <2> HIDE DEF error
  <2> QED
    BY <1>1, <1>2, <2>1, <2>2, <2>3, MovesOn
<1>4. CASE error = NoFailure
  <2>1. /\ call' = [call EXCEPT ![c].pc = "reserved", ![c].held = estimate]
        /\ run' = Charged(run, 0, 0, estimate)
        /\ trials' = [trials EXCEPT ![t] = WithPending(@, estimate, 1)]
    BY <1>4 DEF ReserveDispatch
  <2>2. /\ trials[t].attempts + trials[t].pendingAttempts < CallLimit
        /\ Exposure(trials[t].cost) + estimate <= AttemptLimit
        /\ Exposure(run) + estimate <= RunLimit
    <3>1. /\ ~(trials[t].attempts + trials[t].pendingAttempts >= CallLimit)
          /\ ~(Exposure(trials[t].cost) + estimate > AttemptLimit)
          /\ ~(Exposure(run) + estimate > RunLimit)
      BY <1>4 DEF ReserveError, NoFailure
    <3>2. Exposure(trials[t].cost) \in Int /\ Exposure(run) \in Int
      BY <1>1, ChargedExposure
    <3>3. trials[t].attempts \in Int /\ trials[t].pendingAttempts \in Int
      BY <1>1 DEF TrialRows
    <3> HIDE DEF t, estimate
    <3> QED
      BY <1>1, <3>1, <3>2, <3>3, LimitAssumption
  <2>3. /\ call' \in [Requests -> Calls]
        /\ call'[c].pc = "reserved" /\ call'[c].held = estimate
        /\ call'[c].estimate = estimate /\ call'[c].trial = t
        /\ \A d \in Requests \ {c} : call'[d] = call[d]
    BY <1>1, <2>1 DEF IInv, Typed, Calls, Steps
  <2>4. /\ trials' \in [Trials -> TrialRows]
        /\ trials'[t].cost = Charged(trials[t].cost, 0, 0, estimate)
        /\ trials'[t].attempts = trials[t].attempts /\ trials'[t].state = trials[t].state
        /\ trials'[t].pendingAttempts = trials[t].pendingAttempts + 1
        /\ \A u \in Trials \ {t} : trials'[u] = trials[u]
    <3>1. trials \in [Trials -> TrialRows] /\ estimate \in Int /\ 1 \in Int
      BY <1>1 DEF IInv, Typed
    <3> HIDE DEF t, estimate, error
    <3> QED
      BY <1>1, <2>1, <3>1, PendingRow
  <2> HIDE DEF t, estimate, error
  <2>5. /\ run' \in Amounts
        /\ Exposure(run') = Exposure(run) + estimate /\ Exposure(run) \in Int
        /\ Exposure(trials'[t].cost) = Exposure(trials[t].cost) + estimate
        /\ Exposure(trials[t].cost) \in Int
    <3>1. /\ Charged(run, 0, 0, estimate) \in Amounts
          /\ Exposure(Charged(run, 0, 0, estimate)) = Exposure(run) + 0 + 0 + estimate
          /\ Exposure(run) \in Int
      BY <1>1, ChargedExposure
    <3>2. /\ Exposure(Charged(trials[t].cost, 0, 0, estimate))
               = Exposure(trials[t].cost) + 0 + 0 + estimate
          /\ Exposure(trials[t].cost) \in Int
      BY <1>1, ChargedExposure
    <3> QED
      BY <1>1, <2>1, <2>4, <3>1, <3>2
  <2>6. Typed'
    BY <1>2, <2>3, <2>4, <2>5 DEF IInv, Typed
  <2>7. Holding'
    BY <1>1, <2>3, <2>4 DEF IInv, Holding
  <2>8. Exposure(run') <= RunLimit + overrun'
    BY <1>1, <1>2, <2>2, <2>5, LimitAssumption DEF IInv, Typed
  <2>9. WithinLimits' /\ RunWithin'
    <3>1. ASSUME NEW u \in Trials
          PROVE  Exposure(trials'[u].cost) <= AttemptLimit + meter'[u].overrun
      <4>1. meter[u].overrun \in Nat
        BY DEF IInv, Typed
      <4>2. CASE u = t
        BY <1>1, <1>2, <2>2, <2>5, <4>1, <4>2, LimitAssumption
      <4>3. CASE u # t
        BY <1>2, <2>4, <4>3 DEF IInv, WithinLimits
      <4> QED
        BY <4>2, <4>3
    <3> QED
      BY <2>8, <3>1 DEF WithinLimits, RunWithin
  <2>10. CallCapHeld'
    BY <1>1, <2>2, <2>4, LimitAssumption DEF IInv, CallCapHeld, TrialRows
  <2> QED
    BY <2>6, <2>7, <2>9, <2>10 DEF IInv
<1> QED
  BY <1>3, <1>4

\* A thread gives its reservation back and may turn it into cost: what it
\* adds beyond the reservation is no more than the overrun it reports.
LEMMA ReleaseStep ==
    ASSUME IInv, NEW c \in Requests, NEW known \in Nat, NEW unconfirmed \in Nat, NEW extra \in Nat,
           NEW t \in Trials, t = call[c].trial,
           known + unconfirmed <= call[c].held + extra,
           run' = Charged(run, known, unconfirmed, -call[c].held),
           trials' \in [Trials -> TrialRows],
           trials'[t].cost = Charged(trials[t].cost, known, unconfirmed, -call[c].held),
           \A u \in Trials \ {t} : trials'[u].cost = trials[u].cost,
           \A u \in Trials : /\ trials'[u].state = trials[u].state
                             /\ trials'[u].attempts + trials'[u].pendingAttempts
                                   <= trials[u].attempts + trials[u].pendingAttempts,
           UNCHANGED prior, overrun' = overrun + extra,
           meter' \in [Trials -> [billed : Int, overrun : Nat, unseen : Nat]],
           meter'[t].overrun = meter[t].overrun + extra,
           \A u \in Trials \ {t} : meter'[u].overrun = meter[u].overrun,
           call' \in [Requests -> Calls],
           \A d \in Requests \ {c} : call'[d] = call[d],
           call'[c].held = 0, call'[c].trial = t,
           call'[c].pc \in {"checking", "raised", "settled"},
           call'[c].pc = "checking" => call'[c].estimate > 0,
           trials[t].state # "absent",
           known + unconfirmed = 0 \/ call[c].held > 0
    PROVE  IInv'
<1>1. /\ call[c].held \in Nat /\ -call[c].held \in Int /\ run \in Amounts
      /\ trials[t].cost \in Amounts /\ overrun \in Nat
      /\ \A u \in Trials : meter[u].overrun \in Nat
  BY DEF IInv, Typed, Calls, TrialRows
<1>2. /\ run' \in Amounts
      /\ Exposure(run') = Exposure(run) + known + unconfirmed + (-call[c].held)
      /\ Exposure(run) \in Int
  <2>1. /\ Charged(run, known, unconfirmed, -call[c].held) \in Amounts
        /\ Exposure(Charged(run, known, unconfirmed, -call[c].held))
              = Exposure(run) + known + unconfirmed + (-call[c].held)
        /\ Exposure(run) \in Int
    BY <1>1, ChargedExposure
  <2> QED
    BY <2>1
<1>3. /\ Exposure(trials'[t].cost)
            = Exposure(trials[t].cost) + known + unconfirmed + (-call[c].held)
      /\ Exposure(trials[t].cost) \in Int
  <2>1. /\ Exposure(Charged(trials[t].cost, known, unconfirmed, -call[c].held))
              = Exposure(trials[t].cost) + known + unconfirmed + (-call[c].held)
        /\ Exposure(trials[t].cost) \in Int
    BY <1>1, ChargedExposure
  <2> QED
    BY <2>1
<1>4. Typed'
  BY <1>1, <1>2 DEF IInv, Typed
<1>5. Holding'
  BY DEF IInv, Holding
<1>6. CallCapHeld'
  BY LimitAssumption DEF IInv, CallCapHeld, Typed, TrialRows
<1>7. RunWithin'
  <2>1. CASE Exposure(run) <= RunLimit + overrun
    <3>1. Exposure(run') <= RunLimit + overrun'
      BY <1>1, <1>2, <2>1, LimitAssumption
    <3> QED
      BY <3>1 DEF RunWithin
  <2>2. CASE run = prior /\ \A d \in Requests : call[d].held = 0
    <3>1. call[c].held = 0 /\ known = 0 /\ unconfirmed = 0
      BY <2>2
    <3>2. run' = run
      BY <1>1, <3>1 DEF Charged, Amounts
    <3>3. \A d \in Requests : call'[d].held = 0
      BY <2>2
    <3> QED
      BY <2>2, <3>2, <3>3 DEF RunWithin
  <2> QED
    BY <2>1, <2>2 DEF IInv, RunWithin
<1>8. ASSUME NEW u \in Trials
      PROVE  Exposure(trials'[u].cost) <= AttemptLimit + meter'[u].overrun
  <2>1. Exposure(trials[u].cost) <= AttemptLimit + meter[u].overrun
    BY DEF IInv, WithinLimits
  <2>2. CASE u = t
    BY <1>1, <1>3, <2>1, <2>2, LimitAssumption
  <2>3. CASE u # t
    BY <2>1, <2>3
  <2> QED
    BY <2>2, <2>3
<1>9. WithinLimits'
  BY <1>7, <1>8 DEF WithinLimits, RunWithin
<1> QED
  BY <1>4, <1>5, <1>6, <1>7, <1>9 DEF IInv

LEMMA CancelStep ==
    ASSUME IInv, NEW c \in Requests, CancelDispatchReservation(c)
    PROVE  IInv'
<1> DEFINE t == call[c].trial
           held == call[c].held
<1>1. /\ call[c] \in Calls /\ t \in Trials /\ trials[t].state # "absent" /\ held \in Nat
      /\ trials[t] \in TrialRows
  BY DEF CancelDispatchReservation, IInv, Typed, Holding, Calls
<1>2. /\ run' = Charged(run, 0, 0, -held)
      /\ trials' = [trials EXCEPT ![t] = WithPending(@, -held, -1)]
      /\ UNCHANGED <<prior, meter, overrun>>
  BY DEF CancelDispatchReservation
<1>3. /\ call' \in [Requests -> Calls]
      /\ \A d \in Requests \ {c} : call'[d] = call[d]
      /\ call'[c].held = 0 /\ call'[c].trial = t /\ call'[c].pc = "raised"
  <2>1. PICK error \in Errors :
           call' = [call EXCEPT ![c].pc = "raised", ![c].error = error, ![c].held = 0]
    BY DEF CancelDispatchReservation
  <2> QED
    BY <1>1, <2>1 DEF IInv, Typed, Calls, Steps
<1>4. /\ trials' \in [Trials -> TrialRows]
      /\ trials'[t].cost = Charged(trials[t].cost, 0, 0, -held)
      /\ \A u \in Trials \ {t} : trials'[u] = trials[u]
      /\ \A u \in Trials : /\ trials'[u].state = trials[u].state
                           /\ trials'[u].attempts + trials'[u].pendingAttempts
                                 <= trials[u].attempts + trials[u].pendingAttempts
  <2>1. trials \in [Trials -> TrialRows] /\ -held \in Int /\ -1 \in Int
    BY <1>1 DEF IInv, Typed
  <2> HIDE DEF t, held
  <2>2. /\ trials' \in [Trials -> TrialRows]
        /\ trials'[t].cost = Charged(trials[t].cost, 0, 0, -held)
        /\ trials'[t].attempts = trials[t].attempts /\ trials'[t].state = trials[t].state
        /\ trials'[t].pendingAttempts = trials[t].pendingAttempts + (-1)
        /\ \A u \in Trials \ {t} : trials'[u] = trials[u]
    BY <1>1, <1>2, <2>1, PendingRow
  <2>3. \A u \in Trials : trials[u].attempts \in Int /\ trials[u].pendingAttempts \in Int
    BY <2>1 DEF TrialRows
  <2> QED
    BY <2>2, <2>3
<1>5. meter' \in [Trials -> [billed : Int, overrun : Nat, unseen : Nat]] /\ overrun' = overrun + 0
      /\ \A u \in Trials : meter'[u].overrun = meter[u].overrun + 0
  BY <1>2 DEF IInv, Typed
<1>6. 0 \in Nat /\ 0 + 0 = 0 /\ 0 + 0 <= held + 0
  BY <1>1
<1> HIDE DEF t
<1> QED
  BY <1>1, <1>2, <1>3, <1>4, <1>5, <1>6, ReleaseStep, SMTT(30) DEF t

LEMMA AnswerStep ==
    ASSUME IInv, NEW c \in Requests, Answer(c)
    PROVE  IInv'
<1> DEFINE t == call[c].trial
           held == call[c].held
           estimate == call[c].estimate
<1>1. PICK cost, reported \in 0 .. estimate + Overrun :
         \/ AnswerWithUsage(c, cost, reported)
         \/ AnswerWithoutUsage(c, cost)
         \/ EvidenceWriteFails(c, cost)
  BY DEF Answer
<1>2. /\ call[c].pc = "started" /\ call[c] \in Calls /\ t \in Trials
      /\ trials[t].state # "absent" /\ trials[t] \in TrialRows
      /\ held = estimate /\ held \in Nat /\ held > 0
      /\ cost \in Nat /\ reported \in Nat
  BY <1>1, LimitAssumption
     DEF AnswerWithUsage, AnswerWithoutUsage, EvidenceWriteFails, IInv, Typed, Holding, Calls
<1>3. ASSUME NEW known \in Nat, NEW unconfirmed \in Nat, Settle(c, known, unconfirmed)
      PROVE  /\ run' = Charged(run, known, unconfirmed, -held)
             /\ trials' \in [Trials -> TrialRows]
             /\ trials'[t].cost = Charged(trials[t].cost, known, unconfirmed, -held)
             /\ \A u \in Trials \ {t} : trials'[u] = trials[u]
             /\ \A u \in Trials :
                   /\ trials'[u].state = trials[u].state
                   /\ trials'[u].attempts + trials'[u].pendingAttempts
                         <= trials[u].attempts + trials[u].pendingAttempts
  <2>1. Charged(trials[t].cost, known, unconfirmed, -held) \in Amounts
    BY <1>2, ChargedExposure DEF TrialRows
  <2>2. trials' = [trials EXCEPT ![t].cost = Charged(@, known, unconfirmed, -held)]
        /\ run' = Charged(run, known, unconfirmed, -held)
    BY <1>3 DEF Settle
  <2> HIDE DEF t, held
  <2> QED
    BY <1>2, <2>1, <2>2 DEF IInv, Typed, TrialRows
<1>4. ASSUME NEW amount \in Nat, NEW unseen \in Nat, Bill(c, cost, amount, unseen)
      PROVE  /\ Excess(c, amount) \in Nat /\ amount <= held + Excess(c, amount)
             /\ overrun' = overrun + Excess(c, amount)
             /\ meter' \in [Trials -> [billed : Int, overrun : Nat, unseen : Nat]]
             /\ meter'[t].overrun = meter[t].overrun + Excess(c, amount)
             /\ \A u \in Trials \ {t} : meter'[u].overrun = meter[u].overrun
  <2>1. Excess(c, amount) \in Nat /\ amount <= held + Excess(c, amount)
    BY <1>2 DEF Excess
  <2>5. Excess(c, unseen) \in Nat
    BY <1>2 DEF Excess
  <2> DEFINE row == [billed |-> meter[t].billed + cost,
                     overrun |-> meter[t].overrun + Excess(c, amount),
                     unseen |-> meter[t].unseen + Excess(c, unseen)]
  <2>2. meter' = [meter EXCEPT ![t] = row] /\ overrun' = overrun + Excess(c, amount)
    BY <1>4 DEF Bill
  <2>3. meter \in [Trials -> [billed : Int, overrun : Nat, unseen : Nat]]
    BY DEF IInv, Typed
  <2>4. row \in [billed : Int, overrun : Nat, unseen : Nat]
        /\ row.overrun = meter[t].overrun + Excess(c, amount)
    BY <1>2, <2>1, <2>3, <2>5
  <2> HIDE DEF t, held, row
  <2> QED
    BY <1>2, <2>1, <2>2, <2>3, <2>4
<1>5. CASE AnswerWithUsage(c, cost, reported)
  <2>1. PICK known \in Nat, unconfirmed \in Nat :
           known + unconfirmed <= reported /\ Settle(c, known, unconfirmed)
    BY <1>2, <1>5 DEF AnswerWithUsage
  <2>2. Bill(c, cost, reported, 0) /\ UNCHANGED prior
    BY <1>5 DEF AnswerWithUsage
  <2>3. /\ call' \in [Requests -> Calls]
        /\ \A d \in Requests \ {c} : call'[d] = call[d]
        /\ call'[c].held = 0 /\ call'[c].trial = t /\ call'[c].pc = "settled"
    BY <1>2, <1>5 DEF AnswerWithUsage, IInv, Typed, Calls, Steps
  <2>4. known + unconfirmed <= held + Excess(c, reported)
    <3>1. reported <= held + Excess(c, reported) /\ Excess(c, reported) \in Nat
      BY <1>2, <1>4, <2>2
    <3> QED
      BY <1>2, <2>1, <3>1
  <2>5. /\ Excess(c, reported) \in Nat /\ overrun' = overrun + Excess(c, reported)
        /\ meter' \in [Trials -> [billed : Int, overrun : Nat, unseen : Nat]]
        /\ meter'[t].overrun = meter[t].overrun + Excess(c, reported)
        /\ \A u \in Trials \ {t} : meter'[u].overrun = meter[u].overrun
    BY <1>2, <1>4, <2>2
  <2>6. /\ run' = Charged(run, known, unconfirmed, -held)
        /\ trials' \in [Trials -> TrialRows]
        /\ trials'[t].cost = Charged(trials[t].cost, known, unconfirmed, -held)
        /\ \A u \in Trials \ {t} : trials'[u].cost = trials[u].cost
        /\ \A u \in Trials :
              /\ trials'[u].state = trials[u].state
              /\ trials'[u].attempts + trials'[u].pendingAttempts
                    <= trials[u].attempts + trials[u].pendingAttempts
    BY <1>3, <2>1
  <2>7. known + unconfirmed = 0 \/ held > 0
    BY <1>2
  <2>8. t = call[c].trial /\ t \in Trials /\ trials[t].state # "absent" /\ UNCHANGED prior
        /\ call'[c].pc \in {"checking", "raised", "settled"} /\ call'[c].pc # "checking"
    BY <1>2, <2>2, <2>3
  <2> DEFINE extra == Excess(c, reported)
  <2> HIDE DEF t, estimate, extra
  <2> QED
    BY <2>3, <2>4, <2>5, <2>6, <2>7, <2>8, ReleaseStep, ZenonT(60) DEF extra
<1>6. CASE AnswerWithoutUsage(c, cost)
  <2>1. Settle(c, 0, estimate) /\ Bill(c, cost, 0, cost) /\ UNCHANGED prior
    BY <1>6 DEF AnswerWithoutUsage
  <2>2. /\ call' \in [Requests -> Calls]
        /\ \A d \in Requests \ {c} : call'[d] = call[d]
        /\ call'[c].held = 0 /\ call'[c].trial = t /\ call'[c].estimate = estimate
        /\ call'[c].pc \in {"checking", "raised"}
    <3>1. CASE call' = [call EXCEPT ![c].pc = "checking", ![c].http = @ + 1, ![c].held = 0]
      BY <1>2, <3>1 DEF IInv, Typed, Calls, Steps
    <3>2. ASSUME NEW error \in Errors,
                 call' = [call EXCEPT ![c].pc = "raised", ![c].error = error, ![c].held = 0]
          PROVE  <2>2!1 /\ <2>2!2 /\ <2>2!3 /\ <2>2!4
      BY <1>2, <3>2 DEF IInv, Typed, Calls, Steps
    <3> QED
      BY <1>6, <3>1, <3>2 DEF AnswerWithoutUsage, Errors
  <2>3. Excess(c, 0) = 0 /\ 0 \in Nat
    BY <1>2 DEF Excess
  <2>4. /\ overrun' = overrun + 0
        /\ meter' \in [Trials -> [billed : Int, overrun : Nat, unseen : Nat]]
        /\ meter'[t].overrun = meter[t].overrun + 0
        /\ \A u \in Trials \ {t} : meter'[u].overrun = meter[u].overrun
    BY <1>2, <1>4, <2>1, <2>3
  <2>5. /\ run' = Charged(run, 0, estimate, -held)
        /\ trials' \in [Trials -> TrialRows]
        /\ trials'[t].cost = Charged(trials[t].cost, 0, estimate, -held)
        /\ \A u \in Trials \ {t} : trials'[u].cost = trials[u].cost
        /\ \A u \in Trials :
              /\ trials'[u].state = trials[u].state
              /\ trials'[u].attempts + trials'[u].pendingAttempts
                    <= trials[u].attempts + trials[u].pendingAttempts
    BY <1>2, <1>3, <2>1, <2>3
  <2>6. /\ 0 \in Nat /\ estimate \in Nat /\ 0 + estimate <= held + 0
        /\ 0 + estimate = 0 \/ held > 0
        /\ t = call[c].trial /\ t \in Trials /\ trials[t].state # "absent" /\ UNCHANGED prior
        /\ call'[c].pc \in {"checking", "raised", "settled"} /\ call'[c].estimate > 0
    BY <1>2, <2>1, <2>2
  <2> HIDE DEF t, estimate
  <2> QED
    BY <2>2, <2>4, <2>5, <2>6, ReleaseStep
<1>7. CASE EvidenceWriteFails(c, cost)
  <2>1. UNCHANGED <<run, prior, trials>> /\ Bill(c, cost, 0, cost)
        /\ call' = [call EXCEPT ![c].pc = "raised", ![c].error = "error"]
    BY <1>7 DEF EvidenceWriteFails, Raises
  <2>2. Excess(c, 0) = 0
    BY <1>2 DEF Excess
  <2>3. /\ call' \in [Requests -> Calls]
        /\ \A d \in Requests \ {c} : call'[d] = call[d]
        /\ call'[c].held = held /\ call'[c].trial = t /\ call'[c].pc = "raised"
    BY <1>2, <2>1 DEF IInv, Typed, Calls, Steps, Errors
  <2>4. /\ overrun' = overrun /\ meter' \in [Trials -> [billed : Int, overrun : Nat, unseen : Nat]]
        /\ \A u \in Trials : meter'[u].overrun = meter[u].overrun
    BY <1>2, <1>4, <2>1, <2>2 DEF IInv, Typed
  <2>5. Typed'
    BY <2>1, <2>3, <2>4 DEF IInv, Typed
  <2>6. Holding'
    BY <1>2, <2>1, <2>3 DEF IInv, Holding
  <2>7. WithinLimits' /\ RunWithin' /\ CallCapHeld'
    <3>1. \A d \in Requests : call'[d].held = call[d].held
      BY <2>3
    <3> QED
      BY <2>1, <2>4, <3>1 DEF IInv, WithinLimits, RunWithin, CallCapHeld
  <2> QED
    BY <2>5, <2>6, <2>7 DEF IInv
<1> QED
  BY <1>1, <1>5, <1>6, <1>7

LEMMA ExternalStep ==
    ASSUME IInv, ExternalStop
    PROVE  IInv'
BY DEF IInv, ExternalStop, Typed, Holding, RunWithin, WithinLimits, CallCapHeld

\* Every step of the recorder keeps the invariant, one lemma for each kind.
LEMMA NextStep == IInv /\ [Next]_vars => IInv'
<1> SUFFICES ASSUME IInv, [Next]_vars PROVE IInv'
  OBVIOUS
<1>1. CASE \E exposure \in PriorExposures : InitializeRunCostExposure(exposure[1], exposure[2])
  BY <1>1, InitializeStep
<1>2. CASE \E t \in Trials : RegisterTrial(t) \/ CloseTrial(t) \/ SupervisorStopsTrial(t)
  BY <1>2, TrialStep
<1>3. CASE ExternalStop
  BY <1>3, ExternalStep
<1>4. CASE \E c \in Requests, t \in Trials, estimate \in Reservations : Enter(c, t, estimate)
  BY <1>4, EnterStep
<1>5. ASSUME NEW c \in Requests, Step(c) \/ DeliveryFails(c)
      PROVE  IInv'
  BY <1>5, CheckStep, ReserveStep, CancelStep, StartStep, AnswerStep, HandleStep DEF Step
<1>6. CASE UNCHANGED vars
  BY <1>6 DEF vars, IInv, Typed, Holding, RunWithin, WithinLimits, CallCapHeld
<1> QED
  BY <1>1, <1>2, <1>3, <1>4, <1>5, <1>6 DEF Next

-----------------------------------------------------------------------------
(* The ledger: money is conserved                                          *)

HeldOf == [c \in Requests |-> call[c].held]
KnownOf == [t \in Trials |-> trials[t].cost.known]
OpenOf == [t \in Trials |-> trials[t].cost.unconfirmed]

\* What a thread holds of a reservation that is never settled.
Sent(c) == call[c].pc \in {"reserved", "cleared", "started"}
LostOf == [c \in Requests |-> IF Sent(c) THEN 0 ELSE call[c].held]

Mine(t) == {c \in Requests : call[c].trial = t}
Waits(c) == call[c].pc \in {"reserved", "cleared"}
Waiting(t) == {c \in Mine(t) : Waits(c)}

\* The pending attempts of a trial change as its thread begins or ends to wait.
AttemptsFollow(c, t) ==
    \/ (Waits(c)' <=> Waits(c)) /\ trials'[t].pendingAttempts = trials[t].pendingAttempts
    \/ Waits(c)' /\ ~Waits(c) /\ trials'[t].pendingAttempts = trials[t].pendingAttempts + 1
    \/ ~Waits(c)' /\ Waits(c) /\ trials'[t].pendingAttempts = trials[t].pendingAttempts - 1

Naturals ==
    /\ prior.known \in Nat /\ prior.unconfirmed \in Nat
    /\ \A t \in Trials : trials[t].cost.known \in Nat /\ trials[t].cost.unconfirmed \in Nat

RunAdds ==
    /\ run.known = prior.known + Total(KnownOf, Trials)
    /\ run.unconfirmed = prior.unconfirmed + Total(OpenOf, Trials)
    /\ run.pending = Total(HeldOf, Requests)

TrialsAdd ==
    \A t \in Trials : /\ trials[t].cost.pending = Total(HeldOf, Mine(t))
                      /\ trials[t].pendingAttempts = Cardinality(Waiting(t))

Outlives == \A c \in Requests : call[c].held > 0 => Sent(c) \/ call[c].error = "error"

\* What is billed for a trial but the excess of answers that were never seen.
Foreseen == [t \in Trials |-> meter[t].billed - meter[t].unseen]

\* This is covered without the reservations that may be given back.
Covered ==
    \A t \in Trials : Foreseen[t] <=
        trials[t].cost.known + trials[t].cost.unconfirmed + Total(LostOf, Mine(t))

Ledger == Naturals /\ RunAdds /\ TrialsAdd /\ Outlives /\ Covered

\* The values that are summed are natural numbers, over finite sets.
SummandsFit ==
    /\ \A c \in Requests : HeldOf[c] \in Nat /\ LostOf[c] \in Nat /\ LostOf[c] <= HeldOf[c]
    /\ IsFiniteSet(Requests) /\ IsFiniteSet(Trials)
    /\ \A t \in Trials : /\ Mine(t) \subseteq Requests /\ IsFiniteSet(Mine(t))
                         /\ IsFiniteSet(Waiting(t))
    /\ \A c \in Requests : HeldOf[c] = call[c].held
    /\ \A t \in Trials : /\ KnownOf[t] = trials[t].cost.known
                         /\ OpenOf[t] = trials[t].cost.unconfirmed

LEMMA Summands == IInv => SummandsFit
<1> SUFFICES ASSUME IInv PROVE SummandsFit
  OBVIOUS
<1>1. \A c \in Requests : call[c].held \in Nat
  BY DEF IInv, Typed, Calls
<1>2. IsFiniteSet(Requests) /\ IsFiniteSet(Trials)
  BY LimitAssumption
<1>3. \A t \in Trials : Mine(t) \subseteq Requests /\ Waiting(t) \subseteq Requests
  BY DEF Mine, Waiting
<1>4. \A t \in Trials : IsFiniteSet(Mine(t)) /\ IsFiniteSet(Waiting(t))
  BY <1>2, <1>3, FS_Subset
<1>5. \A c \in Requests : HeldOf[c] \in Nat /\ LostOf[c] \in Nat /\ LostOf[c] <= HeldOf[c] /\ HeldOf[c] = call[c].held
  BY <1>1 DEF HeldOf, LostOf
<1> QED
  BY <1>2, <1>3, <1>4, <1>5 DEF SummandsFit, KnownOf, OpenOf

\* One member more or less is one more or less in number.
LEMMA WithOne ==
    ASSUME NEW A, IsFiniteSet(A), NEW e
    PROVE  /\ Cardinality(A) \in Nat /\ Cardinality(A \ {e}) \in Nat
           /\ e \in A => Cardinality(A) = Cardinality(A \ {e}) + 1
           /\ e \notin A => Cardinality(A) = Cardinality(A \ {e})
<1>1. Cardinality(A) \in Nat /\ Cardinality(A \ {e}) \in Nat
  BY FS_Subset, FS_CardinalityType
<1>2. ASSUME e \in A PROVE Cardinality(A) = Cardinality(A \ {e}) + 1
  <2>1. Cardinality(A \ {e}) = Cardinality(A) - 1
    BY <1>2, FS_RemoveElement
  <2>2. \A m, n \in Nat : n = m - 1 => m = n + 1
    OBVIOUS
  <2> QED
    BY <1>1, <2>1, <2>2
<1>3. ASSUME e \notin A PROVE Cardinality(A) = Cardinality(A \ {e})
  <2>1. A \ {e} = A
    BY <1>3
  <2> QED
    BY <2>1
<1> QED
  BY <1>1, <1>2, <1>3

LEMMA InitLedger == Init => Ledger
<1> SUFFICES ASSUME Init PROVE Ledger
  OBVIOUS
<1>1. IInv
  BY InitInvariant
<1>2. /\ \A c \in Requests : HeldOf[c] = 0 /\ LostOf[c] = 0 /\ call[c].pc = "new" /\ call[c].held = 0
      /\ \A t \in Trials : /\ KnownOf[t] = 0 /\ OpenOf[t] = 0
                           /\ trials[t].cost = NoCost /\ trials[t].pendingAttempts = 0
                           /\ Foreseen[t] = 0
      /\ run = NoCost /\ prior = NoCost
  BY DEF Init, HeldOf, LostOf, KnownOf, OpenOf, NoCost, Foreseen
<1>3. /\ IsFiniteSet(Requests) /\ IsFiniteSet(Trials)
      /\ \A t \in Trials : Mine(t) \subseteq Requests /\ IsFiniteSet(Mine(t))
  BY <1>1, Summands DEF SummandsFit
<1>4. Total(KnownOf, Trials) = 0 /\ Total(OpenOf, Trials) = 0 /\ Total(HeldOf, Requests) = 0
  BY <1>2, <1>3, TotalNothing
<1>5. \A t \in Trials : Total(HeldOf, Mine(t)) = 0 /\ Total(LostOf, Mine(t)) = 0
  BY <1>2, <1>3, TotalNothing
<1>6. \A t \in Trials : Cardinality(Waiting(t)) = 0
  <2>1. \A t \in Trials : Waiting(t) = {}
    BY <1>2 DEF Waiting, Mine, Waits
  <2> QED
    BY <2>1, FS_EmptySet
<1>7. Naturals /\ RunAdds
  BY <1>2, <1>4 DEF Naturals, RunAdds, NoCost
<1>8. TrialsAdd /\ Covered
  BY <1>2, <1>5, <1>6 DEF TrialsAdd, Covered, NoCost
<1>9. Outlives
  BY <1>2 DEF Outlives
<1> QED
  BY <1>7, <1>8, <1>9 DEF Ledger

\* A thread changes what it holds and its trial's amounts by as much as the
\* run's; what it is billed for is covered by what it adds or loses.
LEMMA LedgerMoves ==
    ASSUME IInv, IInv', Ledger, NEW c \in Requests, NEW t \in Trials,
           call[c].trial = t, call'[c].trial = t,
           \A d \in Requests \ {c} : call'[d] = call[d],
           NEW known \in Nat, NEW unconfirmed \in Nat, NEW change \in Int,
           call'[c].held = call[c].held + change,
           run' = Charged(run, known, unconfirmed, change),
           trials'[t].cost = Charged(trials[t].cost, known, unconfirmed, change),
           \A u \in Trials \ {t} : /\ trials'[u].cost = trials[u].cost
                                   /\ trials'[u].pendingAttempts = trials[u].pendingAttempts,
           AttemptsFollow(c, t),
           UNCHANGED prior,
           NEW cost \in Nat, Foreseen'[t] = Foreseen[t] + cost,
           \A u \in Trials \ {t} : Foreseen'[u] = Foreseen[u],
           cost + LostOf[c] <= known + unconfirmed + LostOf'[c],
           call'[c].held > 0 => Sent(c)' \/ call'[c].error = "error"
    PROVE  Ledger'
<1>1. /\ \A d \in Requests : HeldOf[d] \in Nat /\ LostOf[d] \in Nat
      /\ IsFiniteSet(Requests) /\ IsFiniteSet(Trials)
      /\ \A u \in Trials : Mine(u) \subseteq Requests /\ IsFiniteSet(Mine(u)) /\ IsFiniteSet(Waiting(u))
      /\ \A d \in Requests : HeldOf[d] = call[d].held
      /\ \A u \in Trials : KnownOf[u] = trials[u].cost.known /\ OpenOf[u] = trials[u].cost.unconfirmed
  BY Summands DEF SummandsFit
<1>2. /\ \A d \in Requests : HeldOf'[d] \in Nat /\ LostOf'[d] \in Nat
      /\ \A u \in Trials : IsFiniteSet(Waiting(u)')
      /\ \A d \in Requests : HeldOf'[d] = call'[d].held
      /\ \A u \in Trials : KnownOf'[u] = trials'[u].cost.known /\ OpenOf'[u] = trials'[u].cost.unconfirmed
  <2>1. SummandsFit'
    BY Summands, PTL
  <2> QED
    BY <2>1 DEF SummandsFit
<1>3. \A d \in Requests \ {c} : HeldOf'[d] = HeldOf[d] /\ LostOf'[d] = LostOf[d]
  BY DEF HeldOf, LostOf, Sent
<1>4. \A u \in Trials : Mine(u)' = Mine(u)
  BY DEF Mine
<1>5. c \in Mine(t) /\ \A u \in Trials \ {t} : c \notin Mine(u)
  BY DEF Mine
<1>6. \A u \in Trials : trials[u].cost \in Amounts /\ run \in Amounts
  BY DEF IInv, Typed, TrialRows
<1>7. /\ run'.known = run.known + known /\ run'.unconfirmed = run.unconfirmed + unconfirmed
      /\ run'.pending = run.pending + change
      /\ trials'[t].cost.known = trials[t].cost.known + known
      /\ trials'[t].cost.unconfirmed = trials[t].cost.unconfirmed + unconfirmed
      /\ trials'[t].cost.pending = trials[t].cost.pending + change
  BY <1>6 DEF Charged, Amounts
<1>8. Naturals'
  BY <1>7 DEF Ledger, Naturals
<1>9. RunAdds'
  <2>1. \A u \in Trials : KnownOf[u] \in Nat /\ KnownOf'[u] \in Nat /\ OpenOf[u] \in Nat /\ OpenOf'[u] \in Nat
    BY <1>1, <1>2, <1>8 DEF Ledger, Naturals
  <2>2. \A u \in Trials \ {t} : KnownOf'[u] = KnownOf[u] /\ OpenOf'[u] = OpenOf[u]
    BY <1>1, <1>2
  <2>3. Total(KnownOf', Trials) = Total(KnownOf, Trials) + (KnownOf'[t] - KnownOf[t])
    BY <1>1, <2>1, <2>2, TotalChange
  <2>4. Total(OpenOf', Trials) = Total(OpenOf, Trials) + (OpenOf'[t] - OpenOf[t])
    BY <1>1, <2>1, <2>2, TotalChange
  <2>5. Total(HeldOf', Requests) = Total(HeldOf, Requests) + (HeldOf'[c] - HeldOf[c])
    BY <1>1, <1>2, <1>3, TotalChange
  <2>6. /\ Total(KnownOf, Trials) \in Nat /\ Total(OpenOf, Trials) \in Nat
        /\ Total(HeldOf, Requests) \in Nat
    BY <1>1, <2>1, TotalType
  <2>7. /\ KnownOf'[t] - KnownOf[t] = known /\ OpenOf'[t] - OpenOf[t] = unconfirmed
        /\ HeldOf'[c] - HeldOf[c] = change
    BY <1>1, <1>2, <1>7, <2>1
  <2> QED
    BY <1>7, <2>3, <2>4, <2>5, <2>6, <2>7 DEF Ledger, Naturals, RunAdds
<1>10. Total(HeldOf', Mine(t)) = Total(HeldOf, Mine(t)) + (HeldOf'[c] - HeldOf[c])
  BY <1>1, <1>2, <1>3, <1>5, TotalChange
<1>11. Total(LostOf', Mine(t)) = Total(LostOf, Mine(t)) + (LostOf'[c] - LostOf[c])
  BY <1>1, <1>2, <1>3, <1>5, TotalChange
<1>12. \A u \in Trials \ {t} : /\ Total(HeldOf', Mine(u)) = Total(HeldOf, Mine(u))
                               /\ Total(LostOf', Mine(u)) = Total(LostOf, Mine(u))
  <2> TAKE u \in Trials \ {t}
  <2>1. IsFiniteSet(Mine(u)) /\ \A d \in Mine(u) : /\ HeldOf[d] \in Nat /\ HeldOf'[d] = HeldOf[d]
                                                   /\ LostOf[d] \in Nat /\ LostOf'[d] = LostOf[d]
    BY <1>1, <1>3, <1>5
  <2>2. Total(HeldOf, Mine(u)) = Total(HeldOf', Mine(u))
    BY <2>1, TotalEqual
  <2>3. Total(LostOf, Mine(u)) = Total(LostOf', Mine(u))
    BY <2>1, TotalEqual
  <2> QED
    BY <2>2, <2>3
<1>13. \A u \in Trials : Total(HeldOf, Mine(u)) \in Nat /\ Total(LostOf, Mine(u)) \in Nat
  BY <1>1, TotalType
<1>14. \A u \in Trials : trials'[u].cost.pending = Total(HeldOf', Mine(u)')
  <2> TAKE u \in Trials
  <2>1. CASE u = t
    BY <1>1, <1>2, <1>4, <1>7, <1>10, <1>13, <2>1 DEF Ledger, TrialsAdd
  <2>2. CASE u # t
    BY <1>4, <1>12, <2>2 DEF Ledger, TrialsAdd
  <2> QED
    BY <2>1, <2>2
<1>15. \A u \in Trials : trials'[u].pendingAttempts = Cardinality(Waiting(u)')
  <2> TAKE u \in Trials
  <2>1. Waiting(u)' \ {c} = Waiting(u) \ {c}
    BY <1>4 DEF Waiting, Waits, Mine
  <2>2. CASE u # t
    <3>1. Waiting(u)' = Waiting(u)
      BY <1>4, <1>5, <2>1, <2>2 DEF Waiting
    <3> QED
      BY <2>2, <3>1 DEF Ledger, TrialsAdd
  <2>3. CASE u = t
    <3>1. (c \in Waiting(t)' <=> Waits(c)') /\ (c \in Waiting(t) <=> Waits(c))
      BY <1>4, <1>5 DEF Waiting
    <3> DEFINE rest == Cardinality(Waiting(t) \ {c})
               before == Cardinality(Waiting(t))
               after == Cardinality(Waiting(t)')
    <3>2. /\ before \in Nat /\ rest \in Nat
          /\ Waits(c) => before = rest + 1
          /\ ~Waits(c) => before = rest
      BY <1>1, <3>1, WithOne
    <3>3. (Waits(c)' => after = rest + 1) /\ (~Waits(c)' => after = rest)
      BY <1>2, <2>1, <2>3, <3>1, WithOne
    <3>4. trials[t].pendingAttempts = before
      BY DEF Ledger, TrialsAdd
    <3> HIDE DEF rest, before, after
    <3>5. trials'[t].pendingAttempts = after
      BY <3>2, <3>3, <3>4 DEF AttemptsFollow
    <3> QED
      BY <2>3, <3>5 DEF after
  <2> QED
    BY <2>2, <2>3
<1>16. TrialsAdd'
  BY <1>14, <1>15 DEF TrialsAdd
<1>17. Covered'
  <2> SUFFICES ASSUME NEW u \in Trials
               PROVE  Foreseen'[u] <=
                         trials'[u].cost.known + trials'[u].cost.unconfirmed + Total(LostOf', Mine(u))
    BY <1>4 DEF Covered
  <2>1. Foreseen[u] <= trials[u].cost.known + trials[u].cost.unconfirmed + Total(LostOf, Mine(u))
    BY DEF Ledger, Covered
  <2>2. CASE u = t
    <3>1. /\ Foreseen[t] \in Int /\ LostOf[c] \in Nat /\ LostOf'[c] \in Nat
          /\ trials[t].cost.known \in Nat /\ trials[t].cost.unconfirmed \in Nat
      BY <1>1, <1>2 DEF IInv, Typed, Ledger, Naturals, Foreseen
    <3>2. /\ Total(LostOf, Mine(t)) \in Nat
          /\ Total(LostOf', Mine(t)) = Total(LostOf, Mine(t)) + (LostOf'[c] - LostOf[c])
      BY <1>11, <1>13
    <3> DEFINE before == Total(LostOf, Mine(t))
               after == Total(LostOf', Mine(t))
               lost == LostOf[c]
               losing == LostOf'[c]
    <3>3. /\ before \in Nat /\ lost \in Nat /\ losing \in Nat /\ after = before + (losing - lost)
          /\ Foreseen[t] <= trials[t].cost.known + trials[t].cost.unconfirmed + before
          /\ cost + lost <= known + unconfirmed + losing
      BY <2>1, <2>2, <3>1, <3>2
    <3> HIDE DEF before, after, lost, losing
    <3>4. Foreseen'[t] <= trials'[t].cost.known + trials'[t].cost.unconfirmed + after
      BY <1>7, <3>1, <3>3
    <3> QED
      BY <2>2, <3>4 DEF after
  <2>3. CASE u # t
    BY <1>12, <2>1, <2>3
  <2> QED
    BY <2>2, <2>3
<1>18. Outlives'
  BY DEF Ledger, Outlives, Sent
<1> QED
  BY <1>8, <1>9, <1>16, <1>17, <1>18 DEF Ledger

\* A thread that only moves on leaves the ledger as it is.
LEMMA LedgerStays ==
    ASSUME IInv, IInv', Ledger, NEW c \in Requests, NEW t \in Trials,
           call[c].trial = t, call'[c].trial = t,
           \A d \in Requests \ {c} : call'[d] = call[d],
           call'[c].held = call[c].held,
           call[c].held > 0 => (Sent(c)' <=> Sent(c)) /\ (Sent(c) \/ call'[c].error = call[c].error),
           \A u \in Trials : trials'[u].cost = trials[u].cost,
           \A u \in Trials \ {t} : trials'[u].pendingAttempts = trials[u].pendingAttempts,
           AttemptsFollow(c, t),
           UNCHANGED <<run, prior, meter>>
    PROVE  Ledger'
<1>1. /\ call[c].held \in Nat /\ run \in Amounts /\ trials[t].cost \in Amounts
      /\ Foreseen[t] \in Int
  BY DEF IInv, Typed, Calls, TrialRows, Foreseen
<1>2. /\ run' = Charged(run, 0, 0, 0) /\ trials'[t].cost = Charged(trials[t].cost, 0, 0, 0)
      /\ call'[c].held = call[c].held + 0 /\ Foreseen'[t] = Foreseen[t] + 0
  BY <1>1 DEF Charged, Amounts, Foreseen
<1>3. LostOf'[c] = LostOf[c] /\ LostOf[c] \in Nat
  BY <1>1 DEF LostOf
<1>4. 0 + LostOf[c] <= 0 + 0 + LostOf'[c] /\ 0 \in Nat /\ 0 \in Int
  BY <1>3
<1>5. call'[c].held > 0 => Sent(c)' \/ call'[c].error = "error"
  BY DEF Ledger, Outlives
<1>6. \A u \in Trials \ {t} : /\ trials'[u].cost = trials[u].cost
                              /\ trials'[u].pendingAttempts = trials[u].pendingAttempts
  OBVIOUS
<1>7. UNCHANGED prior /\ \A u \in Trials \ {t} : Foreseen'[u] = Foreseen[u]
  BY DEF Foreseen
<1> QED
  BY <1>2, <1>4, <1>5, <1>6, <1>7, LedgerMoves

\* A step that moves no money and no thread.
LEMMA LedgerSame ==
    ASSUME Ledger, UNCHANGED <<run, prior, call>>,
           \A t \in Trials : /\ trials'[t].cost = trials[t].cost
                             /\ trials'[t].pendingAttempts = trials[t].pendingAttempts
                             /\ Foreseen'[t] = Foreseen[t]
    PROVE  Ledger'
<1>1. HeldOf' = HeldOf /\ KnownOf' = KnownOf /\ OpenOf' = OpenOf /\ LostOf' = LostOf
  BY DEF HeldOf, KnownOf, OpenOf, LostOf, Sent
<1>2. \A t \in Trials : Mine(t)' = Mine(t) /\ Waiting(t)' = Waiting(t)
  BY DEF Mine, Waiting, Waits
<1>3. Naturals' /\ RunAdds'
  BY <1>1 DEF Ledger, Naturals, RunAdds
<1>4. TrialsAdd' /\ Covered'
  BY <1>1, <1>2 DEF Ledger, TrialsAdd, Covered
<1>5. Outlives'
  BY DEF Ledger, Outlives, Sent
<1> QED
  BY <1>3, <1>4, <1>5 DEF Ledger

\* The exposure of an earlier session is taken over while the run has none:
\* then no trial has any either.
LEMMA InitializeLedger ==
    ASSUME IInv, Ledger, NEW exposure \in PriorExposures,
           InitializeRunCostExposure(exposure[1], exposure[2])
    PROVE  Ledger'
<1>1. exposure[1] \in Nat /\ exposure[2] \in Nat
  BY LimitAssumption
<1>2. /\ run = NoCost /\ run' = prior'
      /\ prior' = [known |-> exposure[1], unconfirmed |-> exposure[2], pending |-> 0]
      /\ UNCHANGED <<trials, call, meter, overrun>>
  BY DEF InitializeRunCostExposure
<1>3. HeldOf' = HeldOf /\ KnownOf' = KnownOf /\ OpenOf' = OpenOf /\ LostOf' = LostOf
  BY <1>2 DEF HeldOf, KnownOf, OpenOf, LostOf, Sent
<1>4. \A t \in Trials : Mine(t)' = Mine(t) /\ Waiting(t)' = Waiting(t)
  BY <1>2 DEF Mine, Waiting, Waits
<1>5. Total(KnownOf, Trials) = 0 /\ Total(OpenOf, Trials) = 0 /\ Total(HeldOf, Requests) = 0
  <2>1. /\ \A t \in Trials : KnownOf[t] \in Nat /\ OpenOf[t] \in Nat
        /\ \A c \in Requests : HeldOf[c] \in Nat
        /\ IsFiniteSet(Trials) /\ IsFiniteSet(Requests)
    BY Summands DEF Ledger, Naturals, SummandsFit
  <2>2. Total(KnownOf, Trials) \in Nat /\ Total(OpenOf, Trials) \in Nat
    BY <2>1, TotalType
  <2>3. /\ 0 = prior.known + Total(KnownOf, Trials)
        /\ 0 = prior.unconfirmed + Total(OpenOf, Trials)
        /\ 0 = Total(HeldOf, Requests)
        /\ prior.known \in Nat /\ prior.unconfirmed \in Nat
    BY <1>2 DEF NoCost, Ledger, Naturals, RunAdds
  <2> QED
    BY <2>2, <2>3
<1>6. Naturals' /\ RunAdds'
  BY <1>1, <1>2, <1>3, <1>5 DEF Ledger, Naturals, RunAdds
<1>7. TrialsAdd' /\ Covered'
  BY <1>2, <1>3, <1>4 DEF Ledger, TrialsAdd, Covered, Foreseen
<1>8. Outlives'
  BY <1>2 DEF Ledger, Outlives, Sent
<1> QED
  BY <1>6, <1>7, <1>8 DEF Ledger

\* A call that begins holds nothing: to which trial it belongs is new.
LEMMA EnterLedger ==
    ASSUME IInv, IInv', Ledger, NEW c \in Requests, NEW t \in Trials, NEW estimate \in Reservations,
           Enter(c, t, estimate)
    PROVE  Ledger'
<1>1. /\ call[c].pc = "new" /\ call[c].held = 0 /\ UNCHANGED <<run, prior, trials, meter>>
      /\ call \in [Requests -> Calls]
  BY DEF Enter, IInv, Typed, Holding
<1>2. /\ \A d \in Requests \ {c} : call'[d] = call[d]
      /\ call'[c].held = 0 /\ call'[c].pc \in {"checking", "raised"} /\ call[c].pc = "new"
  <2>1. CASE call' = [call EXCEPT ![c] = Entered(t, estimate)]
    BY <1>1, <2>1 DEF Entered
  <2>2. ASSUME NEW error,
               call' = [call EXCEPT ![c].pc = "raised", ![c].trial = t, ![c].error = error]
        PROVE  <1>2!1 /\ <1>2!2
    BY <1>1, <2>2 DEF Calls
  <2> QED
    BY <2>1, <2>2 DEF Enter
<1>3. /\ \A d \in Requests : HeldOf[d] \in Nat /\ LostOf[d] \in Nat
      /\ \A u \in Trials : Mine(u) \subseteq Requests /\ IsFiniteSet(Mine(u))
  BY Summands DEF SummandsFit
<1>4. HeldOf' = HeldOf /\ LostOf' = LostOf /\ KnownOf' = KnownOf /\ OpenOf' = OpenOf
      /\ HeldOf[c] = 0 /\ LostOf[c] = 0
  BY <1>1, <1>2 DEF HeldOf, LostOf, KnownOf, OpenOf, Sent
<1>5. \A u \in Trials : Mine(u)' \ {c} = Mine(u) \ {c} /\ IsFiniteSet(Mine(u)')
                        /\ Mine(u)' \subseteq Requests
  <2>1. \A u \in Trials : Mine(u)' \ {c} = Mine(u) \ {c} /\ Mine(u)' \subseteq Requests
    BY <1>2 DEF Mine
  <2> QED
    BY <2>1, LimitAssumption, FS_Subset
<1>6. \A u \in Trials : /\ Total(HeldOf, Mine(u)') = Total(HeldOf, Mine(u))
                        /\ Total(LostOf, Mine(u)') = Total(LostOf, Mine(u))
  <2> TAKE u \in Trials
  <2>1. /\ Total(HeldOf, Mine(u)') = Total(HeldOf, Mine(u)' \ {c})
        /\ Total(LostOf, Mine(u)') = Total(LostOf, Mine(u)' \ {c})
    BY <1>3, <1>4, <1>5, TotalZero
  <2>2. /\ Total(HeldOf, Mine(u)) = Total(HeldOf, Mine(u) \ {c})
        /\ Total(LostOf, Mine(u)) = Total(LostOf, Mine(u) \ {c})
    BY <1>3, <1>4, TotalZero
  <2> QED
    BY <1>5, <2>1, <2>2
<1>7. \A u \in Trials : Waiting(u)' = Waiting(u)
  BY <1>2 DEF Waiting, Mine, Waits
<1>8. Naturals' /\ RunAdds'
  BY <1>1, <1>4 DEF Ledger, Naturals, RunAdds
<1>9. TrialsAdd'
  BY <1>1, <1>4, <1>6, <1>7 DEF Ledger, TrialsAdd
<1>10. Covered'
  BY <1>1, <1>4, <1>6 DEF Ledger, Covered, Foreseen
<1>11. Outlives'
  BY <1>1, <1>2 DEF Ledger, Outlives, Sent
<1> QED
  BY <1>8, <1>9, <1>10, <1>11 DEF Ledger

-----------------------------------------------------------------------------
(* The ledger over the steps of a thread                                   *)

LEMMA CheckLedger ==
    ASSUME IInv, IInv', Ledger, NEW c \in Requests,
           CheckBeforeReserve(c) \/ Clear(c) \/ CheckAnswer(c)
    PROVE  Ledger'
<1> DEFINE t == call[c].trial
<1>1. t \in Trials /\ call \in [Requests -> Calls]
  BY DEF CheckBeforeReserve, Clear, CheckAnswer, IInv, Typed, Holding
<1>2. UNCHANGED <<run, prior, trials, meter>>
  BY DEF CheckBeforeReserve, Clear, CheckAnswer
<1>3. /\ \A d \in Requests \ {c} : call'[d] = call[d]
      /\ call'[c].held = call[c].held /\ call'[c].trial = t
      /\ \/ call[c].pc = "reserved" /\ call'[c].pc = "cleared"
         \/ call[c].pc \in {"checking", "settled"} /\ call'[c].pc \in {"checked", "returned", "raised"}
  <2>1. CASE CheckBeforeReserve(c)
    BY <1>1, <2>1 DEF CheckBeforeReserve, Raises, Calls
  <2>2. CASE Clear(c)
    BY <1>1, <2>2 DEF Clear, Calls
  <2>3. CASE CheckAnswer(c)
    BY <1>1, <2>3 DEF CheckAnswer, Raises, Calls
  <2> QED
    BY <2>1, <2>2, <2>3
<1>4. (Waits(c)' <=> Waits(c)) /\ trials[t].pendingAttempts \in Int
  BY <1>1, <1>3 DEF Waits, IInv, Typed, TrialRows
<1>5. call[c].held > 0 => (Sent(c)' <=> Sent(c)) /\ Sent(c)
  <2>1. CASE call[c].pc = "reserved" /\ call'[c].pc = "cleared"
    BY <2>1 DEF Sent
  <2>2. CASE call[c].pc \in {"checking", "settled"}
    BY <2>2 DEF IInv, Holding
  <2> QED
    BY <1>3, <2>1, <2>2
<1> HIDE DEF t
<1> QED
  BY <1>1, <1>2, <1>3, <1>4, <1>5, LedgerStays DEF t, AttemptsFollow

LEMMA HandleLedger ==
    ASSUME IInv, IInv', Ledger, NEW c \in Requests,
           HandleError(c) \/ StopRun(c) \/ DeliveryFails(c)
    PROVE  Ledger'
<1> DEFINE t == call[c].trial
<1>1. t \in Trials /\ call \in [Requests -> Calls] /\ trials \in [Trials -> TrialRows]
  BY DEF HandleError, StopRun, DeliveryFails, IInv, Typed, Holding
<1>2. UNCHANGED <<run, prior, meter>>
  BY DEF HandleError, StopRun, DeliveryFails
<1>3. PICK pc \in {"stopping", "returned", "undelivered"} : call' = [call EXCEPT ![c].pc = pc]
  BY DEF HandleError, StopRun, DeliveryFails
<1>4. /\ \A d \in Requests \ {c} : call'[d] = call[d]
      /\ call'[c].held = call[c].held /\ call'[c].trial = t /\ call'[c].pc = pc
      /\ call'[c].error = call[c].error
      /\ call[c].pc \in {"raised", "stopping", "returned"}
  BY <1>1, <1>3 DEF Calls, HandleError, StopRun, DeliveryFails
<1>5. \A u \in Trials : /\ trials'[u].cost = trials[u].cost
                        /\ trials'[u].pendingAttempts = trials[u].pendingAttempts
  <2>1. \E reason : UNCHANGED trials \/ StopTrial(t, reason)
    BY DEF HandleError, StopRun, DeliveryFails
  <2> QED
    BY <1>1, <2>1 DEF StopTrial, TrialRows
<1>6. ~Waits(c)' /\ ~Waits(c) /\ ~Sent(c)' /\ ~Sent(c) /\ trials[t].pendingAttempts \in Int
  BY <1>1, <1>4 DEF Waits, Sent, TrialRows
<1> HIDE DEF t
<1>7. AttemptsFollow(c, t)
  BY <1>1, <1>5, <1>6 DEF AttemptsFollow
<1>8. call[c].held > 0 => (Sent(c)' <=> Sent(c)) /\ (Sent(c) \/ call'[c].error = call[c].error)
  BY <1>4, <1>6
<1> QED
  BY <1>1, <1>2, <1>4, <1>5, <1>7, <1>8, LedgerStays DEF t

LEMMA StartLedger ==
    ASSUME IInv, IInv', Ledger, NEW c \in Requests, MarkDispatchStarted(c)
    PROVE  Ledger'
<1> DEFINE t == call[c].trial
<1>1. t \in Trials /\ call \in [Requests -> Calls] /\ trials \in [Trials -> TrialRows]
  BY DEF MarkDispatchStarted, IInv, Typed, Holding
<1>2. UNCHANGED <<run, prior, meter>>
  BY DEF MarkDispatchStarted
<1>3. /\ \A d \in Requests \ {c} : call'[d] = call[d]
      /\ call'[c].held = call[c].held /\ call'[c].trial = t /\ call'[c].pc = "started"
      /\ call[c].pc = "cleared"
  BY <1>1 DEF MarkDispatchStarted, Calls
<1>4. /\ \A u \in Trials : trials'[u].cost = trials[u].cost
      /\ \A u \in Trials \ {t} : trials'[u].pendingAttempts = trials[u].pendingAttempts
      /\ trials'[t].pendingAttempts = trials[t].pendingAttempts - 1
      /\ trials[t].pendingAttempts \in Int
  BY <1>1 DEF MarkDispatchStarted, TrialRows
<1>5. ~Waits(c)' /\ Waits(c) /\ Sent(c)' /\ Sent(c)
  BY <1>3 DEF Waits, Sent
<1> HIDE DEF t
<1> QED
  BY <1>1, <1>2, <1>3, <1>4, <1>5, LedgerStays DEF t, AttemptsFollow

LEMMA ReserveLedger ==
    ASSUME IInv, IInv', Ledger, NEW c \in Requests, ReserveDispatch(c)
    PROVE  Ledger'
<1> DEFINE t == call[c].trial
           estimate == call[c].estimate
           error == ReserveError(t, estimate)
<1>1. /\ t \in Trials /\ call \in [Requests -> Calls] /\ trials \in [Trials -> TrialRows]
      /\ estimate \in Nat /\ call[c].held = 0 /\ call[c].pc = "checked"
      /\ trials[t].pendingAttempts \in Int /\ Foreseen[t] \in Int
  BY DEF ReserveDispatch, IInv, Typed, Holding, Calls, TrialRows, Foreseen
<1>2. UNCHANGED <<prior, meter>>
  BY DEF ReserveDispatch
<1>3. CASE error # NoFailure
  <2>1. UNCHANGED <<run, trials>> /\ call' = [call EXCEPT ![c].pc = "raised", ![c].error = error]
    BY <1>3 DEF ReserveDispatch, Raises
  <2>2. /\ \A d \in Requests \ {c} : call'[d] = call[d]
        /\ call'[c].held = call[c].held /\ call'[c].trial = t /\ call'[c].pc = "raised"
    BY <1>1, <2>1 DEF Calls
  <2>3. ~Waits(c)' /\ ~Waits(c)
    BY <1>1, <2>2 DEF Waits
  <2> HIDE DEF t, estimate, error
  <2> QED
    BY <1>1, <1>2, <2>1, <2>2, <2>3, LedgerStays DEF t, AttemptsFollow
<1>4. CASE error = NoFailure
  <2>1. /\ call' = [call EXCEPT ![c].pc = "reserved", ![c].held = estimate]
        /\ run' = Charged(run, 0, 0, estimate)
        /\ trials' = [trials EXCEPT ![t] = WithPending(@, estimate, 1)]
    BY <1>4 DEF ReserveDispatch
  <2>2. /\ \A d \in Requests \ {c} : call'[d] = call[d]
        /\ call'[c].held = call[c].held + estimate /\ call'[c].trial = t
        /\ call'[c].pc = "reserved"
    BY <1>1, <2>1 DEF Calls
  <2> HIDE DEF t, estimate, error
  <2>3. /\ trials'[t].cost = Charged(trials[t].cost, 0, 0, estimate)
        /\ trials'[t].pendingAttempts = trials[t].pendingAttempts + 1
        /\ \A u \in Trials \ {t} : trials'[u] = trials[u]
    <3>1. estimate \in Int /\ 1 \in Int
      BY <1>1
    <3> QED
      BY <1>1, <2>1, <3>1, PendingRow
  <2>4. ~Waits(c) /\ Waits(c)' /\ Sent(c)' /\ LostOf[c] = 0 /\ LostOf'[c] = 0
    BY <1>1, <2>2 DEF Waits, Sent, LostOf
  <2>5. /\ 0 \in Nat /\ estimate \in Int /\ Foreseen'[t] = Foreseen[t] + 0
        /\ 0 + LostOf[c] <= 0 + 0 + LostOf'[c]
    BY <1>1, <1>2, <2>4 DEF Foreseen
  <2>6. \A u \in Trials \ {t} : Foreseen'[u] = Foreseen[u]
    BY <1>2 DEF Foreseen
  <2> QED
    BY <1>1, <1>2, <2>1, <2>2, <2>3, <2>4, <2>5, <2>6, LedgerMoves DEF t, AttemptsFollow
<1> QED
  BY <1>3, <1>4

LEMMA CancelLedger ==
    ASSUME IInv, IInv', Ledger, NEW c \in Requests, CancelDispatchReservation(c)
    PROVE  Ledger'
<1> DEFINE t == call[c].trial
           held == call[c].held
<1>1. /\ t \in Trials /\ call \in [Requests -> Calls] /\ trials \in [Trials -> TrialRows]
      /\ held \in Nat /\ call[c].pc = "reserved"
      /\ trials[t].pendingAttempts \in Int /\ Foreseen[t] \in Int
  BY DEF CancelDispatchReservation, IInv, Typed, Holding, Calls, TrialRows, Foreseen
<1>2. /\ UNCHANGED <<prior, meter>> /\ run' = Charged(run, 0, 0, -held)
      /\ trials' = [trials EXCEPT ![t] = WithPending(@, -held, -1)]
  BY DEF CancelDispatchReservation
<1>3. /\ \A d \in Requests \ {c} : call'[d] = call[d]
      /\ call'[c].held = 0 /\ call'[c].trial = t /\ call'[c].pc = "raised"
  <2>1. PICK error \in Errors :
           call' = [call EXCEPT ![c].pc = "raised", ![c].error = error, ![c].held = 0]
    BY DEF CancelDispatchReservation
  <2> QED
    BY <1>1, <2>1 DEF Calls
<1>4. 0 = held + (-held) /\ -held \in Int /\ -1 \in Int
  BY <1>1
<1> HIDE DEF held
<1>5. call[c].held = held
  BY DEF held
<1> HIDE DEF t
<1>6. /\ trials'[t].cost = Charged(trials[t].cost, 0, 0, -held)
      /\ trials'[t].pendingAttempts = trials[t].pendingAttempts + (-1)
      /\ \A u \in Trials \ {t} : trials'[u] = trials[u]
  BY <1>1, <1>2, <1>4, PendingRow
<1>7. trials[t].pendingAttempts + (-1) = trials[t].pendingAttempts - 1
  BY <1>1
<1>8. Waits(c) /\ ~Waits(c)' /\ LostOf[c] = 0 /\ LostOf'[c] = 0
  BY <1>1, <1>3 DEF Waits, Sent, LostOf
<1>9. /\ 0 \in Nat /\ Foreseen'[t] = Foreseen[t] + 0
      /\ 0 + LostOf[c] <= 0 + 0 + LostOf'[c]
  BY <1>1, <1>2, <1>8 DEF Foreseen
<1>10. AttemptsFollow(c, t)
  BY <1>6, <1>7, <1>8 DEF AttemptsFollow
<1>11. call'[c].held = call[c].held + (-held) /\ ~(call'[c].held > 0)
  BY <1>3, <1>4, <1>5
<1>12. t = call[c].trial
  BY DEF t
<1>13. /\ \A u \in Trials \ {t} : Foreseen'[u] = Foreseen[u]
       /\ \A u \in Trials \ {t} : /\ trials'[u].cost = trials[u].cost
                                 /\ trials'[u].pendingAttempts = trials[u].pendingAttempts
       /\ UNCHANGED prior
  BY <1>2, <1>6 DEF Foreseen
<1> QED
  BY <1>1, <1>2, <1>3, <1>4, <1>6, <1>9, <1>10, <1>11, <1>12, <1>13, LedgerMoves

LEMMA AnswerLedger ==
    ASSUME IInv, IInv', Ledger, NEW c \in Requests, Answer(c)
    PROVE  Ledger'
<1> DEFINE t == call[c].trial
           held == call[c].held
           estimate == call[c].estimate
<1>1. PICK cost, reported \in 0 .. estimate + Overrun :
         \/ AnswerWithUsage(c, cost, reported)
         \/ AnswerWithoutUsage(c, cost)
         \/ EvidenceWriteFails(c, cost)
  BY DEF Answer
<1>2. /\ call[c].pc = "started" /\ call \in [Requests -> Calls] /\ t \in Trials
      /\ trials \in [Trials -> TrialRows] /\ held = estimate /\ held \in Nat /\ -held \in Int
      /\ cost \in Nat /\ reported \in Nat
      /\ meter \in [Trials -> [billed : Int, overrun : Nat, unseen : Nat]]
  BY <1>1, LimitAssumption
     DEF AnswerWithUsage, AnswerWithoutUsage, EvidenceWriteFails, IInv, Typed, Holding, Calls
<1>3. /\ ~Waits(c) /\ Sent(c) /\ LostOf[c] = 0
  BY <1>2 DEF Waits, Sent, LostOf
<1>4. ASSUME NEW amount \in Nat, NEW unseen \in Nat, Bill(c, cost, amount, unseen)
      PROVE  /\ Foreseen'[t] = Foreseen[t] + (cost - Excess(c, unseen))
             /\ \A u \in Trials \ {t} : Foreseen'[u] = Foreseen[u]
  <2>1. Excess(c, unseen) \in Int
    BY <1>2 DEF Excess
  <2> QED
    BY <1>2, <1>4, <2>1 DEF Bill, Foreseen
<1>9. Excess(c, 0) = 0 /\ cost - Excess(c, cost) \in Nat /\ cost - Excess(c, cost) <= estimate
  BY <1>2 DEF Excess
\* What is common to the answers that settle.
<1>5. ASSUME NEW known \in Nat, NEW unconfirmed \in Nat, Settle(c, known, unconfirmed),
             NEW amount \in Nat, NEW unseen \in Nat, Bill(c, cost, amount, unseen),
             NEW seen \in Nat, seen = cost - Excess(c, unseen), seen <= known + unconfirmed,
             UNCHANGED prior,
             \A d \in Requests \ {c} : call'[d] = call[d],
             call'[c].held = 0, call'[c].trial = t,
             call'[c].pc \in {"settled", "checking", "raised"}
      PROVE  Ledger'
  <2>1. /\ run' = Charged(run, known, unconfirmed, -held)
        /\ trials' = [trials EXCEPT ![t].cost = Charged(@, known, unconfirmed, -held)]
    BY <1>5 DEF Settle
  <2> HIDE DEF t, held, estimate
  <2>2. /\ trials'[t].cost = Charged(trials[t].cost, known, unconfirmed, -held)
        /\ trials'[t].pendingAttempts = trials[t].pendingAttempts
        /\ \A u \in Trials \ {t} : trials'[u] = trials[u]
    BY <1>2, <2>1 DEF TrialRows
  <2>3. ~Waits(c)' /\ LostOf'[c] = 0 /\ ~(call'[c].held > 0)
    BY <1>5 DEF Waits, LostOf
  <2>4. AttemptsFollow(c, t)
    BY <1>3, <2>2, <2>3 DEF AttemptsFollow
  <2>5. seen + LostOf[c] <= known + unconfirmed + LostOf'[c]
    BY <1>2, <1>3, <1>5, <2>3
  <2>6. t = call[c].trial /\ call'[c].held = call[c].held + (-held)
    BY <1>2, <1>5 DEF t, held
  <2>7. /\ Foreseen'[t] = Foreseen[t] + seen
        /\ \A u \in Trials \ {t} : Foreseen'[u] = Foreseen[u]
    BY <1>4, <1>5
  <2>8. \A u \in Trials \ {t} : /\ trials'[u].cost = trials[u].cost
                                /\ trials'[u].pendingAttempts = trials[u].pendingAttempts
    BY <2>2
  <2>9. /\ seen \in Nat /\ known \in Nat /\ unconfirmed \in Nat /\ t \in Trials /\ -held \in Int
        /\ UNCHANGED prior /\ call'[c].trial = t
        /\ \A d \in Requests \ {c} : call'[d] = call[d]
    BY <1>2, <1>5
  <2> QED
    BY <2>1, <2>2, <2>3, <2>4, <2>5, <2>6, <2>7, <2>8, <2>9, LedgerMoves
<1>6. CASE AnswerWithUsage(c, cost, reported)
  <2>1. PICK known \in Nat, unconfirmed \in Nat :
           cost <= known + unconfirmed /\ Settle(c, known, unconfirmed)
    <3>1. CASE reported = cost /\ Settle(c, cost, 0)
      BY <1>2, <3>1
    <3>2. CASE reported >= cost /\ Settle(c, 0, reported)
      BY <1>2, <3>2
    <3> QED
      BY <1>6, <3>1, <3>2 DEF AnswerWithUsage
  <2>2. Bill(c, cost, reported, 0) /\ UNCHANGED prior
    BY <1>6 DEF AnswerWithUsage
  <2>3. /\ \A d \in Requests \ {c} : call'[d] = call[d]
        /\ call'[c].held = 0 /\ call'[c].trial = t /\ call'[c].pc = "settled"
    BY <1>2, <1>6 DEF AnswerWithUsage, Calls
  <2>4. 0 \in Nat /\ cost = cost - Excess(c, 0) /\ cost \in Nat /\ reported \in Nat
        /\ call'[c].pc \in {"settled", "checking", "raised"}
    BY <1>2, <1>9, <2>3
  <2> HIDE DEF t
  <2> QED
    BY <1>5, <2>1, <2>2, <2>3, <2>4
<1>7. CASE AnswerWithoutUsage(c, cost)
  <2>1. Settle(c, 0, estimate) /\ Bill(c, cost, 0, cost) /\ UNCHANGED prior
    BY <1>7 DEF AnswerWithoutUsage
  <2>2. /\ \A d \in Requests \ {c} : call'[d] = call[d]
        /\ call'[c].held = 0 /\ call'[c].trial = t /\ call'[c].pc \in {"checking", "raised"}
    BY <1>2, <1>7 DEF AnswerWithoutUsage, Calls
  <2> DEFINE seen == cost - Excess(c, cost)
  <2>3. 0 \in Nat /\ estimate \in Nat /\ seen \in Nat /\ seen <= 0 + estimate
    BY <1>2, <1>9
  <2> HIDE DEF t, estimate
  <2> QED
    BY <1>2, <1>5, <2>1, <2>2, <2>3
<1>8. CASE EvidenceWriteFails(c, cost)
  <2>1. /\ UNCHANGED <<run, prior, trials>> /\ Bill(c, cost, 0, cost)
        /\ call' = [call EXCEPT ![c].pc = "raised", ![c].error = "error"]
    BY <1>8 DEF EvidenceWriteFails, Raises
  <2>2. /\ \A d \in Requests \ {c} : call'[d] = call[d]
        /\ call'[c].held = held /\ call'[c].trial = t /\ call'[c].pc = "raised"
        /\ call'[c].error = "error"
    BY <1>2, <2>1 DEF Calls
  <2>3. ~Waits(c)' /\ LostOf'[c] = held
    BY <2>2 DEF Waits, Sent, LostOf
  <2>4. /\ run \in Amounts /\ trials[t].cost \in Amounts
    BY <1>2 DEF IInv, Typed, TrialRows
  <2>5. /\ run' = Charged(run, 0, 0, 0) /\ trials'[t].cost = Charged(trials[t].cost, 0, 0, 0)
    BY <2>1, <2>4 DEF Charged, Amounts
  <2> DEFINE seen == cost - Excess(c, cost)
  <2>6. /\ seen + LostOf[c] <= 0 + 0 + LostOf'[c] /\ seen \in Nat
        /\ call'[c].held = call[c].held + 0 /\ 0 \in Nat /\ 0 \in Int
    BY <1>2, <1>3, <1>9, <2>1, <2>2, <2>3
  <2>7. /\ Foreseen'[t] = Foreseen[t] + seen
        /\ \A u \in Trials \ {t} : Foreseen'[u] = Foreseen[u]
    BY <1>2, <1>4, <2>1, <2>6
  <2> HIDE DEF held, estimate, seen
  <2>8. AttemptsFollow(c, t)
    BY <1>3, <2>1, <2>3 DEF AttemptsFollow
  <2>9. \A u \in Trials \ {t} : /\ trials'[u].cost = trials[u].cost
                                /\ trials'[u].pendingAttempts = trials[u].pendingAttempts
    BY <2>1
  <2>10. t = call[c].trial /\ UNCHANGED prior /\ (call'[c].held > 0 => call'[c].error = "error")
    BY <2>1, <2>2
  <2> HIDE DEF t
  <2> QED
    BY <1>2, <2>2, <2>5, <2>6, <2>7, <2>8, <2>9, <2>10, LedgerMoves
<1> QED
  BY <1>1, <1>6, <1>7, <1>8

LEMMA NextLedger == IInv /\ IInv' /\ Ledger /\ [Next]_vars => Ledger'
<1> SUFFICES ASSUME IInv, IInv', Ledger, [Next]_vars PROVE Ledger'
  OBVIOUS
<1>1. CASE \E exposure \in PriorExposures : InitializeRunCostExposure(exposure[1], exposure[2])
  BY <1>1, InitializeLedger
<1>2. ASSUME NEW t \in Trials, RegisterTrial(t) \/ CloseTrial(t) \/ SupervisorStopsTrial(t)
      PROVE  Ledger'
  <2>1. trials \in [Trials -> TrialRows]
    BY DEF IInv, Typed
  <2>2. /\ UNCHANGED <<run, prior, call, meter>>
        /\ \A u \in Trials : /\ trials'[u].cost = trials[u].cost
                             /\ trials'[u].pendingAttempts = trials[u].pendingAttempts
                             /\ Foreseen'[u] = Foreseen[u]
    BY <1>2, <2>1 DEF RegisterTrial, CloseTrial, SupervisorStopsTrial, StopTrial, TrialRows, Foreseen
  <2> QED
    BY <2>2, LedgerSame
<1>3. CASE ExternalStop
  BY <1>3, LedgerSame DEF ExternalStop, Foreseen
<1>4. CASE \E c \in Requests, t \in Trials, estimate \in Reservations : Enter(c, t, estimate)
  BY <1>4, EnterLedger
<1>5. ASSUME NEW c \in Requests, Step(c) \/ DeliveryFails(c)
      PROVE  Ledger'
  BY <1>5, CheckLedger, ReserveLedger, CancelLedger, StartLedger, AnswerLedger, HandleLedger DEF Step
<1>6. CASE UNCHANGED vars
  BY <1>6, LedgerSame DEF vars, Foreseen
<1> QED
  BY <1>1, <1>2, <1>3, <1>4, <1>5, <1>6 DEF Next

\* The ledger as it is proved says what the property asks for.
LEMMA LedgerCovers == IInv /\ Ledger => ExposureCovers
<1> SUFFICES ASSUME IInv, Ledger PROVE ExposureCovers
  OBVIOUS
<1>1. ExposureConserved
  <2>1. /\ SumOver(Trials, [t \in Trials |-> trials[t].cost.known]) = Total(KnownOf, Trials)
        /\ SumOver(Trials, [t \in Trials |-> trials[t].cost.unconfirmed]) = Total(OpenOf, Trials)
        /\ SumOver(Requests, [c \in Requests |-> call[c].held]) = Total(HeldOf, Requests)
        /\ \A t \in Trials : SumOver(Mine(t), [c \in Requests |-> call[c].held]) = Total(HeldOf, Mine(t))
    BY DEF SumOver, Total, KnownOf, OpenOf, HeldOf
  <2>2. \A t \in Trials : Waiting(t) = {c \in Mine(t) : call[c].pc \in {"reserved", "cleared"}}
    BY DEF Waiting, Waits
  <2>3. RunAdds /\ TrialsAdd /\ Outlives
    BY DEF Ledger
  <2> QED
    BY <2>1, <2>2, <2>3 DEF ExposureConserved, RunAdds, TrialsAdd, Outlives, Sent, Mine
<1>2. BilledIsCovered
  <2> SUFFICES ASSUME NEW t \in Trials PROVE meter[t].billed <= Exposure(trials[t].cost) + meter[t].unseen
    BY DEF BilledIsCovered
  <2>1. /\ \A c \in Mine(t) : HeldOf[c] \in Nat /\ LostOf[c] \in Nat /\ LostOf[c] <= HeldOf[c]
        /\ IsFiniteSet(Mine(t))
    BY Summands DEF SummandsFit
  <2>2. /\ Total(LostOf, Mine(t)) <= Total(HeldOf, Mine(t))
        /\ Total(LostOf, Mine(t)) \in Nat /\ Total(HeldOf, Mine(t)) \in Nat
    BY <2>1, TotalMonotonic, TotalType
  <2>3. /\ trials[t].cost.pending = Total(HeldOf, Mine(t))
        /\ Foreseen[t] <= trials[t].cost.known + trials[t].cost.unconfirmed + Total(LostOf, Mine(t))
        /\ trials[t].cost.known \in Nat /\ trials[t].cost.unconfirmed \in Nat
        /\ meter[t].billed \in Int /\ meter[t].unseen \in Int
    BY DEF Ledger, Naturals, TrialsAdd, Covered, IInv, Typed
  <2> DEFINE lost == Total(LostOf, Mine(t))
             all == Total(HeldOf, Mine(t))
  <2>4. /\ lost <= all /\ lost \in Nat /\ all \in Nat
        /\ trials[t].cost.pending = all
        /\ Foreseen[t] <= trials[t].cost.known + trials[t].cost.unconfirmed + lost
    BY <2>2, <2>3
  <2> HIDE DEF lost, all
  <2> QED
    BY <2>3, <2>4 DEF Exposure, Foreseen
<1> QED
  BY <1>1, <1>2 DEF ExposureCovers

-----------------------------------------------------------------------------
(* What a stop leaves                                                      *)

\* Stopping a trial that has a failure changes nothing.
LEMMA StopTrialLasts ==
    ASSUME Typed, NEW u, NEW reason, StopTrial(u, reason)
    PROVE  \A t \in Trials : trials[t].failure # NoFailure
                                => trials'[t].failure = trials[t].failure
BY DEF StopTrial, Typed, TrialRows

\* The first reason to stop the run, or a trial, is the one that stays.
LEMMA StepsLast ==
    ASSUME Typed, Holding, [Next]_vars, stopped => failure # NoFailure
    PROVE  StopLasts
<1>1. CASE \E exposure \in PriorExposures : InitializeRunCostExposure(exposure[1], exposure[2])
  BY <1>1 DEF InitializeRunCostExposure, StopLasts
<1>2. ASSUME NEW t \in Trials, RegisterTrial(t) \/ CloseTrial(t) \/ SupervisorStopsTrial(t)
      PROVE  StopLasts
  <2>1. CASE RegisterTrial(t)
    BY <2>1 DEF RegisterTrial, Typed, TrialRows, StopLasts
  <2>2. CASE CloseTrial(t)
    BY <2>2 DEF CloseTrial, Typed, TrialRows, StopLasts
  <2>3. CASE SupervisorStopsTrial(t)
    BY <2>3, StopTrialLasts DEF SupervisorStopsTrial, StopLasts
  <2> QED
    BY <1>2, <2>1, <2>2, <2>3
<1>3. CASE ExternalStop
  BY <1>3 DEF ExternalStop, StopWith, StopLasts
<1>4. CASE \E c \in Requests, t \in Trials, estimate \in Reservations : Enter(c, t, estimate)
  BY <1>4 DEF Enter, StopLasts
<1>5. ASSUME NEW c \in Requests, CheckBeforeReserve(c) \/ Clear(c) \/ CheckAnswer(c)
      PROVE  StopLasts
  BY <1>5 DEF CheckBeforeReserve, Clear, CheckAnswer, StopLasts
<1>6. ASSUME NEW c \in Requests, HandleError(c) \/ StopRun(c) \/ DeliveryFails(c)
      PROVE  StopLasts
  <2>1. UNCHANGED trials \/ \E u, reason : StopTrial(u, reason)
    BY <1>6 DEF HandleError, StopRun, DeliveryFails
  <2>2. stopped => stopped' /\ failure' = failure
    BY <1>6 DEF HandleError, StopRun, DeliveryFails, StopWith
  <2> QED
    BY <2>1, <2>2, StopTrialLasts DEF StopLasts
<1>7. ASSUME NEW c \in Requests, ReserveDispatch(c) \/ CancelDispatchReservation(c)
                                    \/ MarkDispatchStarted(c) \/ Answer(c)
      PROVE  StopLasts
  <2>1. UNCHANGED <<stopped, failure>>
    BY <1>7 DEF ReserveDispatch, CancelDispatchReservation, MarkDispatchStarted, Answer,
                AnswerWithUsage, AnswerWithoutUsage, EvidenceWriteFails
  <2>2. \A t \in Trials : trials'[t].failure = trials[t].failure
    <3>1. trials \in [Trials -> TrialRows]
      BY DEF Typed
    <3>2. CASE ReserveDispatch(c) \/ CancelDispatchReservation(c)
      <4> DEFINE t == call[c].trial
      <4>1. \/ UNCHANGED trials
            \/ trials' = [trials EXCEPT ![t] = WithPending(@, call[c].estimate, 1)]
            \/ trials' = [trials EXCEPT ![t] = WithPending(@, -call[c].held, -1)]
        BY <3>2 DEF ReserveDispatch, CancelDispatchReservation
      <4>2. \A row \in TrialRows : \A amount, attempts :
               WithPending(row, amount, attempts).failure = row.failure
        BY DEF WithPending, TrialRows
      <4> QED
        BY <3>1, <4>1, <4>2
    <3>4. CASE MarkDispatchStarted(c)
      BY <3>1, <3>4 DEF MarkDispatchStarted, TrialRows
    <3>5. CASE Answer(c)
      <4>1. UNCHANGED trials \/ \E known, unconfirmed : Settle(c, known, unconfirmed)
        BY <3>5 DEF Answer, AnswerWithUsage, AnswerWithoutUsage, EvidenceWriteFails
      <4>2. UNCHANGED trials \/ \E u, cost : trials' = [trials EXCEPT ![u].cost = cost]
        BY <4>1 DEF Settle
      <4> QED
        BY <3>1, <4>2 DEF TrialRows
    <3> QED
      BY <1>7, <3>2, <3>4, <3>5
  <2> QED
    BY <2>1, <2>2 DEF StopLasts
<1>8. CASE UNCHANGED vars
  BY <1>8 DEF vars, StopLasts
<1> QED
  BY <1>1, <1>2, <1>3, <1>4, <1>5, <1>6, <1>7, <1>8 DEF Next, Step

\* A thread that moves does so within its bounds; the others do not move.
LEMMA StepsBound ==
    ASSUME Typed, Holding, [Next]_vars, NEW c \in Requests
    PROVE  StopBinds(c)
<1>1. call \in [Requests -> Calls]
  BY DEF Typed
<1>2. ASSUME call'[c].pc = call[c].pc, call'[c].held = call[c].held PROVE StopBinds(c)
  BY <1>2 DEF StopBinds
<1>3. ASSUME call'[c].pc \notin {"started", "cleared"}, call'[c].held = 0 \/ call'[c].held = call[c].held
      PROVE  StopBinds(c)
  BY <1>3 DEF StopBinds
<1>4. ASSUME NEW d \in Requests, NEW t \in Trials, NEW estimate, Enter(d, t, estimate)
      PROVE  StopBinds(c)
  <2>1. CASE d = c
    <3>1. call[c].pc = "new" /\ call[c].held = 0
      BY <1>4, <2>1 DEF Enter, Holding
    <3>2. call'[c].pc \in {"checking", "raised"} /\ call'[c].held = 0
      <4>1. CASE call' = [call EXCEPT ![c] = Entered(t, estimate)]
        BY <1>1, <4>1 DEF Entered
      <4>2. CASE \E error : call' = [call EXCEPT ![c].pc = "raised", ![c].trial = t, ![c].error = error]
        BY <1>1, <3>1, <4>2 DEF Calls
      <4> QED
        BY <1>4, <2>1, <4>1, <4>2 DEF Enter
    <3> QED
      BY <1>3, <3>2
  <2>2. CASE d # c
    BY <1>1, <1>2, <1>4, <2>2 DEF Enter
  <2> QED
    BY <2>1, <2>2
<1>5. ASSUME NEW d \in Requests, d # c, Step(d) \/ DeliveryFails(d)
      PROVE  StopBinds(c)
  <2>1. call'[c] = call[c]
    BY <1>1, <1>5 DEF Step, CheckBeforeReserve, ReserveDispatch, Clear, CancelDispatchReservation,
          MarkDispatchStarted, Answer, AnswerWithUsage, AnswerWithoutUsage, EvidenceWriteFails,
          CheckAnswer, HandleError, StopRun, DeliveryFails, Raises
  <2> QED
    BY <1>2, <2>1
<1>6. CASE CheckBeforeReserve(c) \/ CheckAnswer(c)
  <2>1. call'[c].pc \in {"checked", "returned", "raised"} /\ call'[c].held = call[c].held
    BY <1>1, <1>6 DEF CheckBeforeReserve, CheckAnswer, Raises, Calls
  <2> QED
    BY <1>3, <2>1
<1>7. CASE Clear(c)
  <2>1. ~stopped /\ trials[call[c].trial].failure = NoFailure
    BY <1>7 DEF Clear, CheckPasses
  <2> QED
    BY <2>1 DEF StopBinds
<1>8. CASE ReserveDispatch(c)
  <2>1. call'[c].pc \in {"reserved", "raised"}
    BY <1>1, <1>8 DEF ReserveDispatch, Raises, Calls
  <2>2. stopped => call'[c].held = call[c].held
    <3>1. stopped => ReserveError(call[c].trial, call[c].estimate) # NoFailure
      BY DEF ReserveError, NoFailure
    <3> QED
      BY <1>1, <1>8, <3>1 DEF ReserveDispatch, Raises, Calls
  <2> QED
    BY <2>1, <2>2 DEF StopBinds
<1>9. CASE CancelDispatchReservation(c)
  <2>1. call'[c].pc = "raised" /\ call'[c].held = 0
    BY <1>1, <1>9 DEF CancelDispatchReservation, Calls
  <2> QED
    BY <1>3, <2>1
<1>10. CASE MarkDispatchStarted(c)
  BY <1>1, <1>10 DEF MarkDispatchStarted, StopBinds, Calls
<1>11. CASE Answer(c)
  <2>1. /\ call'[c].pc \in {"settled", "checking", "raised"}
        /\ call'[c].held = 0 \/ call'[c].held = call[c].held
    BY <1>1, <1>11 DEF Answer, AnswerWithUsage, AnswerWithoutUsage, EvidenceWriteFails, Raises, Calls
  <2> QED
    BY <1>3, <2>1
<1>12. CASE HandleError(c) \/ StopRun(c) \/ DeliveryFails(c)
  <2>1. /\ call'[c].pc \in {"stopping", "returned", "undelivered"}
        /\ call'[c].held = call[c].held
    BY <1>1, <1>12 DEF HandleError, StopRun, DeliveryFails, Calls
  <2> QED
    BY <1>3, <2>1
<1>13. CASE UNCHANGED call
  BY <1>2, <1>13
<1> QED
  BY <1>4, <1>5, <1>6, <1>7, <1>8, <1>9, <1>10, <1>11, <1>12, <1>13
     DEF Next, Step, vars, InitializeRunCostExposure, RegisterTrial, CloseTrial,
         SupervisorStopsTrial, ExternalStop

\* A stopped run has its reason, and a thread that raised its error.
Reasoned ==
    /\ stopped => failure # NoFailure
    /\ \A c \in Requests : call[c].pc = "raised" => call[c].error \in Errors

LEMMA StepReasoned == ASSUME Typed, Reasoned, [Next]_vars PROVE Reasoned'
<1>0. call \in [Requests -> Calls]
  BY DEF Typed
<1>1. ASSUME NEW c \in Requests, HandleError(c) \/ StopRun(c) \/ DeliveryFails(c)
      PROVE  Reasoned'
  <2>1. \/ UNCHANGED <<stopped, failure>>
        \/ \E reason \in Errors \cup {"delivery"} : StopWith(reason)
    BY <1>1 DEF HandleError, StopRun, DeliveryFails, Reasoned, Errors
  <2>2. \A d \in Requests : call'[d].pc = "raised" => call[d].pc = "raised" /\ call'[d].error = call[d].error
    BY <1>0, <1>1 DEF HandleError, StopRun, DeliveryFails, Calls
  <2> QED
    BY <2>1, <2>2 DEF Reasoned, StopWith, Errors, NoFailure
<1>2. ASSUME NEW c \in Requests,
             CheckBeforeReserve(c) \/ ReserveDispatch(c) \/ Clear(c) \/ CancelDispatchReservation(c)
                \/ MarkDispatchStarted(c) \/ Answer(c) \/ CheckAnswer(c)
      PROVE  Reasoned'
  <2>1. UNCHANGED <<stopped, failure>>
    BY <1>2 DEF CheckBeforeReserve, ReserveDispatch, Clear, CancelDispatchReservation,
          MarkDispatchStarted, Answer, AnswerWithUsage, AnswerWithoutUsage, EvidenceWriteFails,
          CheckAnswer
  <2>2. \A d \in Requests \ {c} : call'[d] = call[d]
    BY <1>0, <1>2 DEF CheckBeforeReserve, ReserveDispatch, Clear, CancelDispatchReservation,
          MarkDispatchStarted, Answer, AnswerWithUsage, AnswerWithoutUsage, EvidenceWriteFails,
          CheckAnswer, Raises
  <2>3. call'[c].pc = "raised" => call'[c].error \in Errors
    <3>1. CASE CheckBeforeReserve(c)
      BY <1>0, <3>1 DEF CheckBeforeReserve, Raises, CheckErrors, Errors, Calls
    <3>2. CASE ReserveDispatch(c)
      BY <1>0, <3>2 DEF ReserveDispatch, Raises, ReserveError, Errors, Calls
    <3>3. CASE Clear(c) \/ MarkDispatchStarted(c)
      BY <1>0, <3>3 DEF Clear, MarkDispatchStarted, Calls
    <3>4. CASE CancelDispatchReservation(c)
      BY <1>0, <3>4 DEF CancelDispatchReservation, Calls
    <3>5. CASE Answer(c)
      BY <1>0, <3>5 DEF Answer, AnswerWithUsage, AnswerWithoutUsage, EvidenceWriteFails, Raises,
            Errors, Calls
    <3>6. CASE CheckAnswer(c)
      BY <1>0, <3>6 DEF CheckAnswer, Raises, SettledErrors, Errors, Calls
    <3> QED
      BY <1>2, <3>1, <3>2, <3>3, <3>4, <3>5, <3>6
  <2> QED
    BY <2>1, <2>2, <2>3 DEF Reasoned
<1>3. ASSUME NEW c \in Requests, NEW t \in Trials, NEW estimate, Enter(c, t, estimate)
      PROVE  Reasoned'
  <2>1. UNCHANGED <<stopped, failure>>
    BY <1>3 DEF Enter
  <2>2. \A d \in Requests \ {c} : call'[d] = call[d]
    BY <1>0, <1>3 DEF Enter
  <2>3. call'[c].pc = "raised" => call'[c].error \in Errors
    <3>1. CASE call' = [call EXCEPT ![c] = Entered(t, estimate)]
      BY <1>0, <3>1 DEF Entered
    <3>2. CASE \E error \in EntryErrors(t) :
                  call' = [call EXCEPT ![c].pc = "raised", ![c].trial = t, ![c].error = error]
      BY <1>0, <3>2 DEF EntryErrors, Errors, Calls
    <3> QED
      BY <1>3, <3>1, <3>2 DEF Enter
  <2> QED
    BY <2>1, <2>2, <2>3 DEF Reasoned
<1>4. CASE \E exposure \in PriorExposures : InitializeRunCostExposure(exposure[1], exposure[2])
  BY <1>4 DEF InitializeRunCostExposure, StopWith, Reasoned, NoFailure
<1>5. CASE \E t \in Trials : RegisterTrial(t) \/ CloseTrial(t) \/ SupervisorStopsTrial(t)
  BY <1>5 DEF RegisterTrial, CloseTrial, SupervisorStopsTrial, Reasoned
<1>6. CASE ExternalStop
  BY <1>6 DEF ExternalStop, StopWith, Reasoned, NoFailure
<1>7. CASE UNCHANGED vars
  BY <1>7 DEF vars, Reasoned
<1> QED
  BY <1>1, <1>2, <1>3, <1>4, <1>5, <1>6, <1>7 DEF Next, Step

-----------------------------------------------------------------------------
(* Theorems                                                                *)

\* The invariant holds in every state, for all trials, requests and amounts.
THEOREM RecorderInvariant == Spec => []IInv
<1>1. Init => IInv
  BY InitInvariant
<1>2. IInv /\ [Next]_vars => IInv'
  BY NextStep
<1> QED
  BY <1>1, <1>2, PTL DEF Spec

\* No interleaving of threads takes the exposure of a trial or of the run
\* over its limit by more than answers reported beyond their reservations, or
\* the calls of a trial over theirs: check and reservation are one step under
\* the lock of _reserve_dispatch.
THEOREM LimitsAlwaysHold == Spec => []LimitsHeld
<1>1. IInv => LimitsHeld
  BY DEF IInv, LimitsHeld
<1> QED
  BY <1>1, RecorderInvariant, PTL

\* No trial ever makes, or has pending, more HTTP attempts than its limit.
THEOREM CallCapAlwaysHeld == Spec => []CallCapHeld
<1>1. IInv => CallCapHeld
  BY DEF IInv
<1> QED
  BY <1>1, RecorderInvariant, PTL

\* After every step, whatever the threads interleave, the amounts of the run
\* are those of its trials and of the earlier session, the pending ones are
\* what the threads of complete() hold, and a trial's exposure covers what
\* the provider bills for it: settlement, cancellation and lost answers
\* included.
THEOREM ExposureAlwaysCovered == Spec => []ExposureCovers
<1>1. Init => Ledger
  BY InitLedger
<1>2. IInv /\ IInv' /\ Ledger /\ [Next]_vars => Ledger'
  BY NextLedger
<1>3. IInv /\ Ledger => ExposureCovers
  BY LedgerCovers
<1> QED
  BY <1>1, <1>2, <1>3, RecorderInvariant, PTL DEF Spec

\* A stopped run stays stopped for the reason it stopped first, takes no
\* reservation and sends no request but those of threads that had passed
\* their last check; the same holds for each stopped trial.
THEOREM StopAlwaysFinal == Spec => StopIsFinal
<1>1. IInv /\ Reasoned /\ [Next]_vars =>
          [StopLasts /\ \A c \in Requests : StopBinds(c)]_vars
  BY StepsLast, StepsBound DEF IInv, Reasoned
<1>2. Init => Reasoned
  BY DEF Init, Reasoned
<1>3. IInv /\ Reasoned /\ [Next]_vars => Reasoned'
  BY StepReasoned DEF IInv
<1>4. Spec => []Reasoned
  BY <1>2, <1>3, RecorderInvariant, PTL DEF Spec
<1> QED
  BY <1>1, <1>4, RecorderInvariant, PTL DEF Spec, StopIsFinal
=============================================================================

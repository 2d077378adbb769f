-------------------------------- MODULE VmCost --------------------------------
(***************************************************************************)
(* What the machine costs an attempt: _ActiveVmCostTracker and             *)
(* _run_completion_driven of src/src/screening_run.py, and                 *)
(* allocate_active_vm_cost of src/src/screening_cost.py.                   *)
(*                                                                         *)
(* Each attempt runs in a thread, which marks its start and its end in the *)
(* tracker; the main thread settles the attempts that have ended, one at a *)
(* time, and divides each second of an attempt among those the tracker     *)
(* knows to have been active then.  An attempt that is settled is not      *)
(* looked at again.                                                        *)
(***************************************************************************)
EXTENDS Integers, FiniteSets, FiniteSetsExt, Folds

CONSTANTS
    VmAttempts,
    VmConcurrency,   \* the worker threads
    VmSecond,        \* a second, in parts so small that every share is a whole number of them
    VmLastTime       \* bound: seconds

ASSUME VmAssumption ==
    /\ IsFiniteSet(VmAttempts) /\ VmConcurrency \in Nat \ {0} /\ VmLastTime \in Nat
    /\ VmSecond \in Nat /\ \A k \in 1 .. VmConcurrency : VmSecond % k = 0

VARIABLES
    vmClock,
    trial        \* each attempt's thread, its times, what the tracker has of it, and its share

vmVars == <<vmClock, trial>>

Unmarked == [start |-> -1, finish |-> -1]

VmInit ==
    /\ vmClock = 0
    /\ trial = [a \in VmAttempts |-> [at |-> "planned", start |-> -1, finish |-> -1, marked |-> Unmarked,
                                      share |-> -1, exact |-> TRUE]]

VmTick == vmClock < VmLastTime /\ vmClock' = vmClock + 1 /\ UNCHANGED trial

At(a, place) == trial[a].at = place

-----------------------------------------------------------------------------
(* The threads                                                             *)

\* fill_open_workers: the place of an attempt is free when it is settled.  Its
\* thread takes a time of its own first, for the case that no process starts;
VmBegin(a) ==
    /\ At(a, "planned")
    /\ Cardinality({b \in VmAttempts : trial[b].at \notin {"planned", "settled"}}) < VmConcurrency
    /\ trial' = [trial EXCEPT ![a].at = "begun", ![a].start = vmClock]
    /\ UNCHANGED vmClock

\* supervise takes the time that counts, unless the run has been stopped,
VmTakeTime(a) ==
    /\ At(a, "begun")
    /\ trial' = [trial EXCEPT ![a].at = "timed", ![a].start = vmClock]
    /\ UNCHANGED vmClock

VmCheckRaises(a) ==
    /\ At(a, "begun")
    /\ trial' = [trial EXCEPT ![a].at = "ended", ![a].finish = vmClock]
    /\ UNCHANGED vmClock

\* mark_started
VmMarkStarted(a) ==
    /\ At(a, "timed")
    /\ trial' = [trial EXCEPT ![a].at = "running", ![a].marked = [start |-> trial[a].start, finish |-> -1]]
    /\ UNCHANGED vmClock

\* The process ends, or is ended.
VmEnd(a) ==
    /\ At(a, "running")
    /\ trial' = [trial EXCEPT ![a].at = "ended", ![a].finish = vmClock]
    /\ UNCHANGED vmClock

\* mark_finished, which makes the mark of the start if there is none.
VmMarkFinished(a) ==
    /\ At(a, "ended")
    /\ trial' = [trial EXCEPT ![a].at = "finished", ![a].marked = [start |-> trial[a].start, finish |-> trial[a].finish]]
    /\ UNCHANGED vmClock

-----------------------------------------------------------------------------
(* The division                                                            *)

\* allocate_active_vm_cost: the starts and ends in their order, ends first, and
\* the time between two of them shared by those active.
Points(intervals) ==
    UNION {{[at |-> i.start, direction |-> 1, attempt |-> i.attempt],
            [at |-> i.finish, direction |-> -1, attempt |-> i.attempt]} : i \in {j \in intervals : j.finish > j.start}}

InOrder(p, q) ==
    \/ p.at < q.at
    \/ p.at = q.at /\ p.direction < q.direction

Divide(soFar, point) ==
    LET duration == IF soFar.active = {} THEN 0 ELSE point.at - soFar.prior
    IN  [shares |-> [a \in VmAttempts |->
                        soFar.shares[a] + IF a \in soFar.active THEN (duration * VmSecond) \div Cardinality(soFar.active) ELSE 0],
         active |-> IF point.direction = 1 THEN soFar.active \cup {point.attempt} ELSE soFar.active \ {point.attempt},
         prior |-> point.at]

LatestPoint(points) == CHOOSE p \in points : \A q \in points : ~InOrder(p, q)

Nothing == [shares |-> [a \in VmAttempts |-> 0], active |-> {}, prior |-> -1]

Shares(intervals) ==
    MapThenFoldSet(LAMBDA point, soFar : Divide(soFar, point), Nothing, LAMBDA point : point, LatestPoint,
                   Points(intervals)).shares

\* Definitions named ...Slip are not part of the model.  Each is the next
\* definition with a mistake, used to see that a property would notice it.

KnownSlipFinishedOnly(target) ==
    {[attempt |-> b, start |-> trial[b].marked.start, finish |-> Min({trial[b].marked.finish, trial[target].finish})] :
       b \in {c \in VmAttempts : trial[c].marked.finish # -1 /\ trial[c].marked.start <= trial[target].finish}}

\* allocation_for: what the tracker knows up to the end of the attempt.  One
\* that has not ended is active until then.
Known(target) ==
    {[attempt |-> b, start |-> trial[b].marked.start,
      finish |-> IF trial[b].marked.finish = -1 THEN trial[target].finish
                 ELSE Min({trial[b].marked.finish, trial[target].finish})] :
       b \in {c \in VmAttempts : trial[c].marked.start # -1 /\ trial[c].marked.start <= trial[target].finish}}

\* Who has taken the time of its start or its end and not marked it.
Unseen == {b \in VmAttempts : trial[b].start # trial[b].marked.start \/ trial[b].finish # trial[b].marked.finish}

\* complete_attempt.  `exact` is for the property alone.
VmSettle(a) ==
    /\ At(a, "finished")
    /\ trial' = [trial EXCEPT ![a].at = "settled", ![a].share = Shares(Known(a))[a],
                              ![a].exact = Unseen = {}]
    /\ UNCHANGED vmClock

VmNext ==
    \/ VmTick
    \/ \E a \in VmAttempts :
          \/ VmBegin(a) \/ VmTakeTime(a) \/ VmCheckRaises(a) \/ VmMarkStarted(a) \/ VmEnd(a)
          \/ VmMarkFinished(a) \/ VmSettle(a)

VmSpec == VmInit /\ [][VmNext]_vmVars

-----------------------------------------------------------------------------
(* Properties                                                              *)

Settled == {a \in VmAttempts : At(a, "settled")}

\* The seconds of the machine in which an attempt was active.
Seconds(attempts) == UNION {trial[a].start .. trial[a].finish - 1 : a \in attempts}

\* When no attempt is on its way, what the attempts were charged one by one,
\* each with what was known when it was settled, pays the machine's active time
\* exactly once ("the allocations must sum to the total cost of the VM's active
\* interval", docs_en/experiment/reproducibility-contract.md:114), unless one
\* was settled while another was between taking a time and marking it.
VmPaidOnce ==
    (\A a \in VmAttempts : trial[a].at \in {"planned", "settled"}) /\ (\A a \in Settled : trial[a].exact) =>
        MapThenSumSet(LAMBDA a : trial[a].share, Settled) = VmSecond * Cardinality(Seconds(Settled))
=============================================================================

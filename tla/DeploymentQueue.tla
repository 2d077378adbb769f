--------------------------- MODULE DeploymentQueue ---------------------------
(***************************************************************************)
(* The queue that fits the requests of all processes into the provider's   *)
(* per-minute limits: class DeploymentQueue of src/src/live_transport.py.  *)
(* Its state is one file that the processes share under flock; a step that *)
(* holds the file lock is one step here.  Requests of all processes wait   *)
(* in reserve(), and an answer 429 makes any of them announce a cooldown.  *)
(*                                                                         *)
(* Time is counted in seconds.  A request has one deadline, the earlier of *)
(* the run's and its attempt's; the safety policy always sets the former.  *)
(***************************************************************************)
EXTENDS Integers, Sequences, SequencesExt, FiniteSets, FiniteSetsExt

CONSTANTS
    Processes,   \* processes that open the file
    Workers,     \* calls of reserve()
    Owner,       \* the process of each worker
    Rpm,         \* requests per window
    Tpm,         \* tokens per window
    Window,      \* seconds a reservation counts: 60
    Estimates,   \* token estimates a request may bring
    Deadlines,   \* deadlines a request may bring
    Cooldowns,   \* seconds a provider may ask to wait
    LastAsk,     \* bound: no new call or cooldown after this time
    MaxClock,    \* bound: the clock stops here
    MaxBack      \* bound: seconds the wall clock is set back in all

ASSUME QueueAssumption ==
    /\ Rpm \in Nat \ {0} /\ Tpm \in Nat \ {0} /\ Window \in Nat \ {0}
    /\ Owner \in [Workers -> Processes]
    /\ Estimates \subseteq Nat \ {0} /\ Deadlines \subseteq Nat /\ Cooldowns \subseteq Nat
    /\ LastAsk \in Nat /\ MaxClock \in Nat /\ MaxBack \in Nat

VARIABLES
    clock,      \* the wall clock that time.time reads
    back,       \* how far it has been set back
    file,       \* the shared file: whole is FALSE after an interrupted write
    process,    \* whether each process has the file open
    stopped,    \* the stop event of each process
    worker,     \* the calls of reserve()
    granted,    \* every slot granted, with its true time: kept for the properties
    announced   \* the end of the latest cooldown announced

vars == <<clock, back, file, process, stopped, worker, granted, announced>>

LatestOf(x, y) == IF x > y THEN x ELSE y
SumOver(S, f) == MapThenSumSet(LAMBDA x : f[x], S)
TokensOf(slots) == [i \in DOMAIN slots |-> slots[i].tokens]
Tokens(slots) == SumOver(DOMAIN slots, TokensOf(slots))

\* Definitions named ...Slip are not part of the model.  Each is the next
\* definition with a mistake, used to see that a property would notice it.

Init ==
    /\ clock = 0 /\ back = 0
    /\ file = [whole |-> TRUE, reservations |-> <<>>, notBefore |-> 0]
    /\ process = [p \in Processes |-> "closed"]
    /\ stopped = [p \in Processes |-> FALSE]
    /\ worker = [w \in Workers |-> [pc |-> "new", tokens |-> 0, deadline |-> 0]]
    /\ granted = <<>>
    /\ announced = 0

Sorted(slots) == \A i, j \in DOMAIN slots : i < j => slots[i].time <= slots[j].time

\* What _reload accepts: a clock a second behind the last slot is tolerated.
Readable ==
    /\ file.whole
    /\ Sorted(file.reservations)
    /\ file.reservations # <<>> => Last(file.reservations).time <= clock + 1

Open(p) ==
    /\ process[p] = "closed"
    /\ process' = [process EXCEPT ![p] = IF Readable THEN "open" ELSE "failed"]
    /\ UNCHANGED <<clock, back, file, stopped, worker, granted, announced>>

\* The process ends: its calls end with it, its slots stay taken.
Ended(p, workers) ==
    [w \in Workers |-> IF Owner[w] = p /\ workers[w].pc # "new"
                       THEN [workers[w] EXCEPT !.pc = "dead"] ELSE workers[w]]

Crash(p) ==
    /\ process[p] = "open"
    /\ process' = [process EXCEPT ![p] = "dead"]
    /\ worker' = Ended(p, worker)
    /\ UNCHANGED <<clock, back, file, stopped, granted, announced>>

Stop(p) ==
    /\ stopped' = [stopped EXCEPT ![p] = TRUE]
    /\ UNCHANGED <<clock, back, file, process, worker, granted, announced>>

Tick ==
    /\ clock < MaxClock
    /\ clock' = clock + 1
    /\ UNCHANGED <<back, file, process, stopped, worker, granted, announced>>

\* Someone sets the wall clock back.
SetBack ==
    /\ back < MaxBack /\ clock > 0
    /\ clock' = clock - 1 /\ back' = back + 1
    /\ UNCHANGED <<file, process, stopped, worker, granted, announced>>

-----------------------------------------------------------------------------
(* reserve                                                                 *)

Becomes(w, pc) == worker' = [worker EXCEPT ![w].pc = pc]

\* A request that no window could ever hold is refused at once.
Ask(w, tokens, deadline) ==
    /\ worker[w].pc = "new" /\ process[Owner[w]] = "open" /\ clock <= LastAsk
    /\ worker' = [worker EXCEPT ![w] =
                     [pc |-> IF tokens > Tpm THEN "refused" ELSE "waiting",
                      tokens |-> tokens, deadline |-> deadline]]
    /\ UNCHANGED <<clock, back, file, process, stopped, granted, announced>>

PastDeadlineSlipNever(w, time) == FALSE

PastDeadline(w, time) == time >= worker[w].deadline

\* The head of the loop: a stop and the deadline are seen without the lock.
Look(w) ==
    /\ worker[w].pc = "waiting"
    /\ Becomes(w, IF stopped[Owner[w]] THEN "stopped"
                  ELSE IF PastDeadline(w, clock) THEN "censored" ELSE "locking")
    /\ UNCHANGED <<clock, back, file, process, stopped, granted, announced>>

\* How many slots at the front are as old as that.
Expired(time) ==
    Max({n \in 0 .. Len(file.reservations) : \A i \in 1 .. n : file.reservations[i].time <= time})

CountingSlipEarly ==
    SubSeq(file.reservations, Expired(clock + 1 - Window) + 1, Len(file.reservations))

\* The slots that still count: the older ones are dropped from the front.
Counting == SubSeq(file.reservations, Expired(clock - Window) + 1, Len(file.reservations))

Limited(tokens) ==
    Len(Counting) >= Rpm \/ Tokens(Counting) + tokens > Tpm

Ready(tokens) ==
    LatestOf(file.notBefore, IF Limited(tokens) THEN Head(Counting).time + Window ELSE clock)

\* The slot is appended and the file rewritten in place, before the lock is let go.
Grant(w) ==
    LET slot == [time |-> clock, tokens |-> worker[w].tokens] IN
    /\ worker[w].pc = "locking" /\ Readable
    /\ Ready(worker[w].tokens) <= clock
    /\ file' = [file EXCEPT !.reservations = Append(Counting, slot)]
    /\ granted' = Append(granted, [slot EXCEPT !.time = clock + back])
    /\ Becomes(w, "granted")
    /\ UNCHANGED <<clock, back, process, stopped, announced>>

\* Not yet: the worker sleeps for a second at most, unless its deadline
\* comes before the slot would.  Nothing is written.
Retry(w) ==
    /\ worker[w].pc = "locking" /\ Readable
    /\ Ready(worker[w].tokens) > clock
    /\ Becomes(w, IF PastDeadline(w, Ready(worker[w].tokens)) THEN "censored" ELSE "waiting")
    /\ UNCHANGED <<clock, back, file, process, stopped, granted, announced>>

\* _reload refuses the file, and the call raises.
Refuse(w) ==
    /\ worker[w].pc = "locking" /\ ~Readable
    /\ Becomes(w, "raised")
    /\ UNCHANGED <<clock, back, file, process, stopped, granted, announced>>

\* The write in place is interrupted: the disk is full, or the process dies.
WriteInterrupted(w) ==
    /\ worker[w].pc = "locking" /\ Readable
    /\ Ready(worker[w].tokens) <= clock
    /\ file' = [file EXCEPT !.whole = FALSE]
    /\ \/ Becomes(w, "raised") /\ UNCHANGED process
       \/ /\ process' = [process EXCEPT ![Owner[w]] = "dead"]
          /\ worker' = Ended(Owner[w], worker)
    /\ UNCHANGED <<clock, back, stopped, granted, announced>>

-----------------------------------------------------------------------------
(* cooldown                                                                *)

CooldownSlipOverwrites(p, seconds) ==
    /\ process[p] = "open" /\ clock <= LastAsk /\ Readable
    /\ file' = [file EXCEPT !.notBefore = clock + seconds]
    /\ announced' = LatestOf(announced, clock + seconds)
    /\ UNCHANGED <<clock, back, process, stopped, worker, granted>>

\* A 429 reached process p: every process waits for the latest end announced.
Cooldown(p, seconds) ==
    /\ process[p] = "open" /\ clock <= LastAsk /\ Readable
    /\ file' = [file EXCEPT !.notBefore = LatestOf(@, clock + seconds)]
    /\ announced' = LatestOf(announced, clock + seconds)
    /\ UNCHANGED <<clock, back, process, stopped, worker, granted>>

-----------------------------------------------------------------------------
Step(w) == Look(w) \/ Grant(w) \/ Retry(w) \/ Refuse(w) \/ WriteInterrupted(w)

Next ==
    \/ Tick \/ SetBack
    \/ \E p \in Processes :
          \/ Open(p) \/ Crash(p) \/ Stop(p)
          \/ \E seconds \in Cooldowns : Cooldown(p, seconds)
    \/ \E w \in Workers :
          \/ \E tokens \in Estimates, deadline \in Deadlines : Ask(w, tokens, deadline)
          \/ Step(w)

Spec == Init /\ [][Next]_vars

\* Time passes, a sleeping worker wakes after a second, and whoever holds the
\* file lock lets it go.
FairSpec == Spec /\ WF_vars(Tick) /\ \A w \in Workers : WF_vars(Step(w))

-----------------------------------------------------------------------------
(* Properties                                                              *)

\* Over any window of true time, all processes together are granted no more
\* slots and tokens than the deployment allows: crashes and a clock that is
\* set back included.
WindowRespected ==
    \A i \in DOMAIN granted :
        LET recent == {j \in 1 .. i : granted[j].time > granted[i].time - Window}
        IN  Cardinality(recent) <= Rpm /\ SumOver(recent, TokensOf(granted)) <= Tpm

\* No process is granted a slot before the end of a cooldown that any process
\* has announced, even when a shorter one was announced after it.
CooldownHonoured ==
    [][granted' # granted => clock >= announced]_vars

\* A call that waits comes to an end: with a slot, at its deadline, with its
\* run, or because the file cannot be read; also when the clock is set back.
WaitEnds ==
    \A w \in Workers :
        worker[w].pc = "waiting" ~> worker[w].pc \notin {"waiting", "locking"}

\* What _reload asserts of the file: the slots are in the order of their
\* times.  Only an interrupted write may leave a file it refuses for good.
FileStaysInOrder == file.whole => Sorted(file.reservations)
=============================================================================
